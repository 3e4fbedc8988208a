------------------------------- MODULE MCSession -------------------------------
(***************************************************************************)
(* The serve daemon and the two panic machines of a session, side by side: *)
(* they share no variable, so one of them runs and the others keep still.  *)
(* The second client of the daemon asks only where there is no trouble,    *)
(* the first where there is no second edit and no third trouble.           *)
(***************************************************************************)
EXTENDS ServeDaemon, EpistemicLease, PanicState, TLC

CONSTANTS r1, r2

VARIABLE part
sessionVars == <<part, daemonVars, leaseVars, panicFileVars>>

CallSet == {[weight |-> 1, module |-> "src"], [weight |-> 1, module |-> "test"],
            [weight |-> 8, module |-> NoModule]}
Up == (0 :> 2) @@ (1 :> 4) @@ (2 :> 6) @@ (3 :> 9)
Down == (1 :> 1) @@ (2 :> 3) @@ (3 :> 5) @@ (4 :> 7)

SessionInit == /\ part \in {"daemon", "lease", "panic"}
               /\ DaemonInit /\ LeaseInit /\ PanicInit
               /\ part = "daemon" \/ schema = "current"
               /\ part = "lease" \/ graphVersionAtOrient = 0

Fewer == /\ troubles' # 0 => request'[r2].pc = "unasked"
         /\ tree' = 2 \/ troubles' = 3 => request'[r1].pc = "unasked"

SessionNext ==
  /\ UNCHANGED part
  /\ \/ part = "daemon" /\ DaemonNext /\ Fewer /\ UNCHANGED <<leaseVars, panicFileVars>>
     \/ part = "lease" /\ LeaseNext /\ UNCHANGED <<daemonVars, panicFileVars>>
     \/ part = "panic" /\ PanicNext /\ UNCHANGED <<daemonVars, leaseVars>>

(***************************************************************************)
(* DaemonFairness, where it is the daemon that runs.                       *)
(***************************************************************************)
SessionFairness == /\ WF_daemonVars(part = "daemon" /\ StartupCheck)
                   /\ WF_daemonVars(part = "daemon" /\ ReanalyzeFires)
                   /\ \A s \in Slots : WF_daemonVars(part = "daemon" /\ Analyze(s))
                   /\ WF_daemonVars(part = "daemon" /\ Batch)
                   /\ \A r \in Requests : WF_daemonVars(part = "daemon" /\ Serve(r))

SessionSpec == SessionInit /\ [][SessionNext]_sessionVars /\ SessionFairness
=============================================================================
