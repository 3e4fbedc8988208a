---------------------------- MODULE SequencedStore ----------------------------
(***************************************************************************)
(* What a sequenced JSON store promises its callers                        *)
(* (src/core/decisions/atomic-store.ts, the header and the doc comment of  *)
(* casUpdate): an update takes effect in one indivisible step that bumps   *)
(* the sequence by one, nothing that took effect is ever dropped, a call   *)
(* that returned has taken effect, and a call that threw never did.        *)
(***************************************************************************)
EXTENDS Naturals

CONSTANTS Updates     (* every update any caller may submit *)

VARIABLES sequence,   (* the store's commit counter                         *)
          applied,    (* the updates the store's content holds              *)
          acked,      (* the updates whose call returned                    *)
          failed      (* the updates whose call threw                       *)

vars == <<sequence, applied, acked, failed>>

Init == /\ sequence \in Nat
        /\ applied \in SUBSET Updates
        /\ acked = applied
        /\ failed = {}

Commit(u) == /\ u \notin applied \cup failed
             /\ applied' = applied \cup {u}
             /\ sequence' = sequence + 1
             /\ UNCHANGED <<acked, failed>>

Return(u) == /\ u \in applied
             /\ acked' = acked \cup {u}
             /\ UNCHANGED <<sequence, applied, failed>>

Throw(u) == /\ u \notin applied
            /\ failed' = failed \cup {u}
            /\ UNCHANGED <<sequence, applied, acked>>

Next == \E u \in Updates : Commit(u) \/ Return(u) \/ Throw(u)

Spec == Init /\ [][Next]_vars
=============================================================================
