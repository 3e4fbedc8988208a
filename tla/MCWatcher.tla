------------------------------ MODULE MCWatcher -------------------------------
(***************************************************************************)
(* The watcher and the anchored memories, side by side: they share no      *)
(* variable, so one of them runs and the other keeps still.                *)
(***************************************************************************)
EXTENDS Watcher, Memory, TLC

CONSTANTS n, a, b, c, first, second, here, there, x, y

(* The watcher's texts. *)
Blank == [defs |-> {}, calls |-> {}, imports |-> [m \in Names |-> NoFile],
          exports |-> [m \in Names |-> NoFile], star |-> NoFile]
Defines == [Blank EXCEPT !.defs = {n}]
Calls == [Blank EXCEPT !.calls = {n}]
CallsFrom(file) == [Blank EXCEPT !.calls = {n}, !.imports = [m \in Names |-> file]]
ReExportsFrom(file) == [Blank EXCEPT !.exports = [m \in Names |-> file]]
ReExportsAll(file) == [Blank EXCEPT !.star = file]
Barrel == [ReExportsAll(2) EXCEPT !.defs = {n}]
Fallback == [CallsFrom(4) EXCEPT !.defs = {n}]

MCFiles == 1..4
MCTexts == (1 :> {Calls, Defines}) @@ (2 :> {Blank, Defines}) @@ (3 :> {Calls, CallsFrom(4), Fallback})
             @@ (4 :> {ReExportsAll(2), Barrel})

(* The trees the memories start on: one function, and the other one next to
   it, written later, in a file of its own, or nowhere. *)
Start(disk0, edits, additions, asks, analyses) ==
  [disk |-> disk0, text |-> (first :> <<a, x>>) @@ (second :> <<b, x>>),
   left |-> [edits |-> edits, additions |-> additions, asks |-> asks, analyses |-> analyses]]
One == here :> <<first>>
Two == (here :> <<first>>) @@ (there :> <<>>)
Both == (here :> <<first>>) @@ (there :> <<second>>)

ForNotes == {Start(One, 1, 1, 3, 1), Start(One, 2, 1, 1, 2)}
ForBoth == {Start(Two, 2, 0, 2, 1), Start(Both, 2, 0, 1, 1)}
MCStarts == ForNotes \cup ForBoth

VARIABLE part
indexVars == <<part, watcherVars, memoryVars>>

(***************************************************************************)
(* Unless stop() drains, one lane works at a time.  What the tree and the  *)
(* queue do in the middle of its re-index might then as well happen before *)
(* the file is taken up or after the swap: between them only the disk is   *)
(* read, once for each build, and of two builds the second counts.         *)
(***************************************************************************)
OneLaneBuilds == phase # "stopping" /\ (\E l \in Lanes : job[l].pc \in Building) => job' # job

(***************************************************************************)
(* The barrel defines the name itself only in a tree where 1 and 2 do not, *)
(* and where nothing fails or stops.  A caller that defines a fallback of  *)
(* its import does so from the start, through two events of the others.  A *)
(* caller that imports from the start finds 2 yet to be written.           *)
(***************************************************************************)
BarrelStays == tree[4] = Barrel => /\ tree[1] = Calls /\ tree[2] = Blank
                                   /\ lost = {} /\ phase = "watching"
FallbackStays == /\ tree'[3] = Fallback <=> tree[3] = Fallback
                 /\ tree[3] = Fallback => happened' <= 2

(* stop() comes early enough for one more event while it drains, an edit
   only as the third of them. *)
StopsEarly == phase' = "stopping" /\ (phase = "watching" \/ tree' # tree) => happened' <= 3

IndexInit == /\ part \in {"watcher", "notes", "memory"}
             /\ WatcherInit /\ MemoryInit
             /\ BarrelStays
             /\ part = "watcher" /\ tree[4] # Barrel => tree[1] = Calls /\ tree[2] # Blank
             /\ part = "watcher" /\ tree[4] # Barrel /\ tree[3] # Fallback =>
                  (tree[2] = Absent <=> tree[3] = CallsFrom(4))
             /\ part = "watcher" => disk = One /\ left.analyses = 2
             /\ part # "watcher" => tree = (1 :> Defines) @@ (2 :> Absent) @@ (3 :> Calls)
                                             @@ (4 :> ReExportsAll(2))
             /\ part = "notes" <=> part # "watcher" /\ disk = One

(* In the trees of one file, where more records and analyses follow each
   other, only notes are recorded. *)
NotesOnly == ask' # Nobody => ask'.kind = "note"

IndexNext == /\ UNCHANGED part
             /\ \/ part = "watcher" /\ WatcherNext /\ UNCHANGED memoryVars
                   /\ BarrelStays' /\ FallbackStays /\ OneLaneBuilds /\ StopsEarly
                \/ part = "notes" /\ MemoryNext /\ NotesOnly /\ UNCHANGED watcherVars
                \/ part = "memory" /\ MemoryNext /\ UNCHANGED watcherVars

IndexSpec == IndexInit /\ [][IndexNext]_indexVars
=============================================================================
