-------------------------------- MODULE Memory --------------------------------
(***************************************************************************)
(* Anchored memories: notes and decisions bound to functions of the code   *)
(* (core/decisions/anchor.ts, anchor-adapter.ts, memory-store.ts), what    *)
(* remember and record_decision do to the two stores, what recall serves,  *)
(* and how `openlore analyze` carries anchors across renames               *)
(* (continuity-carry-forward.ts, analyzer/continuity.ts).                  *)
(*                                                                         *)
(* A source text is a pair <<symbol, body>>, its hash is the text itself,  *)
(* and two texts are equal modulo the name when the bodies are.  A node of *)
(* the index is <<path, symbol>>; every function has the same parameters,  *)
(* so the symbol is its stable id.  The index keeps offsets, not texts:    *)
(* what a row spans is read from the file as it is now (Span).             *)
(* A definition named Mutant... is no part of the specification.           *)
(***************************************************************************)
EXTENDS Naturals, Sequences, FiniteSets, SequencesExt

CONSTANTS Paths, Symbols, Bodies,
          Functions,     (* the functions a developer writes, whatever their names *)
          Contents,      (* what a note may say                                  *)
          Starts,        (* trees to start from, each with its bounds: how many
                            edits and added functions, calls of remember and
                            record_decision, and runs of analyze                 *)
          Nobody         (* no request under way; a note that supersedes nothing *)

Kinds == {"note", "decision"}
SourceTexts == Symbols \X Bodies
NodeIds == Paths \X Symbols
Spans == SourceTexts \cup (Seq(SourceTexts) \X SourceTexts \X Seq(SourceTexts))
Row == [path : Paths, before : Seq(SourceTexts), text : SourceTexts, of : Functions]
Records == [kind : Kinds, content : Contents, node : NodeIds, hash : Spans, of : Functions,
            retired : BOOLEAN, carried : BOOLEAN, id : Contents \X Symbols, recordedAt : Nat]
Anchors == [node : NodeIds, hash : Spans, of : Functions]
Asks == [kind : Kinds, content : Contents, anchor : Anchors,
         supersedes : {Nobody} \cup (Contents \X Symbols), recordedAt : Nat]
Analyses == [pc : {"idle", "snapped", "rebuilt", "matched", "half", "done"},
             old : SUBSET NodeIds, orphans : SUBSET Records,
             pairs : UNION {[S -> NodeIds] : S \in SUBSET NodeIds}]
Budget == [edits : Nat, additions : Nat, asks : Nat, analyses : Nat]

(* A function is in one place, and its name is its own in the file. *)
Placed(texts, files) ==
  /\ DOMAIN files \subseteq Paths
  /\ \A p \in DOMAIN files : files[p] \in Seq(Functions)
  /\ \A p, q \in DOMAIN files : \A i \in DOMAIN files[p], j \in DOMAIN files[q] :
       /\ files[p][i] = files[q][j] => p = q /\ i = j
       /\ p = q /\ texts[files[p][i]][1] = texts[files[p][j]][1] => i = j

ASSUME MemoryAssumption == /\ IsFiniteSet(Paths)
                           /\ \A s \in Starts : /\ s.text \in [Functions -> SourceTexts]
                                               /\ Placed(s.text, s.disk)
                                               /\ s.left \in Budget

VARIABLES text,      (* the text of each function                                *)
          disk,      (* the functions of each file, in order                     *)
          rows,      (* the node rows of the index                               *)
          stores,    (* notes.json and the anchored records of the decisions     *)
          ask,       (* the record a handler is about to commit                  *)
          analysis,  (* the run of `openlore analyze`                            *)
          left       (* what is left of the budget                               *)

codeVars == <<text, disk>>
memoryVars == <<codeVars, rows, stores, ask, analysis, left>>

(***************************************************************************)
(* Rows and spans.  A span that no longer falls on what was parsed is some *)
(* other text, the same as long as the file is.                            *)
(***************************************************************************)
Modules == DOMAIN disk
FileText(p) == [i \in DOMAIN disk[p] |-> text[disk[p][i]]]
Rows(p) == {[path |-> p, before |-> SubSeq(FileText(p), 1, i - 1),
              text |-> FileText(p)[i], of |-> disk[p][i]] : i \in DOMAIN disk[p]}

Node(r) == <<r.path, r.text[1]>>
IsSource(span) == span \in SourceTexts
Span(r) == IF IsPrefix(Append(r.before, r.text), FileText(r.path))
           THEN r.text ELSE <<r.before, r.text, FileText(r.path)>>

(***************************************************************************)
(* Where recall looks for the code of a record: the node, else the only    *)
(* row with its stable id.                                                 *)
(***************************************************************************)
Homonyms(s) == {r \in rows : r.text[1] = s}
Resolved(m) == LET same == {r \in rows : Node(r) = m.node}
               IN IF same # {} THEN same
                  ELSE IF Cardinality(Homonyms(m.node[2])) = 1 THEN Homonyms(m.node[2]) ELSE {}
Freshness(m) == IF Resolved(m) = {} THEN "orphaned"
                ELSE IF \E r \in Resolved(m) : Span(r) = m.hash THEN "fresh" ELSE "drifted"

Idle == [pc |-> "idle", old |-> {}, orphans |-> {}, pairs |-> <<>>]

MemoryInit == /\ \E s \in Starts : text = s.text /\ disk = s.disk /\ left = s.left
              /\ rows = UNION {Rows(p) : p \in Modules}
              /\ stores = [k \in Kinds |-> {}]
              /\ ask = Nobody
              /\ analysis = Idle

-----------------------------------------------------------------------------
(* The developer. *)
Free(p, s) == \A f \in Range(disk[p]) : text[f][1] # s

Retext(f, new) == /\ text' = [text EXCEPT ![f] = new]
                  /\ UNCHANGED disk
Rename(f, p, s) == f \in Range(disk[p]) /\ Free(p, s) /\ Retext(f, <<s, text[f][2]>>)
Rewrite(f, p, b) == f \in Range(disk[p]) /\ Retext(f, <<text[f][1], b>>)
Move(f, p, q) == /\ Free(q, text[f][1])
                 /\ \E i \in DOMAIN disk[p] :
                      /\ disk[p][i] = f
                      /\ disk' = [disk EXCEPT ![p] = RemoveAt(@, i), ![q] = Append(@, f)]
                 /\ UNCHANGED text
Delete(f, p) == /\ \E i \in DOMAIN disk[p] :
                     disk[p][i] = f /\ disk' = [disk EXCEPT ![p] = RemoveAt(@, i)]
                /\ UNCHANGED text
Create(f, p, t) == /\ \A q \in Modules : f \notin Range(disk[q])
                   /\ Free(p, t[1])
                   /\ disk' = [disk EXCEPT ![p] = Append(@, f)]
                   /\ text' = [text EXCEPT ![f] = t]

Spend(what) == left[what] > 0 /\ left' = [left EXCEPT ![what] = @ - 1]

Refactor == /\ \E f \in Functions, p \in Modules :
                 \/ /\ Spend("edits")
                    /\ \/ \E s \in Symbols : Rename(f, p, s)
                       \/ \E b \in Bodies : b # text[f][2] /\ Rewrite(f, p, b)
                       \/ \E q \in Modules \ {p} : Move(f, p, q)
                       \/ Delete(f, p)
                 \/ /\ Spend("additions")
                    /\ \E t \in SourceTexts : Create(f, p, t)
            /\ UNCHANGED <<rows, stores, ask, analysis>>

(***************************************************************************)
(* Any other indexing of a file, by the watcher or by the daemon's         *)
(* analysis: no anchor is carried.                                         *)
(***************************************************************************)
IndexFile(p) == /\ rows' = {r \in rows : r.path # p} \cup Rows(p)
                /\ rows' # rows
                /\ UNCHANGED <<codeVars, stores, ask, analysis, left>>

-----------------------------------------------------------------------------
(***************************************************************************)
(* handleRemember and handleRecordDecision: the anchor is resolved against *)
(* the index, then, after asking git, the store is updated.  A record is   *)
(* appended: the older of two comes first, with more of the budget left.   *)
(***************************************************************************)
Anchor(r) == [node |-> Node(r), hash |-> Span(r), of |-> r.of]

Ask(k, r, c, target) ==
  /\ ask = Nobody /\ Spend("asks")
  /\ ask' = [kind |-> k, content |-> c, anchor |-> Anchor(r), supersedes |-> target,
             recordedAt |-> left.asks]
  /\ UNCHANGED <<codeVars, rows, stores, analysis>>

(* makeMemoryId: content and stable id *)
Identity(m) == <<m.content, m.node[2]>>
Recorded == [kind |-> ask.kind, content |-> ask.content, node |-> ask.anchor.node,
             hash |-> ask.anchor.hash,
             of |-> ask.anchor.of, retired |-> FALSE, carried |-> FALSE,
             id |-> <<ask.content, ask.anchor.node[2]>>, recordedAt |-> ask.recordedAt]

Retire(m) == IF m.id = ask.supersedes /\ ask.supersedes # Recorded.id
             THEN [m EXCEPT !.retired = TRUE] ELSE m
MutantRemembered(notes) == {Retire(m) : m \in notes} \cup {Recorded}
Remembered(notes) == {Retire(m) : m \in {o \in notes : Identity(o) # Recorded.id}} \cup {Recorded}
(* upsertDecisions: an id that exists, a title here, is never overwritten *)
Upserted(decisions) ==
  IF \E d \in decisions : d.content = ask.content THEN decisions ELSE decisions \cup {Recorded}

Record == /\ ask # Nobody
          /\ \/ ask.kind = "note" /\ stores' = [stores EXCEPT !["note"] = Remembered(@)]
             \/ ask.kind = "decision" /\ stores' = [stores EXCEPT !["decision"] = Upserted(@)]
          /\ ask' = Nobody
          /\ UNCHANGED <<codeVars, rows, analysis, left>>

RecordFails == /\ ask # Nobody /\ ask' = Nobody
               /\ UNCHANGED <<codeVars, rows, stores, analysis, left>>

-----------------------------------------------------------------------------
(***************************************************************************)
(* `openlore analyze`: remember the old nodes, rebuild the index, match,   *)
(* then commit the two stores one after the other.                         *)
(***************************************************************************)
At(pc) == analysis.pc = pc

SnapshotOldNodes == /\ analysis.pc \in {"idle", "done"}
                    /\ Spend("analyses")
                    /\ analysis' = [Idle EXCEPT !.pc = "snapped", !.old = {Node(r) : r \in rows}]
                    /\ UNCHANGED <<codeVars, rows, stores, ask>>

Rebuild == /\ At("snapped")
           /\ rows' = UNION {Rows(p) : p \in Modules}
           /\ analysis' = [analysis EXCEPT !.pc = "rebuilt"]
           /\ UNCHANGED <<codeVars, stores, ask, left>>

Anchored == stores["note"] \cup stores["decision"]

(* The baseline the first record of a node has stands for all of them:
   the oldest note's, without a note the oldest decision's. *)
About(n, k) == {m \in stores[k] : m.node = n}
Oldest(records) == CHOOSE m \in records : \A o \in records : o.recordedAt <= m.recordedAt
Baseline(n) == Oldest(IF About(n, "note") # {} THEN About(n, "note") ELSE About(n, "decision")).hash

MutantDisappeared == {n \in {m.node : m \in Anchored} :
                        (\A r \in rows : Node(r) # n) /\ Cardinality(Homonyms(n[2])) # 1}
Disappeared == {n \in {m.node : m \in Anchored} :
                  /\ n \in analysis.old
                  /\ \A r \in rows : Node(r) # n
                  /\ Cardinality(Homonyms(n[2])) # 1}
Appeared == {r \in rows : /\ Node(r) \notin analysis.old
                          /\ \A o \in analysis.old : o[2] # r.text[1]}

ExactBody(n) == {r \in Appeared : Span(r) = Baseline(n)}
ModuloName(n) == {r \in Appeared : /\ r.text[1] # n[2]
                                   /\ IsSource(Span(r)) /\ <<n[2], Span(r)[2]>> = Baseline(n)}
MutantClones(n) == {r \in Appeared : IsSource(Span(r)) /\ Span(r)[2] = Baseline(n)[2]}
Clones(n) == {r \in rows : IsSource(Span(r)) /\ Span(r)[2] = Baseline(n)[2]}

Candidates(n) == IF ExactBody(n) # {} THEN ExactBody(n)
                 ELSE IF Cardinality(Clones(n)) > Cardinality(ModuloName(n)) THEN {}
                 ELSE ModuloName(n)

(* computeContinuity: one candidate, and nobody else's only one *)
Continues(n, r) == /\ Candidates(n) = {r}
                   /\ \A other \in Disappeared \ {n} : Candidates(other) # {r}
Pairs == [n \in {d \in Disappeared : \E r \in Appeared : Continues(d, r)} |->
            Node(CHOOSE r \in Appeared : Continues(n, r))]

Match == /\ At("rebuilt")
         /\ analysis' = [analysis EXCEPT !.pc = IF Pairs = <<>> THEN "done" ELSE "matched",
                                         !.orphans = {m \in Anchored : Freshness(m) = "orphaned"},
                                         !.pairs = Pairs]
         /\ UNCHANGED <<codeVars, rows, stores, ask, left>>

Repoint(m) == IF m.node \in DOMAIN analysis.pairs
              THEN [m EXCEPT !.node = analysis.pairs[m.node], !.carried = TRUE] ELSE m
MutantCarried(k) == IF \E m \in analysis.orphans : m.kind = "note" /\ m.node \in DOMAIN analysis.pairs
                    THEN [stores EXCEPT ![k] = {Repoint(m) : m \in @}] ELSE stores
Carried(k) == IF \E m \in analysis.orphans : m.kind = k /\ m.node \in DOMAIN analysis.pairs
              THEN [stores EXCEPT ![k] = {Repoint(m) : m \in @}] ELSE stores

CommitNotes == /\ At("matched")
               /\ stores' = Carried("note")
               /\ analysis' = [analysis EXCEPT !.pc = "half"]
               /\ UNCHANGED <<codeVars, rows, ask, left>>
CommitDecisions == /\ At("half")
                   /\ stores' = Carried("decision")
                   /\ analysis' = [analysis EXCEPT !.pc = "done"]
                   /\ UNCHANGED <<codeVars, rows, ask, left>>

(* A commit throws, and the analysis goes on without; or the process dies. *)
AnalysisStops == /\ analysis.pc \notin {"idle", "done"}
                 /\ analysis' = Idle
                 /\ UNCHANGED <<codeVars, rows, stores, ask, left>>

Analyze == SnapshotOldNodes \/ Rebuild \/ Match \/ CommitNotes \/ CommitDecisions \/ AnalysisStops

MemoryNext ==
  \/ Refactor
  \/ \E p \in Modules : IndexFile(p)
  \/ \E r \in rows, c \in Contents :
       \/ \E target \in {Nobody} \cup {m.id : m \in stores["note"]} : Ask("note", r, c, target)
       \/ Ask("decision", r, c, Nobody)
  \/ Record \/ RecordFails
  \/ Analyze

MemorySpec == MemoryInit /\ [][MemoryNext]_memoryVars

-----------------------------------------------------------------------------
(***************************************************************************)
(* Every record, pair and row is well formed; a pair leads from a node of  *)
(* the old index to one that was not in it; only notes are retired.        *)
(***************************************************************************)
MemoryTypeOK ==
  /\ text \in [Functions -> SourceTexts] /\ Placed(text, disk)
  /\ rows \subseteq Row /\ \A r \in rows : r.path \in Modules
  /\ stores \in [Kinds -> SUBSET Records]
  /\ \A k \in Kinds : \A m \in stores[k] : m.kind = k /\ (m.retired => k = "note")
  /\ ask \in {Nobody} \cup Asks
  /\ analysis \in Analyses
  /\ DOMAIN analysis.pairs \subseteq analysis.old
  /\ \A n \in DOMAIN analysis.pairs : analysis.pairs[n] \notin analysis.old
  /\ left \in Budget

(* r is the function m is about, unchanged but for its place and its name *)
Traces(r, m) == r.of = m.of /\ IsSource(m.hash) /\ Span(r) = <<r.text[1], m.hash[2]>>
(* two records of one node that saw different texts; the first decides *)
Mixed(n, records) == \E m1, m2 \in records : m1.node = n /\ m2.node = n /\ m1.hash # m2.hash

(* the baseline is kept on a carry, and holds the name before it *)
RenamedBefore(m) == m.hash[1] # m.node[2]

(***************************************************************************)
(* "A genuinely deleted symbol is never re-anchored onto an unrelated      *)
(* newcomer" (continuity.ts:26-28), nor is a living one: while the         *)
(* function of a record is in the index with the text recorded, the record *)
(* is carried there or nowhere, whatever copies appear, unless another     *)
(* record of the same node saw another text, or the record was carried     *)
(* before: an exact copy of its baseline is then a newcomer that wins      *)
(* without the uniqueness guard (candidacyFor).                            *)
(***************************************************************************)
CarriesItsOwn ==
  [][At("rebuilt") /\ analysis'.pc # "rebuilt" =>
       \A m \in Anchored, r \in rows :
         m.node \in DOMAIN analysis'.pairs /\ Traces(r, m) =>
           \/ Node(r) = analysis'.pairs[m.node]
           \/ Mixed(m.node, Anchored) \/ RenamedBefore(m)]_memoryVars

(***************************************************************************)
(* The ways in which a carry misses a function that is still there; one    *)
(* that was RenamedBefore matches nothing by its old name.                 *)
(***************************************************************************)
(* the node left the index before this analysis: the watcher or the daemon
   indexed the rename, or the function had moved and its anchor was resolved
   by the stable id, which does not re-point it *)
LeftBefore(m) == m.node \notin analysis.old
(* the name it has now, another function or itself already had *)
TakenName(m) == \E r \in rows, o \in analysis.old : Traces(r, m) /\ o[2] = r.text[1]
(* two nodes claim it: the function before and after a move, or another
   function that had the same body *)
Contended(m) == \E other \in analysis.orphans :
                  other.node # m.node /\ IsSource(other.hash) /\ other.hash[2] = m.hash[2]
(* two rows have its body *)
Cloned(m) == \E r1, r2 \in rows : /\ Node(r1) # Node(r2)
                                  /\ \A r \in {r1, r2} : IsSource(Span(r)) /\ Span(r)[2] = m.hash[2]

Missed(m) == \/ RenamedBefore(m) \/ LeftBefore(m) \/ TakenName(m)
             \/ Contended(m) \/ Cloned(m) \/ Mixed(m.node, analysis.orphans)

(***************************************************************************)
(* "A pure rename or a file move changes a symbol's identity and would     *)
(* otherwise orphan every memory and decision anchored to it. At each      *)
(* openlore analyze ..." (docs/mcp-tools.md:258): a match finds the node   *)
(* of every orphaned record whose function is in the index, unchanged but  *)
(* for its place and name, except in the ways of Missed; and when both     *)
(* stores are committed no record that had a match is at its old node,     *)
(* whatever was remembered, superseded or indexed in between.              *)
(***************************************************************************)
Lost(m) == Freshness(m) = "orphaned" /\ \E r \in rows : Traces(r, m)
Paired(m) == m.node \in DOMAIN analysis.pairs

LostOnlyAsKnown ==
  [][/\ At("rebuilt") /\ analysis'.pc \in {"matched", "done"} =>
          \A m \in Anchored : Lost(m)' => Missed(m)' \/ Paired(m)'
     /\ ~At("done") /\ analysis'.pc = "done" =>
          \A m \in analysis'.orphans : Paired(m)' =>
            \A now \in stores'[m.kind] : now.recordedAt = m.recordedAt => now.node # m.node]_memoryVars

(***************************************************************************)
(* "Invalidated notes are history and excluded entirely" (memory.ts:264):  *)
(* recall selects notes by id (selectNotesInScope), so a retired one is    *)
(* served when a living one has its id.  That happens to no note that was  *)
(* never carried; a carry changes what makes the id and keeps the id.      *)
(***************************************************************************)
InScope == {m.id : m \in {n \in stores["note"] : ~n.retired}}

RetiredStaysRetired ==
  \A m \in stores["note"] : m.retired /\ m.id \in InScope => m.carried
=============================================================================
