----------------------------- MODULE MemoryProofs -----------------------------
(***************************************************************************)
(* Anchored memories, for any tree, any notes and any run of edits: the    *)
(* types of Memory hold, a retired note that was never carried is served   *)
(* by no recall, no record is carried away from a function that is still   *)
(* there, and a carry loses a record only in the ways of Missed.           *)
(***************************************************************************)
EXTENDS Memory, FiniteSetTheorems, SequenceTheorems, WellFoundedInduction, TLAPS

(* The index is finite, and no two of its rows are one node. *)
IndexOK == /\ IsFiniteSet(rows)
           /\ \A r1, r2 \in rows : Node(r1) = Node(r2) => r1 = r2

(* What makes the id of a note is still in it until it is carried. *)
IdsOK == \A m \in stores["note"] : ~m.carried => m.id = Identity(m)

(***************************************************************************)
(* recordedAt orders what was recorded: a request under way is younger     *)
(* than every record, those an analysis found orphaned among them, and     *)
(* older than the requests to come.                                        *)
(***************************************************************************)
Older == Anchored \cup analysis.orphans
ClockOK == /\ \E s \in Starts : /\ left.asks <= s.left.asks
                                /\ ask # Nobody => ask.recordedAt <= s.left.asks
                                /\ \A m \in Anchored : m.recordedAt <= s.left.asks
           /\ \A m \in Older : left.asks < m.recordedAt
           /\ ask # Nobody => /\ left.asks < ask.recordedAt
                              /\ \A m \in Older : ask.recordedAt < m.recordedAt

(* Between the two commits: no note with a match is at its old node. *)
HalfOK == At("half") =>
            \A m \in analysis.orphans : m.kind = "note" /\ Paired(m) =>
              \A now \in stores["note"] : now.recordedAt = m.recordedAt => now.node # m.node

MemoryIInv == /\ MemoryTypeOK
              /\ IndexOK
              /\ IdsOK
              /\ RetiredStaysRetired
              /\ ClockOK
              /\ HalfOK

-----------------------------------------------------------------------------
(* The functions of a file without the i-th. *)
LEMMA RemoveAtKeeps ==
  ASSUME NEW S, NEW s \in Seq(S), NEW i \in DOMAIN s
  PROVE  /\ RemoveAt(s, i) \in Seq(S)
         /\ DOMAIN RemoveAt(s, i) = 1 .. Len(s) - 1
         /\ \A j \in 1 .. Len(s) - 1 : RemoveAt(s, i)[j] = s[IF j < i THEN j ELSE j + 1]
<1> DEFINE before == SubSeq(s, 1, i - 1)
           after == SubSeq(s, i + 1, Len(s))
<1>1. i \in 1 .. Len(s) /\ Len(s) \in Nat
  BY LenProperties
<1>2. /\ before \in Seq(S) /\ Len(before) = i - 1
      /\ \A j \in 1 .. i - 1 : before[j] = s[j]
  BY <1>1, SubSeqProperties
<1>3. /\ after \in Seq(S) /\ Len(after) = Len(s) - i
      /\ \A j \in 1 .. Len(s) - i : after[j] = s[i + j]
  BY <1>1, SubSeqProperties
<1> HIDE DEF before, after
<1>4. /\ before \o after \in Seq(S) /\ Len(before \o after) = Len(s) - 1
      /\ \A j \in 1 .. Len(s) - 1 :
           (before \o after)[j] = IF j <= i - 1 THEN before[j] ELSE after[j - (i - 1)]
  <2>1. /\ before \o after \in Seq(S) /\ Len(before \o after) = Len(before) + Len(after)
        /\ \A j \in 1 .. Len(before) + Len(after) :
             (before \o after)[j] = IF j <= Len(before) THEN before[j] ELSE after[j - Len(before)]
    BY <1>2, <1>3, ConcatProperties, Zenon
  <2>2. Len(before) + Len(after) = Len(s) - 1
    BY <1>1, <1>2, <1>3
  <2> QED BY <2>1, <2>2, <1>2
<1>5. ASSUME NEW j \in 1 .. Len(s) - 1
      PROVE  (before \o after)[j] = s[IF j < i THEN j ELSE j + 1]
  <2>1. CASE j < i
    BY <2>1, <1>1, <1>2, <1>4
  <2>2. CASE ~(j < i)
    <3>1. j - (i - 1) \in 1 .. Len(s) - i /\ i + (j - (i - 1)) = j + 1
      BY <2>2, <1>1
    <3>2. (before \o after)[j] = after[j - (i - 1)]
      BY <2>2, <1>1, <1>4
    <3>3. after[j - (i - 1)] = s[i + (j - (i - 1))]
      BY <3>1, <1>3
    <3> QED BY <2>2, <3>1, <3>2, <3>3
  <2> QED BY <2>1, <2>2
<1>6. RemoveAt(s, i) = before \o after
  BY DEF RemoveAt, before, after
<1>7. DOMAIN (before \o after) = 1 .. Len(s) - 1
  BY <1>4, LenProperties
<1> QED BY <1>4, <1>5, <1>6, <1>7

LEMMA AppendKeeps ==
  ASSUME NEW S, NEW s \in Seq(S), NEW e \in S
  PROVE  /\ Append(s, e) \in Seq(S)
         /\ DOMAIN Append(s, e) = DOMAIN s \cup {Len(s) + 1}
         /\ \A j \in DOMAIN s : Append(s, e)[j] = s[j]
         /\ Append(s, e)[Len(s) + 1] = e
         /\ Len(s) + 1 \notin DOMAIN s
<1>1. Len(s) \in Nat /\ DOMAIN s = 1 .. Len(s)
  BY LenProperties
<1>2. /\ Append(s, e) \in Seq(S) /\ Len(Append(s, e)) = Len(s) + 1
      /\ \A j \in 1 .. Len(s) : Append(s, e)[j] = s[j]
      /\ Append(s, e)[Len(s) + 1] = e
  BY AppendProperties
<1>3. DOMAIN Append(s, e) = 1 .. Len(s) + 1
  BY <1>2, LenProperties
<1> QED BY <1>1, <1>2, <1>3

(***************************************************************************)
(* What a developer does keeps every function in one place and its name    *)
(* its own: a deletion, a function put in a file that has not its name,    *)
(* and a new text for a function whose name stays or is free.              *)
(***************************************************************************)
Nowhere(g, files) == \A p \in DOMAIN files : g \notin Range(files[p])

LEMMA RemovalIsPlaced ==
  ASSUME NEW t, NEW d, Placed(t, d), NEW p \in DOMAIN d, NEW i \in DOMAIN d[p]
  PROVE  /\ Placed(t, [d EXCEPT ![p] = RemoveAt(@, i)])
         /\ Nowhere(d[p][i], [d EXCEPT ![p] = RemoveAt(@, i)])
<1> DEFINE new == [d EXCEPT ![p] = RemoveAt(@, i)]
           moved(q, j) == IF q = p /\ ~(j < i) THEN j + 1 ELSE j
<1>1. d[p] \in Seq(Functions)
  BY DEF Placed
<1>2. /\ RemoveAt(d[p], i) \in Seq(Functions)
      /\ DOMAIN RemoveAt(d[p], i) = 1 .. Len(d[p]) - 1
      /\ \A j \in 1 .. Len(d[p]) - 1 : RemoveAt(d[p], i)[j] = d[p][IF j < i THEN j ELSE j + 1]
  BY <1>1, RemoveAtKeeps
<1>3. DOMAIN new = DOMAIN d /\ new[p] = RemoveAt(d[p], i) /\ \A q \in DOMAIN d : q # p => new[q] = d[q]
  OBVIOUS
<1>4. Len(d[p]) \in Nat /\ DOMAIN d[p] = 1 .. Len(d[p])
  BY <1>1, LenProperties
<1> HIDE DEF new
<1>5. ASSUME NEW q \in DOMAIN d, NEW j \in DOMAIN new[q]
      PROVE  /\ moved(q, j) \in DOMAIN d[q] /\ new[q][j] = d[q][moved(q, j)]
             /\ q = p => moved(q, j) # i /\ j \in Nat
  <2>1. CASE q = p
    <3>1. j \in 1 .. Len(d[p]) - 1
      BY <2>1, <1>2, <1>3
    <3>2. moved(q, j) = IF j < i THEN j ELSE j + 1
      BY <2>1
    <3>3. moved(q, j) \in 1 .. Len(d[p]) /\ moved(q, j) # i
      BY <3>1, <3>2, <1>4
    <3>4. new[q][j] = d[p][moved(q, j)]
      BY <2>1, <3>1, <3>2, <1>2, <1>3
    <3> QED BY <2>1, <3>1, <3>3, <3>4, <1>4
  <2>2. CASE q # p
    BY <2>2, <1>3
  <2> QED BY <2>1, <2>2
<1>6. ASSUME NEW q \in DOMAIN d, NEW r \in DOMAIN d, NEW j \in DOMAIN new[q], NEW k \in DOMAIN new[r],
             q = r, moved(q, j) = moved(r, k)
      PROVE  j = k
  <2>1. CASE q = p
    <3>1. j \in Nat /\ k \in Nat /\ i \in Nat
      BY <2>1, <1>4, <1>5, <1>6
    <3> QED BY <2>1, <3>1, <1>6
  <2>2. CASE q # p
    BY <2>2, <1>6
  <2> QED BY <2>1, <2>2
<1>7. \A q \in DOMAIN d : new[q] \in Seq(Functions)
  BY <1>2, <1>3 DEF Placed
<1> HIDE DEF moved
<1>8. Placed(t, new)
  BY <1>3, <1>5, <1>6, <1>7 DEF Placed
<1>9. Nowhere(d[p][i], new)
  <2> SUFFICES ASSUME NEW q \in DOMAIN d, NEW j \in DOMAIN new[q], new[q][j] = d[p][i]
               PROVE  FALSE
    BY <1>3 DEF Nowhere, Range
  <2>1. d[q][moved(q, j)] = d[p][i] /\ moved(q, j) \in DOMAIN d[q]
    BY <1>5
  <2>2. q = p /\ moved(q, j) = i
    BY <2>1 DEF Placed
  <2> QED BY <2>2, <1>5
<1> QED BY <1>8, <1>9 DEF new

LEMMA AdditionIsPlaced ==
  ASSUME NEW t, NEW d, Placed(t, d), NEW q \in DOMAIN d, NEW g \in Functions,
         Nowhere(g, d), \A h \in Range(d[q]) : t[h][1] # t[g][1]
  PROVE  Placed(t, [d EXCEPT ![q] = Append(@, g)])
<1> DEFINE new == [d EXCEPT ![q] = Append(@, g)]
           last == Len(d[q]) + 1
<1>1. d[q] \in Seq(Functions)
  BY DEF Placed
<1>2. /\ Append(d[q], g) \in Seq(Functions)
      /\ DOMAIN Append(d[q], g) = DOMAIN d[q] \cup {last}
      /\ \A j \in DOMAIN d[q] : Append(d[q], g)[j] = d[q][j]
      /\ Append(d[q], g)[last] = g
      /\ last \notin DOMAIN d[q]
  BY <1>1, AppendKeeps
<1>3. DOMAIN new = DOMAIN d /\ new[q] = Append(d[q], g) /\ \A p \in DOMAIN d : p # q => new[p] = d[p]
  OBVIOUS
<1> HIDE DEF new, last
<1>4. ASSUME NEW p \in DOMAIN d, NEW j \in DOMAIN new[p]
      PROVE  \/ j \in DOMAIN d[p] /\ new[p][j] = d[p][j]
             \/ p = q /\ j = last /\ new[p][j] = g
  BY <1>2, <1>3
<1>5. \A p \in DOMAIN d : new[p] \in Seq(Functions)
  BY <1>2, <1>3 DEF Placed
<1>6. ASSUME NEW p \in DOMAIN d, NEW j \in DOMAIN d[p]
      PROVE  d[p][j] # g /\ (p = q => t[d[p][j]][1] # t[g][1])
  BY DEF Nowhere, Range
<1>7. ASSUME NEW p \in DOMAIN d, NEW r \in DOMAIN d, NEW i \in DOMAIN new[p], NEW j \in DOMAIN new[r]
      PROVE  /\ new[p][i] = new[r][j] => p = r /\ i = j
             /\ p = r /\ t[new[p][i]][1] = t[new[p][j]][1] => i = j
  <2>1. CASE i \in DOMAIN d[p] /\ new[p][i] = d[p][i] /\ j \in DOMAIN d[r] /\ new[r][j] = d[r][j]
    BY <2>1 DEF Placed
  <2>2. CASE i \in DOMAIN d[p] /\ new[p][i] = d[p][i] /\ r = q /\ j = last /\ new[r][j] = g
    BY <2>2, <1>6
  <2>3. CASE p = q /\ i = last /\ new[p][i] = g /\ j \in DOMAIN d[r] /\ new[r][j] = d[r][j]
    BY <2>3, <1>6
  <2>4. CASE p = q /\ i = last /\ r = q /\ j = last
    BY <2>4
  <2> QED BY <1>4, <2>1, <2>2, <2>3, <2>4
<1>8. Placed(t, new)
  BY <1>3, <1>5, <1>7 DEF Placed
<1> QED BY <1>8 DEF new

LEMMA NewTextIsPlaced ==
  ASSUME NEW t \in [Functions -> SourceTexts], NEW d, Placed(t, d), NEW g \in Functions, NEW new,
         \A p \in DOMAIN d : g \in Range(d[p]) =>
           new[1] = t[g][1] \/ \A h \in Range(d[p]) : t[h][1] # new[1]
  PROVE  Placed([t EXCEPT ![g] = new], d)
<1> DEFINE u == [t EXCEPT ![g] = new]
<1>1. u[g] = new /\ \A h \in Functions : h # g => u[h] = t[h]
  OBVIOUS
<1> HIDE DEF u
<1>2. ASSUME NEW p \in DOMAIN d, NEW i \in DOMAIN d[p]
      PROVE  d[p][i] \in Functions /\ d[p][i] \in Range(d[p])
  BY ElementOfSeq, LenProperties DEF Placed, Range
<1>3. ASSUME NEW p \in DOMAIN d, NEW i \in DOMAIN d[p], NEW j \in DOMAIN d[p], i # j
      PROVE  u[d[p][i]][1] # u[d[p][j]][1]
  <2>1. d[p][i] # d[p][j] /\ t[d[p][i]][1] # t[d[p][j]][1]
    BY <1>3 DEF Placed
  <2>2. CASE d[p][i] = g
    BY <2>1, <2>2, <1>1, <1>2
  <2>3. CASE d[p][j] = g
    BY <2>1, <2>3, <1>1, <1>2
  <2> QED BY <2>1, <2>2, <2>3, <1>1, <1>2
<1>4. Placed(u, d)
  BY <1>3 DEF Placed
<1> QED BY <1>4 DEF u

(***************************************************************************)
(* The rows of a file are rows of it, finitely many, and no two of them    *)
(* have one name.                                                          *)
(***************************************************************************)
LEMMA RowsAreRows ==
  ASSUME text \in [Functions -> SourceTexts], Placed(text, disk), NEW p \in Modules
  PROVE  /\ FileText(p) \in Seq(SourceTexts)
         /\ Rows(p) \subseteq Row
         /\ IsFiniteSet(Rows(p))
         /\ \A r \in Rows(p) : r.path = p
         /\ \A r1, r2 \in Rows(p) : Node(r1) = Node(r2) => r1 = r2
<1> DEFINE row(i) == [path |-> p, before |-> SubSeq(FileText(p), 1, i - 1),
                      text |-> FileText(p)[i], of |-> disk[p][i]]
           positions == DOMAIN disk[p]
<1>1. disk[p] \in Seq(Functions) /\ p \in Paths /\ text \in [Functions -> SourceTexts]
  BY DEF Placed, Modules
<1>2. positions = 1 .. Len(disk[p]) /\ Len(disk[p]) \in Nat
  BY <1>1, LenProperties
<1>3. \A i \in positions : disk[p][i] \in Functions /\ text[disk[p][i]] \in SourceTexts
  BY <1>1, <1>2, ElementOfSeq
<1>4. FileText(p) = [i \in 1 .. Len(disk[p]) |-> text[disk[p][i]]]
  BY <1>2 DEF FileText
<1>5. FileText(p) \in Seq(SourceTexts) /\ Len(FileText(p)) = Len(disk[p])
  <2>1. FileText(p) \in Seq(SourceTexts)
    BY <1>2, <1>3, <1>4, IsASeq
  <2> QED BY <2>1, <1>2, <1>4, LenProperties
<1>6. ASSUME NEW i \in positions
      PROVE  /\ row(i) \in Row /\ row(i).path = p
             /\ row(i).text = text[disk[p][i]]
  <2>1. SubSeq(FileText(p), 1, i - 1) \in Seq(SourceTexts)
    BY <1>2, <1>5, SubSeqProperties
  <2>2. FileText(p)[i] = text[disk[p][i]]
    BY <1>2, <1>4
  <2> QED BY <2>1, <2>2, <1>1, <1>3 DEF Row
<1>7. Rows(p) = {row(i) : i \in positions}
  BY DEF Rows
<1> HIDE DEF row
<1>8. IsFiniteSet(Rows(p))
  <2> DEFINE pick == [i \in positions |-> row(i)]
  <2>1. pick \in Surjection(positions, Rows(p))
    BY <1>7 DEF Surjection
  <2>2. IsFiniteSet(positions)
    <3> HIDE DEF positions
    <3>1. 1 \in Int /\ Len(disk[p]) \in Int
      BY <1>2
    <3> QED BY <1>2, <3>1, FS_Interval
  <2> QED BY <2>1, <2>2, FS_Surjection
<1>9. ASSUME NEW i \in positions, NEW j \in positions, Node(row(i)) = Node(row(j))
      PROVE  i = j
  <2>1. text[disk[p][i]][1] = text[disk[p][j]][1]
    BY <1>6, <1>9 DEF Node
  <2> QED BY <2>1 DEF Placed, Modules
<1> QED BY <1>5, <1>6, <1>7, <1>8, <1>9

-----------------------------------------------------------------------------
(***************************************************************************)
(* The records of the model, field by field.                               *)
(***************************************************************************)
LEMMA SpendIsBudget ==
  ASSUME left \in Budget, NEW what \in {"edits", "additions", "asks", "analyses"}, Spend(what)
  PROVE  /\ left' \in Budget
         /\ what # "asks" => left'.asks = left.asks
         /\ what = "asks" => left.asks \in Nat /\ left'.asks < left.asks
<1>1. CASE what = "edits"
  BY <1>1 DEF Budget, Spend
<1>2. CASE what = "additions"
  BY <1>2 DEF Budget, Spend
<1>3. CASE what = "asks"
  BY <1>3 DEF Budget, Spend
<1>4. CASE what = "analyses"
  BY <1>4 DEF Budget, Spend
<1> QED BY <1>1, <1>2, <1>3, <1>4

LEMMA RetireKeeps ==
  ASSUME NEW m \in Records
  PROVE  /\ Retire(m) \in Records
         /\ Retire(m).node = m.node /\ Retire(m).kind = m.kind /\ Retire(m).id = m.id
         /\ Retire(m).carried = m.carried /\ Retire(m).recordedAt = m.recordedAt
         /\ Identity(Retire(m)) = Identity(m)
         /\ Retire(m).retired <=> m.retired \/ (m.id = ask.supersedes /\ ask.supersedes # Recorded.id)
<1> DEFINE chosen == m.id = ask.supersedes /\ ask.supersedes # Recorded.id
           gone == [m EXCEPT !.retired = TRUE]
<1>1. /\ gone \in Records /\ gone.node = m.node /\ gone.kind = m.kind /\ gone.id = m.id
      /\ gone.carried = m.carried /\ gone.recordedAt = m.recordedAt /\ gone.content = m.content
      /\ gone.retired = TRUE
  BY DEF Records
<1>2. Retire(m) = IF chosen THEN gone ELSE m
  BY DEF Retire
<1> HIDE DEF gone
<1>3. CASE chosen
  BY <1>1, <1>2, <1>3 DEF Identity
<1>4. CASE ~chosen
  BY <1>2, <1>4 DEF Identity
<1> QED BY <1>3, <1>4

LEMMA RecordedIsRecord ==
  ASSUME ask \in Asks
  PROVE  /\ Recorded \in Records
         /\ Recorded.kind = ask.kind /\ Recorded.recordedAt = ask.recordedAt
         /\ Recorded.retired = FALSE /\ Recorded.carried = FALSE
         /\ Recorded.id = Identity(Recorded)
<1>1. /\ ask.kind \in Kinds /\ ask.content \in Contents /\ ask.anchor \in Anchors
      /\ ask.recordedAt \in Nat
  BY DEF Asks
<1>2. ask.anchor.node \in NodeIds /\ ask.anchor.hash \in Spans /\ ask.anchor.of \in Functions
  BY <1>1 DEF Anchors
<1>3. <<ask.content, ask.anchor.node[2]>> \in Contents \X Symbols
  BY <1>1, <1>2 DEF NodeIds
<1> QED BY <1>1, <1>2, <1>3 DEF Recorded, Records, Identity

LEMMA RepointKeeps ==
  ASSUME analysis \in Analyses, NEW m \in Records
  PROVE  /\ Repoint(m) \in Records
         /\ Repoint(m).kind = m.kind /\ Repoint(m).id = m.id
         /\ Repoint(m).retired = m.retired /\ Repoint(m).recordedAt = m.recordedAt
         /\ Paired(m) => Repoint(m).node = analysis.pairs[m.node] /\ Repoint(m).carried = TRUE
         /\ ~Paired(m) => Repoint(m) = m
<1> DEFINE to == analysis.pairs[m.node]
           one == [m EXCEPT !.node = to]
           two == [one EXCEPT !.carried = TRUE]
<1>1. CASE Paired(m)
  <2>1. to \in NodeIds
    BY <1>1 DEF Analyses, Paired
  <2>2. /\ one \in Records /\ one.kind = m.kind /\ one.id = m.id /\ one.retired = m.retired
        /\ one.recordedAt = m.recordedAt /\ one.node = to
    BY <2>1 DEF Records
  <2>3. Repoint(m) = two
    BY <1>1 DEF Repoint, Paired
  <2> HIDE DEF one
  <2>4. /\ two \in Records /\ two.kind = one.kind /\ two.id = one.id /\ two.retired = one.retired
        /\ two.recordedAt = one.recordedAt /\ two.node = one.node /\ two.carried = TRUE
    BY <2>2 DEF Records
  <2> QED BY <1>1, <2>2, <2>3, <2>4
<1>2. CASE ~Paired(m)
  BY <1>2 DEF Repoint, Paired
<1> QED BY <1>1, <1>2

LEMMA AnalysisFields ==
  ASSUME NEW run \in Analyses, NEW pc \in {"idle", "snapped", "rebuilt", "matched", "half", "done"}
  PROVE  /\ [run EXCEPT !.pc = pc] \in Analyses
         /\ [run EXCEPT !.pc = pc].pc = pc
         /\ [run EXCEPT !.pc = pc].old = run.old
         /\ [run EXCEPT !.pc = pc].orphans = run.orphans
         /\ [run EXCEPT !.pc = pc].pairs = run.pairs
BY DEF Analyses

LEMMA IdleIsAnalysis == Idle \in Analyses /\ DOMAIN Idle.pairs = {}
<1>1. DOMAIN <<>> = {} /\ <<>> \in [{} -> NodeIds]
  OBVIOUS
<1>2. <<>> \in UNION {[S -> NodeIds] : S \in SUBSET NodeIds}
  BY <1>1
<1> QED BY <1>1, <1>2 DEF Idle, Analyses

(* A span is the text that was parsed, or is no text of a function. *)
LEMMA SpanIsKnown ==
  ASSUME MemoryTypeOK, NEW r \in rows
  PROVE  Span(r) \in Spans /\ (IsSource(Span(r)) => Span(r) = r.text)
<1>1. r \in Row /\ FileText(r.path) \in Seq(SourceTexts)
  BY RowsAreRows DEF MemoryTypeOK
<1>2. r.text \in SourceTexts /\ r.before \in Seq(SourceTexts)
  BY <1>1 DEF Row
<1>3. <<r.before, r.text, FileText(r.path)>> \notin SourceTexts
  <2>1. \A t \in SourceTexts : DOMAIN t = 1 .. 2
    BY DEF SourceTexts
  <2>2. DOMAIN <<r.before, r.text, FileText(r.path)>> = 1 .. 3
    OBVIOUS
  <2>3. 1 .. 3 # 1 .. 2
    <3>1. 3 \in 1 .. 3 /\ 3 \notin 1 .. 2
      OBVIOUS
    <3> QED BY <3>1
  <2> QED BY <2>1, <2>2, <2>3
<1>4. <<r.before, r.text, FileText(r.path)>> \in Spans
  BY <1>1, <1>2 DEF Spans
<1> QED BY <1>2, <1>3, <1>4 DEF Span, Spans, IsSource

LEMMA NodeIsNode ==
  ASSUME MemoryTypeOK, NEW r \in rows
  PROVE  Node(r) \in NodeIds /\ Node(r)[1] = r.path /\ Node(r)[2] = r.text[1] /\ r.of \in Functions
<1>1. r \in Row
  BY DEF MemoryTypeOK
<1>2. r.path \in Paths /\ r.text[1] \in Symbols /\ r.of \in Functions
  BY <1>1 DEF Row, SourceTexts
<1> QED BY <1>2 DEF Node, NodeIds

(* The rows of every file make an index. *)
LEMMA AllRows ==
  ASSUME text \in [Functions -> SourceTexts], Placed(text, disk)
  PROVE  LET all == UNION {Rows(p) : p \in Modules}
         IN  /\ all \subseteq Row /\ \A r \in all : r.path \in Modules
             /\ IsFiniteSet(all)
             /\ \A r1, r2 \in all : Node(r1) = Node(r2) => r1 = r2
<1> DEFINE all == UNION {Rows(p) : p \in Modules}
           files == {Rows(p) : p \in Modules}
<1>1. ASSUME NEW p \in Modules
      PROVE  /\ Rows(p) \subseteq Row /\ IsFiniteSet(Rows(p))
             /\ \A r \in Rows(p) : r.path = p
             /\ \A r1, r2 \in Rows(p) : Node(r1) = Node(r2) => r1 = r2
  BY RowsAreRows
<1>2. IsFiniteSet(files)
  <2> DEFINE read == [p \in Modules |-> Rows(p)]
  <2>1. read \in Surjection(Modules, files)
    BY DEF Surjection
  <2>2. IsFiniteSet(Modules)
    BY MemoryAssumption, FS_Subset DEF MemoryAssumption, Placed, Modules
  <2> QED BY <2>1, <2>2, FS_Surjection
<1>3. IsFiniteSet(all)
  BY <1>1, <1>2, FS_UNION
<1>4. all \subseteq Row /\ \A r \in all : r.path \in Modules
  BY <1>1
<1>5. ASSUME NEW r1 \in all, NEW r2 \in all, Node(r1) = Node(r2) PROVE r1 = r2
  <2>1. r1.path = r2.path
    BY <1>5 DEF Node
  <2>2. PICK p \in Modules : r1 \in Rows(p)
    OBVIOUS
  <2>3. PICK q \in Modules : r2 \in Rows(q)
    OBVIOUS
  <2>4. p = q
    BY <1>1, <2>1, <2>2, <2>3
  <2> QED BY <1>1, <1>5, <2>2, <2>3, <2>4
<1> QED BY <1>3, <1>4, <1>5

-----------------------------------------------------------------------------
LEMMA InitIsOK == MemoryInit => MemoryIInv
<1> SUFFICES ASSUME MemoryInit PROVE MemoryIInv
  OBVIOUS
<1>1. PICK s \in Starts : text = s.text /\ disk = s.disk /\ left = s.left
  BY DEF MemoryInit
<1>2. /\ rows = UNION {Rows(p) : p \in Modules} /\ stores = [k \in Kinds |-> {}]
      /\ ask = Nobody /\ analysis = Idle
  BY DEF MemoryInit
<1>3. /\ text \in [Functions -> SourceTexts] /\ Placed(text, disk) /\ left \in Budget
  BY <1>1, MemoryAssumption DEF MemoryAssumption
<1>4. /\ analysis \in Analyses /\ DOMAIN analysis.pairs = {}
      /\ analysis.pc = "idle" /\ analysis.orphans = {}
  BY <1>2, IdleIsAnalysis DEF Idle
<1>5. /\ Anchored = {} /\ stores["note"] = {} /\ stores \in [Kinds -> SUBSET Records]
      /\ \A k \in Kinds : stores[k] = {}
  BY <1>2 DEF Anchored, Kinds
<1>6. MemoryTypeOK /\ IndexOK
  <2>1. /\ rows \subseteq Row /\ \A r \in rows : r.path \in Modules
        /\ IsFiniteSet(rows)
        /\ \A r1, r2 \in rows : Node(r1) = Node(r2) => r1 = r2
    BY <1>2, <1>3, AllRows
  <2>2. ask \in {Nobody} \cup Asks
    BY <1>2
  <2>3. MemoryTypeOK
    BY <1>3, <1>4, <1>5, <2>1, <2>2 DEF MemoryTypeOK
  <2> QED BY <2>1, <2>3 DEF IndexOK
<1>7. IdsOK /\ RetiredStaysRetired
  BY <1>5 DEF IdsOK, RetiredStaysRetired
<1>8. ClockOK
  BY <1>1, <1>2, <1>3, <1>4, <1>5 DEF ClockOK, Older, Budget
<1>9. HalfOK
  BY <1>4 DEF HalfOK, At
<1> QED BY <1>6, <1>7, <1>8, <1>9 DEF MemoryIInv

(***************************************************************************)
(* Edits and indexing.                                                     *)
(***************************************************************************)
LEMMA EditIsOK ==
  ASSUME MemoryTypeOK, Refactor
  PROVE  /\ text' \in [Functions -> SourceTexts] /\ Placed(text', disk') /\ DOMAIN disk' = DOMAIN disk
         /\ left' \in Budget /\ left'.asks = left.asks
<1>1. PICK f \in Functions, p \in Modules :
         \/ /\ Spend("edits")
            /\ \/ \E s \in Symbols : Rename(f, p, s)
               \/ \E b \in Bodies : b # text[f][2] /\ Rewrite(f, p, b)
               \/ \E q \in Modules \ {p} : Move(f, p, q)
               \/ Delete(f, p)
         \/ /\ Spend("additions")
            /\ \E t \in SourceTexts : Create(f, p, t)
  BY DEF Refactor
<1>2. left' \in Budget /\ left'.asks = left.asks
  BY <1>1, SpendIsBudget DEF MemoryTypeOK
<1>3. /\ text \in [Functions -> SourceTexts] /\ Placed(text, disk) /\ text[f] \in SourceTexts
      /\ text[f][1] \in Symbols /\ text[f][2] \in Bodies /\ p \in DOMAIN disk
  <2>1. text \in [Functions -> SourceTexts] /\ Placed(text, disk) /\ p \in DOMAIN disk
    BY DEF MemoryTypeOK, Modules
  <2> QED BY <2>1 DEF SourceTexts
<1>4. ASSUME NEW new \in SourceTexts, Retext(f, new), f \in Range(disk[p]),
             new[1] = text[f][1] \/ Free(p, new[1])
      PROVE  text' \in [Functions -> SourceTexts] /\ Placed(text', disk') /\ DOMAIN disk' = DOMAIN disk
  <2>1. text' = [text EXCEPT ![f] = new] /\ disk' = disk
    BY <1>4 DEF Retext
  <2>2. ASSUME NEW q \in DOMAIN disk, f \in Range(disk[q]) PROVE q = p
    <3>1. PICK i \in DOMAIN disk[p] : disk[p][i] = f
      BY <1>4 DEF Range
    <3>2. PICK j \in DOMAIN disk[q] : disk[q][j] = f
      BY <2>2 DEF Range
    <3> QED BY <1>3, <3>1, <3>2 DEF Placed
  <2>3. Placed([text EXCEPT ![f] = new], disk)
    BY <1>3, <1>4, <2>2, NewTextIsPlaced DEF Free
  <2> QED BY <1>3, <2>1, <2>3
<1>5. CASE \E s \in Symbols : Rename(f, p, s)
  <2>1. PICK s \in Symbols : Rename(f, p, s)
    BY <1>5
  <2>2. /\ <<s, text[f][2]>> \in SourceTexts /\ <<s, text[f][2]>>[1] = s
        /\ f \in Range(disk[p]) /\ Free(p, s) /\ Retext(f, <<s, text[f][2]>>)
    BY <1>3, <2>1 DEF Rename, SourceTexts
  <2> QED BY <1>2, <1>4, <2>2
<1>6. CASE \E b \in Bodies : Rewrite(f, p, b)
  <2>1. PICK b \in Bodies : Rewrite(f, p, b)
    BY <1>6
  <2>2. /\ <<text[f][1], b>> \in SourceTexts /\ <<text[f][1], b>>[1] = text[f][1]
        /\ f \in Range(disk[p]) /\ Retext(f, <<text[f][1], b>>)
    BY <1>3, <2>1 DEF Rewrite, SourceTexts
  <2> QED BY <1>2, <1>4, <2>2
<1>7. CASE \E q \in Modules \ {p} : Move(f, p, q)
  <2>1. PICK q \in Modules \ {p} : Move(f, p, q)
    BY <1>7
  <2>2. PICK i \in DOMAIN disk[p] :
           /\ disk[p][i] = f
           /\ disk' = [disk EXCEPT ![p] = RemoveAt(@, i), ![q] = Append(@, f)]
    BY <2>1 DEF Move
  <2>3. text' = text /\ Free(q, text[f][1]) /\ q \in DOMAIN disk
    BY <2>1 DEF Move, Modules
  <2> DEFINE fewer == [disk EXCEPT ![p] = RemoveAt(@, i)]
  <2>4. Placed(text, fewer) /\ Nowhere(f, fewer)
    BY <1>3, <2>2, RemovalIsPlaced
  <2>5. DOMAIN fewer = DOMAIN disk /\ fewer[q] = disk[q]
    BY <2>1
  <2>6. disk' = [fewer EXCEPT ![q] = Append(@, f)]
    BY <2>1, <2>2
  <2> HIDE DEF fewer
  <2>7. \A h \in Range(fewer[q]) : text[h][1] # text[f][1]
    BY <2>3, <2>5 DEF Free
  <2>8. q \in DOMAIN fewer
    BY <2>3, <2>5
  <2>9. Placed(text, [fewer EXCEPT ![q] = Append(@, f)])
    BY <2>4, <2>7, <2>8, AdditionIsPlaced
  <2> QED BY <1>2, <1>3, <2>3, <2>5, <2>6, <2>9
<1>8. CASE Delete(f, p)
  <2>1. PICK i \in DOMAIN disk[p] : disk[p][i] = f /\ disk' = [disk EXCEPT ![p] = RemoveAt(@, i)]
    BY <1>8 DEF Delete
  <2>2. text' = text
    BY <1>8 DEF Delete
  <2>3. Placed(text, [disk EXCEPT ![p] = RemoveAt(@, i)])
    BY <1>3, RemovalIsPlaced
  <2> QED BY <1>2, <1>3, <2>1, <2>2, <2>3
<1>9. CASE \E t \in SourceTexts : Create(f, p, t)
  <2>1. PICK t \in SourceTexts : Create(f, p, t)
    BY <1>9
  <2>2. /\ Nowhere(f, disk) /\ Free(p, t[1])
        /\ disk' = [disk EXCEPT ![p] = Append(@, f)]
        /\ text' = [text EXCEPT ![f] = t]
    BY <2>1 DEF Create, Nowhere, Modules
  <2>3. Placed(text', disk)
    BY <1>3, <2>2, NewTextIsPlaced DEF Nowhere
  <2>4. text'[f] = t /\ text' \in [Functions -> SourceTexts]
    BY <1>3, <2>2
  <2>5. ASSUME NEW h \in Range(disk[p]) PROVE text'[h][1] # text'[f][1]
    <3>1. h # f /\ text[h][1] # t[1]
      BY <1>3, <2>2 DEF Nowhere, Free
    <3>2. h \in Functions
      <4>1. disk[p] \in Seq(Functions)
        BY <1>3 DEF Placed
      <4> QED BY <4>1, ElementOfSeq, LenProperties DEF Range
    <3> QED BY <1>3, <2>2, <3>1, <3>2
  <2>6. Placed(text', [disk EXCEPT ![p] = Append(@, f)])
    BY <1>3, <2>2, <2>3, <2>5, AdditionIsPlaced
  <2> QED BY <1>2, <2>2, <2>4, <2>6
<1> QED BY <1>1, <1>2, <1>5, <1>6, <1>7, <1>8, <1>9

LEMMA RefactorStep ==
  ASSUME MemoryIInv, Refactor
  PROVE  MemoryIInv'
<1>1. /\ text' \in [Functions -> SourceTexts] /\ Placed(text', disk') /\ DOMAIN disk' = DOMAIN disk
      /\ left' \in Budget /\ left'.asks = left.asks
  BY EditIsOK DEF MemoryIInv
<1>2. UNCHANGED <<rows, stores, ask, analysis>>
  BY DEF Refactor
<1>3. MemoryTypeOK'
  BY <1>1, <1>2 DEF MemoryIInv, MemoryTypeOK, Modules
<1>4. IndexOK' /\ IdsOK' /\ RetiredStaysRetired' /\ HalfOK'
  BY <1>2 DEF MemoryIInv, IndexOK, Node, IdsOK, Identity, RetiredStaysRetired, InScope,
         HalfOK, At, Paired
<1>5. ClockOK'
  BY <1>1, <1>2 DEF MemoryIInv, ClockOK, Older, Anchored
<1> QED BY <1>3, <1>4, <1>5 DEF MemoryIInv

LEMMA IndexStep ==
  ASSUME MemoryIInv, NEW p \in Modules, IndexFile(p)
  PROVE  MemoryIInv'
<1>1. /\ rows' = {r \in rows : r.path # p} \cup Rows(p)
      /\ UNCHANGED <<text, disk, stores, ask, analysis, left>>
  BY DEF IndexFile, codeVars
<1>2. MemoryTypeOK /\ IndexOK
  BY DEF MemoryIInv
<1>3. /\ Rows(p) \subseteq Row /\ IsFiniteSet(Rows(p))
      /\ \A r \in Rows(p) : r.path = p
      /\ \A r1, r2 \in Rows(p) : Node(r1) = Node(r2) => r1 = r2
  BY <1>2, RowsAreRows DEF MemoryTypeOK
<1>4. rows' \subseteq Row /\ \A r \in rows' : r.path \in Modules'
  BY <1>1, <1>2, <1>3 DEF MemoryTypeOK, Modules
<1>5. MemoryTypeOK'
  BY <1>1, <1>2, <1>4 DEF MemoryTypeOK
<1>6. IsFiniteSet(rows')
  <2>1. IsFiniteSet({r \in rows : r.path # p})
    BY <1>2, FS_Subset DEF IndexOK
  <2> QED BY <1>1, <1>3, <2>1, FS_Union
<1>7. ASSUME NEW r1 \in rows', NEW r2 \in rows', Node(r1) = Node(r2) PROVE r1 = r2
  <2>1. r1.path = r2.path
    BY <1>7 DEF Node
  <2> QED BY <1>1, <1>2, <1>3, <1>7, <2>1 DEF IndexOK
<1>8. IndexOK'
  BY <1>6, <1>7 DEF IndexOK, Node
<1>9. IdsOK' /\ RetiredStaysRetired' /\ HalfOK' /\ ClockOK'
  BY <1>1 DEF MemoryIInv, IdsOK, Identity, RetiredStaysRetired, InScope, HalfOK, At,
         Paired, ClockOK, Older, Anchored
<1> QED BY <1>5, <1>8, <1>9 DEF MemoryIInv

(***************************************************************************)
(* remember and record_decision.                                           *)
(***************************************************************************)
LEMMA AskStep ==
  ASSUME MemoryIInv, NEW k \in Kinds, NEW r \in rows, NEW c \in Contents,
         NEW target \in {Nobody} \cup (Contents \X Symbols), Ask(k, r, c, target)
  PROVE  MemoryIInv'
<1> DEFINE new == [kind |-> k, content |-> c, anchor |-> Anchor(r), supersedes |-> target,
                   recordedAt |-> left.asks]
<1>1. /\ ask = Nobody /\ ask' = new /\ Spend("asks")
      /\ UNCHANGED <<text, disk, rows, stores, analysis>>
  BY DEF Ask, codeVars
<1>2. MemoryTypeOK
  BY DEF MemoryIInv
<1>3. left' \in Budget /\ left.asks \in Nat /\ left'.asks < left.asks /\ left'.asks \in Nat
  <2>1. left' \in Budget /\ left.asks \in Nat /\ left'.asks < left.asks
    BY <1>1, <1>2, SpendIsBudget DEF MemoryTypeOK
  <2> QED BY <2>1 DEF Budget
<1>4. Anchor(r) \in Anchors
  BY <1>2, NodeIsNode, SpanIsKnown DEF Anchor, Anchors
<1>5. new \in Asks /\ new.recordedAt = left.asks
  BY <1>3, <1>4 DEF Asks
<1> HIDE DEF new
<1>6. MemoryTypeOK'
  BY <1>1, <1>2, <1>3, <1>5 DEF MemoryTypeOK, Modules
<1>7. IndexOK' /\ IdsOK' /\ RetiredStaysRetired' /\ HalfOK'
  BY <1>1 DEF MemoryIInv, IndexOK, Node, IdsOK, Identity, RetiredStaysRetired, InScope,
         HalfOK, At, Paired
<1>8. Older' = Older /\ Anchored' = Anchored /\ ask'.recordedAt = left.asks
  BY <1>1, <1>5 DEF Older, Anchored
<1>9. ClockOK'
  <2>1. PICK s \in Starts : left.asks <= s.left.asks /\ \A m \in Anchored : m.recordedAt <= s.left.asks
    BY DEF MemoryIInv, ClockOK
  <2>2. s.left.asks \in Nat
    BY MemoryAssumption DEF MemoryAssumption, Budget
  <2>3. left'.asks <= s.left.asks
    BY <1>3, <2>1, <2>2
  <2>4. \A m \in Older : m.recordedAt \in Nat
    BY <1>2 DEF Older, Anchored, MemoryTypeOK, Kinds, Analyses, Records
  <2>5. \A m \in Older : left.asks < m.recordedAt /\ left'.asks < m.recordedAt
    <3>1. \A m \in Older : left.asks < m.recordedAt
      BY DEF MemoryIInv, ClockOK
    <3> QED BY <1>3, <2>4, <3>1
  <2> QED BY <1>3, <1>8, <2>1, <2>3, <2>5 DEF ClockOK
<1> QED BY <1>6, <1>7, <1>9 DEF MemoryIInv

LEMMA FailStep ==
  ASSUME MemoryIInv, RecordFails
  PROVE  MemoryIInv'
<1>1. ask' = Nobody /\ UNCHANGED <<text, disk, rows, stores, analysis, left>>
  BY DEF RecordFails, codeVars
<1>2. MemoryTypeOK'
  BY <1>1 DEF MemoryIInv, MemoryTypeOK, Modules
<1>3. IndexOK' /\ IdsOK' /\ RetiredStaysRetired' /\ HalfOK'
  BY <1>1 DEF MemoryIInv, IndexOK, Node, IdsOK, Identity, RetiredStaysRetired, InScope,
         HalfOK, At, Paired
<1>4. ClockOK'
  BY <1>1 DEF MemoryIInv, ClockOK, Older, Anchored
<1> QED BY <1>2, <1>3, <1>4 DEF MemoryIInv

(***************************************************************************)
(* A note is remembered: whichever note is in scope afterwards was before, *)
(* or is the new one.  A retired note with the id of the new one was       *)
(* dropped, unless a carry had changed what makes its id.                  *)
(***************************************************************************)
LEMMA RememberedIsOK ==
  ASSUME MemoryIInv, ask \in Asks, ask.kind = "note",
         stores' = [stores EXCEPT !["note"] = Remembered(@)]
  PROVE  IdsOK' /\ RetiredStaysRetired'
<1> DEFINE notes == stores["note"]
<1>1. notes \subseteq Records /\ stores'["note"] = Remembered(notes)
  BY DEF MemoryIInv, MemoryTypeOK, Kinds
<1>2. /\ Recorded \in Records /\ Recorded.retired = FALSE /\ Recorded.carried = FALSE
      /\ Recorded.id = Identity(Recorded)
  BY RecordedIsRecord
<1>3. ASSUME NEW m \in stores'["note"], m # Recorded
      PROVE  \E o \in notes : Identity(o) # Recorded.id /\ m = Retire(o)
  BY <1>1, <1>3 DEF Remembered
<1>4. ASSUME NEW o \in notes
      PROVE  /\ Retire(o).id = o.id /\ Retire(o).carried = o.carried
             /\ Identity(Retire(o)) = Identity(o)
             /\ Retire(o).retired <=> \/ o.retired
                                      \/ o.id = ask.supersedes /\ ask.supersedes # Recorded.id
  BY <1>1, RetireKeeps
<1>5. \A o \in notes : ~o.carried => o.id = Identity(o)
  BY DEF MemoryIInv, IdsOK
<1>6. \A o, e \in notes : o.retired /\ ~e.retired /\ o.id = e.id => o.carried
  BY DEF MemoryIInv, RetiredStaysRetired, InScope
<1> HIDE DEF notes
<1>7. ASSUME NEW m \in stores'["note"], ~m.carried
      PROVE  m.id = Identity(m)
  BY <1>2, <1>3, <1>4, <1>5, <1>7
<1>8. ASSUME NEW m \in stores'["note"], NEW e \in stores'["note"], m.retired, ~e.retired, m.id = e.id
      PROVE  m.carried
  <2>1. PICK o \in notes : Identity(o) # Recorded.id /\ m = Retire(o)
    BY <1>2, <1>3, <1>8
  <2>2. CASE e = Recorded
    BY <1>4, <1>5, <1>8, <2>1, <2>2
  <2>3. CASE e # Recorded
    <3>1. PICK d \in notes : e = Retire(d)
      BY <1>3, <2>3
    <3> QED BY <1>4, <1>6, <1>8, <2>1, <3>1
  <2> QED BY <2>2, <2>3
<1>9. IdsOK'
  BY <1>7 DEF IdsOK, Identity
<1>10. RetiredStaysRetired'
  BY <1>8 DEF RetiredStaysRetired, InScope
<1> QED BY <1>9, <1>10

LEMMA RecordStep ==
  ASSUME MemoryIInv, Record
  PROVE  MemoryIInv'
<1>1. /\ ask # Nobody /\ ask' = Nobody
      /\ UNCHANGED <<text, disk, rows, analysis, left>>
      /\ \/ ask.kind = "note" /\ stores' = [stores EXCEPT !["note"] = Remembered(@)]
         \/ ask.kind = "decision" /\ stores' = [stores EXCEPT !["decision"] = Upserted(@)]
  BY DEF Record, codeVars
<1>2. MemoryTypeOK /\ ask \in Asks /\ stores \in [Kinds -> SUBSET Records]
  BY <1>1 DEF MemoryIInv, MemoryTypeOK
<1>3. /\ Recorded \in Records /\ Recorded.kind = ask.kind /\ Recorded.recordedAt = ask.recordedAt
      /\ Recorded.retired = FALSE /\ Recorded.carried = FALSE
  BY <1>2, RecordedIsRecord
<1>4. \A m \in Records : /\ Retire(m) \in Records /\ Retire(m).kind = m.kind
                         /\ Retire(m).recordedAt = m.recordedAt /\ Retire(m).node = m.node
  BY RetireKeeps
<1>5. ASSUME NEW k \in Kinds, NEW m \in stores'[k]
      PROVE  \/ m = Recorded /\ k = ask.kind
             \/ m \in stores[k]
             \/ k = "note" /\ \E o \in stores[k] : m = Retire(o)
  <2>1. CASE ask.kind = "note" /\ stores' = [stores EXCEPT !["note"] = Remembered(@)]
    BY <1>2, <2>1 DEF Remembered
  <2>2. CASE ask.kind = "decision" /\ stores' = [stores EXCEPT !["decision"] = Upserted(@)]
    BY <1>2, <2>2 DEF Upserted
  <2> QED BY <1>1, <2>1, <2>2
<1>6. ASSUME NEW k \in Kinds, NEW m \in stores'[k]
      PROVE  /\ m \in Records /\ m.kind = k /\ (m.retired => k = "note")
             /\ \/ m.recordedAt = ask.recordedAt
                \/ \E o \in stores[k] : m.recordedAt = o.recordedAt /\ m.node = o.node
  <2>1. \A o \in stores[k] : o \in Records /\ o.kind = k /\ (o.retired => k = "note")
    BY <1>2 DEF MemoryTypeOK
  <2>2. CASE m = Recorded /\ k = ask.kind
    BY <1>3, <2>2
  <2>3. CASE m \in stores[k]
    BY <2>1, <2>3
  <2>4. CASE k = "note" /\ \E o \in stores[k] : m = Retire(o)
    BY <1>4, <2>1, <2>4
  <2> QED BY <1>5, <2>2, <2>3, <2>4
<1>7. stores' \in [Kinds -> SUBSET Records]
  <2>1. DOMAIN stores' = Kinds /\ stores' = [k \in Kinds |-> stores'[k]]
    BY <1>1, <1>2
  <2> QED BY <1>6, <2>1
<1>8. MemoryTypeOK'
  BY <1>1, <1>2, <1>6, <1>7 DEF MemoryTypeOK, Modules
<1>9. IndexOK'
  BY <1>1 DEF MemoryIInv, IndexOK, Node
<1>10. IdsOK' /\ RetiredStaysRetired'
  <2>1. CASE ask.kind = "note" /\ stores' = [stores EXCEPT !["note"] = Remembered(@)]
    BY <1>2, <2>1, RememberedIsOK
  <2>2. CASE ask.kind = "decision" /\ stores' = [stores EXCEPT !["decision"] = Upserted(@)]
    <3>1. stores'["note"] = stores["note"]
      BY <1>2, <2>2 DEF Kinds
    <3> QED BY <3>1 DEF MemoryIInv, IdsOK, Identity, RetiredStaysRetired, InScope
  <2> QED BY <1>1, <2>1, <2>2
<1>11. \A m \in Older : ask.recordedAt < m.recordedAt /\ left.asks < m.recordedAt
  BY <1>1 DEF MemoryIInv, ClockOK
<1>12. \A m \in Anchored' : \/ m.recordedAt = ask.recordedAt
                             \/ \E o \in Anchored : m.recordedAt = o.recordedAt
  BY <1>6 DEF Anchored, Kinds
<1>13. ClockOK'
  <2>1. PICK s \in Starts : /\ left.asks <= s.left.asks /\ ask.recordedAt <= s.left.asks
                            /\ \A m \in Anchored : m.recordedAt <= s.left.asks
    BY <1>1 DEF MemoryIInv, ClockOK
  <2>2. left.asks < ask.recordedAt
    BY <1>1 DEF MemoryIInv, ClockOK
  <2>3. \A m \in Anchored' : m.recordedAt <= s.left.asks /\ left.asks < m.recordedAt
    BY <1>11, <1>12, <2>1, <2>2 DEF Older
  <2>4. \A m \in Older' : left.asks < m.recordedAt
    BY <1>1, <1>11, <2>3 DEF Older
  <2> QED BY <1>1, <2>1, <2>3, <2>4 DEF ClockOK
<1>14. HalfOK'
  <2> SUFFICES ASSUME At("half"), NEW m \in analysis.orphans, m.kind = "note", Paired(m),
                      NEW now \in stores'["note"], now.recordedAt = m.recordedAt
               PROVE  now.node # m.node
    BY <1>1 DEF HalfOK, At, Paired
  <2>1. ask.recordedAt < m.recordedAt /\ ask.recordedAt \in Nat
    BY <1>2, <1>11 DEF Older, Asks
  <2>2. PICK o \in stores["note"] : now.recordedAt = o.recordedAt /\ now.node = o.node
    BY <1>6, <2>1 DEF Kinds
  <2> QED BY <2>2 DEF MemoryIInv, HalfOK
<1> QED BY <1>8, <1>9, <1>10, <1>13, <1>14 DEF MemoryIInv

-----------------------------------------------------------------------------
(***************************************************************************)
(* `openlore analyze`.  What its steps share: an analysis that changes     *)
(* neither what was recorded nor the requests.                             *)
(***************************************************************************)
LEMMA AnalysisKeeps ==
  ASSUME MemoryIInv, UNCHANGED <<text, disk, stores, ask>>,
         left' \in Budget, left'.asks = left.asks,
         rows' \subseteq Row, \A r \in rows' : r.path \in Modules, IndexOK',
         analysis' \in Analyses, DOMAIN analysis'.pairs \subseteq analysis'.old,
         \A n \in DOMAIN analysis'.pairs : analysis'.pairs[n] \notin analysis'.old,
         analysis'.orphans \subseteq Older, analysis'.pc # "half"
  PROVE  MemoryIInv'
<1>1. MemoryTypeOK'
  BY DEF MemoryIInv, MemoryTypeOK, Modules
<1>2. IdsOK' /\ RetiredStaysRetired'
  BY DEF MemoryIInv, IdsOK, Identity, RetiredStaysRetired, InScope
<1>3. Anchored' = Anchored
  BY DEF Anchored
<1>4. Older' \subseteq Older
  BY <1>3 DEF Older
<1>5. ClockOK'
  BY <1>3, <1>4 DEF MemoryIInv, ClockOK
<1>6. HalfOK'
  BY DEF HalfOK, At
<1> QED BY <1>1, <1>2, <1>5, <1>6 DEF MemoryIInv

LEMMA SnapshotStep ==
  ASSUME MemoryIInv, SnapshotOldNodes
  PROVE  MemoryIInv'
<1> DEFINE old == {Node(r) : r \in rows}
           one == [Idle EXCEPT !.pc = "snapped"]
           start == [one EXCEPT !.old = old]
<1>1. /\ Spend("analyses") /\ analysis' = start
      /\ UNCHANGED <<text, disk, rows, stores, ask>>
  BY DEF SnapshotOldNodes, codeVars
<1>2. MemoryTypeOK
  BY DEF MemoryIInv
<1>3. left' \in Budget /\ left'.asks = left.asks
  BY <1>1, <1>2, SpendIsBudget DEF MemoryTypeOK
<1>4. old \subseteq NodeIds
  BY <1>2, NodeIsNode
<1> HIDE DEF old
<1>5. /\ one \in Analyses /\ one.pc = "snapped" /\ one.orphans = {} /\ one.pairs = Idle.pairs
  <2>1. Idle.orphans = {}
    BY DEF Idle
  <2> QED BY <2>1, IdleIsAnalysis, AnalysisFields
<1> HIDE DEF one
<1>6. /\ start \in Analyses /\ start.pc = "snapped" /\ start.orphans = {} /\ start.pairs = Idle.pairs
  BY <1>4, <1>5 DEF Analyses
<1> HIDE DEF start
<1>7. IndexOK'
  BY <1>1 DEF MemoryIInv, IndexOK, Node
<1> QED BY <1>1, <1>2, <1>3, <1>6, <1>7, IdleIsAnalysis, AnalysisKeeps DEF MemoryTypeOK

LEMMA RebuildStep ==
  ASSUME MemoryIInv, Rebuild
  PROVE  MemoryIInv'
<1>1. /\ rows' = UNION {Rows(p) : p \in Modules}
      /\ analysis' = [analysis EXCEPT !.pc = "rebuilt"]
      /\ UNCHANGED <<text, disk, stores, ask, left>>
  BY DEF Rebuild, codeVars
<1>2. MemoryTypeOK
  BY DEF MemoryIInv
<1>3. /\ rows' \subseteq Row /\ \A r \in rows' : r.path \in Modules
      /\ IsFiniteSet(rows')
      /\ \A r1, r2 \in rows' : Node(r1) = Node(r2) => r1 = r2
  BY <1>1, <1>2, AllRows DEF MemoryTypeOK
<1>4. IndexOK'
  BY <1>3 DEF IndexOK, Node
<1>5. /\ analysis' \in Analyses /\ analysis'.pc = "rebuilt" /\ analysis'.old = analysis.old
      /\ analysis'.orphans = analysis.orphans /\ analysis'.pairs = analysis.pairs
  BY <1>1, <1>2, AnalysisFields DEF MemoryTypeOK
<1> QED BY <1>1, <1>2, <1>3, <1>4, <1>5, AnalysisKeeps DEF MemoryTypeOK, Older

LEMMA StopStep ==
  ASSUME MemoryIInv, AnalysisStops
  PROVE  MemoryIInv'
<1>1. analysis' = Idle /\ UNCHANGED <<text, disk, rows, stores, ask, left>>
  BY DEF AnalysisStops, codeVars
<1>2. /\ analysis' \in Analyses /\ DOMAIN analysis'.pairs = {} /\ analysis'.pc = "idle"
      /\ analysis'.orphans = {}
  BY <1>1, IdleIsAnalysis DEF Idle
<1>3. IndexOK'
  BY <1>1 DEF MemoryIInv, IndexOK, Node
<1> QED BY <1>1, <1>2, <1>3, AnalysisKeeps DEF MemoryIInv, MemoryTypeOK

(***************************************************************************)
(* A pair is a node that disappeared with the node of the only row that    *)
(* continues it, which had not been in the index.                          *)
(***************************************************************************)
LEMMA PairsAre ==
  /\ DOMAIN Pairs \subseteq Disappeared
  /\ \A n \in Disappeared : (\E r \in Appeared : Continues(n, r)) => n \in DOMAIN Pairs
  /\ \A n \in DOMAIN Pairs : \E r \in Appeared : Continues(n, r) /\ Pairs[n] = Node(r)
<1>1. DOMAIN Pairs = {d \in Disappeared : \E r \in Appeared : Continues(d, r)}
  BY DEF Pairs
<1>2. ASSUME NEW n \in DOMAIN Pairs
      PROVE  \E r \in Appeared : Continues(n, r) /\ Pairs[n] = Node(r)
  <2> DEFINE row == CHOOSE r \in Appeared : Continues(n, r)
  <2>1. \E r \in Appeared : Continues(n, r)
    BY <1>1
  <2>2. row \in Appeared /\ Continues(n, row)
    BY <2>1
  <2>3. Pairs[n] = Node(row)
    BY <1>1 DEF Pairs
  <2> QED BY <2>2, <2>3
<1> QED BY <1>1, <1>2

LEMMA MatchIs ==
  ASSUME MemoryTypeOK, Match
  PROVE  /\ UNCHANGED <<text, disk, rows, stores, ask, left>>
         /\ analysis.pc = "rebuilt" /\ analysis'.pc \in {"done", "matched"}
         /\ analysis' \in Analyses
         /\ analysis'.old = analysis.old
         /\ analysis'.orphans = {m \in Anchored : Freshness(m) = "orphaned"}
         /\ analysis'.pairs = Pairs
         /\ analysis'.pc = "done" => DOMAIN analysis'.pairs = {}
<1> DEFINE orphaned == {m \in Anchored : Freshness(m) = "orphaned"}
           pc == IF Pairs = <<>> THEN "done" ELSE "matched"
           one == [analysis EXCEPT !.pc = pc]
           two == [one EXCEPT !.orphans = orphaned]
           three == [two EXCEPT !.pairs = Pairs]
<1>1. /\ analysis.pc = "rebuilt" /\ UNCHANGED <<text, disk, rows, stores, ask, left>>
      /\ analysis' = three /\ analysis \in Analyses
  BY DEF Match, At, codeVars, MemoryTypeOK
<1>2. orphaned \subseteq Records
  BY DEF Anchored, MemoryTypeOK, Kinds
<1>3. Pairs \in UNION {[S -> NodeIds] : S \in SUBSET NodeIds}
  <2>1. DOMAIN Pairs \subseteq NodeIds
    BY <1>1, PairsAre DEF Disappeared, Analyses
  <2>2. \A n \in DOMAIN Pairs : Pairs[n] \in NodeIds
    BY PairsAre, NodeIsNode DEF Appeared
  <2>3. Pairs = [n \in DOMAIN Pairs |-> Pairs[n]]
    BY DEF Pairs
  <2>4. Pairs \in [DOMAIN Pairs -> NodeIds]
    BY <2>2, <2>3
  <2> QED BY <2>1, <2>4
<1>4. pc \in {"done", "matched"} /\ (pc = "done" => DOMAIN Pairs = {})
  <2>1. CASE Pairs = <<>>
    <3>1. DOMAIN Pairs = {} /\ pc = "done"
      BY <2>1
    <3> QED BY <3>1
  <2>2. CASE Pairs # <<>>
    <3>1. pc = "matched"
      BY <2>2
    <3> QED BY <3>1
  <2> QED BY <2>1, <2>2
<1> HIDE DEF pc, orphaned
<1>5. /\ one \in Analyses /\ one.pc = pc /\ one.old = analysis.old
  <2>1. analysis \in Analyses
    BY <1>1
  <2>2. pc \in {"idle", "snapped", "rebuilt", "matched", "half", "done"}
    BY <1>4
  <2> QED BY <2>1, <2>2, AnalysisFields
<1> HIDE DEF one
<1>6. two \in Analyses /\ two.pc = one.pc /\ two.old = one.old /\ two.orphans = orphaned
  BY <1>2, <1>5 DEF Analyses
<1> HIDE DEF two
<1>7. /\ three \in Analyses /\ three.pc = two.pc /\ three.old = two.old
      /\ three.orphans = two.orphans /\ three.pairs = Pairs
  BY <1>3, <1>6 DEF Analyses
<1> HIDE DEF three
<1> QED BY <1>1, <1>4, <1>5, <1>6, <1>7 DEF orphaned

LEMMA MatchStep ==
  ASSUME MemoryIInv, Match
  PROVE  MemoryIInv'
<1>1. MemoryTypeOK
  BY DEF MemoryIInv
<1>2. /\ UNCHANGED <<text, disk, rows, stores, ask, left>>
      /\ analysis' \in Analyses /\ analysis'.pc # "half" /\ analysis'.old = analysis.old
      /\ analysis'.orphans \subseteq Anchored /\ analysis'.pairs = Pairs
  BY <1>1, MatchIs
<1>3. DOMAIN Pairs \subseteq analysis.old
  BY PairsAre DEF Disappeared
<1>4. \A n \in DOMAIN Pairs : Pairs[n] \notin analysis.old
  BY PairsAre DEF Appeared
<1>5. IndexOK'
  BY <1>2 DEF MemoryIInv, IndexOK, Node
<1> QED BY <1>1, <1>2, <1>3, <1>4, <1>5, AnalysisKeeps DEF MemoryTypeOK, Older

(***************************************************************************)
(* A commit: records keep what they say and when, one with a match leaves  *)
(* its node, and a note that has been carried is marked.                   *)
(***************************************************************************)
LEMMA CarriedIs ==
  ASSUME MemoryTypeOK, NEW k \in Kinds, stores' = Carried(k)
  PROVE  /\ stores' \in [Kinds -> SUBSET Records]
         /\ \A j \in Kinds : j # k => stores'[j] = stores[j]
         /\ \A j \in Kinds : \A m \in stores'[j] : \E o \in stores[j] :
              /\ m.kind = o.kind /\ m.id = o.id /\ m.retired = o.retired
              /\ m.recordedAt = o.recordedAt
              /\ m = o \/ m.carried
         /\ (\E m \in analysis.orphans : m.kind = k /\ Paired(m)) =>
              \A m \in stores'[k] : ~Paired(m)
<1>1. stores \in [Kinds -> SUBSET Records] /\ analysis \in Analyses
  BY DEF MemoryTypeOK
<1>2. CASE \E m \in analysis.orphans : m.kind = k /\ Paired(m)
  <2>1. stores' = [stores EXCEPT ![k] = {Repoint(m) : m \in stores[k]}]
    BY <1>2 DEF Carried, Paired
  <2>2. ASSUME NEW o \in Records
        PROVE  /\ Repoint(o) \in Records
               /\ Repoint(o).kind = o.kind /\ Repoint(o).id = o.id /\ Repoint(o).retired = o.retired
               /\ Repoint(o).recordedAt = o.recordedAt /\ (Repoint(o) = o \/ Repoint(o).carried)
    BY <1>1, RepointKeeps
  <2>3. ASSUME NEW o \in Records PROVE ~Paired(Repoint(o))
    <3>1. CASE Paired(o)
      <4>1. Repoint(o).node = analysis.pairs[o.node] /\ o.node \in DOMAIN analysis.pairs
        BY <1>1, <3>1, RepointKeeps DEF Paired
      <4> QED BY <4>1 DEF MemoryTypeOK, Paired
    <3>2. CASE ~Paired(o)
      BY <1>1, <3>2, RepointKeeps
    <3> QED BY <3>1, <3>2
  <2>4. stores'[k] = {Repoint(m) : m \in stores[k]} /\ \A j \in Kinds : j # k => stores'[j] = stores[j]
    BY <1>1, <2>1
  <2>5. {Repoint(m) : m \in stores[k]} \subseteq Records
    BY <1>1, <2>2
  <2>6. stores' \in [Kinds -> SUBSET Records]
    BY <1>1, <2>1, <2>5
  <2>7. ASSUME NEW m \in stores'[k]
        PROVE  /\ ~Paired(m)
               /\ \E o \in stores[k] : /\ m.kind = o.kind /\ m.id = o.id /\ m.retired = o.retired
                                       /\ m.recordedAt = o.recordedAt /\ (m = o \/ m.carried)
    <3>1. PICK o \in stores[k] : m = Repoint(o)
      BY <2>4
    <3>2. o \in Records
      BY <1>1
    <3> QED BY <2>2, <2>3, <3>1, <3>2
  <2> QED BY <2>4, <2>6, <2>7
<1>3. CASE ~\E m \in analysis.orphans : m.kind = k /\ Paired(m)
  <2>1. stores' = stores
    BY <1>3 DEF Carried, Paired
  <2> QED BY <1>1, <1>3, <2>1
<1> QED BY <1>2, <1>3

LEMMA CommitStep ==
  ASSUME MemoryIInv, NEW k \in Kinds, stores' = Carried(k),
         NEW pc \in {"half", "done"}, pc = "half" => k = "note",
         analysis' = [analysis EXCEPT !.pc = pc], UNCHANGED <<text, disk, rows, ask, left>>
  PROVE  MemoryIInv'
<1>1. MemoryTypeOK
  BY DEF MemoryIInv
<1>2. /\ stores' \in [Kinds -> SUBSET Records]
      /\ \A j \in Kinds : \A m \in stores'[j] : \E o \in stores[j] :
           /\ m.kind = o.kind /\ m.id = o.id /\ m.retired = o.retired
           /\ m.recordedAt = o.recordedAt
           /\ m = o \/ m.carried
      /\ (\E m \in analysis.orphans : m.kind = k /\ Paired(m)) => \A m \in stores'[k] : ~Paired(m)
  BY <1>1, CarriedIs
<1>3. /\ analysis' \in Analyses /\ analysis'.pc = pc /\ analysis'.old = analysis.old
      /\ analysis'.orphans = analysis.orphans /\ analysis'.pairs = analysis.pairs
  <2>1. analysis \in Analyses /\ pc \in {"idle", "snapped", "rebuilt", "matched", "half", "done"}
    BY <1>1 DEF MemoryTypeOK
  <2> QED BY <2>1, AnalysisFields
<1>4. \A j \in Kinds : \A m \in stores'[j] : m.kind = j /\ (m.retired => j = "note")
  BY <1>1, <1>2 DEF MemoryTypeOK
<1>5. MemoryTypeOK'
  BY <1>1, <1>2, <1>3, <1>4 DEF MemoryTypeOK, Modules
<1>6. IndexOK'
  BY DEF MemoryIInv, IndexOK, Node
<1>7. \A m \in stores'["note"] : \E o \in stores["note"] :
        m.id = o.id /\ m.retired = o.retired /\ (m = o \/ m.carried)
  BY <1>2 DEF Kinds
<1>8. IdsOK'
  BY <1>7 DEF MemoryIInv, IdsOK, Identity
<1>9. RetiredStaysRetired'
  <2>1. \A o, e \in stores["note"] : o.retired /\ ~e.retired /\ o.id = e.id => o.carried
    BY DEF MemoryIInv, RetiredStaysRetired, InScope
  <2>2. ASSUME NEW m \in stores'["note"], NEW e \in stores'["note"], m.retired, ~e.retired, m.id = e.id
        PROVE  m.carried
    BY <1>7, <2>1, <2>2
  <2> QED BY <2>2 DEF RetiredStaysRetired, InScope
<1>10. \A m \in Anchored' : \E o \in Anchored : m.recordedAt = o.recordedAt
  BY <1>2 DEF Anchored, Kinds
<1>11. ClockOK'
  <2>1. PICK s \in Starts : /\ left.asks <= s.left.asks
                            /\ ask # Nobody => ask.recordedAt <= s.left.asks
                            /\ \A m \in Anchored : m.recordedAt <= s.left.asks
    BY DEF MemoryIInv, ClockOK
  <2>2. \A m \in Older : left.asks < m.recordedAt /\ (ask # Nobody => ask.recordedAt < m.recordedAt)
    BY DEF MemoryIInv, ClockOK
  <2>3. \A m \in Older' : left.asks < m.recordedAt /\ (ask # Nobody => ask.recordedAt < m.recordedAt)
    BY <1>3, <1>10, <2>2 DEF Older
  <2>4. ask # Nobody => left.asks < ask.recordedAt
    BY DEF MemoryIInv, ClockOK
  <2> QED BY <1>10, <2>1, <2>3, <2>4 DEF ClockOK
<1>12. HalfOK'
  <2> SUFFICES ASSUME pc = "half", NEW m \in analysis.orphans, m.kind = "note", Paired(m),
                      NEW now \in stores'["note"]
               PROVE  now.node # m.node
    BY <1>3 DEF HalfOK, At, Paired
  <2>1. ~Paired(now)
    BY <1>2
  <2> QED BY <2>1 DEF Paired
<1> QED BY <1>5, <1>6, <1>8, <1>9, <1>11, <1>12 DEF MemoryIInv

-----------------------------------------------------------------------------
LEMMA NextIsOK == MemoryIInv /\ [MemoryNext]_memoryVars => MemoryIInv'
<1> SUFFICES ASSUME MemoryIInv, [MemoryNext]_memoryVars PROVE MemoryIInv'
  OBVIOUS
<1>1. CASE Refactor
  BY <1>1, RefactorStep
<1>2. CASE \E p \in Modules : IndexFile(p)
  BY <1>2, IndexStep
<1>3. ASSUME NEW r \in rows, NEW c \in Contents,
             NEW target \in {Nobody} \cup {m.id : m \in stores["note"]},
             Ask("note", r, c, target)
      PROVE  MemoryIInv'
  <2>1. \A m \in stores["note"] : m.id \in Contents \X Symbols
    BY DEF MemoryIInv, MemoryTypeOK, Kinds, Records
  <2>2. target \in {Nobody} \cup (Contents \X Symbols) /\ "note" \in Kinds
    BY <2>1 DEF Kinds
  <2> QED BY <1>3, <2>2, AskStep
<1>4. ASSUME NEW r \in rows, NEW c \in Contents, Ask("decision", r, c, Nobody)
      PROVE  MemoryIInv'
  <2>1. Nobody \in {Nobody} \cup (Contents \X Symbols) /\ "decision" \in Kinds
    BY DEF Kinds
  <2> QED BY <1>4, <2>1, AskStep
<1>5. CASE Record \/ RecordFails
  BY <1>5, RecordStep, FailStep
<1>6. CASE Analyze
  <2>1. CASE CommitNotes
    <3>1. /\ stores' = Carried("note") /\ analysis' = [analysis EXCEPT !.pc = "half"]
          /\ UNCHANGED <<text, disk, rows, ask, left>>
      BY <2>1 DEF CommitNotes, codeVars
    <3>2. "note" \in Kinds /\ "half" \in {"half", "done"}
      BY DEF Kinds
    <3> QED BY <3>1, <3>2, CommitStep
  <2>2. CASE CommitDecisions
    <3>1. /\ stores' = Carried("decision") /\ analysis' = [analysis EXCEPT !.pc = "done"]
          /\ UNCHANGED <<text, disk, rows, ask, left>>
      BY <2>2 DEF CommitDecisions, codeVars
    <3>2. "decision" \in Kinds /\ "done" \in {"half", "done"} /\ "done" # "half"
      BY DEF Kinds
    <3> QED BY <3>1, <3>2, CommitStep
  <2> QED BY <1>6, <2>1, <2>2, SnapshotStep, RebuildStep, MatchStep, StopStep DEF Analyze
<1>7. CASE UNCHANGED memoryVars
  <2>1. UNCHANGED <<text, disk, rows, stores, ask, analysis, left>>
    BY <1>7 DEF memoryVars, codeVars
  <2>2. MemoryTypeOK'
    BY <2>1 DEF MemoryIInv, MemoryTypeOK, Modules
  <2>3. IndexOK' /\ IdsOK' /\ RetiredStaysRetired' /\ HalfOK'
    BY <2>1 DEF MemoryIInv, IndexOK, Node, IdsOK, Identity, RetiredStaysRetired, InScope,
         HalfOK, At, Paired
  <2>4. ClockOK'
    BY <2>1 DEF MemoryIInv, ClockOK, Older, Anchored
  <2> QED BY <2>2, <2>3, <2>4 DEF MemoryIInv
<1> QED BY <1>1, <1>2, <1>3, <1>4, <1>5, <1>6, <1>7 DEF MemoryNext

(* The inductive invariant of the anchored memories. *)
THEOREM MemoryInvariant == MemorySpec => []MemoryIInv
<1>1. MemoryInit => MemoryIInv
  BY InitIsOK
<1>2. MemoryIInv /\ [MemoryNext]_memoryVars => MemoryIInv'
  BY NextIsOK
<1> QED BY <1>1, <1>2, PTL DEF MemorySpec

(***************************************************************************)
(* Records, rows, requests and analyses are well formed in every reachable *)
(* state; a pair leads from a node of the old index to one not in it, and  *)
(* only notes are retired.                                                 *)
(***************************************************************************)
THEOREM MemoryTyped == MemorySpec => []MemoryTypeOK
<1>1. MemoryIInv => MemoryTypeOK
  BY DEF MemoryIInv
<1> QED BY <1>1, MemoryInvariant, PTL

(***************************************************************************)
(* Invalidated notes are history: recall serves no retired note that was   *)
(* never carried, whatever is remembered or superseded, and when.          *)
(***************************************************************************)
THEOREM RetiredNotesAreHistory == MemorySpec => []RetiredStaysRetired
<1>1. MemoryIInv => RetiredStaysRetired
  BY DEF MemoryIInv
<1> QED BY <1>1, MemoryInvariant, PTL

-----------------------------------------------------------------------------
(***************************************************************************)
(* The baseline of a node is what some record of it saw: the oldest there  *)
(* is, among finitely many dates.                                          *)
(***************************************************************************)
LEMMA OldestIsIn ==
  ASSUME NEW records, records # {}, NEW N \in Nat,
         \A m \in records : m.recordedAt \in Nat /\ m.recordedAt <= N
  PROVE  Oldest(records) \in records
<1> DEFINE ages == {N - m.recordedAt : m \in records}
<1>1. ages \subseteq Nat /\ ages # {}
  OBVIOUS
<1>2. PICK x \in ages : \A y \in ages : ~(<<y, x>> \in OpToRel(<, Nat))
  <2> HIDE DEF ages
  <2> QED BY <1>1, WFMin, NatLessThanWellFounded, Zenon
<1>3. \A y \in ages : ~(y < x)
  <2>1. \A y \in Nat : y \in ages => ~(y < x)
    <3> HIDE DEF ages
    <3> QED BY <1>1, <1>2, Zenon DEF OpToRel
  <2> QED BY <1>1, <2>1
<1>4. PICK m \in records : x = N - m.recordedAt
  OBVIOUS
<1>5. ASSUME NEW o \in records PROVE o.recordedAt <= m.recordedAt
  <2>1. ~(N - o.recordedAt < N - m.recordedAt)
    BY <1>3, <1>4
  <2> QED BY <2>1
<1> QED BY <1>5 DEF Oldest

LEMMA BaselineIs ==
  ASSUME MemoryIInv, NEW n, \E m \in Anchored : m.node = n
  PROVE  \E m \in Anchored : m.node = n /\ Baseline(n) = m.hash
<1> DEFINE records == IF About(n, "note") # {} THEN About(n, "note") ELSE About(n, "decision")
<1>1. /\ records # {}
      /\ \A m \in records : m \in Anchored /\ m.node = n
  BY DEF About, Anchored
<1>2. PICK s \in Starts : \A m \in Anchored : m.recordedAt <= s.left.asks
  BY DEF MemoryIInv, ClockOK
<1>3. s.left.asks \in Nat
  BY MemoryAssumption DEF MemoryAssumption, Budget
<1>4. \A m \in Anchored : m.recordedAt \in Nat
  BY DEF MemoryIInv, MemoryTypeOK, Anchored, Kinds, Records
<1>5. Baseline(n) = Oldest(records).hash
  BY DEF Baseline
<1> HIDE DEF records
<1>6. Oldest(records) \in records
  BY <1>1, <1>2, <1>3, <1>4, OldestIsIn
<1> QED BY <1>1, <1>5, <1>6

(***************************************************************************)
(* A record that still has the name it was made with, and no other record  *)
(* of its node saw another text, gives its node the baseline; no row that  *)
(* appeared is an exact copy, since its name would not be new.             *)
(***************************************************************************)
LEMMA NoExactCopy ==
  ASSUME MemoryIInv, NEW m \in Anchored, m.node \in Disappeared, IsSource(m.hash),
         ~Mixed(m.node, Anchored), ~RenamedBefore(m)
  PROVE  Baseline(m.node) = m.hash /\ ExactBody(m.node) = {} /\ m.hash = <<m.node[2], m.hash[2]>>
<1>1. Baseline(m.node) = m.hash
  BY BaselineIs DEF Mixed
<1>2. m.hash = <<m.node[2], m.hash[2]>>
  BY DEF IsSource, SourceTexts, RenamedBefore
<1>3. ASSUME NEW r \in ExactBody(m.node) PROVE FALSE
  <2>1. r \in rows /\ Span(r) = m.hash /\ \A o \in analysis.old : o[2] # r.text[1]
    BY <1>1 DEF ExactBody, Appeared
  <2>2. r.text = m.hash
    BY <2>1, SpanIsKnown DEF MemoryIInv
  <2>3. m.node \in analysis.old /\ m.hash[1] = m.node[2]
    BY DEF Disappeared, RenamedBefore
  <2> QED BY <2>1, <2>2, <2>3
<1> QED BY <1>1, <1>2, <1>3

(* The row of the function a record is about has its body. *)
LEMMA TraceHasBody ==
  ASSUME MemoryIInv, NEW m \in Anchored, NEW r \in rows, Traces(r, m)
  PROVE  IsSource(Span(r)) /\ Span(r)[2] = m.hash[2] /\ IsSource(m.hash)
<1>1. m.hash \in SourceTexts /\ Span(r) = <<r.text[1], m.hash[2]>>
  BY DEF Traces, IsSource
<1>2. r.text[1] \in Symbols
  BY DEF MemoryIInv, MemoryTypeOK, Row, SourceTexts
<1>3. m.hash[2] \in Bodies
  BY <1>1 DEF SourceTexts
<1>4. <<r.text[1], m.hash[2]>> \in SourceTexts
  BY <1>2, <1>3 DEF SourceTexts
<1> QED BY <1>1, <1>4 DEF IsSource

(***************************************************************************)
(* A match gives no record of a living function away.                      *)
(***************************************************************************)
LEMMA MatchKeepsItsOwn ==
  ASSUME MemoryIInv, NEW m \in Anchored, NEW r \in rows, m.node \in DOMAIN Pairs, Traces(r, m),
         ~Mixed(m.node, Anchored), ~RenamedBefore(m)
  PROVE  Node(r) = Pairs[m.node]
<1> DEFINE n == m.node
<1>1. n \in Disappeared /\ \E r0 \in Appeared : Continues(n, r0) /\ Pairs[n] = Node(r0)
  BY PairsAre
<1>2. PICK r0 \in Appeared : Candidates(n) = {r0} /\ Pairs[n] = Node(r0)
  BY <1>1 DEF Continues
<1>3. IsSource(Span(r)) /\ Span(r)[2] = m.hash[2] /\ IsSource(m.hash)
  BY TraceHasBody
<1>4. Baseline(n) = m.hash /\ ExactBody(n) = {} /\ m.hash = <<n[2], m.hash[2]>>
  BY <1>1, <1>3, NoExactCopy
<1>5. ModuloName(n) = {r0} /\ ~(Cardinality(Clones(n)) > Cardinality(ModuloName(n)))
  <2>1. CASE Cardinality(Clones(n)) > Cardinality(ModuloName(n))
    BY <1>2, <1>4, <2>1 DEF Candidates
  <2>2. CASE ~(Cardinality(Clones(n)) > Cardinality(ModuloName(n)))
    BY <1>2, <1>4, <2>2 DEF Candidates
  <2> QED BY <2>1, <2>2
<1>6. r \in Clones(n)
  BY <1>3, <1>4 DEF Clones
<1>7. r0 \in Clones(n)
  <2>1. r0 \in ModuloName(n)
    BY <1>5
  <2>2. r0 \in rows /\ IsSource(Span(r0)) /\ <<n[2], Span(r0)[2]>> = <<n[2], m.hash[2]>>
    BY <1>4, <2>1 DEF ModuloName, Appeared
  <2> QED BY <1>4, <2>2 DEF Clones
<1>8. r = r0
  <2>1. IsFiniteSet(Clones(n))
    BY FS_Subset DEF Clones, MemoryIInv, IndexOK
  <2>2. Cardinality({r0}) = 1
    BY FS_Singleton
  <2>3. Cardinality(Clones(n)) \in Nat
    BY <2>1, FS_CardinalityType
  <2>4. {r, r0} \subseteq Clones(n)
    BY <1>6, <1>7
  <2>5. ASSUME r # r0 PROVE FALSE
    <3>1. Cardinality({r0} \cup {r}) = 2
      <4>1. IsFiniteSet({r0}) /\ r \notin {r0}
        BY <2>5, FS_Singleton
      <4>2. Cardinality({r0} \cup {r}) = Cardinality({r0}) + 1
        BY <4>1, FS_AddElement
      <4> QED BY <2>2, <4>2
    <3>2. {r0} \cup {r} \in SUBSET Clones(n)
      BY <2>4
    <3>3. Cardinality({r0} \cup {r}) <= Cardinality(Clones(n))
      BY <2>1, <3>2, FS_Subset
    <3> QED BY <1>5, <2>2, <2>3, <3>1, <3>3
  <2> QED BY <2>5
<1> QED BY <1>2, <1>8

(***************************************************************************)
(* What a match misses, it misses in a known way: the record's own row     *)
(* appeared, is the only one with its body, and no other node that         *)
(* disappeared claims it.                                                  *)
(***************************************************************************)
LEMMA MatchFinds ==
  ASSUME MemoryIInv, Match, NEW m \in Anchored, Lost(m)', ~Missed(m)'
  PROVE  m.node \in DOMAIN Pairs
<1> DEFINE n == m.node
           orphaned == {o \in Anchored : Freshness(o) = "orphaned"}
<1>1. /\ text' = text /\ disk' = disk /\ rows' = rows
      /\ analysis'.old = analysis.old /\ analysis'.orphans = orphaned
  BY MatchIs DEF MemoryIInv
<1>2. \A r \in rows : Span(r)' = Span(r) /\ Node(r)' = Node(r) /\ (Traces(r, m)' <=> Traces(r, m))
  BY <1>1 DEF Span, FileText, Node, Traces, IsSource
<1>3. Freshness(m) = "orphaned" /\ \E r \in rows : Traces(r, m)
  <2>1. Freshness(m)' = Freshness(m)
    BY <1>1 DEF Freshness, Resolved, Homonyms, Span, FileText, Node
  <2> QED BY <1>1, <1>2, <2>1 DEF Lost
<1>4. PICK r \in rows : Traces(r, m)
  BY <1>3
<1>5. /\ ~RenamedBefore(m) /\ n \in analysis.old
      /\ ~(\E o \in analysis.old : o[2] = r.text[1])
      /\ ~Mixed(n, orphaned)
  <2>1. ~RenamedBefore(m) /\ ~LeftBefore(m)' /\ ~TakenName(m)' /\ ~Mixed(n, analysis'.orphans)
    BY DEF Missed, RenamedBefore, Mixed
  <2>2. n \in analysis.old
    BY <1>1, <2>1 DEF LeftBefore
  <2>3. ~(\E o \in analysis.old : o[2] = r.text[1])
    BY <1>1, <1>2, <1>4, <2>1 DEF TakenName
  <2> QED BY <1>1, <2>1, <2>2, <2>3
<1>6. ASSUME NEW o \in orphaned, o.node # n, IsSource(o.hash) PROVE o.hash[2] # m.hash[2]
  BY <1>1, <1>6 DEF Missed, Contended, IsSource
<1>7. ASSUME NEW other \in rows, IsSource(Span(other)), Span(other)[2] = m.hash[2],
             IsSource(Span(r)), Span(r)[2] = m.hash[2]
      PROVE  other = r
  <2>1. ~Cloned(m)'
    BY DEF Missed
  <2>2. Node(other) = Node(r)
    BY <1>1, <1>2, <1>7, <2>1 DEF Cloned, IsSource
  <2> QED BY <2>2 DEF MemoryIInv, IndexOK
<1> HIDE DEF orphaned
<1>8. n \in Disappeared
  <2>1. Resolved(m) = {}
    BY <1>3 DEF Freshness
  <2>2. \A row \in rows : Node(row) # n
    BY <2>1 DEF Resolved
  <2>3. Cardinality(Homonyms(n[2])) # 1
    <3>1. Cardinality({}) # 1
      BY FS_EmptySet
    <3> QED BY <2>1, <3>1 DEF Resolved
  <2> QED BY <1>5, <2>2, <2>3 DEF Disappeared
<1>9. ASSUME NEW o \in Anchored, o.node \in Disappeared PROVE o \in orphaned
  BY <1>9 DEF Disappeared, Freshness, Resolved, orphaned
<1>10. ~Mixed(n, Anchored)
  BY <1>5, <1>8, <1>9 DEF Mixed
<1>11. IsSource(Span(r)) /\ Span(r)[2] = m.hash[2] /\ IsSource(m.hash)
  BY <1>4, TraceHasBody
<1>12. Baseline(n) = m.hash /\ ExactBody(n) = {} /\ m.hash = <<n[2], m.hash[2]>>
  BY <1>5, <1>8, <1>10, <1>11, NoExactCopy
<1>13. r \in Appeared /\ r.text[1] # n[2]
  <2>1. Node(r)[2] = r.text[1]
    BY NodeIsNode DEF MemoryIInv
  <2> QED BY <1>5, <2>1 DEF Appeared
<1>14. ModuloName(n) = {r} /\ Clones(n) = {r}
  <2>1. r \in ModuloName(n)
    BY <1>11, <1>12, <1>13 DEF ModuloName
  <2>2. r \in Clones(n)
    BY <1>11, <1>12 DEF Clones
  <2>3. \A c \in Clones(n) : c = r
    BY <1>7, <1>11, <1>12 DEF Clones
  <2>4. ASSUME NEW c \in ModuloName(n) PROVE c = r
    <3>1. c \in rows /\ IsSource(Span(c)) /\ <<n[2], Span(c)[2]>> = <<n[2], m.hash[2]>>
      BY <1>12 DEF ModuloName, Appeared
    <3> QED BY <1>7, <1>11, <3>1
  <2> QED BY <2>1, <2>2, <2>3, <2>4
<1>15. Candidates(n) = {r}
  <2>1. ~(Cardinality({r}) > Cardinality({r}))
    <3>1. Cardinality({r}) = 1
      BY FS_Singleton
    <3> QED BY <3>1
  <2> QED BY <1>12, <1>14, <2>1 DEF Candidates
<1>16. ASSUME NEW other \in Disappeared \ {n}, Candidates(other) = {r} PROVE FALSE
  <2>1. r \in ExactBody(other) \/ r \in ModuloName(other)
    <3>1. Candidates(other) \in {ExactBody(other), {}, ModuloName(other)}
      BY DEF Candidates
    <3> QED BY <1>16, <3>1
  <2>2. PICK o \in Anchored : o.node = other /\ Baseline(other) = o.hash
    BY BaselineIs DEF Disappeared
  <2>3. o.node \in NodeIds
    BY DEF MemoryIInv, MemoryTypeOK, Anchored, Kinds, Records
  <2>4. IsSource(o.hash) /\ o.hash[2] = m.hash[2]
    <3>1. CASE r \in ExactBody(other)
      BY <1>11, <2>2, <3>1 DEF ExactBody
    <3>2. CASE r \in ModuloName(other)
      <4>1. o.hash = <<other[2], Span(r)[2]>>
        BY <2>2, <3>2 DEF ModuloName
      <4>2. other[2] \in Symbols /\ Span(r)[2] \in Bodies
        BY <1>11, <2>2, <2>3 DEF NodeIds, IsSource, SourceTexts
      <4> QED BY <1>11, <4>1, <4>2 DEF IsSource, SourceTexts
    <3> QED BY <2>1, <3>1, <3>2
  <2> QED BY <1>6, <1>9, <1>16, <2>2, <2>4
<1>17. Continues(n, r)
  BY <1>15, <1>16 DEF Continues
<1> QED BY <1>8, <1>13, <1>17, PairsAre

(***************************************************************************)
(* Only a match, or a stop, leads on from the rebuilt index; only a match  *)
(* without a pair and the second commit end an analysis.                   *)
(***************************************************************************)
LEMMA AnalysisMoves ==
  ASSUME MemoryIInv, [MemoryNext]_memoryVars
  PROVE  /\ At("rebuilt") /\ analysis'.pc # "rebuilt" => Match \/ analysis' = Idle
         /\ ~At("done") /\ analysis'.pc = "done" => Match \/ CommitDecisions
<1>1. Idle.pc = "idle"
  BY DEF Idle
<1>2. CASE SnapshotOldNodes
  <2>1. analysis.pc # "rebuilt"
    BY <1>2 DEF SnapshotOldNodes
  <2> DEFINE one == [Idle EXCEPT !.pc = "snapped"]
             two(old) == [one EXCEPT !.old = old]
  <2>2. one \in Analyses /\ one.pc = "snapped"
    BY IdleIsAnalysis, AnalysisFields
  <2>3. analysis' = two({Node(r) : r \in rows})
    BY <1>2 DEF SnapshotOldNodes
  <2> HIDE DEF one
  <2>4. \A old : two(old).pc = "snapped"
    BY <2>2 DEF Analyses
  <2> HIDE DEF two
  <2>5. analysis'.pc = "snapped"
    BY <2>3, <2>4
  <2> QED BY <2>1, <2>5 DEF At
<1>3. ASSUME NEW pc \in {"idle", "snapped", "rebuilt", "matched", "half", "done"},
             analysis' = [analysis EXCEPT !.pc = pc]
      PROVE  analysis'.pc = pc
  BY <1>3, AnalysisFields DEF MemoryIInv, MemoryTypeOK
<1>4. CASE Rebuild
  BY <1>3, <1>4 DEF Rebuild, At
<1>5. CASE CommitNotes
  BY <1>3, <1>5 DEF CommitNotes, At
<1>6. CASE CommitDecisions
  BY <1>6 DEF CommitDecisions, At
<1>7. CASE AnalysisStops
  BY <1>1, <1>7 DEF AnalysisStops
<1>8. CASE UNCHANGED analysis
  BY <1>8 DEF At
<1>9. [MemoryNext]_memoryVars => Analyze \/ UNCHANGED analysis
  BY DEF MemoryNext, memoryVars, Refactor, IndexFile, Ask, Record, RecordFails
<1> QED BY <1>2, <1>4, <1>5, <1>6, <1>7, <1>8, <1>9 DEF Analyze

(***************************************************************************)
(* A genuinely living symbol's record is never re-anchored onto another    *)
(* function: the match takes a record to the function it is about or       *)
(* nowhere, in any tree, with any copies, unless another record of its     *)
(* node saw another text or it was carried before.                         *)
(***************************************************************************)
THEOREM CarriesGoHome == MemorySpec => CarriesItsOwn
<1> DEFINE Home == At("rebuilt") /\ analysis'.pc # "rebuilt" =>
                     \A m \in Anchored, r \in rows :
                       m.node \in DOMAIN analysis'.pairs /\ Traces(r, m) =>
                         \/ Node(r) = analysis'.pairs[m.node]
                         \/ Mixed(m.node, Anchored) \/ RenamedBefore(m)
<1>1. MemoryIInv /\ [MemoryNext]_memoryVars => [Home]_memoryVars
  <2> SUFFICES ASSUME MemoryIInv, [MemoryNext]_memoryVars, At("rebuilt"), analysis'.pc # "rebuilt",
                      NEW m \in Anchored, NEW r \in rows,
                      m.node \in DOMAIN analysis'.pairs, Traces(r, m),
                      ~Mixed(m.node, Anchored), ~RenamedBefore(m)
               PROVE  Node(r) = analysis'.pairs[m.node]
    OBVIOUS
  <2>1. CASE Match
    <3>1. analysis'.pairs = Pairs
      BY <2>1, MatchIs DEF MemoryIInv
    <3> QED BY <3>1, MatchKeepsItsOwn
  <2>2. CASE analysis' = Idle
    BY <2>2, IdleIsAnalysis
  <2> QED BY <2>1, <2>2, AnalysisMoves
<1> QED BY <1>1, MemoryInvariant, PTL DEF MemorySpec, CarriesItsOwn

(***************************************************************************)
(* A rename or a move orphans no record but in the ways of Missed: the     *)
(* match finds the node of every other one, and the second commit leaves   *)
(* no matched record at its old node, whatever was recorded meanwhile.     *)
(***************************************************************************)
THEOREM CarriesLoseOnlyAsKnown == MemorySpec => LostOnlyAsKnown
<1> DEFINE Found == At("rebuilt") /\ analysis'.pc \in {"matched", "done"} =>
                      \A m \in Anchored : Lost(m)' => Missed(m)' \/ Paired(m)'
           Moved == ~At("done") /\ analysis'.pc = "done" =>
                      \A m \in analysis'.orphans : Paired(m)' =>
                        \A now \in stores'[m.kind] : now.recordedAt = m.recordedAt => now.node # m.node
<1>1. ASSUME MemoryIInv, [MemoryNext]_memoryVars PROVE Found
  <2> SUFFICES ASSUME At("rebuilt"), analysis'.pc \in {"matched", "done"},
                      NEW m \in Anchored, Lost(m)', ~Missed(m)'
               PROVE  Paired(m)'
    OBVIOUS
  <2>1. Match
    BY <1>1, AnalysisMoves DEF Idle
  <2>2. analysis'.pairs = Pairs
    BY <1>1, <2>1, MatchIs DEF MemoryIInv
  <2> QED BY <1>1, <2>1, <2>2, MatchFinds DEF Paired
<1>2. ASSUME MemoryIInv, [MemoryNext]_memoryVars PROVE Moved
  <2> SUFFICES ASSUME ~At("done"), analysis'.pc = "done",
                      NEW m \in analysis'.orphans, m.node \in DOMAIN analysis'.pairs,
                      NEW now \in stores'[m.kind], now.recordedAt = m.recordedAt
               PROVE  now.node # m.node
    BY DEF Paired
  <2>1. CASE Match
    BY <1>2, <2>1, MatchIs DEF MemoryIInv
  <2>2. CASE CommitDecisions
    <3>1. stores' = Carried("decision") /\ analysis' = [analysis EXCEPT !.pc = "done"] /\ At("half")
      BY <2>2 DEF CommitDecisions
    <3>2. analysis'.orphans = analysis.orphans /\ analysis'.pairs = analysis.pairs
      <4>1. /\ analysis \in Analyses
            /\ "done" \in {"idle", "snapped", "rebuilt", "matched", "half", "done"}
        BY <1>2 DEF MemoryIInv, MemoryTypeOK
      <4> QED BY <3>1, <4>1, AnalysisFields
    <3>3. m \in analysis.orphans /\ Paired(m) /\ m.kind \in Kinds
      BY <1>2, <3>2 DEF Paired, MemoryIInv, MemoryTypeOK, Analyses, Records
    <3>4. /\ \A j \in Kinds : j # "decision" => stores'[j] = stores[j]
          /\ m.kind = "decision" => \A o \in stores'["decision"] : ~Paired(o)
      BY <1>2, <3>1, <3>3, CarriedIs DEF MemoryIInv, Kinds
    <3>5. CASE m.kind = "decision"
      BY <3>3, <3>4, <3>5 DEF Paired
    <3>6. CASE m.kind = "note"
      BY <1>2, <3>1, <3>3, <3>4, <3>6 DEF MemoryIInv, HalfOK, Kinds
    <3> QED BY <3>3, <3>5, <3>6 DEF Kinds
  <2> QED BY <1>2, <2>1, <2>2, AnalysisMoves
<1>3. MemoryIInv /\ [MemoryNext]_memoryVars => [Found /\ Moved]_memoryVars
  BY <1>1, <1>2
<1> QED BY <1>3, MemoryInvariant, PTL DEF MemorySpec, LostOnlyAsKnown

=============================================================================
