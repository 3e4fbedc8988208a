--------------------------- MODULE CallGraphProofs ----------------------------
(***************************************************************************)
(* Lemmas about CallGraph, for every value of its constants: what its      *)
(* recursive functions compute, what a resolution returns, and how far the *)
(* resolution of a build over some files agrees with one over all.         *)
(***************************************************************************)
EXTENDS CallGraph, WellFoundedInduction, FiniteSetTheorems, TLAPS

(* What a build reads: texts of some of the files. *)
AreSources(sources) == /\ DOMAIN sources \subseteq Files
                       /\ \A f \in DOMAIN sources : sources[f] \in Text
-----------------------------------------------------------------------------
(* Recursion over the naturals *)

(***************************************************************************)
(* Induction, with the set of the numbers it has reached in the place of a *)
(* predicate.                                                              *)
(***************************************************************************)
LEMMA ReachesAll ==
  ASSUME NEW S, 0 \in S, \A k \in Nat : k \in S => k + 1 \in S
  PROVE  Nat \subseteq S
<1> DEFINE T == Nat \ S
<1> SUFFICES ASSUME T # {} PROVE FALSE
  OBVIOUS
<1>1. PICK x \in T : \A y \in T : ~(<<y, x>> \in OpToRel(<, Nat))
  BY WFMin, NatLessThanWellFounded, Zenon
<1>2. \A y \in Nat : y \in T => ~ (y < x)
  BY <1>1, Zenon DEF OpToRel
<1>3. x # 0 /\ x \in Nat
  BY <1>1
<1>4. x - 1 \in Nat /\ x - 1 < x /\ x = (x - 1) + 1
  BY <1>3
<1>5. x - 1 \in S
  BY <1>2, <1>4
<1> QED BY <1>1, <1>4, <1>5

(***************************************************************************)
(* A step, that may count, can be iterated any number of times.            *)
(***************************************************************************)
Iterates(h, V, base, step, m) ==
  /\ h \in [0..m -> V]
  /\ h[0] = base
  /\ \A k \in 1..m : h[k] = step[k][h[k - 1]]

LEMMA IterationExists ==
  ASSUME NEW V, NEW base \in V, NEW step \in [Nat -> [V -> V]], NEW m \in Nat
  PROVE  \E h : Iterates(h, V, base, step, m)
<1> DEFINE Good(j) == \E h \in [0..j -> V] : h[0] = base /\ \A k \in 1..j : h[k] = step[k][h[k - 1]]
           S == {j \in Nat : Good(j)}
<1>1. Good(0)
  <2> DEFINE h == [k \in 0..0 |-> base]
  <2>1. h \in [0..0 -> V] /\ h[0] = base /\ \A k \in 1..0 : h[k] = step[k][h[k - 1]]
    OBVIOUS
  <2> QED BY <2>1
<1>2. ASSUME NEW j \in Nat, Good(j) PROVE Good(j + 1)
  <2>1. PICK h \in [0..j -> V] : h[0] = base /\ \A k \in 1..j : h[k] = step[k][h[k - 1]]
    BY <1>2
  <2> DEFINE g == [k \in 0..(j + 1) |-> IF k = j + 1 THEN step[k][h[j]] ELSE h[k]]
  <2>2. g \in [0..(j + 1) -> V]
    BY <2>1
  <2>3. g[0] = base
    BY <2>1
  <2>4. ASSUME NEW k \in 1..(j + 1) PROVE g[k] = step[k][g[k - 1]]
    <3>1. CASE k = j + 1
      BY <3>1, <2>1
    <3>2. CASE k \in 1..j
      BY <3>2, <2>1
    <3> QED BY <3>1, <3>2
  <2> HIDE DEF g
  <2> QED BY <2>2, <2>3, <2>4
<1> HIDE DEF Good
<1>3. 0 \in S /\ \A k \in Nat : k \in S => k + 1 \in S
  BY <1>1, <1>2
<1>4. Nat \subseteq S
  <2> HIDE DEF S
  <2> QED BY <1>3, ReachesAll
<1> QED BY <1>4 DEF Good, Iterates

LEMMA HopsAreNat == /\ MaxHops + 1 \in Nat /\ MaxHops + 1 \in Hops /\ 0 \in Hops
                    /\ Hops = 0..(MaxHops + 1)
BY HopsAssumption DEF HopsAssumption, Hops

(***************************************************************************)
(* The modules that surface a name, one star hop at a time.                *)
(***************************************************************************)
Own(n, sources) ==
  {f \in DOMAIN sources : n \in sources[f].defs \/ sources[f].exports[n] # NoFile}
Behind(sources, W) ==
  {f \in DOMAIN sources : sources[f].star # NoFile /\ sources[f].star \in W}

Surfaces(w, n, sources) ==
  /\ w \in [Hops -> SUBSET DOMAIN sources]
  /\ w[0] = {}
  /\ \A k \in 1..(MaxHops + 1) : w[k] = Own(n, sources) \cup Behind(sources, w[k - 1])
  /\ \A k \in Hops : Exposing(n, k, sources) = w[k]

LEMMA ExposingUnfolds ==
  ASSUME NEW n, NEW sources
  PROVE  \E w : Surfaces(w, n, sources)
<1> DEFINE own == Own(n, sources)
           V == SUBSET DOMAIN sources
           step == [k \in Nat |-> [W \in V |-> own \cup Behind(sources, W)]]
           m == MaxHops + 1
<1>1. {} \in V /\ step \in [Nat -> [V -> V]]
  <2>1. own \subseteq DOMAIN sources
    BY DEF Own
  <2>2. \A W \in V : Behind(sources, W) \subseteq DOMAIN sources
    BY DEF Behind
  <2> HIDE DEF own
  <2> QED BY <2>1, <2>2
<1>2. m \in Nat /\ Hops = 0..m
  BY HopsAreNat
<1>3. PICK h : Iterates(h, V, {}, step, m)
  <2> HIDE DEF own, V, step, m
  <2> QED BY <1>1, <1>2, IterationExists
<1>a. h \in [0..m -> V] /\ h[0] = {} /\ \A k \in 1..m : h[k] = step[k][h[k - 1]]
  BY <1>3, Zenon DEF Iterates
<1>4. ASSUME NEW k \in 1..m PROVE h[k] = own \cup Behind(sources, h[k - 1])
  <2>1. h[k - 1] \in V /\ k \in Nat
    BY <1>2, <1>a
  <2> QED BY <1>a, <2>1
<1> DEFINE Def(w) == w = [k \in Hops |-> IF k = 0 THEN {}
                                         ELSE own \cup {f \in DOMAIN sources :
                                                          /\ sources[f].star # NoFile
                                                          /\ sources[f].star \in w[k - 1]}]
           c == CHOOSE w : Def(w)
<1>5. Def(h)
  <2>1. \A k \in Hops : h[k] = IF k = 0 THEN {}
                               ELSE own \cup {f \in DOMAIN sources :
                                                /\ sources[f].star # NoFile
                                                /\ sources[f].star \in h[k - 1]}
    BY <1>2, <1>a, <1>4 DEF Behind
  <2> HIDE DEF own, V, step
  <2> QED BY <1>2, <1>a, <2>1
<1>6. \A k \in Hops : Exposing(n, k, sources) = c[k]
  BY Zenon DEF Exposing, Own
<1>7. Def(c)
  <2>1. \E w : Def(w)
    <3> HIDE DEF Def
    <3> QED BY <1>5
  <2> HIDE DEF Def
  <2> QED BY <2>1, Zenon DEF c
<1> HIDE DEF c
<1>8. \A k \in Hops : c[k] = IF k = 0 THEN {} ELSE own \cup Behind(sources, c[k - 1])
  BY <1>7 DEF Behind
<1>9. c \in [Hops -> V]
  <2>1. \A k \in Hops : c[k] \in V
    BY <1>8 DEF Own, Behind
  <2>2. c = [k \in Hops |-> c[k]]
    BY <1>7
  <2> HIDE DEF V, own, Def
  <2> QED BY <2>1, <2>2
<1> HIDE DEF Def, own, V, step
<1>10. c[0] = {}
  BY <1>8, HopsAreNat
<1>11. \A k \in 1..m : c[k] = own \cup Behind(sources, c[k - 1])
  <2>1. \A k \in 1..m : k \in Hops /\ k # 0
    BY <1>2
  <2> QED BY <1>8, <2>1, Zenon
<1> QED BY <1>6, <1>9, <1>10, <1>11, Zenon DEF own, V, m, Surfaces

(***************************************************************************)
(* Where a module leads: to a file.                                        *)
(***************************************************************************)
LEMMA LeadsToFile ==
  ASSUME NEW n \in Names, NEW sources, AreSources(sources), NEW f \in Files, NEW k
  PROVE  Leads(n, f, k, sources) \in Files
<1>1. CASE f \notin DOMAIN sources
  BY <1>1 DEF Leads
<1>2. CASE f \in DOMAIN sources
  <2>1. /\ sources[f].exports \in [Names -> Files \cup {NoFile}]
        /\ sources[f].star \in Files \cup {NoFile}
    BY <1>2 DEF AreSources, Text
  <2>2. sources[f].exports[n] \in Files \cup {NoFile}
    BY <2>1
  <2> QED BY <2>1, <2>2 DEF Leads
<1> QED BY <1>1, <1>2

(***************************************************************************)
(* The module that defines a name, one hop at a time.                      *)
(***************************************************************************)
Hop(n, f, k, sources, g) ==
  IF Leads(n, f, k, sources) = f THEN f ELSE g[Leads(n, f, k, sources)]

Follows(w, n, sources) ==
  /\ w \in [Hops -> [Files -> Files]]
  /\ \A f \in Files : w[0][f] = f
  /\ \A k \in 1..(MaxHops + 1) : \A f \in Files : w[k][f] = Hop(n, f, k, sources, w[k - 1])
  /\ \A f \in Files : DefiningModule(n, f, sources) = w[MaxHops + 1][f]

LEMMA HopIsTyped ==
  ASSUME NEW n \in Names, NEW sources, AreSources(sources), NEW f \in Files, NEW k,
         NEW g \in [Files -> Files]
  PROVE  Hop(n, f, k, sources, g) \in Files
BY LeadsToFile DEF Hop

LEMMA FollowingUnfolds ==
  ASSUME NEW n \in Names, NEW sources, AreSources(sources)
  PROVE  \E w : Follows(w, n, sources)
<1> DEFINE self == [f \in Files |-> f]
           V == [Files -> Files]
           step == [k \in Nat |-> [g \in V |-> [f \in Files |-> Hop(n, f, k, sources, g)]]]
           m == MaxHops + 1
<1>1. self \in V /\ step \in [Nat -> [V -> V]]
  BY HopIsTyped
<1>2. m \in Nat /\ Hops = 0..m
  BY HopsAreNat
<1>3. PICK h : Iterates(h, V, self, step, m)
  <2> HIDE DEF self, V, step, m
  <2> QED BY <1>1, <1>2, IterationExists
<1>4. h \in [0..m -> V] /\ h[0] = self /\ \A k \in 1..m : h[k] = step[k][h[k - 1]]
  BY <1>3, Zenon DEF Iterates
<1>5. ASSUME NEW k \in 1..m PROVE h[k] = [f \in Files |-> Hop(n, f, k, sources, h[k - 1])]
  <2>1. h[k - 1] \in V /\ k \in Nat
    BY <1>2, <1>4
  <2> QED BY <1>4, <2>1
<1> DEFINE Def(w) == w = [k \in Hops |->
                            IF k = 0 THEN [f \in Files |-> f]
                            ELSE [f \in Files |-> IF Leads(n, f, k, sources) = f THEN f
                                                  ELSE w[k - 1][Leads(n, f, k, sources)]]]
           c == CHOOSE w : Def(w)
<1>6. Def(h)
  <2>1. \A k \in Hops : h[k] = IF k = 0 THEN [f \in Files |-> f]
                               ELSE [f \in Files |-> IF Leads(n, f, k, sources) = f THEN f
                                                     ELSE h[k - 1][Leads(n, f, k, sources)]]
    <3>1. ASSUME NEW k \in Hops, k = 0 PROVE h[k] = [f \in Files |-> f]
      BY <1>4, <3>1
    <3>2. ASSUME NEW k \in Hops, k # 0
          PROVE  h[k] = [f \in Files |-> IF Leads(n, f, k, sources) = f THEN f
                                         ELSE h[k - 1][Leads(n, f, k, sources)]]
      <4>1. k \in 1..m
        BY <1>2, <3>2
      <4> QED BY <1>5, <4>1, Zenon DEF Hop
    <3> QED BY <3>1, <3>2, Zenon
  <2> HIDE DEF V, step
  <2> QED BY <1>2, <1>4, <2>1
<1>7. \A f \in Files : DefiningModule(n, f, sources) = c[m][f]
  BY Zenon DEF DefiningModule
<1>8. Def(c)
  <2>1. \E w : Def(w)
    <3> HIDE DEF Def
    <3> QED BY <1>6
  <2> HIDE DEF Def
  <2> QED BY <2>1, Zenon DEF c
<1> HIDE DEF c
<1>9. \A k \in Hops : c[k] = IF k = 0 THEN self
                             ELSE [f \in Files |-> Hop(n, f, k, sources, c[k - 1])]
  BY <1>8 DEF Hop
<1>10. Hops \subseteq {k \in Nat : k \in Hops => c[k] \in V}
  <2> DEFINE S == {k \in Nat : k \in Hops => c[k] \in V}
  <2>1. 0 \in S
    BY <1>1, <1>9
  <2>2. ASSUME NEW k \in Nat, k \in S PROVE k + 1 \in S
    <3>1. CASE k + 1 \in Hops
      <4>1. k \in Hops /\ k + 1 # 0 /\ (k + 1) - 1 = k
        BY <1>2, <3>1
      <4>2. c[k] \in V
        BY <2>2, <4>1
      <4>3. c[k + 1] = [f \in Files |-> Hop(n, f, k + 1, sources, c[k])]
        BY <1>9, <3>1, <4>1
      <4> QED BY <4>2, <4>3, HopIsTyped
    <3> QED BY <3>1
  <2>3. Nat \subseteq S
    <3> HIDE DEF S
    <3> QED BY <2>1, <2>2, ReachesAll
  <2> QED BY <1>2, <2>3
<1>11. c \in [Hops -> V]
  <2>1. c = [k \in Hops |-> c[k]]
    BY <1>8
  <2> HIDE DEF V, Def
  <2> QED BY <1>10, <2>1
<1> HIDE DEF Def
<1>12. \A f \in Files : c[0][f] = f
  BY <1>9, HopsAreNat
<1>13. ASSUME NEW k \in 1..m, NEW f \in Files PROVE c[k][f] = Hop(n, f, k, sources, c[k - 1])
  <2>1. k \in Hops /\ k # 0
    BY <1>2
  <2> QED BY <1>9, <2>1
<1> QED BY <1>7, <1>11, <1>12, <1>13, Zenon DEF m, V, Follows
-----------------------------------------------------------------------------
(* A build that reads fewer files *)

Extends(full, sources) == \A f \in DOMAIN sources : f \in DOMAIN full /\ full[f] = sources[f]

(***************************************************************************)
(* It misses names that are surfaced, and finds none that is not.          *)
(***************************************************************************)
LEMMA ExposesMore ==
  ASSUME NEW n, NEW sources, NEW full, Extends(full, sources), NEW j \in Hops
  PROVE  Exposing(n, j, sources) \subseteq Exposing(n, j, full)
<1> DEFINE m == MaxHops + 1
<1>1. PICK v : Surfaces(v, n, sources)
  BY ExposingUnfolds
<1>2. PICK w : Surfaces(w, n, full)
  BY ExposingUnfolds
<1>3. Own(n, sources) \subseteq Own(n, full)
  BY DEF Own, Extends
<1>4. ASSUME NEW A, NEW B, A \subseteq B PROVE Behind(sources, A) \subseteq Behind(full, B)
  BY <1>4 DEF Behind, Extends
<1> DEFINE S == {k \in Nat : k \in Hops => v[k] \subseteq w[k]}
<1>5. 0 \in S
  BY <1>1, <1>2 DEF Surfaces
<1>6. ASSUME NEW k \in Nat, k \in S PROVE k + 1 \in S
  <2>1. CASE k + 1 \in Hops
    <3>1. k \in Hops /\ k + 1 \in 1..m /\ (k + 1) - 1 = k
      BY <2>1, HopsAreNat
    <3>2. v[k] \subseteq w[k]
      BY <1>6, <3>1
    <3>3. Behind(sources, v[k]) \subseteq Behind(full, w[k])
      BY <3>2, <1>4
    <3>4. /\ v[k + 1] = Own(n, sources) \cup Behind(sources, v[k])
          /\ w[k + 1] = Own(n, full) \cup Behind(full, w[k])
      BY <1>1, <1>2, <3>1 DEF Surfaces
    <3> QED BY <1>3, <3>3, <3>4
  <2> QED BY <2>1
<1>7. Nat \subseteq S
  <2> HIDE DEF S
  <2> QED BY <1>5, <1>6, ReachesAll
<1>8. v[j] \subseteq w[j]
  BY <1>7, HopsAreNat
<1> QED BY <1>1, <1>2, <1>8 DEF Surfaces

(***************************************************************************)
(* Where it ends at a module that has the name, so does the larger build.  *)
(***************************************************************************)
LEMMA FollowsFurther ==
  ASSUME NEW n \in Names, NEW sources, AreSources(sources), NEW full, AreSources(full),
         Extends(full, sources), NEW module \in Files,
         DefiningModule(n, module, sources) \in DOMAIN full,
         n \in full[DefiningModule(n, module, sources)].defs
  PROVE  DefiningModule(n, module, full) = DefiningModule(n, module, sources)
<1> DEFINE m == MaxHops + 1
           Defines(f) == f \in DOMAIN full /\ n \in full[f].defs
<1>1. PICK v : Follows(v, n, sources)
  BY FollowingUnfolds
<1>2. PICK w : Follows(w, n, full)
  BY FollowingUnfolds
<1>3. ASSUME NEW f \in Files, NEW k \in 1..m, Leads(n, f, k, sources) # Leads(n, f, k, full)
      PROVE  Leads(n, f, k, sources) = f /\ ~Defines(f)
  <2>1. CASE f \notin DOMAIN sources
    BY <1>3, <2>1 DEF Leads
  <2>2. CASE f \in DOMAIN sources
    <3>1. f \in DOMAIN full /\ full[f] = sources[f]
      BY <2>2 DEF Extends
    <3>2. Exposing(n, k - 1, sources) \subseteq Exposing(n, k - 1, full)
      <4>1. k - 1 \in Hops
        BY HopsAreNat
      <4> QED BY <4>1, ExposesMore
    <3> QED BY <1>3, <2>2, <3>1, <3>2 DEF Leads
  <2> QED BY <2>1, <2>2
<1> DEFINE Agrees == {k \in Nat : k \in Hops =>
                        \A f \in Files : Defines(v[k][f]) => w[k][f] = v[k][f]}
<1>4. 0 \in Agrees
  BY <1>1, <1>2 DEF Follows
<1>5. ASSUME NEW k \in Nat, k \in Agrees PROVE k + 1 \in Agrees
  <2>1. ASSUME k + 1 \in Hops, NEW f \in Files, Defines(v[k + 1][f])
        PROVE  w[k + 1][f] = v[k + 1][f]
    <3> DEFINE next == Leads(n, f, k + 1, sources)
               more == Leads(n, f, k + 1, full)
    <3>1. k \in Hops /\ k + 1 \in 1..m /\ (k + 1) - 1 = k
      BY <2>1, HopsAreNat
    <3>2. /\ v[k + 1][f] = IF next = f THEN f ELSE v[k][next]
          /\ w[k + 1][f] = IF more = f THEN f ELSE w[k][more]
      BY <1>1, <1>2, <3>1 DEF Follows, Hop
    <3>3. next # more => next = f /\ ~Defines(f)
      BY <1>3, <3>1
    <3>4. next \in Files
      BY LeadsToFile
    <3> HIDE DEF Defines, next, more
    <3>5. next = more
      BY <2>1, <3>2, <3>3
    <3> QED BY <1>5, <2>1, <3>1, <3>2, <3>4, <3>5
  <2> HIDE DEF Defines
  <2> QED BY <2>1
<1>6. Nat \subseteq Agrees
  <2> HIDE DEF Agrees
  <2> QED BY <1>4, <1>5, ReachesAll
<1>7. Defines(v[m][module]) => w[m][module] = v[m][module]
  BY <1>6, HopsAreNat
<1> QED BY <1>1, <1>2, <1>7 DEF Follows
-----------------------------------------------------------------------------
(* What a resolution returns *)

(***************************************************************************)
(* The lowest of a set of files is one of them, and no other sorts before. *)
(***************************************************************************)
LEMMA LowestIsLeast ==
  ASSUME NEW S, S \subseteq Nat, S # {}
  PROVE  Lowest(S) \in S /\ \A f \in S : Lowest(S) <= f
<1>1. PICK x \in S : \A y \in S : ~(<<y, x>> \in OpToRel(<, Nat))
  BY WFMin, NatLessThanWellFounded, Zenon
<1>2. \A y \in Nat : y \in S => ~ (y < x)
  BY <1>1, Zenon DEF OpToRel
<1>3. \A y \in S : x <= y
  BY <1>2
<1> QED BY <1>1, <1>3 DEF Lowest

(***************************************************************************)
(* A call resolves to an edge from its caller, under its name, and to a    *)
(* file that is known to have that name or to no file.                     *)
(***************************************************************************)
LEMMA ResolveIsKnown ==
  ASSUME NEW c \in Files, NEW n \in Names, NEW sources, NEW known
  PROVE  /\ Resolve(c, n, sources, known) \in Edge
         /\ Resolve(c, n, sources, known).from = c
         /\ Resolve(c, n, sources, known).name = n
         /\ Resolve(c, n, sources, known).to \in Files =>
              n \in known[Resolve(c, n, sources, known).to]
<1> DEFINE module == DefiningModule(n, sources[c].imports[n], sources)
           candidates == {f \in Files : n \in known[f]}
           call(to, tier) == [from |-> c, name |-> n, to |-> to, tier |-> tier]
           edge == Resolve(c, n, sources, known)
<1>1. candidates # {} => Lowest(candidates) \in candidates
  BY LowestIsLeast, FilesAssumption DEF FilesAssumption
<1>2. \/ module \in candidates /\ edge = call(module, "import")
      \/ edge = call(External, "external")
      \/ c \in candidates /\ edge = call(c, "same_file")
      \/ candidates # {} /\ edge = call(Lowest(candidates), "name_only")
  BY DEF Resolve
<1>3. \A to \in Files \cup {External}, tier \in Tiers :
         /\ call(to, tier) \in Edge
         /\ call(to, tier).from = c /\ call(to, tier).name = n /\ call(to, tier).to = to
  BY DEF Edge
<1>4. "import" \in Tiers /\ "external" \in Tiers /\ "same_file" \in Tiers /\ "name_only" \in Tiers
  BY DEF Tiers
<1>5. candidates \subseteq Files
  OBVIOUS
<1>6. PICK to \in candidates \cup {External}, tier \in Tiers : edge = call(to, tier)
  <2> HIDE DEF module, edge, candidates, call
  <2> QED BY <1>1, <1>2, <1>4
<1> HIDE DEF module, edge, call
<1>7. edge \in Edge /\ edge.from = c /\ edge.name = n /\ edge.to \in candidates \cup {External}
  BY <1>3, <1>5, <1>6
<1>8. edge.to \in Files => n \in known[edge.to]
  BY <1>7, FilesAssumption DEF FilesAssumption
<1> QED BY <1>7, <1>8 DEF edge

(***************************************************************************)
(* The edges of a build: of its callers, and to a function that a file of  *)
(* the build has in its text and any other in its rows.                    *)
(***************************************************************************)
LEMMA BuildIsKnown ==
  ASSUME NEW callers \in SUBSET Files, NEW sources, NEW seed,
         NEW e \in BuildEdges(callers, sources, seed)
  PROVE  /\ e \in Edge /\ e.from \in callers
         /\ e.to \in Files => e.name \in IF e.to \in DOMAIN sources THEN sources[e.to].defs
                                         ELSE seed[e.to]
<1> DEFINE known == [f \in Files |-> IF f \in DOMAIN sources THEN sources[f].defs ELSE seed[f]]
<1>1. PICK cn \in callers \X Names : e = Resolve(cn[1], cn[2], sources, known)
  BY DEF BuildEdges
<1>2. known = known
  OBVIOUS
<1> HIDE DEF known
<1>3. e \in Edge /\ e.from = cn[1] /\ e.name = cn[2] /\ (e.to \in Files => e.name \in known[e.to])
  BY <1>1, ResolveIsKnown
<1>4. e.to \in Files => known[e.to] = IF e.to \in DOMAIN sources THEN sources[e.to].defs
                                      ELSE seed[e.to]
  BY DEF known
<1> QED BY <1>1, <1>3, <1>4
-----------------------------------------------------------------------------
(* How a call is bound *)

(***************************************************************************)
(* What is true of an edge when it is resolved, and of one that later      *)
(* changes of other files have not made wrong: a name its import does not  *)
(* lead to yet may be bound otherwise.                                     *)
(***************************************************************************)
Candidates(n, known) == {f \in Files : n \in known[f]}

Binds(e, sources, known) ==
  LET module == DefiningModule(e.name, sources[e.from].imports[e.name], sources)
      candidates == Candidates(e.name, known)
  IN  \/ /\ e.tier = "import" /\ sources[e.from].imports[e.name] # NoFile
         /\ module \in candidates /\ e.to = module
      \/ e.tier = "same_file" /\ e.from \in candidates /\ e.to = e.from
      \/ /\ e.tier = "name_only" /\ e.from \notin candidates
         /\ e.to \in candidates /\ \A f \in candidates : e.to <= f
      \/ e.tier = "external" /\ candidates = {} /\ e.to = External

LEMMA ResolveBinds ==
  ASSUME NEW c \in Files, NEW n \in Names, NEW sources, NEW known
  PROVE  Binds(Resolve(c, n, sources, known), sources, known)
<1> DEFINE module == DefiningModule(n, sources[c].imports[n], sources)
           candidates == Candidates(n, known)
           call(to, tier) == [from |-> c, name |-> n, to |-> to, tier |-> tier]
           edge == Resolve(c, n, sources, known)
<1>1. candidates # {} =>
        Lowest(candidates) \in candidates /\ \A f \in candidates : Lowest(candidates) <= f
  BY LowestIsLeast, FilesAssumption DEF FilesAssumption, Candidates
<1>2. \/ sources[c].imports[n] # NoFile /\ module \in candidates /\ edge = call(module, "import")
      \/ candidates = {} /\ edge = call(External, "external")
      \/ c \in candidates /\ edge = call(c, "same_file")
      \/ /\ candidates # {} /\ c \notin candidates
         /\ edge = call(Lowest(candidates), "name_only")
  BY DEF Resolve, Candidates
<1>3. edge.from = c /\ edge.name = n
  BY <1>2
<1> HIDE DEF module, candidates, edge
<1>4. \/ /\ edge.tier = "import" /\ sources[c].imports[n] # NoFile
         /\ module \in candidates /\ edge.to = module
      \/ edge.tier = "same_file" /\ c \in candidates /\ edge.to = c
      \/ /\ edge.tier = "name_only" /\ c \notin candidates
         /\ edge.to \in candidates /\ \A f \in candidates : edge.to <= f
      \/ edge.tier = "external" /\ candidates = {} /\ edge.to = External
  BY <1>1, <1>2
<1> QED BY <1>3, <1>4 DEF Binds, module, candidates, edge

LEMMA BoundIsKnown ==
  ASSUME NEW e, NEW sources, NEW known, Binds(e, sources, known)
  PROVE  e.to \in Files => e.name \in known[e.to]
BY FilesAssumption DEF FilesAssumption, Binds, Candidates

(***************************************************************************)
(* It stays so while its callee keeps the name, and no other file takes it *)
(* that the resolution would have preferred.                               *)
(***************************************************************************)
LEMMA StaysBound ==
  ASSUME NEW e \in Edge, NEW sources, NEW known, NEW other, Binds(e, sources, known),
         e.to \in Files => e.name \in other[e.to],
         \A f \in Files : e.name \in other[f] /\ e.name \notin known[f] =>
           /\ e.tier # "external"
           /\ e.tier = "name_only" => f # e.from /\ e.to <= f
  PROVE  Binds(e, sources, other)
<1> DEFINE module == DefiningModule(e.name, sources[e.from].imports[e.name], sources)
           before == Candidates(e.name, known)
           after == Candidates(e.name, other)
<1>1. /\ \A f \in before : f \in Files
      /\ \A f \in after : f \in Files /\ (f \in before \/ e.name \notin known[f])
      /\ \A f \in Files : e.name \in other[f] <=> f \in after
  BY DEF Candidates
<1>2. \A f \in after : f \notin before => /\ e.tier # "external"
                                          /\ e.tier = "name_only" => f # e.from /\ e.to <= f
  BY <1>1
<1>3. \/ /\ e.tier = "import" /\ sources[e.from].imports[e.name] # NoFile
         /\ module \in before /\ e.to = module
      \/ e.tier = "same_file" /\ e.from \in before /\ e.to = e.from
      \/ /\ e.tier = "name_only" /\ e.from \notin before
         /\ e.to \in before /\ \A f \in before : e.to <= f
      \/ e.tier = "external" /\ before = {} /\ e.to = External
  BY DEF Binds
<1>4. e.to \in before => e.to \in after
  BY <1>1
<1> HIDE DEF module, before, after
<1> DEFINE Imported == /\ e.tier = "import" /\ sources[e.from].imports[e.name] # NoFile
                       /\ module \in after /\ e.to = module
           OwnFile == e.tier = "same_file" /\ e.from \in after /\ e.to = e.from
           ByName == /\ e.tier = "name_only" /\ e.from \notin after
                     /\ e.to \in after /\ \A f \in after : e.to <= f
           Outside == e.tier = "external" /\ after = {} /\ e.to = External
<1>5. CASE e.tier = "import"
  <2>1. Imported
    BY <1>3, <1>4, <1>5
  <2> QED BY <2>1 DEF Binds, module, after
<1>6. CASE e.tier = "same_file"
  <2>1. OwnFile
    BY <1>3, <1>4, <1>6
  <2> QED BY <2>1 DEF Binds, after
<1>7. CASE e.tier = "name_only"
  <2>1. e.from \notin before /\ e.to \in before /\ \A f \in before : e.to <= f
    BY <1>3, <1>7
  <2>2. \A f \in after : e.to <= f /\ f # e.from
    BY <1>2, <1>7, <2>1
  <2>3. ByName
    BY <1>4, <1>7, <2>1, <2>2
  <2> QED BY <2>3 DEF Binds, after
<1>8. CASE e.tier = "external"
  <2>1. before = {} /\ e.to = External
    BY <1>3, <1>8
  <2>2. \A f \in after : f \in before
    BY <1>2, <1>8
  <2>3. Outside
    BY <1>8, <2>1, <2>2
  <2> QED BY <2>3 DEF Binds, after
<1> QED BY <1>3, <1>5, <1>6, <1>7, <1>8

(***************************************************************************)
(* An edge so bound is the one that a build over more files resolves the   *)
(* call to, or stands where that one follows an import.                    *)
(***************************************************************************)
LEMMA BindsAsFar ==
  ASSUME NEW sources, AreSources(sources), NEW full, AreSources(full), Extends(full, sources),
         NEW e \in Edge, e.from \in DOMAIN sources, NEW known,
         known = [f \in Files |-> IF f \in DOMAIN full THEN full[f].defs ELSE {}],
         Binds(e, sources, known)
  PROVE  LET d == Resolve(e.from, e.name, full, known)
         IN  \/ e = d
             \/ /\ d.tier = "import"
                /\ \/ e.tier = "same_file"
                   \/ e.tier = "name_only" /\ e.to <= d.to
<1> DEFINE c == e.from
           n == e.name
           d == Resolve(c, n, full, known)
           candidates == Candidates(n, known)
           near == DefiningModule(n, sources[c].imports[n], sources)
           far == DefiningModule(n, full[c].imports[n], full)
<1>1. c \in Files /\ n \in Names
  BY DEF Edge
<1>2. full[c] = sources[c]
  BY DEF Extends
<1>3. sources[c].imports[n] \in Files \cup {NoFile}
  <2>1. sources[c] \in Text
    BY DEF AreSources
  <2> QED BY <1>1, <2>1 DEF Text
<1>4. \A f \in candidates : f \in DOMAIN full /\ n \in full[f].defs
  BY DEF Candidates
<1>5. ASSUME sources[c].imports[n] # NoFile, near \in candidates
      PROVE  far = near
  <2>1. sources[c].imports[n] \in Files
    BY <1>3, <1>5
  <2> HIDE DEF candidates
  <2> QED BY <1>1, <1>2, <1>4, <1>5, <2>1, FollowsFurther
<1>6. \/ /\ e.tier = "import" /\ sources[c].imports[n] # NoFile
         /\ near \in candidates /\ e.to = near
      \/ e.tier = "same_file" /\ c \in candidates /\ e.to = c
      \/ /\ e.tier = "name_only" /\ c \notin candidates
         /\ e.to \in candidates /\ \A f \in candidates : e.to <= f
      \/ e.tier = "external" /\ candidates = {} /\ e.to = External
  BY DEF Binds
<1>7. /\ d \in Edge /\ d.from = c /\ d.name = n
      /\ Binds(d, full, known)
  BY <1>1, ResolveIsKnown, ResolveBinds
<1>8. full[c].imports[n] # NoFile /\ far \in candidates => d.tier = "import"
  <2> HIDE DEF far
  <2>1. full[c].imports[n] # NoFile /\ far \in candidates =>
          d = [from |-> c, name |-> n, to |-> far, tier |-> "import"]
    BY DEF Resolve, Candidates, far
  <2> QED BY <2>1
<1>9. \/ /\ d.tier = "import" /\ far \in candidates /\ d.to = far
      \/ d.tier = "same_file" /\ c \in candidates /\ d.to = c
      \/ /\ d.tier = "name_only" /\ c \notin candidates
         /\ d.to \in candidates /\ \A f \in candidates : d.to <= f
      \/ d.tier = "external" /\ candidates = {} /\ d.to = External
  BY <1>7 DEF Binds
<1> HIDE DEF d, near, far
<1>10. candidates \subseteq Nat
  BY FilesAssumption DEF FilesAssumption, Candidates
<1> HIDE DEF candidates
<1>11. e.tier = d.tier /\ e.to = d.to => e = d
  <2>1. e = [from |-> e.from, name |-> e.name, to |-> e.to, tier |-> e.tier]
    BY DEF Edge
  <2>2. d = [from |-> d.from, name |-> d.name, to |-> d.to, tier |-> d.tier]
    BY <1>7 DEF Edge
  <2> QED BY <1>7, <2>1, <2>2
<1> DEFINE Goal == \/ e = d
                   \/ /\ d.tier = "import"
                      /\ \/ e.tier = "same_file"
                         \/ e.tier = "name_only" /\ e.to <= d.to
<1>12. ASSUME e.tier = "import" PROVE Goal
  <2>1. sources[c].imports[n] # NoFile /\ near \in candidates /\ e.to = near
    BY <1>6, <1>12
  <2>2. d.tier = "import" /\ d.to = far /\ far = near
    BY <1>2, <1>5, <1>8, <1>9, <2>1
  <2> QED BY <1>11, <1>12, <2>1, <2>2
<1>13. ASSUME e.tier = "same_file" PROVE Goal
  <2>1. c \in candidates /\ e.to = c
    BY <1>6, <1>13
  <2>2. \/ d.tier = "import"
        \/ d.tier = "same_file" /\ d.to = c
    BY <1>9, <2>1
  <2> QED BY <1>11, <1>13, <2>1, <2>2
<1>14. ASSUME e.tier = "name_only" PROVE Goal
  <2>1. e.to \in candidates /\ c \notin candidates /\ \A f \in candidates : e.to <= f
    BY <1>6, <1>14
  <2>2. \/ d.tier = "import" /\ d.to \in candidates
        \/ d.tier = "name_only" /\ d.to \in candidates /\ \A f \in candidates : d.to <= f
    BY <1>9, <2>1
  <2>3. CASE d.tier = "import"
    BY <1>14, <2>1, <2>2, <2>3
  <2>4. CASE d.tier = "name_only"
    <3>1. d.to \in candidates /\ \A f \in candidates : d.to <= f
      BY <2>2, <2>4
    <3>2. e.to \in Nat /\ d.to \in Nat /\ e.to <= d.to /\ d.to <= e.to
      BY <1>10, <2>1, <3>1
    <3>3. d.to = e.to
      BY <3>2
    <3> QED BY <1>11, <1>14, <2>4, <3>3
  <2> QED BY <2>2, <2>3, <2>4
<1>15. ASSUME e.tier = "external" PROVE Goal
  <2>1. candidates = {} /\ e.to = External
    BY <1>6, <1>15
  <2>2. d.tier = "external" /\ d.to = External
    BY <1>9, <2>1
  <2> QED BY <1>11, <1>15, <2>1, <2>2
<1>16. Goal
  <2>1. e.tier \in {"import", "same_file", "name_only", "external"}
    BY DEF Edge, Tiers
  <2> HIDE DEF Goal
  <2> QED BY <1>12, <1>13, <1>14, <1>15, <2>1
<1> QED BY <1>16, Zenon DEF d, c, n

(***************************************************************************)
(* The edges of a caller in a build: one for each name it calls, and bound *)
(* as above.                                                               *)
(***************************************************************************)
KnownBy(sources, seed) ==
  [f \in Files |-> IF f \in DOMAIN sources THEN sources[f].defs ELSE seed[f]]
From(c, build) == {e \in build : e.from = c}

BoundAs(mine, c, sources, known) ==
  /\ \A n \in sources[c].calls : Resolve(c, n, sources, known) \in mine
  /\ \A e \in mine : e = Resolve(c, e.name, sources, known) /\ Binds(e, sources, known)
  /\ {e.name : e \in mine} = sources[c].calls

LEMMA BuildBinds ==
  ASSUME NEW callers \in SUBSET Files, NEW sources, AreSources(sources),
         callers \subseteq DOMAIN sources, NEW seed, NEW c \in callers
  PROVE  BoundAs(From(c, BuildEdges(callers, sources, seed)), c, sources, KnownBy(sources, seed))
<1> DEFINE known == KnownBy(sources, seed)
           mine == From(c, BuildEdges(callers, sources, seed))
           build == BuildEdges(callers, sources, seed)
           pairs == {p \in callers \X Names : p[2] \in sources[p[1]].calls}
<1>1. build = {Resolve(cn[1], cn[2], sources, known) : cn \in pairs}
  BY DEF BuildEdges, KnownBy
<1>2. sources[c].calls \subseteq Names /\ c \in Files
  BY DEF AreSources, Text
<1>3. mine = {e \in build : e.from = c}
  BY DEF From
<1> HIDE DEF build, mine, known
<1>4. ASSUME NEW n \in sources[c].calls
      PROVE  Resolve(c, n, sources, known) \in mine /\ Resolve(c, n, sources, known).name = n
  <2>1. <<c, n>> \in pairs
    BY <1>2
  <2> HIDE DEF pairs
  <2>2. Resolve(<<c, n>>[1], <<c, n>>[2], sources, known) \in build
    BY <1>1, <2>1
  <2>3. Resolve(c, n, sources, known).from = c /\ Resolve(c, n, sources, known).name = n
    BY <1>2, ResolveIsKnown
  <2> QED BY <1>3, <2>2, <2>3
<1>5. ASSUME NEW e \in mine
      PROVE  /\ e.name \in sources[c].calls /\ e = Resolve(c, e.name, sources, known)
             /\ Binds(e, sources, known)
  <2>1. PICK cn \in pairs : e = Resolve(cn[1], cn[2], sources, known)
    BY <1>1, <1>3
  <2>2. cn[1] \in Files /\ cn[2] \in Names /\ cn[2] \in sources[cn[1]].calls
    BY <2>1
  <2>3. e.from = cn[1] /\ e.name = cn[2]
    BY <2>1, <2>2, ResolveIsKnown
  <2>4. e.from = c
    BY <1>3
  <2>5. e.name \in sources[c].calls /\ e.name \in Names /\ e = Resolve(c, e.name, sources, known)
    BY <2>1, <2>2, <2>3, <2>4
  <2>6. Binds(Resolve(c, e.name, sources, known), sources, known)
    BY <1>2, <2>5, ResolveBinds
  <2> QED BY <2>5, <2>6
<1> HIDE DEF pairs
<1>6. {e.name : e \in mine} = sources[c].calls
  <2>1. ASSUME NEW n \in sources[c].calls PROVE n \in {e.name : e \in mine}
    BY <1>4
  <2>2. {e.name : e \in mine} \subseteq sources[c].calls
    BY <1>5
  <2> QED BY <2>1, <2>2
<1> QED BY <1>4, <1>5, <1>6 DEF BoundAs, mine, known
=============================================================================
