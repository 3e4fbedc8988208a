------------------------------ MODULE CallGraph -------------------------------
(***************************************************************************)
(* How the call graph is resolved: the import map of one build             *)
(* (src/core/analyzer/import-resolver-bridge.ts), the tiers of             *)
(* CallGraphBuilder.build (src/core/analyzer/call-graph.ts) and the        *)
(* candidates in id order (function-registry-trie.ts).  A build over every *)
(* file is what `analyze --force` does; a build over one changed file and  *)
(* some of its callers is what the watcher does.                           *)
(*                                                                         *)
(* Ids sort as their files do, so a file is a number.  Calls are bare      *)
(* names: the tiers that look at a receiver or an enclosing class are left *)
(* out.  Every function is exported under its own name.                    *)
(*                                                                         *)
(* A definition named Mutant... is no part of the specification: it is a   *)
(* plausible bug in the definition after it, which some property refutes.  *)
(***************************************************************************)
EXTENDS Naturals, FiniteSets

CONSTANTS Files,      (* source files, numbered in the order of their paths *)
          Names,      (* function names                                     *)
          External,   (* the callee of a call that nothing in the tree has  *)
          NoFile,     (* no import, no re-export                            *)
          MaxHops     (* REEXPORT_MAX_DEPTH: re-exports followed in a row   *)

ASSUME FilesAssumption == /\ Files \subseteq Nat
                          /\ IsFiniteSet(Files)
                          /\ External \notin Files
                          /\ NoFile \notin Files
ASSUME HopsAssumption == MaxHops \in Nat

(***************************************************************************)
(* A file's text: the names it defines, the bare names its functions call, *)
(* where it imports a name from, `export {n} from` and `export * from`.    *)
(***************************************************************************)
Text == [defs : SUBSET Names, calls : SUBSET Names,
         imports : [Names -> Files \cup {NoFile}],
         exports : [Names -> Files \cup {NoFile}],
         star : Files \cup {NoFile}]

Tiers == {"import", "same_file", "name_only", "external"}

Edge == [from : Files, name : Names, to : Files \cup {External}, tier : Tiers]

Lowest(S) == CHOOSE f \in S : \A g \in S : f <= g

(* How many modules of a chain are still looked at, the current one included. *)
Hops == 0 .. MaxHops + 1

(***************************************************************************)
(* starExposes: the modules of the build that surface n, themselves or     *)
(* through `export *`.  Only modules of the build have parsed exports:     *)
(* sources is a function on them.                                          *)
(***************************************************************************)
Exposing(n, hops, sources) ==
  LET own == {f \in DOMAIN sources : n \in sources[f].defs \/ sources[f].exports[n] # NoFile}
      within[k \in Hops] ==
        IF k = 0 THEN {}
        ELSE own \cup {f \in DOMAIN sources : /\ sources[f].star # NoFile
                                              /\ sources[f].star \in within[k - 1]}
  IN  within[hops]

(***************************************************************************)
(* resolveDef: the module that defines n, through re-exports.  A module    *)
(* outside the build is taken to define what is imported from it.  (In a   *)
(* cycle no module defines n, so it does not matter where it is left.)     *)
(***************************************************************************)
Leads(n, f, hops, sources) ==
  IF f \notin DOMAIN sources \/ n \in sources[f].defs THEN f
  ELSE IF sources[f].exports[n] # NoFile THEN sources[f].exports[n]
  ELSE IF sources[f].star # NoFile /\ sources[f].star \in Exposing(n, hops - 1, sources)
       THEN sources[f].star
  ELSE f

DefiningModule(n, module, sources) ==
  LET follow[k \in Hops] ==
        IF k = 0 THEN [f \in Files |-> f]
        ELSE [f \in Files |-> IF Leads(n, f, k, sources) = f THEN f
                              ELSE follow[k - 1][Leads(n, f, k, sources)]]
  IN  follow[MaxHops + 1][module]

(***************************************************************************)
(* Strategies 3 and 4 of the resolution: an import wins if its module has  *)
(* the name, then the caller's own file, then the candidate with the       *)
(* lowest id; with no candidate the callee is external.  known gives the   *)
(* names of every file: parsed in this build, or seeded from the store.    *)
(***************************************************************************)
Resolve(c, n, sources, known) ==
  LET module == DefiningModule(n, sources[c].imports[n], sources)
      candidates == {f \in Files : n \in known[f]}
      call(to, tier) == [from |-> c, name |-> n, to |-> to, tier |-> tier]
  IN  IF sources[c].imports[n] # NoFile /\ module \in candidates
      THEN call(module, "import")
      ELSE IF candidates = {} THEN call(External, "external")
      ELSE IF c \in candidates THEN call(c, "same_file")
      ELSE call(Lowest(candidates), "name_only")

(***************************************************************************)
(* One build.  The files it parses speak for themselves; a file outside it *)
(* is known by the rows the store has (resolutionNodes).                   *)
(***************************************************************************)
BuildEdges(callers, sources, seed) ==
  LET known == [f \in Files |-> IF f \in DOMAIN sources THEN sources[f].defs
                                ELSE seed[f]]
  IN  {Resolve(cn[1], cn[2], sources, known) :
         cn \in {p \in callers \X Names : p[2] \in sources[p[1]].calls}}

(***************************************************************************)
(* collectReExportBarrels: the re-exporting modules reachable from the     *)
(* seeds along imports and re-exports.  The leaf of a chain is not taken.  *)
(***************************************************************************)
ReExports(text) == text.star # NoFile \/ \E n \in Names : text.exports[n] # NoFile
Mentions(text) == ({text.imports[n] : n \in Names} \cup {text.exports[n] : n \in Names}
                     \cup {text.star}) \ {NoFile}

Barrels(seeds, sources) ==
  LET barrels == {b \in DOMAIN sources \ seeds : ReExports(sources[b])}
      reached[k \in Hops] ==
        IF k = 0 THEN seeds
        ELSE reached[k - 1] \cup (barrels \cap UNION {Mentions(sources[f]) : f \in reached[k - 1]})
  IN  barrels \cap reached[MaxHops + 1]

FullEdges(sources) == BuildEdges(DOMAIN sources, sources, [f \in Files |-> {}])
=============================================================================
