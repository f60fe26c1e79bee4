----------------------------- MODULE MCAnalyzer -----------------------------
(* Instance for TLC: a root with every set of marker files, and every tree *)
(* of four directories with a package.json each, of which the root's and   *)
(* the others' shipzen.yaml may be invalid and any may be skipped.         *)
EXTENDS Analyzer

CONSTANTS a, b, c

Roots == [up : {[d \in Dirs |-> Root]},
          files : {[d \in Dirs |-> IF d = Root THEN f ELSE {}] : f \in SUBSET Markers},
          config : {[d \in Dirs |-> IF d = Root THEN x ELSE "none"] :
                       x \in {"none", "auto", "static"}},
          skipped : {{a, b, c}}]

Parents == {up \in [Dirs -> Dirs] : up[Root] = Root /\ up[a] = Root /\ up[b] \in {Root, a}
                                    /\ up[c] \in {Root, a, b}}

Trees == [up : Parents,
          files : {[d \in Dirs |-> {"package.json"}]},
          config : [Dirs -> {"none", "invalid"}],
          skipped : SUBSET {a, b, c}]

RootsAndTrees == Roots \cup Trees
=============================================================================
