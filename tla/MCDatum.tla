------------------------------ MODULE MCDatum ------------------------------
(* Datum for TLC: a guard of each kind, and a second one to move into where   *)
(* a guard of that kind can be moved.                                         *)
EXTENDS Datum, TLC

CONSTANTS g1, g2, g3, g4, g5

MCGuardKind == [g \in Guards |->
                  CASE g \in {g1, g2} -> "sentinel" [] g \in {g3, g4} -> "flag"
                    [] g = g5 -> "ref"]

\* Datums are all alike, and so are pages, blocks and the guards of one kind.
Symmetry == Permutations(Datums) \union Permutations(Blocks)
              \union Permutations(Pages) \union Permutations({g1, g2})
              \union Permutations({g3, g4})
=============================================================================
