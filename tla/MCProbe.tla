------------------------------ MODULE MCProbe ------------------------------
(* Instances of Probe for TLC: two volumes, two directories that can lie in *)
(* one another and one file, so a file can lie below the depth cap, beside  *)
(* a cache, under a closed directory or be moved past the walk.             *)
EXTENDS Probe, TLC

CONSTANTS va, vb, d1, d2, f1

NamesOf3 == [n \in {d1, d2, f1} |->
                CASE n = d1 -> {"cache", "plain"}
                  [] n = d2 -> {"plain"}
                  [] n = f1 -> {"plain", "mark", "noise"}]

(* The volumes are alike: nothing chooses between them. *)
Symmetry == Permutations(Volumes)
=============================================================================
