--------------------------- MODULE MCSkillWriter ---------------------------
(* Instances of SkillWriter: two or three successive versions of a skill    *)
(* and the filesystem worker at its default concurrency of one, with a      *)
(* place for the task that a renewal leaves behind.                         *)
EXTENDS SkillWriter, TLC

CONSTANTS v1, v2, v3, w1, w2

AnyOrder == Permutations(Txs) \cup Permutations(Slots)
=============================================================================
