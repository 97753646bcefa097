-------------------------- MODULE MCSkillExposure --------------------------
(* Instance of SkillExposure: an operation that retires the skill, with a   *)
(* job that may be tried twice.                                             *)
EXTENDS SkillExposure, TLC

CONSTANTS o1, d1, k1, k2, c1, c2, r1

MCTarget == [o \in Ops |-> "archived"]
MCOpOf == [d \in Jobs |-> o1]

\* Calls and curation handlers that differ in nothing but their names.
AnyOrder == Permutations(Calls) \cup Permutations(Curators)
=============================================================================
