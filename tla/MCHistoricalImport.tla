-------------------------- MODULE MCHistoricalImport --------------------------
(* Instance of HistoricalImport: a file of one line that grows by another,   *)
(* imported by two at once.                                                  *)
EXTENDS HistoricalImport, TLC

CONSTANTS i1, i2

\* The line that is there from the beginning
MCFollowed == {<<1, 1>>}

ImporterSymmetry == Permutations(Importers)
=============================================================================
