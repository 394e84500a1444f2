---------------------------- MODULE MCIisNames ------------------------------
(* IisNames for TLC: up to four rows of three sites.                         *)
EXTENDS IisNames, SequencesExt

IisInputs ==
  {SetToSeq(S) : S \in {T \in SUBSET [site : 1..3, n : 0..2] : Cardinality(T) \in 0..4}}
=============================================================================
