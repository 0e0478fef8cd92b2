----------------------------- MODULE MCChunking -----------------------------
(***************************************************************************)
(* Chunking with a word of 32 numbers in place of 2^32: limits below, at   *)
(* and above every threshold of the code, and lengths up to the word.      *)
(***************************************************************************)
EXTENDS Chunking, FiniteSets

MCLengths    == 0 .. 33
MCByteLimits == {-1, 0, 3, 6, 7, 8, 11, 20, 32, 40}
MCLimitSets  == {L \in SUBSET MCByteLimits : Cardinality(L) <= 2}
MCGivenSizes == {0, 2, 3, 9}
=============================================================================
