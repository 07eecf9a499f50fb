-------------------------------- MODULE Sums --------------------------------
(* The sum of a sequence of integers, as a recursive function, so that     *)
(* SumsProofs can prove facts about it; and the community module whose     *)
(* FlattenSeq joins the sequences of a sequence.                           *)
EXTENDS Integers, Sequences

SX == INSTANCE SequencesExt

SumSeq(s) ==
  LET sum[i \in 0..Len(s)] == IF i = 0 THEN 0 ELSE sum[i - 1] + s[i]
  IN  sum[Len(s)]
=============================================================================
