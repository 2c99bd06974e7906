------------------------------ MODULE ListSeqs ------------------------------
(***************************************************************************)
(* The notions about sequences that several modules share: no repetition   *)
(* and removal in place for the list, its deque specification and the      *)
(* element manager, sums for the properties of the queues and files.       *)
(***************************************************************************)
EXTENDS Integers, SequencesExt

\* No element occurs twice.
IsInjectiveSeq(s) == \A i, j \in 1..Len(s) : s[i] = s[j] => i = j

\* The sequence s with x taken out in place; s itself when x is not in it.
Without(s, x) ==
  IF \E i \in 1..Len(s) : s[i] = x
  THEN RemoveAt(s, CHOOSE i \in 1..Len(s) : s[i] = x)
  ELSE s

\* The sum of a sequence of numbers.
SumSeq(s) ==
  LET upto[i \in 0..Len(s)] == IF i = 0 THEN 0 ELSE upto[i - 1] + s[i]
  IN upto[Len(s)]
=============================================================================
