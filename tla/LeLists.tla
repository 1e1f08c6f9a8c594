------------------------------ MODULE LeLists ------------------------------
(***************************************************************************)
(* The loops of the LE tools that go through a list and keep some of it.   *)
(***************************************************************************)
EXTENDS Integers, Sequences

\* The elements of a list at the positions of a set, in order.
Chosen(list, positions) ==
  LET chosen[i \in 0..Len(list)] ==
        IF i = 0 THEN <<>>
        ELSE IF i \in positions THEN Append(chosen[i - 1], list[i])
        ELSE chosen[i - 1]
  IN  chosen[Len(list)]

\* The sum of a list of numbers.
Summed(numbers) ==
  LET sum[i \in 0..Len(numbers)] == IF i = 0 THEN 0 ELSE sum[i - 1] + numbers[i]
  IN  sum[Len(numbers)]
=============================================================================
