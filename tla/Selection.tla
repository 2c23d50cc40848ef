----------------------------- MODULE Selection -----------------------------
(* What a loop or a comprehension with a condition takes from a list.  It is *)
(* SelectSeq with a set for the test, written as a recursive function so     *)
(* that proofs can unfold it.                                                *)
EXTENDS Integers, Sequences

\* The elements of s that are in S, in their order.
Only(s, S) ==
  LET only[i \in 0 .. Len(s)] ==
        IF i = 0 THEN <<>>
        ELSE IF s[i] \in S THEN Append(only[i - 1], s[i]) ELSE only[i - 1]
  IN only[Len(s)]
=============================================================================
