-------------------------------- MODULE Lists -------------------------------
(* Insertion into a sequence, sums and selections as recursive functions.    *)
EXTENDS Integers, Sequences

(* The sequence with e after its first n elements.                           *)
InsertAfter(s, n, e) ==
  [i \in 1 .. Len(s) + 1 |-> IF i <= n THEN s[i] ELSE IF i = n + 1 THEN e ELSE s[i - 1]]

(* The sum of the first n numbers of s, for every n                          *)
SumsOf(s) == LET sums[n \in 0 .. Len(s)] == IF n = 0 THEN 0 ELSE sums[n - 1] + s[n] IN sums
Total(s) == SumsOf(s)[Len(s)]

(* What is in S of the first n elements of s, in order, for every n          *)
KeptOf(s, S) ==
  LET kept[n \in 0 .. Len(s)] == IF n = 0 THEN <<>>
                                 ELSE IF s[n] \in S THEN Append(kept[n - 1], s[n]) ELSE kept[n - 1]
  IN kept
Keep(s, S) == KeptOf(s, S)[Len(s)]
=============================================================================
