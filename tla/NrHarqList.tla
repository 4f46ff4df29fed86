----------------------------- MODULE NrHarqList -----------------------------
(* Lists of HARQ processes as sequences.  NrList has the linked lists in     *)
(* which the code keeps them.                                                *)
EXTENDS Integers, Sequences, FiniteSets

Entries(l) == {l[i] : i \in 1 .. Len(l)}

(* add_tail_nr_list; remove_front_nr_list is Tail *)
AddTail(l, p) == Append(l, p)

(* remove_nr_list, of an entry or of none *)
Without(l, p) ==
  IF p \in Entries(l)
  THEN LET k == CHOOSE k \in 1 .. Len(l) : l[k] = p
       IN SubSeq(l, 1, k - 1) \o SubSeq(l, k + 1, Len(l))
  ELSE l

(* The lists of all processes, each added to the tail: lowest number first *)
FullLists(S) ==
  {l \in [1 .. Cardinality(S) -> S] : Entries(l) = S /\ \A i, j \in DOMAIN l : i < j => l[i] < l[j]}

(* Each of S is in exactly one of three lists, once *)
Distinct(l) == \A i, j \in 1 .. Len(l) : l[i] = l[j] => i = j
Partition(a, f, r, S) ==
  LET inA == Entries(a)
      inF == Entries(f)
      inR == Entries(r)
  IN /\ Distinct(a) /\ Distinct(f) /\ Distinct(r)
     /\ inA \cap inF = {} /\ inA \cap inR = {} /\ inF \cap inR = {}
     /\ inA \cup inF \cup inR = S
=============================================================================
