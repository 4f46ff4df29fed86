------------------------------- MODULE NrList -------------------------------
(* NR_list_t: a list of small numbers linked through an array, with a head   *)
(* and a tail, as the HARQ lists are kept in.  NrHarqList's sequences are    *)
(* what it stands for.                                                       *)
EXTENDS NrHarqList

CONSTANT MaxLen   \* bound: len, the numbers are below it

VARIABLE list     \* head, tail and next, whose domain has len elements

Nil == -1
Numbers == 0 .. MaxLen - 1

(* create_nr_list *)
CreateNrList(len) == [head |-> Nil, tail |-> Nil, next |-> [i \in 0 .. len - 1 |-> Nil]]

ListInit == list = CreateNrList(MaxLen - 1)

(* What a walk from the head meets, up to one more than there can be *)
Contents(l) ==
  LET len == Cardinality(DOMAIN l.next)
      met[k \in 0 .. len + 1] ==
        IF k = 0 THEN l.head ELSE IF met[k - 1] = Nil THEN Nil ELSE l.next[met[k - 1]]
      n == CHOOSE n \in 0 .. len + 1 :
             /\ met[n] = Nil \/ n = len + 1
             /\ \A k \in 0 .. n - 1 : met[k] # Nil
  IN [i \in 1 .. n |-> met[i - 1]]

-----------------------------------------------------------------------------
AddTailNrList(l, id) ==
  LET linked == IF l.tail < 0 THEN [l EXCEPT !.head = id] ELSE [l EXCEPT !.next[l.tail] = id]
  IN [linked EXCEPT !.next[id] = Nil, !.tail = id]

AddFrontNrList(l, id) ==
  [l EXCEPT !.head = id, !.next[id] = l.head, !.tail = IF @ < 0 THEN id ELSE @]

(* add_nr_list links behind the last one met *)
AddNrList(l, id) ==
  LET met == Contents(l)
      linked == IF met = <<>> THEN [l EXCEPT !.head = id] ELSE [l EXCEPT !.next[met[Len(met)]] = id]
  IN IF linked.next[id] < 0 THEN [linked EXCEPT !.tail = id] ELSE linked

RemoveFrontNrList(l) ==
  LET cut == [l EXCEPT !.head = l.next[l.head], !.next[l.head] = Nil]
  IN IF cut.head < 0 THEN [cut EXCEPT !.tail = Nil] ELSE cut

(* Bug: the tail is not moved when the last one is removed.                  *)
RemoveNrListAsKeepsTail(l, id) ==
  LET met == Contents(l)
      k == CHOOSE k \in DOMAIN met : met[k] = id
      cut == IF k = 1 THEN [l EXCEPT !.head = l.next[id], !.next[id] = Nil]
             ELSE [l EXCEPT !.next[met[k - 1]] = l.next[id], !.next[id] = Nil]
  IN IF cut.head < 0 THEN [cut EXCEPT !.tail = Nil] ELSE cut

(* remove_nr_list: *prev is the new head if the head was removed, else the   *)
(* one in front                                                              *)
RemoveNrList(l, id) ==
  LET met == Contents(l)
      k == CHOOSE k \in DOMAIN met : met[k] = id
      cut == IF k = 1 THEN [l EXCEPT !.head = l.next[id], !.next[id] = Nil]
             ELSE [l EXCEPT !.next[met[k - 1]] = l.next[id], !.next[id] = Nil]
      prev == IF k = 1 THEN cut.head ELSE met[k - 1]
  IN IF prev >= 0 /\ cut.next[prev] >= 0 THEN cut ELSE [cut EXCEPT !.tail = prev]

ResizeNrList(l, len) ==
  [l EXCEPT !.next = [i \in 0 .. len - 1 |-> IF i \in DOMAIN l.next THEN l.next[i] ELSE Nil]]

-----------------------------------------------------------------------------
(* The calls the code may make: it adds what is not in the list, but Msg4,   *)
(* the only entry, again while it is in the list; it removes what is there.  *)
Known(id) == id \in DOMAIN list.next
CallAddTail(id) ==
  /\ Known(id) /\ (id \notin Entries(Contents(list)) \/ Contents(list) = <<id>>)
  /\ list' = AddTailNrList(list, id)
CallAddFront(id) ==
  /\ Known(id) /\ id \notin Entries(Contents(list))
  /\ list' = AddFrontNrList(list, id)
CallAdd(id) ==
  /\ Known(id) /\ id \notin Entries(Contents(list))
  /\ list' = AddNrList(list, id)
CallRemoveFront == list.head >= 0 /\ list' = RemoveFrontNrList(list)
CallRemove(id) == id \in Entries(Contents(list)) /\ list' = RemoveNrList(list, id)
CallResize(len) ==
  /\ list.head < len /\ list.tail < len /\ \A i \in DOMAIN list.next : list.next[i] < len
  /\ list' = ResizeNrList(list, len)

ListNext ==
  \/ \E id \in Numbers : CallAddTail(id) \/ CallAddFront(id) \/ CallAdd(id) \/ CallRemove(id)
  \/ CallRemoveFront
  \/ \E len \in 1 .. MaxLen : CallResize(len)

-----------------------------------------------------------------------------
(* Whatever the calls before it, each function does to the list what its     *)
(* comment says of a sequence ("Add an ID to the tail", "Remove an ID from   *)
(* the front"): a head, a tail or a link left wrong by one call would show   *)
(* at a later one.                                                           *)
ListIsSequence ==
  [][ list' # list =>
        LET old == Contents(list)
            new == Contents(list')
        IN /\ \A id \in Numbers :
                /\ CallAddTail(id) => new = AddTail(Without(old, id), id)
                /\ CallAdd(id) => new = AddTail(old, id)
                /\ CallAddFront(id) => new = <<id>> \o old
                /\ CallRemove(id) => new = Without(old, id)
           /\ CallRemoveFront => new = Tail(old)
           /\ (\E len \in 1 .. MaxLen : CallResize(len)) => new = old ]_list
=============================================================================
