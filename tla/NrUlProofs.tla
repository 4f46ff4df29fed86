----------------------------- MODULE NrUlProofs -----------------------------
(* What taking the head of a list, adding to its tail and joining lists do   *)
(* to the HARQ processes in them; the uplink HARQ lists of a UE and its      *)
(* blocks, for any set of HARQ processes.                                    *)
EXTENDS NrUlHarq, TLAPS

(* What setting one entry, taking the head and adding to the tail do.        *)
LEMMA ExceptFacts ==
  ASSUME NEW S, NEW T, NEW f \in [S -> T], NEW x \in S, NEW v \in T, NEW g, g = [f EXCEPT ![x] = v]
  PROVE  g \in [S -> T] /\ g[x] = v /\ \A y \in S \ {x} : g[y] = f[y]
OBVIOUS

LEMMA TailFacts ==
  ASSUME NEW S, NEW s \in Seq(S), s # <<>>
  PROVE  /\ Head(s) = s[1] /\ Head(s) \in S /\ Tail(s) \in Seq(S)
         /\ Len(s) \in Nat \ {0} /\ Len(Tail(s)) = Len(s) - 1
         /\ \A m \in 1 .. Len(Tail(s)) : m + 1 \in 1 .. Len(s) /\ Tail(s)[m] = s[m + 1]
OBVIOUS

LEMMA AppendFacts ==
  ASSUME NEW T, NEW s \in Seq(T), NEW x \in T
  PROVE  /\ Append(s, x) \in Seq(T) /\ Len(s) \in Nat /\ Len(Append(s, x)) = Len(s) + 1
         /\ \A n \in 1 .. Len(s) : Append(s, x)[n] = s[n]
         /\ Append(s, x)[Len(s) + 1] = x
OBVIOUS

-----------------------------------------------------------------------------
(* Taking the head out of a list without repetition.                         *)
LEMMA HeadOut ==
  ASSUME NEW S, NEW l \in Seq(S), l # <<>>, Distinct(l)
  PROVE  /\ Tail(l) \in Seq(S) /\ Distinct(Tail(l))
         /\ Head(l) \in S /\ Head(l) \in Entries(l)
         /\ Entries(Tail(l)) = Entries(l) \ {Head(l)}
<1>1. /\ Len(l) \in Nat /\ Len(l) >= 1 /\ Head(l) = l[1]
      /\ Tail(l) \in Seq(S) /\ Len(Tail(l)) = Len(l) - 1
      /\ \A i \in 1 .. Len(l) - 1 : Tail(l)[i] = l[i + 1]
  OBVIOUS
<1>2. Distinct(Tail(l))
  BY <1>1 DEF Distinct
<1>3. Head(l) \in Entries(l)
  BY <1>1 DEF Entries
<1>4. ASSUME NEW p \in Entries(Tail(l)) PROVE p \in Entries(l) \ {Head(l)}
  <2>1. PICK i \in 1 .. Len(l) - 1 : p = l[i + 1]
    BY <1>1 DEF Entries
  <2>2. i + 1 \in 1 .. Len(l) /\ i + 1 # 1
    BY <1>1
  <2> QED
    BY <1>1, <2>1, <2>2 DEF Entries, Distinct
<1>5. ASSUME NEW p \in Entries(l), p # Head(l) PROVE p \in Entries(Tail(l))
  <2>1. PICK i \in 1 .. Len(l) : p = l[i]
    BY DEF Entries
  <2>2. i # 1 /\ i - 1 \in 1 .. Len(l) - 1 /\ (i - 1) + 1 = i
    BY <1>1, <1>5, <2>1
  <2>3. Tail(l)[i - 1] = l[i]
    BY <1>1, <2>2
  <2> QED
    BY <1>1, <2>1, <2>2, <2>3 DEF Entries
<1>6. Head(l) \in S
  BY <1>1
<1> QED
  BY <1>1, <1>2, <1>3, <1>4, <1>5, <1>6

(* Adding to the tail what is not in the list.                               *)
LEMMA TailIn ==
  ASSUME NEW S, NEW l \in Seq(S), Distinct(l), NEW p \in S, p \notin Entries(l)
  PROVE  /\ AddTail(l, p) \in Seq(S) /\ Distinct(AddTail(l, p))
         /\ Entries(AddTail(l, p)) = Entries(l) \cup {p}
<1> DEFINE m == Append(l, p)
<1>1. /\ Len(l) \in Nat /\ m \in Seq(S) /\ Len(m) = Len(l) + 1
      /\ m[Len(l) + 1] = p /\ \A i \in 1 .. Len(l) : m[i] = l[i]
  OBVIOUS
<1> HIDE DEF m
<1>2. \A i \in 1 .. Len(l) : l[i] # p
  BY DEF Entries
<1>3. Distinct(m)
  BY <1>1, <1>2 DEF Distinct
<1>4. ASSUME NEW q \in Entries(m) PROVE q \in Entries(l) \cup {p}
  <2>1. PICK i \in 1 .. Len(l) + 1 : q = m[i]
    BY <1>1 DEF Entries
  <2>2. i = Len(l) + 1 \/ i \in 1 .. Len(l)
    BY <1>1
  <2> QED
    BY <1>1, <2>1, <2>2 DEF Entries
<1>5. ASSUME NEW q \in Entries(l) PROVE q \in Entries(m)
  <2>1. PICK i \in 1 .. Len(l) : q = l[i]
    BY DEF Entries
  <2>2. i \in 1 .. Len(m) /\ m[i] = q
    BY <1>1, <2>1
  <2> QED
    BY <2>2 DEF Entries
<1>6. p \in Entries(m)
  BY <1>1 DEF Entries
<1> QED
  BY <1>1, <1>3, <1>4, <1>5, <1>6 DEF AddTail, m

(* Joining two lists that have nothing in common.                            *)
LEMMA Joined ==
  ASSUME NEW S, NEW a \in Seq(S), NEW b \in Seq(S), Distinct(a), Distinct(b),
         Entries(a) \cap Entries(b) = {}
  PROVE  /\ a \o b \in Seq(S) /\ Distinct(a \o b)
         /\ Entries(a \o b) = Entries(a) \cup Entries(b)
<1> DEFINE m == a \o b
<1>1. /\ Len(a) \in Nat /\ Len(b) \in Nat /\ m \in Seq(S) /\ Len(m) = Len(a) + Len(b)
      /\ \A i \in 1 .. Len(a) + Len(b) : m[i] = IF i <= Len(a) THEN a[i] ELSE b[i - Len(a)]
  OBVIOUS
<1> HIDE DEF m
<1>2. /\ \A i \in 1 .. Len(a) : m[i] = a[i] /\ i \in 1 .. Len(m)
      /\ \A i \in 1 .. Len(b) : m[Len(a) + i] = b[i] /\ Len(a) + i \in 1 .. Len(m)
  <2>1. ASSUME NEW i \in 1 .. Len(a) PROVE m[i] = a[i] /\ i \in 1 .. Len(m)
    <3>1. i \in 1 .. Len(a) + Len(b) /\ i <= Len(a)
      BY <1>1
    <3> QED
      BY <1>1, <3>1
  <2>2. ASSUME NEW i \in 1 .. Len(b) PROVE m[Len(a) + i] = b[i] /\ Len(a) + i \in 1 .. Len(m)
    <3>1. /\ Len(a) + i \in 1 .. Len(a) + Len(b) /\ ~(Len(a) + i <= Len(a))
          /\ (Len(a) + i) - Len(a) = i
      BY <1>1
    <3> QED
      BY <1>1, <3>1
  <2> QED
    BY <2>1, <2>2
<1>3. \A i \in 1 .. Len(m) : i \in 1 .. Len(a) \/ \E j \in 1 .. Len(b) : i = Len(a) + j
  <2> TAKE i \in 1 .. Len(m)
  <2>1. CASE i > Len(a)
    <3>1. i - Len(a) \in 1 .. Len(b) /\ i = Len(a) + (i - Len(a))
      BY <1>1, <2>1
    <3> QED
      BY <3>1, Zenon
  <2> QED
    BY <1>1, <2>1
<1>4. \A i \in 1 .. Len(a), j \in 1 .. Len(b) : a[i] # b[j]
  BY Zenon DEF Entries
<1>5. ASSUME NEW i \in 1 .. Len(m), NEW j \in 1 .. Len(m), m[i] = m[j] PROVE i = j
  <2>1. CASE i \in 1 .. Len(a) /\ j \in 1 .. Len(a)
    BY <1>2, <1>5, <2>1 DEF Distinct
  <2>2. CASE i \in 1 .. Len(a) /\ \E k \in 1 .. Len(b) : j = Len(a) + k
    <3>1. PICK k \in 1 .. Len(b) : j = Len(a) + k
      BY <2>2
    <3>2. m[i] = a[i] /\ m[j] = b[k]
      BY <1>2, <2>2, <3>1
    <3> QED
      BY <1>4, <1>5, <2>2, <3>2
  <2>3. CASE j \in 1 .. Len(a) /\ \E k \in 1 .. Len(b) : i = Len(a) + k
    BY <1>2, <1>4, <1>5, <2>3
  <2>4. ASSUME NEW k \in 1 .. Len(b), NEW n \in 1 .. Len(b), i = Len(a) + k, j = Len(a) + n PROVE i = j
    <3>1. b[k] = b[n]
      BY <1>2, <1>5, <2>4
    <3> QED
      BY <2>4, <3>1 DEF Distinct
  <2> QED
    BY <1>3, <2>1, <2>2, <2>3, <2>4, Zenon
<1>6. Entries(m) \subseteq Entries(a) \cup Entries(b)
  <2> SUFFICES ASSUME NEW i \in 1 .. Len(m) PROVE m[i] \in Entries(a) \cup Entries(b)
    BY Zenon DEF Entries
  <2>1. CASE i \in 1 .. Len(a)
    BY <1>2, <2>1 DEF Entries
  <2>2. ASSUME NEW j \in 1 .. Len(b), i = Len(a) + j PROVE m[i] \in Entries(b)
    BY <1>2, <2>2 DEF Entries
  <2> QED
    BY <1>3, <2>1, <2>2, SMTT(30)
<1>7. Entries(a) \subseteq Entries(m) /\ Entries(b) \subseteq Entries(m)
  BY <1>2 DEF Entries
<1>8. Distinct(m)
  BY <1>5 DEF Distinct
<1> QED
  BY <1>1, <1>6, <1>7, <1>8 DEF m

(* The empty list, and a list of one.                                        *)
LEMMA EmptyList ==
  ASSUME NEW S
  PROVE  <<>> \in Seq(S) /\ Distinct(<<>>) /\ Entries(<<>>) = {}
BY DEF Distinct, Entries

(* The list of one process.                                                  *)
LEMMA ListOfOne ==
  ASSUME NEW S, NEW p \in S
  PROVE  /\ <<p>> \in Seq(S) /\ Distinct(<<p>>) /\ Entries(<<p>>) = {p}
         /\ Head(<<p>>) = p /\ Tail(<<p>>) = <<>> /\ <<p>> # <<>>
         /\ Without(<<p>>, p) = <<>> /\ Without(<<>>, p) = <<>>
<1> DEFINE l == <<p>>
<1>1. l \in Seq(S) /\ Len(l) = 1 /\ l[1] = p
  OBVIOUS
<1>2. Entries(l) = {p}
  BY <1>1 DEF Entries
<1>3. Distinct(l)
  BY <1>1 DEF Distinct
<1>4. Head(l) = p /\ Tail(l) = <<>> /\ l # <<>>
  OBVIOUS
<1>5. Without(l, p) = <<>>
  <2>1. (CHOOSE k \in 1 .. Len(l) : l[k] = p) = 1
    BY <1>1
  <2>2. SubSeq(l, 1, 0) = <<>> /\ SubSeq(l, 2, 1) = <<>>
    BY <1>1
  <2>3. Without(l, p) = SubSeq(l, 1, 1 - 1) \o SubSeq(l, 1 + 1, Len(l))
    BY <1>2, <2>1 DEF Without
  <2> QED
    BY <1>1, <2>2, <2>3
<1>6. Without(<<>>, p) = <<>>
  BY EmptyList DEF Without
<1> QED
  BY <1>1, <1>2, <1>3, <1>4, <1>5, <1>6

(* Three lists joined.                                                       *)
LEMMA JoinedPartition ==
  ASSUME NEW S, NEW a \in Seq(S), NEW f \in Seq(S), NEW r \in Seq(S), Partition(a, f, r, S)
  PROVE  /\ (a \o f) \o r \in Seq(S)
         /\ Partition((a \o f) \o r, <<>>, <<>>, S)
<1>1. /\ a \o f \in Seq(S) /\ Distinct(a \o f) /\ Entries(a \o f) = Entries(a) \cup Entries(f)
  BY Joined DEF Partition
<1>2. Entries(a \o f) \cap Entries(r) = {}
  BY <1>1 DEF Partition
<1>3. /\ (a \o f) \o r \in Seq(S) /\ Distinct((a \o f) \o r)
      /\ Entries((a \o f) \o r) = Entries(a \o f) \cup Entries(r)
  <2> DEFINE b == a \o f
  <2>1. b \in Seq(S) /\ Distinct(b) /\ Distinct(r) /\ Entries(b) \cap Entries(r) = {}
    BY <1>1, <1>2 DEF Partition
  <2> HIDE DEF b
  <2>2. b \o r \in Seq(S) /\ Distinct(b \o r) /\ Entries(b \o r) = Entries(b) \cup Entries(r)
    BY <2>1, Joined
  <2> QED
    BY <2>2 DEF b
<1> QED
  BY <1>1, <1>3, EmptyList DEF Partition

(* The list of all the processes.                                            *)
LEMMA FullPartition ==
  ASSUME NEW S, Cardinality(S) \in Nat, S \subseteq Int, NEW l \in FullLists(S)
  PROVE  l \in Seq(S) /\ Partition(l, <<>>, <<>>, S)
<1> DEFINE n == Cardinality(S)
<1>1. n \in Nat
  OBVIOUS
<1>2. /\ l \in [1 .. n -> S] /\ Entries(l) = S
      /\ \A i, j \in 1 .. n : i < j => l[i] < l[j]
  BY DEF FullLists
<1> HIDE DEF n
<1>3. l \in Seq(S) /\ Len(l) = n
  BY <1>1, <1>2
<1>4. ASSUME NEW i \in 1 .. n, NEW j \in 1 .. n, l[i] = l[j] PROVE i = j
  <2>1. l[i] \in Int /\ l[j] \in Int
    BY <1>2, Zenon
  <2>2. ~(i < j) /\ ~(j < i)
    BY <1>2, <1>4, <2>1
  <2> QED
    BY <1>1, <2>2
<1>5. Distinct(l)
  BY <1>3, <1>4 DEF Distinct
<1> QED
  BY <1>2, <1>3, <1>5, EmptyList DEF Partition

-----------------------------------------------------------------------------
(* The three lists and the processes h of a UE, of records R.  That each     *)
(* process is in one list is not inductive: post_process_dlsch and           *)
(* post_process_ulsch take a process out of the list that its round tells,   *)
(* so available processes are in round 0 and those to retransmit are not.    *)
HarqInv(a, f, r, h, S, R) ==
  /\ a \in Seq(S) /\ f \in Seq(S) /\ r \in Seq(S)
  /\ Partition(a, f, r, S)
  /\ h \in [S -> R] /\ \A p \in S : h[p].round \in Nat
  /\ \A p \in S : h[p].waiting <=> p \in Entries(f)
  /\ \A p \in Entries(a) : h[p].round = 0
  /\ \A p \in Entries(r) : h[p].round > 0

(* The scheduler takes p out of one of the two lists, which leaves a1 and r1 *)
TakenOut(a, r, h, p, a1, r1) ==
  /\ r # <<>> \/ a # <<>>
  /\ p = IF r # <<>> THEN Head(r) ELSE Head(a)
  /\ a1 = IF h[p].round = 0 THEN Tail(a) ELSE a
  /\ r1 = IF h[p].round = 0 THEN r ELSE Tail(r)

(* The process that is chosen leaves its list.                               *)
LEMMA ChosenLeaves ==
  ASSUME NEW a, NEW f, NEW r, NEW h, NEW S, NEW R, HarqInv(a, f, r, h, S, R),
         NEW p, NEW a1, NEW r1, TakenOut(a, r, h, p, a1, r1)
  PROVE  /\ p \in S /\ p \notin Entries(f) /\ p \notin Entries(a1) /\ p \notin Entries(r1)
         /\ a1 \in Seq(S) /\ Distinct(a1) /\ r1 \in Seq(S) /\ Distinct(r1)
         /\ Entries(a1) \subseteq Entries(a) /\ Entries(r1) \subseteq Entries(r)
         /\ Entries(a1) \cup Entries(r1) = (Entries(a) \cup Entries(r)) \ {p}
<1>1. CASE r # <<>>
  <2>1. /\ p = Head(r) /\ p \in S /\ p \in Entries(r)
        /\ Tail(r) \in Seq(S) /\ Distinct(Tail(r)) /\ Entries(Tail(r)) = Entries(r) \ {p}
    BY <1>1, HeadOut DEF HarqInv, Partition, TakenOut
  <2>2. h[p].round # 0 /\ a1 = a /\ r1 = Tail(r)
    BY <2>1 DEF HarqInv, TakenOut
  <2> QED
    BY <2>1, <2>2 DEF HarqInv, Partition
<1>2. CASE r = <<>>
  <2>1. /\ p = Head(a) /\ p \in S /\ p \in Entries(a)
        /\ Tail(a) \in Seq(S) /\ Distinct(Tail(a)) /\ Entries(Tail(a)) = Entries(a) \ {p}
    BY <1>2, HeadOut DEF HarqInv, Partition, TakenOut
  <2>2. h[p].round = 0 /\ r1 = r /\ a1 = Tail(a)
    BY <2>1 DEF HarqInv, TakenOut
  <2> QED
    BY <2>1, <2>2 DEF HarqInv, Partition
<1> QED
  BY <1>1, <1>2

(* It goes to the feedback list and waits ...                                *)
LEMMA Granted ==
  ASSUME NEW a, NEW f, NEW r, NEW h, NEW S, NEW R, HarqInv(a, f, r, h, S, R),
         NEW p, NEW a1, NEW r1, TakenOut(a, r, h, p, a1, r1),
         NEW g \in R, g.waiting, g.round = h[p].round
  PROVE  HarqInv(a1, AddTail(f, p), r1, [h EXCEPT ![p] = g], S, R)
<1> DEFINE h1 == [h EXCEPT ![p] = g]
           f1 == AddTail(f, p)
<1>1. /\ p \in S /\ p \notin Entries(f) /\ p \notin Entries(a1) /\ p \notin Entries(r1)
      /\ a1 \in Seq(S) /\ Distinct(a1) /\ r1 \in Seq(S) /\ Distinct(r1)
      /\ Entries(a1) \subseteq Entries(a) /\ Entries(r1) \subseteq Entries(r)
      /\ Entries(a1) \cup Entries(r1) = (Entries(a) \cup Entries(r)) \ {p}
  BY ChosenLeaves
<1>2. f1 \in Seq(S) /\ Distinct(f1) /\ Entries(f1) = Entries(f) \cup {p}
  BY <1>1, TailIn DEF HarqInv, Partition
<1>3. h1 \in [S -> R] /\ h1[p] = g /\ \A q \in S : q # p => h1[q] = h[q]
  BY <1>1 DEF HarqInv
<1> HIDE DEF h1, f1
<1>4. Partition(a1, f1, r1, S)
  BY <1>1, <1>2 DEF HarqInv, Partition
<1>5. Entries(a) \subseteq S /\ Entries(r) \subseteq S
  BY DEF HarqInv, Partition
<1>6. \A q \in S : h1[q].round \in Nat
  BY <1>1, <1>3, SMTT(30) DEF HarqInv
<1>7. \A q \in S : h1[q].waiting <=> q \in Entries(f1)
  BY <1>1, <1>2, <1>3 DEF HarqInv
<1>8. (\A q \in Entries(a1) : h1[q].round = 0) /\ (\A q \in Entries(r1) : h1[q].round > 0)
  BY <1>1, <1>3, <1>5 DEF HarqInv
<1> QED
  BY <1>1, <1>2, <1>3, <1>4, <1>6, <1>7, <1>8 DEF HarqInv, h1, f1

(* ... or, without feedback, is available again at once.                     *)
LEMMA GrantedOnly ==
  ASSUME NEW a, NEW f, NEW r, NEW h, NEW S, NEW R, HarqInv(a, f, r, h, S, R),
         NEW p, NEW a1, NEW r1, TakenOut(a, r, h, p, a1, r1),
         NEW g \in R, g.waiting <=> h[p].waiting, g.round = 0
  PROVE  HarqInv(AddTail(a1, p), f, r1, [h EXCEPT ![p] = g], S, R)
<1> DEFINE h1 == [h EXCEPT ![p] = g]
           a2 == AddTail(a1, p)
<1>1. /\ p \in S /\ p \notin Entries(f) /\ p \notin Entries(a1) /\ p \notin Entries(r1)
      /\ a1 \in Seq(S) /\ Distinct(a1) /\ r1 \in Seq(S) /\ Distinct(r1)
      /\ Entries(a1) \subseteq Entries(a) /\ Entries(r1) \subseteq Entries(r)
      /\ Entries(a1) \cup Entries(r1) = (Entries(a) \cup Entries(r)) \ {p}
  BY ChosenLeaves
<1>2. a2 \in Seq(S) /\ Distinct(a2) /\ Entries(a2) = Entries(a1) \cup {p}
  BY <1>1, TailIn
<1>3. h1 \in [S -> R] /\ h1[p] = g /\ \A q \in S : q # p => h1[q] = h[q]
  BY <1>1 DEF HarqInv
<1> HIDE DEF h1, a2
<1>4. Partition(a2, f, r1, S)
  BY <1>1, <1>2 DEF HarqInv, Partition
<1>5. Entries(a) \subseteq S /\ Entries(r) \subseteq S
  BY DEF HarqInv, Partition
<1>6. \A q \in S : h1[q].round \in Nat
  <2>1. \A q \in S : h[q].round \in Nat
    BY DEF HarqInv
  <2>2. h1[p].round \in Nat
    BY <1>3
  <2>3. \A q \in S : q # p => h1[q].round \in Nat
    BY <1>3, <2>1
  <2> QED
    BY <2>2, <2>3
<1>7. \A q \in S : h1[q].waiting <=> q \in Entries(f)
  BY <1>1, <1>3, Zenon DEF HarqInv
<1>8. (\A q \in Entries(a2) : h1[q].round = 0) /\ (\A q \in Entries(r1) : h1[q].round > 0)
  BY <1>1, <1>2, <1>3, <1>5 DEF HarqInv
<1> QED
  BY <1>1, <1>2, <1>3, <1>4, <1>6, <1>7, <1>8 DEF HarqInv, h1, a2

(* The head of the feedback list gets its result.                            *)
LEMMA Answered ==
  ASSUME NEW a, NEW f, NEW r, NEW h, NEW S, NEW R, HarqInv(a, f, r, h, S, R),
         f # <<>>, NEW g \in R, ~g.waiting, g.round \in Nat
  PROVE  LET p == Head(f)
         IN /\ g.round > 0 => HarqInv(a, Tail(f), AddTail(r, p), [h EXCEPT ![p] = g], S, R)
            /\ g.round = 0 => HarqInv(AddTail(a, p), Tail(f), r, [h EXCEPT ![p] = g], S, R)
<1> DEFINE p == Head(f)
           h1 == [h EXCEPT ![p] = g]
<1>1. /\ p \in S /\ p \in Entries(f)
      /\ Tail(f) \in Seq(S) /\ Distinct(Tail(f)) /\ Entries(Tail(f)) = Entries(f) \ {p}
  BY HeadOut DEF HarqInv, Partition
<1>2. p \notin Entries(a) /\ p \notin Entries(r)
  BY <1>1 DEF HarqInv, Partition
<1> HIDE DEF p
<1>3. h1 \in [S -> R] /\ h1[p] = g /\ \A q \in S : q # p => h1[q] = h[q]
  BY <1>1 DEF HarqInv
<1>4. /\ AddTail(a, p) \in Seq(S) /\ Distinct(AddTail(a, p)) /\ Entries(AddTail(a, p)) = Entries(a) \cup {p}
      /\ AddTail(r, p) \in Seq(S) /\ Distinct(AddTail(r, p)) /\ Entries(AddTail(r, p)) = Entries(r) \cup {p}
  BY <1>1, <1>2, TailIn DEF HarqInv, Partition
<1> HIDE DEF h1
<1>5. Partition(a, Tail(f), AddTail(r, p), S) /\ Partition(AddTail(a, p), Tail(f), r, S)
  BY <1>1, <1>2, <1>4 DEF HarqInv, Partition
<1>6. Entries(a) \subseteq S /\ Entries(r) \subseteq S
  BY DEF HarqInv, Partition
<1>7. \A q \in S : h1[q].round \in Nat
  BY <1>1, <1>3 DEF HarqInv
<1>8. \A q \in S : h1[q].waiting <=> q \in Entries(Tail(f))
  BY <1>1, <1>3 DEF HarqInv
<1>9. (\A q \in Entries(a) : h1[q].round = 0) /\ (\A q \in Entries(r) : h1[q].round > 0)
  BY <1>2, <1>3, <1>6, Zenon DEF HarqInv
<1>10. (g.round > 0 => \A q \in Entries(AddTail(r, p)) : h1[q].round > 0)
  BY <1>3, <1>4, <1>9
<1>11. (g.round = 0 => \A q \in Entries(AddTail(a, p)) : h1[q].round = 0)
  BY <1>3, <1>4, <1>9
<1>12. a \in Seq(S) /\ r \in Seq(S)
  BY DEF HarqInv
<1> QED
  BY <1>1, <1>3, <1>4, <1>5, <1>7, <1>8, <1>9, <1>10, <1>11, <1>12 DEF HarqInv, h1, p

(* The lists are reset: every process is available.                          *)
LEMMA ListsReset ==
  ASSUME NEW a, NEW f, NEW r, NEW h, NEW S, NEW R, HarqInv(a, f, r, h, S, R),
         NEW h1 \in [S -> R], \A p \in S : h1[p].round = 0 /\ ~h1[p].waiting
  PROVE  HarqInv((a \o f) \o r, <<>>, <<>>, h1, S, R)
<1>1. (a \o f) \o r \in Seq(S) /\ Partition((a \o f) \o r, <<>>, <<>>, S)
  BY JoinedPartition DEF HarqInv
<1>2. Entries((a \o f) \o r) = S
  BY <1>1, EmptyList, Zenon DEF Partition
<1> QED
  BY <1>1, <1>2, EmptyList DEF HarqInv

(* The lists as they are created.                                            *)
LEMMA ListsCreated ==
  ASSUME NEW S, NEW R, NEW l, l \in Seq(S), Partition(l, <<>>, <<>>, S),
         NEW h \in [S -> R], \A p \in S : h[p].round = 0 /\ ~h[p].waiting
  PROVE  HarqInv(l, <<>>, <<>>, h, S, R)
<1>1. Entries(l) = S
  BY EmptyList DEF Partition
<1> QED
  BY <1>1, EmptyList DEF HarqInv

-----------------------------------------------------------------------------
(* The uplink lists *)

UlRec == [round : Nat, ndi : {0, 1}, waiting : BOOLEAN]
UlInv == HarqInv(ulAvailable, ulFeedback, ulRetrans, ulHarq, UlPids, UlRec)
ulListVars == <<ulAvailable, ulFeedback, ulRetrans, ulHarq>>

(* They do when the UE is created.                                           *)
LEMMA UlInvInit == UlInit => UlInv
<1> SUFFICES ASSUME UlInit PROVE UlInv
  OBVIOUS
<1>1. ulAvailable \in Seq(UlPids) /\ Partition(ulAvailable, <<>>, <<>>, UlPids)
  <2>1. UlPids \subseteq Int /\ Cardinality(UlPids) \in Nat /\ ulAvailable \in FullLists(UlPids)
    BY UlAssumption DEF UlInit
  <2> QED
    BY <2>1, FullPartition, Zenon
<1>2. ulHarq \in [UlPids -> UlRec] /\ \A p \in UlPids : ulHarq[p].round = 0 /\ ~ulHarq[p].waiting
  <2>1. ulHarq = [p \in UlPids |-> [round |-> 0, ndi |-> 0, waiting |-> FALSE]]
    BY DEF UlInit
  <2>2. [round |-> 0, ndi |-> 0, waiting |-> FALSE] \in UlRec
    BY DEF UlRec
  <2> QED
    BY <2>1, <2>2
<1>3. ulFeedback = <<>> /\ ulRetrans = <<>>
  BY DEF UlInit
<1> QED
  BY <1>1, <1>2, <1>3, ListsCreated DEF UlInv

(* A field of an uplink process is set.                                      *)
LEMMA UlRecExcept ==
  ASSUME NEW h \in UlRec, NEW v
  PROVE  /\ [h EXCEPT !.round = v] = [round |-> v, ndi |-> h.ndi, waiting |-> h.waiting]
         /\ [h EXCEPT !.ndi = v] = [round |-> h.round, ndi |-> v, waiting |-> h.waiting]
         /\ [h EXCEPT !.waiting = v] = [round |-> h.round, ndi |-> h.ndi, waiting |-> v]
<1> DEFINE A == Nat
           B == {0, 1}
           C == BOOLEAN
<1>1. h \in [round : A, ndi : B, waiting : C]
  BY DEF UlRec
<1> HIDE DEF A, B, C
<1> QED
  BY <1>1, SMT

(* What becomes of the record of an uplink process.                          *)
LEMMA UlRecords ==
  ASSUME NEW h \in UlRec
  PROVE  /\ UlFinished(h) \in UlRec /\ UlFinished(h).round = 0 /\ (UlFinished(h).waiting <=> h.waiting)
         /\ [h EXCEPT !.waiting = TRUE] \in UlRec /\ [h EXCEPT !.waiting = TRUE].waiting
         /\ [h EXCEPT !.waiting = TRUE].round = h.round
         /\ [h EXCEPT !.waiting = FALSE] \in UlRec /\ ~[h EXCEPT !.waiting = FALSE].waiting
         /\ [h EXCEPT !.waiting = FALSE].round = h.round
         /\ [h EXCEPT !.round = @ + 1] \in UlRec /\ [h EXCEPT !.round = @ + 1].round > 0
         /\ ([h EXCEPT !.round = @ + 1].waiting <=> h.waiting)
         /\ [h EXCEPT !.round = 0, !.waiting = FALSE] = [round |-> 0, ndi |-> h.ndi, waiting |-> FALSE]
<1>1. /\ h.round \in Nat /\ h.ndi \in {0, 1} /\ 1 - h.ndi \in {0, 1} /\ h.waiting \in BOOLEAN
      /\ h.round + 1 \in Nat /\ h.round + 1 > 0
  BY DEF UlRec
<1>2. UlFinished(h) = [round |-> 0, ndi |-> 1 - h.ndi, waiting |-> h.waiting]
  <2> DEFINE g == [round |-> h.round, ndi |-> 1 - h.ndi, waiting |-> h.waiting]
  <2>1. [h EXCEPT !.ndi = 1 - h.ndi] = g
    BY UlRecExcept, Zenon
  <2>2. g \in UlRec
    BY <1>1 DEF UlRec
  <2>3. [g EXCEPT !.round = 0] = [round |-> 0, ndi |-> g.ndi, waiting |-> g.waiting]
    BY <2>2, UlRecExcept, Zenon
  <2>4. UlFinished(h) = [g EXCEPT !.round = 0]
    BY <2>1, Zenon DEF UlFinished
  <2> QED
    BY <2>3, <2>4
<1>3. [h EXCEPT !.waiting = TRUE] = [round |-> h.round, ndi |-> h.ndi, waiting |-> TRUE]
  BY UlRecExcept, Zenon
<1>4. [h EXCEPT !.waiting = FALSE] = [round |-> h.round, ndi |-> h.ndi, waiting |-> FALSE]
  BY UlRecExcept, Zenon
<1>5. [h EXCEPT !.round = @ + 1] = [round |-> h.round + 1, ndi |-> h.ndi, waiting |-> h.waiting]
  BY UlRecExcept, Zenon
<1>6. UlFinished(h) \in UlRec /\ UlFinished(h).round = 0 /\ (UlFinished(h).waiting <=> h.waiting)
  BY <1>1, <1>2 DEF UlRec
<1>7. /\ [h EXCEPT !.waiting = TRUE] \in UlRec /\ [h EXCEPT !.waiting = TRUE].waiting
      /\ [h EXCEPT !.waiting = TRUE].round = h.round
  BY <1>1, <1>3, Zenon DEF UlRec
<1>8. /\ [h EXCEPT !.waiting = FALSE] \in UlRec /\ ~[h EXCEPT !.waiting = FALSE].waiting
      /\ [h EXCEPT !.waiting = FALSE].round = h.round
  BY <1>1, <1>4, Zenon DEF UlRec
<1>9. /\ [h EXCEPT !.round = @ + 1] \in UlRec /\ [h EXCEPT !.round = @ + 1].round > 0
      /\ ([h EXCEPT !.round = @ + 1].waiting <=> h.waiting)
  BY <1>1, <1>5 DEF UlRec
<1>10. [h EXCEPT !.round = 0, !.waiting = FALSE] = [round |-> 0, ndi |-> h.ndi, waiting |-> FALSE]
  <2> DEFINE g == [round |-> 0, ndi |-> h.ndi, waiting |-> h.waiting]
  <2>1. [h EXCEPT !.round = 0] = g
    BY UlRecExcept, Zenon
  <2>2. g \in UlRec
    BY <1>1 DEF UlRec
  <2>3. [g EXCEPT !.waiting = FALSE] = [round |-> g.round, ndi |-> g.ndi, waiting |-> FALSE]
    BY <2>2, UlRecExcept, Zenon
  <2>4. [h EXCEPT !.round = 0, !.waiting = FALSE] = [g EXCEPT !.waiting = FALSE]
    BY <2>1, Zenon
  <2> QED
    BY <2>3, <2>4
<1> QED
  BY <1>6, <1>7, <1>8, <1>9, <1>10

(* A grant keeps the uplink lists.                                           *)
LEMMA UlInvGrant ==
  ASSUME UlInv, UlSlotGrant
  PROVE  UlInv'
<1> DEFINE p == UlChosen
           a1 == IF ulHarq[p].round = 0 THEN Tail(ulAvailable) ELSE ulAvailable
           r1 == IF ulHarq[p].round = 0 THEN ulRetrans ELSE Tail(ulRetrans)
<1>1. TakenOut(ulAvailable, ulRetrans, ulHarq, p, a1, r1)
  BY DEF UlSlotGrant, UlChosen, TakenOut
<1> HIDE DEF p, a1, r1
<1>2. p \in UlPids /\ ulHarq[p] \in UlRec
  <2>1. p \in UlPids
    BY <1>1, ChosenLeaves, SMTT(30) DEF UlInv
  <2> QED
    BY <2>1 DEF UlInv, HarqInv
<1>3. CASE disableHarq
  <2>1. /\ ulHarq' = [ulHarq EXCEPT ![p] = UlFinished(ulHarq[p])]
        /\ ulAvailable' = AddTail(a1, p) /\ ulRetrans' = r1 /\ ulFeedback' = ulFeedback
    BY <1>3 DEF UlSlotGrant, p, a1, r1
  <2> QED
    BY <1>1, <1>2, <2>1, UlRecords, GrantedOnly, Zenon DEF UlInv
<1>4. CASE ~disableHarq
  <2>1. /\ ulHarq' = [ulHarq EXCEPT ![p].waiting = TRUE]
        /\ ulAvailable' = a1 /\ ulRetrans' = r1 /\ ulFeedback' = AddTail(ulFeedback, p)
    BY <1>4 DEF UlSlotGrant, p, a1, r1
  <2> DEFINE g == [ulHarq[p] EXCEPT !.waiting = TRUE]
  <2>2. ulHarq' = [ulHarq EXCEPT ![p] = g]
    BY <2>1
  <2>3. g \in UlRec /\ g.waiting /\ g.round = ulHarq[p].round
    BY <1>2, UlRecords, Zenon
  <2> HIDE DEF g
  <2>4. HarqInv(a1, AddTail(ulFeedback, p), r1, [ulHarq EXCEPT ![p] = g], UlPids, UlRec)
    BY <1>1, <2>3, Granted DEF UlInv
  <2> QED
    BY <2>1, <2>2, <2>4, Zenon DEF UlInv
<1> QED
  BY <1>3, <1>4

(* So does a result, of an indication or for want of one.                    *)
LEMMA UlInvResult ==
  ASSUME UlInv, ulFeedback # <<>>, NEW ok, UlResult(Head(ulFeedback), ok)
  PROVE  UlInv'
<1> DEFINE p == Head(ulFeedback)
           h == [ulHarq[p] EXCEPT !.waiting = FALSE]
           again == ~ok /\ h.round < UlRoundMax - 1
           g == IF again THEN [h EXCEPT !.round = @ + 1] ELSE UlFinished(h)
<1>1. p \in UlPids /\ ulHarq[p] \in UlRec
  BY HeadOut, SMTT(30) DEF UlInv, HarqInv, Partition
<1>2. h \in UlRec /\ ~h.waiting
  BY <1>1, UlRecords, Zenon
<1>3. /\ g \in UlRec /\ ~g.waiting /\ g.round \in Nat
      /\ again => g.round > 0
      /\ ~again => g.round = 0
  <2> HIDE DEF h
  <2>1. CASE again
    BY <1>2, <2>1, UlRecords, Zenon DEF UlRec
  <2>2. CASE ~again
    <3>1. UlFinished(h) \in UlRec /\ UlFinished(h).round = 0 /\ ~UlFinished(h).waiting
      BY <1>2, UlRecords, Zenon
    <3>2. g = UlFinished(h)
      BY <2>2
    <3> QED
      BY <2>2, <3>1, <3>2, SMTT(30)
  <2> QED
    BY <2>1, <2>2, SMTT(30)
<1>4. /\ ulFeedback' = Tail(ulFeedback)
      /\ ulHarq' = [ulHarq EXCEPT ![p] = g]
      /\ ulRetrans' = IF again THEN AddTail(ulRetrans, p) ELSE ulRetrans
      /\ ulAvailable' = IF again THEN ulAvailable ELSE AddTail(ulAvailable, p)
  BY DEF UlResult
<1> HIDE DEF g, again
<1>5. /\ g.round > 0 => HarqInv(ulAvailable, Tail(ulFeedback), AddTail(ulRetrans, p), [ulHarq EXCEPT ![p] = g], UlPids, UlRec)
      /\ g.round = 0 => HarqInv(AddTail(ulAvailable, p), Tail(ulFeedback), ulRetrans, [ulHarq EXCEPT ![p] = g], UlPids, UlRec)
  BY <1>3, Answered, SMTT(30) DEF UlInv
<1> QED
  BY <1>3, <1>4, <1>5 DEF UlInv

(* reset_ul_harq_list joins the lists.                                       *)
LEMMA UlInvReset ==
  ASSUME UlInv, ResetUlHarqList
  PROVE  UlInv'
<1>1. /\ ulAvailable' = ulAvailable \o ulFeedback \o ulRetrans
      /\ ulFeedback' = <<>> /\ ulRetrans' = <<>>
      /\ ulHarq' = [p \in UlPids |-> [ulHarq[p] EXCEPT !.round = 0, !.waiting = FALSE]]
  BY Zenon DEF ResetUlHarqList
<1>2. ASSUME NEW p \in UlPids
      PROVE  ulHarq'[p] \in UlRec /\ ulHarq'[p].round = 0 /\ ~ulHarq'[p].waiting
  <2>1. ulHarq[p] \in UlRec /\ ulHarq[p].ndi \in {0, 1}
    BY SMTT(30) DEF UlInv, HarqInv, UlRec
  <2>2. ulHarq'[p] = [round |-> 0, ndi |-> ulHarq[p].ndi, waiting |-> FALSE]
    BY <1>1, <2>1, UlRecords
  <2> QED
    BY <2>1, <2>2 DEF UlRec
<1>3. ulHarq' \in [UlPids -> UlRec]
  BY <1>1, <1>2, Zenon
<1> QED
  BY <1>1, <1>2, <1>3, ListsReset DEF UlInv

-----------------------------------------------------------------------------
(* The processes of the PUSCHs q are in the feedback list f, in their order  *)
Follows(q, f) ==
  /\ \A i \in 1 .. Len(q) : q[i].pid \in Entries(f)
  /\ \A i, j \in 1 .. Len(q) : \A m, n \in 1 .. Len(f) :
       i < j /\ f[m] = q[i].pid /\ f[n] = q[j].pid => m < n

(* Process p is in f, in front of those of q *)
First(p, q, f) ==
  /\ p \in Entries(f)
  /\ \A i \in 1 .. Len(q) : \A m, n \in 1 .. Len(f) : f[m] = p /\ f[n] = q[i].pid => m < n

(* No PUSCH of q is of process p                                             *)
NotOf(p, q) == \A i \in 1 .. Len(q) : q[i].pid # p

(* The first PUSCH is taken: its process is in front of the others.          *)
LEMMA FollowsLess ==
  ASSUME NEW S, NEW T, NEW q \in Seq(S), q # <<>>, NEW f \in Seq(T), Follows(q, f)
  PROVE  Follows(Tail(q), f) /\ First(Head(q).pid, Tail(q), f)
<1>1. /\ Head(q) = q[1] /\ Len(q) \in Nat \ {0} /\ Len(Tail(q)) = Len(q) - 1
      /\ \A m \in 1 .. Len(Tail(q)) : m + 1 \in 1 .. Len(q) /\ Tail(q)[m] = q[m + 1]
  BY TailFacts
<1> DEFINE t == Tail(q)
           k == Len(t)
<1>2. k \in Nat /\ 1 \in 1 .. Len(q)
  BY <1>1
<1>3. \A m \in 1 .. k : m + 1 \in 1 .. Len(q) /\ t[m] = q[m + 1]
  BY <1>1
<1> HIDE DEF t, k
<1>4. \A i \in 1 .. k : t[i].pid \in Entries(f)
  BY <1>3 DEF Follows
<1>5. ASSUME NEW i \in 1 .. k, NEW j \in 1 .. k, NEW m \in 1 .. Len(f), NEW n \in 1 .. Len(f),
             i < j, f[m] = t[i].pid, f[n] = t[j].pid
      PROVE  m < n
  <2>1. i + 1 \in 1 .. Len(q) /\ j + 1 \in 1 .. Len(q) /\ t[i] = q[i + 1] /\ t[j] = q[j + 1]
    BY <1>3
  <2>2. i + 1 < j + 1
    BY <1>2, <1>5
  <2>3. f[m] = q[i + 1].pid /\ f[n] = q[j + 1].pid
    BY <1>5, <2>1
  <2> QED
    BY <2>1, <2>2, <2>3 DEF Follows
<1>6. ASSUME NEW i \in 1 .. k, NEW m \in 1 .. Len(f), NEW n \in 1 .. Len(f), f[m] = q[1].pid, f[n] = t[i].pid
      PROVE  m < n
  <2>1. i + 1 \in 1 .. Len(q) /\ 1 < i + 1 /\ f[n] = q[i + 1].pid
    BY <1>2, <1>3, <1>6
  <2> QED
    BY <1>2, <1>6, <2>1 DEF Follows
<1>7. q[1].pid \in Entries(f)
  BY <1>2 DEF Follows
<1> QED
  BY <1>1, <1>4, <1>5, <1>6, <1>7 DEF Follows, First, t, k

(* A process is granted: it goes to the tails of both.                       *)
LEMMA FollowsMore ==
  ASSUME NEW S, NEW T, NEW q \in Seq(S), NEW f \in Seq(T), Follows(q, f), Distinct(f),
         NEW e \in S, e.pid \in T, e.pid \notin Entries(f)
  PROVE  Follows(Append(q, e), AddTail(f, e.pid))
<1> DEFINE r == Append(q, e)
           g == Append(f, e.pid)
           k == Len(q)
           l == Len(f)
<1>1. /\ k \in Nat /\ Len(r) = k + 1 /\ r[k + 1] = e /\ \A i \in 1 .. k : r[i] = q[i]
  BY AppendFacts
<1>2. /\ l \in Nat /\ Len(g) = l + 1 /\ g[l + 1] = e.pid /\ \A i \in 1 .. l : g[i] = f[i]
  BY AppendFacts
<1>3. Entries(g) = Entries(f) \cup {e.pid}
  BY TailIn DEF AddTail
<1>4. \A m \in 1 .. l : f[m] \in Entries(f)
  BY DEF Entries
<1> HIDE DEF r, g, k, l
<1>5. ASSUME NEW i \in 1 .. k + 1 PROVE i \in 1 .. k \/ i = k + 1
  BY <1>1
<1>6. ASSUME NEW i \in 1 .. l + 1 PROVE i \in 1 .. l \/ i = l + 1
  BY <1>2
<1>7. \A i \in 1 .. k : q[i].pid \in Entries(f)
  BY DEF Follows, k
<1>8. \A i \in 1 .. k + 1 : r[i].pid \in Entries(g)
  BY <1>1, <1>3, <1>5, <1>7
<1>9. ASSUME NEW i \in 1 .. k + 1, NEW j \in 1 .. k + 1, NEW m \in 1 .. l + 1, NEW n \in 1 .. l + 1,
             i < j, g[m] = r[i].pid, g[n] = r[j].pid
      PROVE  m < n
  <2>1. i \in 1 .. k /\ r[i] = q[i]
    BY <1>1, <1>9
  <2>2. m \in 1 .. l /\ g[m] = f[m]
    BY <1>2, <1>6, <1>7, <1>9, <2>1
  <2>3. CASE n = l + 1
    BY <1>2, <2>2, <2>3
  <2>4. CASE n \in 1 .. l
    <3>1. g[n] = f[n] /\ r[j].pid # e.pid
      BY <1>2, <1>4, <1>9, <2>4
    <3>2. j \in 1 .. k /\ r[j] = q[j]
      BY <1>1, <1>5, <3>1
    <3> QED
      BY <1>9, <2>1, <2>2, <2>4, <3>1, <3>2, Zenon DEF Follows, k, l
  <2> QED
    BY <1>6, <2>3, <2>4
<1> QED
  BY <1>1, <1>2, <1>8, <1>9 DEF Follows, AddTail, r, g

(* A process without a PUSCH leaves the feedback list.                       *)
LEMMA FollowsOut ==
  ASSUME NEW S, NEW T, NEW q \in Seq(S), NEW f \in Seq(T), f # <<>>, Distinct(f), Follows(q, f), NotOf(Head(f), q)
  PROVE  /\ Follows(q, Tail(f))
         /\ \A p : First(p, q, f) /\ p # Head(f) => First(p, q, Tail(f))
<1>1. /\ Head(f) = f[1] /\ Len(f) \in Nat \ {0} /\ Len(Tail(f)) = Len(f) - 1
      /\ \A m \in 1 .. Len(Tail(f)) : m + 1 \in 1 .. Len(f) /\ Tail(f)[m] = f[m + 1]
  BY TailFacts
<1>2. Entries(Tail(f)) = Entries(f) \ {Head(f)}
  BY HeadOut
<1> DEFINE t == Tail(f)
           k == Len(t)
<1>3. k \in Nat
  BY <1>1
<1>4. \A m \in 1 .. k : m + 1 \in 1 .. Len(f) /\ t[m] = f[m + 1]
  BY <1>1
<1>5. \A i \in 1 .. Len(q) : q[i].pid \in Entries(t)
  BY <1>2 DEF Follows, NotOf
<1>6. \A p : p \in Entries(f) /\ p # Head(f) => p \in Entries(t)
  BY <1>2
<1> HIDE DEF t, k
<1>7. ASSUME NEW i \in 1 .. Len(q), NEW j \in 1 .. Len(q), NEW m \in 1 .. k, NEW n \in 1 .. k,
             i < j, t[m] = q[i].pid, t[n] = q[j].pid
      PROVE  m < n
  <2>1. m + 1 \in 1 .. Len(f) /\ n + 1 \in 1 .. Len(f) /\ f[m + 1] = q[i].pid /\ f[n + 1] = q[j].pid
    BY <1>4, <1>7
  <2>2. m + 1 < n + 1
    BY <1>7, <2>1 DEF Follows
  <2> QED
    BY <1>3, <2>2
<1>8. ASSUME NEW p, First(p, q, f), NEW i \in 1 .. Len(q), NEW m \in 1 .. k, NEW n \in 1 .. k, t[m] = p, t[n] = q[i].pid
      PROVE  m < n
  <2>1. m + 1 \in 1 .. Len(f) /\ n + 1 \in 1 .. Len(f) /\ f[m + 1] = p /\ f[n + 1] = q[i].pid
    BY <1>4, <1>8
  <2>2. m + 1 < n + 1
    BY <1>8, <2>1 DEF First
  <2> QED
    BY <1>3, <2>2
<1>9. Follows(q, t)
  BY <1>5, <1>7 DEF Follows, k
<1>10. \A p : First(p, q, f) /\ p # Head(f) => First(p, q, t)
  BY <1>6, <1>8 DEF First, k
<1> QED
  BY <1>9, <1>10 DEF t

(* The head of f is of no PUSCH of q *)
LEMMA FirstOut ==
  ASSUME NEW T, NEW f \in Seq(T), f # <<>>, NEW q, NEW p, First(p, q, f)
  PROVE  NotOf(Head(f), q)
<1>1. Head(f) = f[1] /\ Len(f) \in Nat \ {0} /\ 1 \in 1 .. Len(f)
  BY TailFacts
<1>2. PICK m \in 1 .. Len(f) : f[m] = p
  BY DEF First, Entries
<1> SUFFICES ASSUME NEW i \in 1 .. Len(q), q[i].pid = Head(f) PROVE FALSE
  BY DEF NotOf
<1>3. m < 1
  BY <1>1, <1>2 DEF First
<1> QED
  BY <1>1, <1>2, <1>3

-----------------------------------------------------------------------------
(* Types of the PUSCHs, of what the UE knows of a process, and of an         *)
(* indication                                                                *)
Pusch == [pid : UlPids, block : (0 .. MaxInFlight - 1) \cup {NoBlock}]
UlUeRec == [ndi : {0, 1, 2}, block : 0 .. MaxInFlight - 1]
CrcRec == [pid : UlPids \cup {-1}, ok : BOOLEAN]
UlTypes ==
  /\ pusch \in Seq(Pusch) /\ Len(pusch) <= MaxInFlight
  /\ ulUe \in [UlPids -> UlUeRec]
  /\ ulResets \in Nat
  /\ disableHarq \in BOOLEAN

(* With feedback, a PUSCH without an indication is of a process in the       *)
(* feedback list, in order, and sends the last block of the process.         *)
PuschsInOrder == Follows(pusch, ulFeedback) /\ (crc # NoCrc => First(crc.pid, pusch, ulFeedback))
LastBlocks == \A i \in 1 .. Len(pusch) : pusch[i].block # NoBlock => pusch[i].block = ulUe[pusch[i].pid].block

(* The UE has missed every grant of a new block, and so not the last one     *)
NotReached(p) ==
  /\ p \in Entries(ulFeedback) => ulHarq[p].round < UlRoundMax - 1
  /\ \A i \in 1 .. Len(pusch) : pusch[i].pid = p => pusch[i].block = NoBlock
  /\ crc # [pid |-> p, ok |-> TRUE]
Reached(p) == <<p, ulUe[p].block>> \in processed => crc = [pid |-> p, ok |-> TRUE]
WithFeedback ==
  /\ PuschsInOrder /\ LastBlocks
  /\ \A p \in UlPids : IF UeNew(p) THEN NotReached(p) ELSE Reached(p)

(* Without, every grant is for a new block, and fewer than MaxInFlight       *)
(* blocks are in flight.                                                     *)
BlocksLater(b, d, c) == c = b + d \/ c = b + d - MaxInFlight
InFlight(i) ==
  /\ pusch[i].block # NoBlock
  /\ <<pusch[i].pid, pusch[i].block>> \notin processed
  /\ \E d \in 0 .. Len(pusch) - i : BlocksLater(pusch[i].block, d, ulUe[pusch[i].pid].block)
WithoutFeedback ==
  /\ crc = NoCrc
  /\ \A p \in UlPids : UeNew(p)
  /\ \A i \in 1 .. Len(pusch) : InFlight(i)
  /\ \A i, j \in 1 .. Len(pusch) : pusch[i] = pusch[j] => i = j

(* The inductive invariant: that a block is decided once rests on the order  *)
(* in which the feedback list and the PUSCHs are served.                     *)
OnceInv ==
  /\ UlTypes /\ crc \in CrcRec
  /\ ulResets = 0 => ~twice /\ (IF disableHarq THEN WithoutFeedback ELSE WithFeedback)

(* Facts on the indications                                                  *)
LEMMA CrcFacts ==
  /\ \A p : NoCrc # [pid |-> p, ok |-> TRUE]
  /\ NoCrc \in CrcRec
  /\ \A p \in UlPids : \A b \in BOOLEAN : [pid |-> p, ok |-> b] \in CrcRec
BY DEF NoCrc, CrcRec

(* It holds when the UE is created.                                          *)
LEMMA OnceInvInit == UlInit => OnceInv
<1> SUFFICES ASSUME UlInit PROVE OnceInv
  OBVIOUS
<1>1. pusch = <<>> /\ crc = NoCrc /\ processed = {} /\ ulResets = 0 /\ twice = FALSE /\ disableHarq \in BOOLEAN /\ Len(pusch) = 0
  BY DEF UlInit
<1>2. ulUe = [p \in UlPids |-> [ndi |-> 2, block |-> 0]] /\ ulHarq = [p \in UlPids |-> [round |-> 0, ndi |-> 0, waiting |-> FALSE]]
  BY DEF UlInit
<1>3. MaxInFlight \in Nat \ {0}
  BY UlAssumption
<1>4. [ndi |-> 2, block |-> 0] \in UlUeRec
  BY <1>3 DEF UlUeRec
<1>5. ulUe \in [UlPids -> UlUeRec]
  BY <1>2, <1>4
<1>6. UlTypes
  BY <1>1, <1>3, <1>5 DEF UlTypes
<1>7. \A p \in UlPids : UeNew(p)
  BY <1>2 DEF UeNew
<1>8. \A i \in 1 .. Len(pusch) : FALSE
  BY <1>1
<1>9. WithoutFeedback
  BY <1>1, <1>7, <1>8 DEF WithoutFeedback
<1>10. \A p \in UlPids : NotReached(p)
  <2>1. Entries(ulFeedback) = {}
    BY EmptyList DEF UlInit
  <2>2. \A p : NoCrc # [pid |-> p, ok |-> TRUE]
    BY DEF NoCrc
  <2> QED
    BY <1>1, <1>8, <2>1, <2>2 DEF NotReached
<1>11. WithFeedback
  BY <1>1, <1>7, <1>8, <1>10 DEF WithFeedback, PuschsInOrder, LastBlocks, Follows
<1> QED
  BY <1>1, <1>6, <1>9, <1>11, CrcFacts DEF OnceInv

(* A PUSCH is indicated, or its indication is lost                           *)
LEMMA TypesTail ==
  ASSUME UlTypes, pusch # <<>>, pusch' = Tail(pusch), UNCHANGED <<ulUe, ulResets, disableHarq>>
  PROVE  /\ UlTypes' /\ Head(pusch) = pusch[1] /\ pusch[1] \in Pusch /\ 1 \in 1 .. Len(pusch)
         /\ Len(pusch) \in Nat \ {0} /\ Len(pusch') = Len(pusch) - 1
         /\ \A m \in 1 .. Len(pusch') : m + 1 \in 1 .. Len(pusch) /\ pusch'[m] = pusch[m + 1]
<1>1. /\ Head(pusch) = pusch[1] /\ Head(pusch) \in Pusch /\ Tail(pusch) \in Seq(Pusch)
      /\ Len(pusch) \in Nat \ {0} /\ Len(Tail(pusch)) = Len(pusch) - 1
      /\ \A m \in 1 .. Len(Tail(pusch)) : m + 1 \in 1 .. Len(pusch) /\ Tail(pusch)[m] = pusch[m + 1]
  BY TailFacts DEF UlTypes
<1>2. 1 \in 1 .. Len(pusch) /\ Len(pusch) - 1 <= MaxInFlight
  BY <1>1, UlAssumption DEF UlTypes
<1>3. UlTypes'
  BY <1>1, <1>2 DEF UlTypes
<1> QED
  BY <1>1, <1>2, <1>3

(* The NDI of a process that is done.                                        *)
LEMMA UlFinishedNdi ==
  ASSUME NEW h \in UlRec
  PROVE  UlFinished(h).ndi = 1 - h.ndi
<1> DEFINE g == [round |-> h.round, ndi |-> 1 - h.ndi, waiting |-> h.waiting]
<1>1. [h EXCEPT !.ndi = 1 - h.ndi] = g
  BY UlRecExcept, Zenon
<1>2. g \in UlRec
  BY DEF UlRec
<1>3. [g EXCEPT !.round = 0] = [round |-> 0, ndi |-> g.ndi, waiting |-> g.waiting]
  BY <1>2, UlRecExcept, Zenon
<1>4. UlFinished(h) = [g EXCEPT !.round = 0]
  BY <1>1, Zenon DEF UlFinished
<1> QED
  BY <1>3, <1>4

(* nr_ulsch_preprocessor grants a process, and the UE receives it or not.    *)
LEMMA OnceGrant ==
  ASSUME OnceInv, UlInv, UlSlotGrant
  PROVE  OnceInv'
<1>0. PICK p : p = UlChosen
  OBVIOUS
<1> DEFINE a1 == IF ulHarq[p].round = 0 THEN Tail(ulAvailable) ELSE ulAvailable
           r1 == IF ulHarq[p].round = 0 THEN ulRetrans ELSE Tail(ulRetrans)
           b == UeBlock(p)
           e == pusch'[Len(pusch) + 1]
<1>1. TakenOut(ulAvailable, ulRetrans, ulHarq, p, a1, r1)
  BY <1>0 DEF UlSlotGrant, UlChosen, TakenOut
<1>2. /\ crc = NoCrc /\ crc' = NoCrc /\ twice' = twice /\ ulResets' = ulResets /\ disableHarq' = disableHarq
      /\ Len(pusch) < MaxInFlight
      /\ UeReceivesGrant(p) \/ UeMissesGrant(p)
      /\ disableHarq => ulHarq' = [ulHarq EXCEPT ![p] = UlFinished(ulHarq[p])]
      /\ ~disableHarq => ulHarq' = [ulHarq EXCEPT ![p].waiting = TRUE] /\ ulFeedback' = AddTail(ulFeedback, p)
  BY <1>0 DEF UlSlotGrant, UlFree
<1> HIDE DEF a1, r1, b
<1>3. p \in UlPids /\ ulHarq[p] \in UlRec /\ p \notin Entries(ulFeedback)
  <2>1. p \in UlPids /\ p \notin Entries(ulFeedback)
    BY <1>1, ChosenLeaves DEF UlInv
  <2> QED
    BY <2>1 DEF UlInv, HarqInv
<1>4. ulUe[p] \in UlUeRec /\ ulUe[p].ndi \in {0, 1, 2} /\ ulUe[p].block \in 0 .. MaxInFlight - 1
  BY <1>3 DEF OnceInv, UlTypes, UlUeRec
<1>5. b \in 0 .. MaxInFlight - 1 /\ (UeNew(p) => b = IF ulUe[p].block = MaxInFlight - 1 THEN 0 ELSE ulUe[p].block + 1)
  <2>1. MaxInFlight \in Nat \ {0}
    BY UlAssumption
  <2>2. (ulUe[p].block + 1) % MaxInFlight = IF ulUe[p].block = MaxInFlight - 1 THEN 0 ELSE ulUe[p].block + 1
    BY <1>4, <2>1
  <2> QED
    BY <1>4, <2>1, <2>2 DEF b, UeBlock
<1>6. /\ pusch' \in Seq(Pusch) /\ Len(pusch) \in Nat /\ Len(pusch') = Len(pusch) + 1 /\ pusch' = Append(pusch, e)
      /\ e \in Pusch /\ e.pid = p
      /\ (UeReceivesGrant(p) /\ e = [pid |-> p, block |-> b]) \/ (UeMissesGrant(p) /\ e.block = NoBlock)
      /\ \A i \in 1 .. Len(pusch) : pusch'[i] = pusch[i]
  <2>1. pusch \in Seq(Pusch)
    BY DEF OnceInv, UlTypes
  <2>2. CASE UeReceivesGrant(p)
    <3>1. [pid |-> p, block |-> b] \in Pusch
      BY <1>3, <1>5 DEF Pusch
    <3>2. pusch' = Append(pusch, [pid |-> p, block |-> b])
      BY <2>2 DEF UeReceivesGrant, b
    <3> HIDE DEF e
    <3>3. /\ pusch' \in Seq(Pusch) /\ Len(pusch) \in Nat /\ Len(pusch') = Len(pusch) + 1
          /\ \A i \in 1 .. Len(pusch) : pusch'[i] = pusch[i]
          /\ e = [pid |-> p, block |-> b]
      BY <2>1, <3>1, <3>2, AppendFacts DEF e
    <3> QED
      BY <2>2, <3>1, <3>2, <3>3
  <2>3. CASE UeMissesGrant(p)
    <3>1. [pid |-> p, block |-> NoBlock] \in Pusch
      BY <1>3 DEF Pusch
    <3>2. pusch' = Append(pusch, [pid |-> p, block |-> NoBlock])
      BY <2>3 DEF UeMissesGrant
    <3> HIDE DEF e
    <3>3. /\ pusch' \in Seq(Pusch) /\ Len(pusch) \in Nat /\ Len(pusch') = Len(pusch) + 1
          /\ \A i \in 1 .. Len(pusch) : pusch'[i] = pusch[i]
          /\ e = [pid |-> p, block |-> NoBlock]
      BY <2>1, <3>1, <3>2, AppendFacts DEF e
    <3> QED
      BY <2>3, <3>1, <3>2, <3>3
  <2> QED
    BY <1>2, <2>2, <2>3
<1>7. ulHarq[p].ndi \in {0, 1} /\ ulHarq[p].round \in Nat
  BY <1>3 DEF UlRec
<1>8. /\ UeReceivesGrant(p) => ulUe' \in [UlPids -> UlUeRec] /\ ulUe'[p] = [ndi |-> ulHarq[p].ndi, block |-> b]
                               /\ (\A q \in UlPids \ {p} : ulUe'[q] = ulUe[q])
      /\ UeMissesGrant(p) => ulUe' = ulUe /\ processed' = processed
  <2>1. [ndi |-> ulHarq[p].ndi, block |-> b] \in UlUeRec
    BY <1>5, <1>7 DEF UlUeRec
  <2>2. UeReceivesGrant(p) => ulUe' = [ulUe EXCEPT ![p] = [ndi |-> ulHarq[p].ndi, block |-> b]]
    BY DEF UeReceivesGrant, b
  <2>3. ulUe \in [UlPids -> UlUeRec]
    BY DEF OnceInv, UlTypes
  <2> QED
    BY <1>3, <2>1, <2>2, <2>3, ExceptFacts DEF UeMissesGrant
<1>9. UlTypes'
  <2>1. ulUe' \in [UlPids -> UlUeRec]
    BY <1>2, <1>8 DEF OnceInv, UlTypes
  <2>2. Len(pusch') <= MaxInFlight
    BY <1>2, <1>6, UlAssumption
  <2> QED
    BY <1>2, <1>6, <2>1, <2>2 DEF OnceInv, UlTypes
<1> SUFFICES ASSUME ulResets = 0 PROVE IF disableHarq THEN WithoutFeedback' ELSE WithFeedback'
  BY <1>2, <1>9, CrcFacts DEF OnceInv
<1> HIDE DEF e
<1>10. ASSUME NEW i \in 1 .. Len(pusch') PROVE i \in 1 .. Len(pusch) \/ (i = Len(pusch) + 1 /\ pusch'[i] = e)
  BY <1>6 DEF e
<1>11. CASE ~disableHarq
  <2>1. /\ ulHarq' = [ulHarq EXCEPT ![p] = [ulHarq[p] EXCEPT !.waiting = TRUE]]
        /\ ulHarq' \in [UlPids -> UlRec]
        /\ ulHarq'[p].ndi = ulHarq[p].ndi /\ ulHarq'[p].round = ulHarq[p].round
        /\ \A q \in UlPids \ {p} : ulHarq'[q] = ulHarq[q]
    <3>1. ulHarq' = [ulHarq EXCEPT ![p] = [ulHarq[p] EXCEPT !.waiting = TRUE]]
      BY <1>2, <1>11
    <3>2. [ulHarq[p] EXCEPT !.waiting = TRUE] = [round |-> ulHarq[p].round, ndi |-> ulHarq[p].ndi, waiting |-> TRUE]
      BY <1>3, UlRecExcept, Zenon
    <3>3. [ulHarq[p] EXCEPT !.waiting = TRUE] \in UlRec
      BY <1>3, UlRecords, Zenon
    <3>4. ulHarq \in [UlPids -> UlRec]
      BY DEF UlInv, HarqInv
    <3>5. /\ ulHarq' \in [UlPids -> UlRec] /\ ulHarq'[p] = [ulHarq[p] EXCEPT !.waiting = TRUE]
          /\ \A q \in UlPids \ {p} : ulHarq'[q] = ulHarq[q]
      BY <1>3, <3>1, <3>3, <3>4, ExceptFacts
    <3>6. ulHarq'[p].ndi = ulHarq[p].ndi /\ ulHarq'[p].round = ulHarq[p].round
      BY <3>2, <3>5
    <3> QED
      BY <3>1, <3>5, <3>6
  <2>2. WithFeedback
    BY <1>11 DEF OnceInv
  <2>3. ulFeedback \in Seq(UlPids) /\ Distinct(ulFeedback) /\ ulFeedback' = AddTail(ulFeedback, p)
    BY <1>2, <1>11 DEF UlInv, HarqInv, Partition
  <2>4. PuschsInOrder'
    <3>1. Follows(pusch, ulFeedback)
      BY <2>2 DEF WithFeedback, PuschsInOrder
    <3>2. pusch \in Seq(Pusch)
      BY DEF OnceInv, UlTypes
    <3>3. Follows(Append(pusch, e), AddTail(ulFeedback, e.pid))
      BY <1>3, <1>6, <2>3, <3>1, <3>2, FollowsMore
    <3> QED
      BY <1>2, <1>6, <2>3, <3>3 DEF PuschsInOrder
  <2>5. \A i \in 1 .. Len(pusch) : pusch[i].pid # p /\ pusch[i].pid \in UlPids
    <3>1. \A i \in 1 .. Len(pusch) : pusch[i].pid \in Entries(ulFeedback)
      BY <2>2 DEF WithFeedback, PuschsInOrder, Follows
    <3>2. Entries(ulFeedback) \subseteq UlPids
      BY DEF UlInv, HarqInv, Partition
    <3> QED
      BY <1>3, <3>1, <3>2, SMTT(30)
  <2>6. Entries(ulFeedback') = Entries(ulFeedback) \cup {p}
    BY <1>3, <2>3, TailIn
  <2>7. LastBlocks'
    <3> SUFFICES ASSUME NEW i \in 1 .. Len(pusch'), pusch'[i].block # NoBlock PROVE pusch'[i].block = ulUe'[pusch'[i].pid].block
      BY DEF LastBlocks
    <3>1. CASE i \in 1 .. Len(pusch)
      <4>1. pusch'[i] = pusch[i] /\ ulUe'[pusch[i].pid] = ulUe[pusch[i].pid]
        BY <1>6, <1>8, <2>5, <3>1
      <4> QED
        BY <2>2, <3>1, <4>1 DEF WithFeedback, LastBlocks
    <3>2. CASE pusch'[i] = e
      <4>1. UeReceivesGrant(p) /\ e = [pid |-> p, block |-> b]
        BY <1>6, <3>2
      <4>2. ulUe'[p] = [ndi |-> ulHarq[p].ndi, block |-> b]
        BY <1>8, <4>1
      <4> QED
        BY <3>2, <4>1, <4>2
    <3> QED
      BY <1>10, <3>1, <3>2
  <2>8. ASSUME NEW q \in UlPids, q # p PROVE IF UeNew(q)' THEN NotReached(q)' ELSE Reached(q)'
    <3>1. ulUe'[q] = ulUe[q] /\ ulHarq'[q] = ulHarq[q]
      BY <1>2, <1>8, <2>1, <2>8
    <3>2. UeNew(q)' <=> UeNew(q)
      BY <3>1 DEF UeNew
    <3>3. CASE UeNew(q)
      <4>1. NotReached(q)
        BY <2>2, <3>3 DEF WithFeedback
      <4>2. \A i \in 1 .. Len(pusch') : pusch'[i].pid = q => pusch'[i].block = NoBlock
        BY <1>6, <1>10, <2>8, <4>1 DEF NotReached
      <4> QED
        BY <1>2, <2>6, <2>8, <3>1, <3>2, <3>3, <4>1, <4>2 DEF NotReached
    <3>4. CASE ~UeNew(q)
      <4>1. Reached(q)
        BY <2>2, <3>4 DEF WithFeedback
      <4>2. processed' \subseteq processed
        BY <1>2 DEF UeReceivesGrant, UeMissesGrant
      <4> QED
        BY <1>2, <3>1, <3>2, <3>4, <4>1, <4>2 DEF Reached
    <3> QED
      BY <3>3, <3>4
  <2>9. IF UeNew(p)' THEN NotReached(p)' ELSE Reached(p)'
    <3>1. CASE UeReceivesGrant(p)
      <4>1. ~UeNew(p)'
        BY <1>8, <2>1, <3>1 DEF UeNew
      <4>2. ulUe'[p].block = b
        BY <1>8, <3>1
      <4>3. CASE UeNew(p)
        <5>1. <<p, b>> \notin processed'
          BY <3>1, <4>3 DEF UeReceivesGrant, b
        <5> QED
          BY <4>1, <4>2, <5>1 DEF Reached
      <4>4. CASE ~UeNew(p)
        <5>1. Reached(p) /\ processed' = processed /\ b = ulUe[p].block
          BY <1>3, <2>2, <3>1, <4>4 DEF UeReceivesGrant, b, UeBlock, WithFeedback
        <5>2. <<p, b>> \notin processed
          BY <1>2, <5>1, CrcFacts DEF Reached
        <5> QED
          BY <4>1, <4>2, <5>1, <5>2 DEF Reached
      <4> QED
        BY <4>3, <4>4
    <3>2. CASE UeMissesGrant(p) /\ e.block = NoBlock
      <4>1. ulUe' = ulUe /\ processed' = processed /\ (ulHarq[p].round < UlRoundMax - 1 \/ ~UeNew(p))
        BY <3>2 DEF UeMissesGrant, MayMiss
      <4>2. UeNew(p)' <=> UeNew(p)
        BY <2>1, <4>1 DEF UeNew
      <4>3. CASE UeNew(p)
        <5>1. \A i \in 1 .. Len(pusch') : pusch'[i].pid = p => pusch'[i].block = NoBlock
          BY <1>6, <1>10, <2>5, <3>2
        <5> QED
          BY <1>2, <2>1, <4>1, <4>2, <4>3, <5>1, CrcFacts, SMTT(30) DEF NotReached
      <4>4. CASE ~UeNew(p)
        <5>1. Reached(p)
          BY <1>3, <2>2, <4>4 DEF WithFeedback
        <5> QED
          BY <1>2, <4>1, <4>2, <4>4, <5>1 DEF Reached
      <4> QED
        BY <4>3, <4>4
    <3> QED
      BY <1>6, <3>1, <3>2
  <2>10. \A q \in UlPids : IF UeNew(q)' THEN NotReached(q)' ELSE Reached(q)'
    BY <2>8, <2>9
  <2>11. WithFeedback'
    BY <2>4, <2>7, <2>10 DEF WithFeedback
  <2> QED
    BY <1>11, <2>11
<1>12. CASE disableHarq
  <2>1. WithoutFeedback
    BY <1>12 DEF OnceInv
  <2>2. UeReceivesGrant(p) /\ e = [pid |-> p, block |-> b]
    BY <1>6, <1>12 DEF UeMissesGrant, MayMiss
  <2>3. UeNew(p)
    BY <1>3, <2>1 DEF WithoutFeedback
  <2>4. processed' = processed \ {<<p, b>>}
    BY <2>2, <2>3 DEF UeReceivesGrant, b
  <2>5. \A q \in UlPids : UeNew(q)'
    <3>1. UlFinished(ulHarq[p]).ndi = 1 - ulHarq[p].ndi /\ UlFinished(ulHarq[p]) \in UlRec
      BY <1>3, UlFinishedNdi, UlRecords, Zenon
    <3>2. ulHarq \in [UlPids -> UlRec]
      BY DEF UlInv, HarqInv
    <3>3. ulHarq'[p] = UlFinished(ulHarq[p]) /\ \A q \in UlPids \ {p} : ulHarq'[q] = ulHarq[q]
      BY <1>2, <1>3, <1>12, <3>1, <3>2, ExceptFacts
    <3>4. UeNew(p)'
      <4>1. ulUe'[p].ndi = ulHarq[p].ndi
        BY <1>8, <2>2
      <4>2. ulHarq'[p].ndi = 1 - ulHarq[p].ndi
        BY <3>1, <3>3, SMTT(30)
      <4> QED
        BY <1>7, <4>1, <4>2 DEF UeNew
    <3>5. \A q \in UlPids \ {p} : UeNew(q)'
      BY <1>8, <2>1, <2>2, <3>3 DEF WithoutFeedback, UeNew
    <3> QED
      BY <3>4, <3>5, SMTT(30)
  <2>6. ASSUME NEW i \in 1 .. Len(pusch), pusch[i].pid = p
        PROVE  pusch[i].block # b /\ \E d \in 0 .. Len(pusch') - i : BlocksLater(pusch[i].block, d, b)
    <3> DEFINE c == pusch[i].block
               k == ulUe[p].block
    <3>1. PICK d \in 0 .. Len(pusch) - i : BlocksLater(c, d, k)
      BY <2>1, <2>6, Zenon DEF WithoutFeedback, InFlight
    <3>2. c \in 0 .. MaxInFlight - 1
      <4>1. pusch \in Seq(Pusch)
        BY DEF OnceInv, UlTypes
      <4>2. pusch[i] \in Pusch
        BY <4>1
      <4>3. c # NoBlock
        BY <2>1, Zenon DEF WithoutFeedback, InFlight
      <4> QED
        BY <4>2, <4>3 DEF Pusch
    <3>3. k \in 0 .. MaxInFlight - 1 /\ b = IF k = MaxInFlight - 1 THEN 0 ELSE k + 1
      BY <1>4, <1>5, <2>3
    <3> HIDE DEF c, k
    <3>4. d + 1 \in 0 .. Len(pusch') - i /\ d + 1 < MaxInFlight /\ MaxInFlight \in Nat
      BY <1>2, <1>6, UlAssumption
    <3>5. BlocksLater(c, d + 1, b)
      BY <3>1, <3>2, <3>3, <3>4 DEF BlocksLater
    <3>6. c # b
      BY <3>1, <3>2, <3>3, <3>4 DEF BlocksLater
    <3> QED
      BY <3>4, <3>5, <3>6 DEF c
  <2>7. ASSUME NEW i \in 1 .. Len(pusch') PROVE InFlight(i)'
    <3>1. CASE i \in 1 .. Len(pusch)
      <4>1. pusch'[i] = pusch[i] /\ InFlight(i)
        BY <1>6, <2>1, <3>1 DEF WithoutFeedback
      <4>2. pusch'[i].block # NoBlock /\ <<pusch'[i].pid, pusch'[i].block>> \notin processed'
        BY <2>4, <4>1, SMTT(30) DEF InFlight
      <4>3. CASE pusch[i].pid = p
        <5>1. ulUe'[p].block = b
          BY <1>8, <2>2
        <5>2. \E d \in 0 .. Len(pusch') - i : BlocksLater(pusch[i].block, d, b)
          BY <2>6, <3>1, <4>3, SMTT(30)
        <5> QED
          BY <4>1, <4>2, <4>3, <5>1, <5>2 DEF InFlight
      <4>4. CASE pusch[i].pid # p
        <5>1. ulUe'[pusch[i].pid] = ulUe[pusch[i].pid]
          <6>1. pusch[i] \in Pusch
            <7>1. pusch \in Seq(Pusch)
              BY DEF OnceInv, UlTypes
            <7> QED
              BY <3>1, <7>1
          <6> QED
            BY <1>8, <2>2, <4>4, <6>1 DEF Pusch
        <5>2. \A d \in 0 .. Len(pusch) - i : d \in 0 .. Len(pusch') - i
          BY <1>6, SMTT(30)
        <5> QED
          BY <4>1, <4>2, <5>1, <5>2 DEF InFlight
      <4> QED
        BY <4>3, <4>4
    <3>2. CASE i = Len(pusch) + 1 /\ pusch'[i] = e
      <4>0. ulUe'[p].block = b
        BY <1>8, <2>2
      <4>1. pusch'[i].pid = p /\ pusch'[i].block = b /\ b # NoBlock /\ ulUe'[p].block = b
        BY <1>5, <2>2, <3>2, <4>0 DEF NoBlock
      <4>2. 0 \in 0 .. Len(pusch') - i /\ BlocksLater(b, 0, b)
        BY <1>5, <1>6, <3>2 DEF BlocksLater
      <4> QED
        BY <2>4, <4>1, <4>2 DEF InFlight
    <3> QED
      BY <1>10, <3>1, <3>2
  <2>8. \A i, j \in 1 .. Len(pusch') : pusch'[i] = pusch'[j] => i = j
    <3>1. \A i \in 1 .. Len(pusch) : pusch[i] # e
      BY <2>2, <2>6
    <3>2. \A i, j \in 1 .. Len(pusch) : pusch[i] = pusch[j] => i = j
      BY <2>1 DEF WithoutFeedback
    <3>3. \A i \in 1 .. Len(pusch') :
            \/ i \in 1 .. Len(pusch) /\ pusch'[i] = pusch[i]
            \/ i = Len(pusch) + 1 /\ pusch'[i] = e
      <4>1. \A i \in 1 .. Len(pusch) : pusch'[i] = pusch[i]
        BY <1>6
      <4> TAKE i \in 1 .. Len(pusch')
      <4>2. CASE i \in 1 .. Len(pusch)
        BY <4>1, <4>2
      <4>3. CASE i = Len(pusch) + 1 /\ pusch'[i] = e
        BY <4>3
      <4> QED
        BY <1>10, <4>2, <4>3
    <3>4. Len(pusch) \in Nat
      BY <1>6
    <3> QED
      BY <3>1, <3>2, <3>3, <3>4
  <2> QED
    BY <1>2, <1>12, <2>5, <2>7, <2>8 DEF WithoutFeedback
<1> QED
  BY <1>11, <1>12

(* An indication comes or is lost.                                           *)
LEMMA OnceIndication ==
  ASSUME OnceInv, UlInv,
         (\E ok, low \in BOOLEAN : RxSdu(ok, low)) \/ IndicationLost
  PROVE  OnceInv'
<1>1. /\ pusch # <<>> /\ pusch' = Tail(pusch) /\ crc = NoCrc
      /\ UNCHANGED <<ulUe, ulResets, disableHarq, ulFeedback, ulHarq>>
  BY DEF RxSdu, IndicationLost, UlFree
<1> DEFINE e == pusch[1]
<1>2. /\ UlTypes' /\ Head(pusch) = e /\ e \in Pusch /\ 1 \in 1 .. Len(pusch)
      /\ Len(pusch) \in Nat \ {0} /\ Len(pusch') = Len(pusch) - 1
      /\ \A m \in 1 .. Len(pusch') : m + 1 \in 1 .. Len(pusch) /\ pusch'[m] = pusch[m + 1]
  BY <1>1, TypesTail DEF OnceInv
<1> HIDE DEF e
<1>3. PICK ok \in BOOLEAN :
        /\ ok => e.block # NoBlock
        /\ ulResets = 0 => processed' = IF ok THEN processed \cup {<<e.pid, e.block>>} ELSE processed
        /\ twice' <=> (twice \/ (ok /\ <<e.pid, e.block>> \in processed))
        /\ (crc' = IF disableHarq THEN NoCrc ELSE [pid |-> e.pid, ok |-> ok]) \/ (crc' = NoCrc /\ ok = FALSE)
  <2>1. CASE IndicationLost
    <3>1. crc' = NoCrc /\ processed' = processed /\ twice' = twice
      BY <1>1, <2>1 DEF IndicationLost
    <3> WITNESS FALSE \in BOOLEAN
    <3> QED
      BY <3>1, Zenon
  <2>2. ASSUME NEW ok \in BOOLEAN, NEW low \in BOOLEAN, RxSdu(ok, low)
        PROVE  /\ ok => e.block # NoBlock
               /\ ulResets = 0 => processed' = IF ok THEN processed \cup {<<e.pid, e.block>>} ELSE processed
               /\ twice' <=> (twice \/ (ok /\ <<e.pid, e.block>> \in processed))
               /\ crc' = IF disableHarq THEN NoCrc ELSE [pid |-> e.pid, ok |-> ok]
    BY <1>2, <2>2, Zenon DEF RxSdu
  <2> QED
    BY <2>1, <2>2, Zenon
<1>4. e.pid \in UlPids
  BY <1>2 DEF Pusch
<1> SUFFICES ASSUME ulResets = 0 PROVE ~twice' /\ (IF disableHarq THEN WithoutFeedback' ELSE WithFeedback')
  BY <1>1, <1>2, <1>3, <1>4, CrcFacts DEF OnceInv
<1>5. ~twice /\ ulFeedback \in Seq(UlPids) /\ pusch \in Seq(Pusch)
  BY DEF OnceInv, UlInv, HarqInv, UlTypes
<1>6. CASE ~disableHarq
  <2>1. WithFeedback
    BY <1>6, SMTT(30) DEF OnceInv
  <2>2. Follows(pusch', ulFeedback) /\ First(e.pid, pusch', ulFeedback)
    BY <1>1, <1>2, <1>5, <2>1, FollowsLess DEF WithFeedback, PuschsInOrder
  <2>3. PuschsInOrder'
    BY <1>1, <1>3, <1>6, <2>2, SMTT(30) DEF PuschsInOrder
  <2>4. LastBlocks'
    BY <1>1, <1>2, <2>1, Zenon DEF WithFeedback, LastBlocks
  <2>5. ASSUME ok PROVE ~UeNew(e.pid) /\ e.block = ulUe[e.pid].block /\ <<e.pid, e.block>> \notin processed
    <3>1. e.block # NoBlock
      BY <1>3, <2>5
    <3>2. ~UeNew(e.pid)
      BY <1>2, <1>4, <2>1, <3>1 DEF WithFeedback, NotReached, e
    <3>3. e.block = ulUe[e.pid].block
      BY <1>2, <2>1, <3>1 DEF WithFeedback, LastBlocks, e
    <3>4. Reached(e.pid)
      BY <1>4, <2>1, <3>2 DEF WithFeedback
    <3> QED
      BY <1>1, <3>2, <3>3, <3>4, CrcFacts, Zenon DEF Reached
  <2>6. ASSUME NEW p \in UlPids PROVE IF UeNew(p)' THEN NotReached(p)' ELSE Reached(p)'
    <3>1. UeNew(p)' <=> UeNew(p)
      BY <1>1, SMTT(30) DEF UeNew
    <3>2. CASE UeNew(p)
      <4>1. NotReached(p)
        BY <2>1, <3>2, SMTT(30) DEF WithFeedback
      <4>2. \A i \in 1 .. Len(pusch') : pusch'[i].pid = p => pusch'[i].block = NoBlock
        BY <1>2, <4>1 DEF NotReached
      <4>3. crc' # [pid |-> p, ok |-> TRUE]
        BY <1>3, <1>6, <2>5, <3>2, CrcFacts
      <4> QED
        BY <1>1, <3>1, <3>2, <4>1, <4>2, <4>3 DEF NotReached
    <3>3. CASE ~UeNew(p)
      <4>1. <<p, ulUe[p].block>> \notin processed
        BY <1>1, <2>1, <3>3, CrcFacts DEF WithFeedback, Reached
      <4>2. ASSUME <<p, ulUe[p].block>> \in processed' PROVE crc' = [pid |-> p, ok |-> TRUE]
        <5>1. ok = TRUE /\ e.pid = p
          BY <1>3, <4>1, <4>2
        <5> QED
          BY <1>3, <1>6, <5>1, Zenon
      <4> QED
        BY <1>1, <3>1, <3>3, <4>2, SMTT(30) DEF Reached
    <3> QED
      BY <3>2, <3>3
  <2>7. ~twice'
    BY <1>3, <1>5, <2>5
  <2> QED
    BY <1>6, <2>3, <2>4, <2>6, <2>7 DEF WithFeedback
<1>7. CASE disableHarq
  <2>1. WithoutFeedback
    BY <1>7, SMTT(30) DEF OnceInv
  <2>2. ~twice'
    BY <1>2, <1>3, <1>5, <2>1, SMTT(30) DEF WithoutFeedback, InFlight, e
  <2>3. crc' = NoCrc /\ \A p \in UlPids : UeNew(p)'
    BY <1>1, <1>3, <1>7, <2>1, Zenon DEF WithoutFeedback, UeNew
  <2>4. ASSUME NEW i \in 1 .. Len(pusch') PROVE InFlight(i)'
    <3>1. i + 1 \in 1 .. Len(pusch) /\ pusch'[i] = pusch[i + 1] /\ i + 1 # 1 /\ Len(pusch') - i = Len(pusch) - (i + 1)
      BY <1>2
    <3>2. InFlight(i + 1) /\ pusch[i + 1] # e
      BY <1>2, <2>1, <3>1 DEF WithoutFeedback, e
    <3>3. <<pusch[i + 1].pid, pusch[i + 1].block>> # <<e.pid, e.block>>
      <4>1. pusch[i + 1] \in Pusch
        BY <1>5, <3>1
      <4>2. ASSUME NEW x \in Pusch, NEW y \in Pusch, x.pid = y.pid, x.block = y.block PROVE x = y
        BY <4>2, SMTT(30) DEF Pusch
      <4> QED
        BY <1>2, <3>2, <4>1, <4>2
    <3>4. <<pusch[i + 1].pid, pusch[i + 1].block>> \notin processed'
      BY <1>3, <3>2, <3>3 DEF InFlight
    <3> QED
      BY <1>1, <3>1, <3>2, <3>4 DEF InFlight
  <2>5. \A i, j \in 1 .. Len(pusch') : pusch'[i] = pusch'[j] => i = j
    BY <1>2, <2>1 DEF WithoutFeedback
  <2> QED
    BY <1>7, <2>2, <2>3, <2>4, <2>5 DEF WithoutFeedback
<1> QED
  BY <1>6, <1>7, SMTT(30)

(* What the result does to the record of a process.                          *)
LEMMA UlResultRecord ==
  ASSUME UlInv, ulFeedback # <<>>, NEW ok, NEW p, p = Head(ulFeedback), UlResult(p, ok)
  PROVE  /\ p \in UlPids /\ ulHarq[p] \in UlRec
         /\ \A q \in UlPids \ {p} : ulHarq'[q] = ulHarq[q]
         /\ IF ~ok /\ ulHarq[p].round < UlRoundMax - 1
            THEN ulHarq'[p].ndi = ulHarq[p].ndi
            ELSE ulHarq'[p].ndi = 1 - ulHarq[p].ndi
<1> DEFINE h == [ulHarq[p] EXCEPT !.waiting = FALSE]
           again == ~ok /\ h.round < UlRoundMax - 1
           g == IF again THEN [h EXCEPT !.round = @ + 1] ELSE UlFinished(h)
<1>1. p \in UlPids /\ ulHarq[p] \in UlRec
  BY HeadOut DEF UlInv, HarqInv, Partition
<1>2. h = [round |-> ulHarq[p].round, ndi |-> ulHarq[p].ndi, waiting |-> FALSE] /\ h \in UlRec
  <2>1. h = [round |-> ulHarq[p].round, ndi |-> ulHarq[p].ndi, waiting |-> FALSE]
    BY <1>1, UlRecExcept, Zenon
  <2>2. h \in UlRec
    BY <1>1, UlRecords, Zenon
  <2> QED
    BY <2>1, <2>2
<1>3. h.round = ulHarq[p].round /\ h.ndi = ulHarq[p].ndi
  BY <1>2
<1>4. ulHarq' = [ulHarq EXCEPT ![p] = g] /\ ulHarq \in [UlPids -> UlRec]
  BY DEF UlResult, UlInv, HarqInv
<1> HIDE DEF h
<1>5. h \in UlRec
  BY <1>2
<1>6. g \in UlRec /\ g.ndi = IF again THEN h.ndi ELSE 1 - h.ndi
  <2>1. [h EXCEPT !.round = @ + 1] = [round |-> h.round + 1, ndi |-> h.ndi, waiting |-> h.waiting]
    BY <1>5, UlRecExcept, Zenon
  <2>2. [h EXCEPT !.round = @ + 1].ndi = h.ndi
    BY <2>1, SMTT(30)
  <2>4. [h EXCEPT !.round = @ + 1] \in UlRec
    BY <1>5, UlRecords, Zenon
  <2>3. UlFinished(h) \in UlRec /\ UlFinished(h).ndi = 1 - h.ndi
    BY <1>5, UlRecords, UlFinishedNdi, Zenon
  <2> QED
    BY <2>2, <2>3, <2>4
<1> HIDE DEF g
<1>7. ulHarq'[p] = g /\ \A q \in UlPids \ {p} : ulHarq'[q] = ulHarq[q]
  BY <1>1, <1>4, <1>6, ExceptFacts
<1> QED
  BY <1>1, <1>3, <1>6, <1>7

(* A process gets its result.                                                *)
LEMMA OnceResult ==
  ASSUME OnceInv, UlInv, SkipProcess \/ HandleUlHarq
  PROVE  OnceInv'
<1>1. PICK p : p = Head(ulFeedback)
  OBVIOUS
<1>2. /\ ulFeedback # <<>> /\ crc # NoCrc /\ ulFeedback' = Tail(ulFeedback)
      /\ UNCHANGED <<disableHarq, pusch, ulUe, processed, twice, ulResets>>
  BY DEF SkipProcess, HandleUlHarq, UlResult
<1>3. PICK ok \in BOOLEAN :
        /\ UlResult(p, ok)
        /\ \/ p # crc.pid /\ ok = FALSE /\ crc' = crc
           \/ p = crc.pid /\ ok = (crc = [pid |-> p, ok |-> TRUE]) /\ crc' = NoCrc
  <2>1. CASE SkipProcess
    BY <1>1, <2>1, Zenon DEF SkipProcess
  <2>2. CASE HandleUlHarq
    <3>1. p = crc.pid /\ UlResult(p, crc.ok) /\ crc' = NoCrc
      BY <1>1, <2>2 DEF HandleUlHarq
    <3>2. crc.ok \in BOOLEAN /\ (crc.ok <=> crc = [pid |-> p, ok |-> TRUE])
      BY <3>1 DEF OnceInv, CrcRec
    <3> QED
      BY <3>1, <3>2
  <2> QED
    BY <2>1, <2>2, Zenon
<1>4. UlTypes' /\ crc' \in CrcRec
  BY <1>2, <1>3, CrcFacts DEF OnceInv, UlTypes
<1> SUFFICES ASSUME ulResets = 0 PROVE IF disableHarq THEN WithoutFeedback' ELSE WithFeedback'
  BY <1>2, <1>4 DEF OnceInv
<1>5. ~disableHarq /\ WithFeedback
  BY <1>2, SMTT(30) DEF OnceInv, WithoutFeedback
<1>6. /\ p \in UlPids /\ ulHarq[p] \in UlRec
      /\ \A q \in UlPids \ {p} : ulHarq'[q] = ulHarq[q]
      /\ IF ~ok /\ ulHarq[p].round < UlRoundMax - 1
         THEN ulHarq'[p].ndi = ulHarq[p].ndi
         ELSE ulHarq'[p].ndi = 1 - ulHarq[p].ndi
  BY <1>1, <1>2, <1>3, UlResultRecord
<1>7. ulFeedback \in Seq(UlPids) /\ pusch \in Seq(Pusch) /\ Distinct(ulFeedback)
  BY DEF OnceInv, UlInv, HarqInv, UlTypes, Partition
<1>8. First(crc.pid, pusch, ulFeedback) /\ Follows(pusch, ulFeedback)
  BY <1>2, <1>5 DEF WithFeedback, PuschsInOrder
<1>9. NotOf(p, pusch)
  BY <1>1, <1>2, <1>7, <1>8, FirstOut
<1>10. PuschsInOrder'
  BY <1>1, <1>2, <1>3, <1>7, <1>8, <1>9, FollowsOut DEF PuschsInOrder
<1>11. LastBlocks'
  BY <1>2, <1>5 DEF WithFeedback, LastBlocks
<1>12. p \in Entries(ulFeedback) /\ Entries(ulFeedback') = Entries(ulFeedback) \ {p}
  BY <1>1, <1>2, <1>7, HeadOut
<1>13. crc' = crc \/ crc' = NoCrc
  BY <1>3
<1>14. ASSUME NEW q \in UlPids, q # p PROVE IF UeNew(q)' THEN NotReached(q)' ELSE Reached(q)'
  <2>1. ulHarq'[q] = ulHarq[q]
    BY <1>6, <1>14
  <2>2. UeNew(q)' <=> UeNew(q)
    BY <1>2, <2>1, SMTT(30) DEF UeNew
  <2>3. CASE UeNew(q)
    BY <1>2, <1>5, <1>12, <1>13, <2>1, <2>2, <2>3, CrcFacts DEF WithFeedback, NotReached
  <2>4. CASE ~UeNew(q)
    <3>1. Reached(q)
      BY <1>5, <2>4 DEF WithFeedback
    <3>2. crc = [pid |-> q, ok |-> TRUE] => crc' = crc
      BY <1>3, <1>14
    <3> QED
      BY <1>2, <2>2, <2>4, <3>1, <3>2 DEF Reached
  <2> QED
    BY <2>3, <2>4
<1>15. IF UeNew(p)' THEN NotReached(p)' ELSE Reached(p)'
  <2>1. CASE UeNew(p)'
    <3>1. crc' # [pid |-> p, ok |-> TRUE]
      BY <1>3, CrcFacts
    <3> QED
      BY <1>2, <1>9, <1>12, <2>1, <3>1, SMTT(30) DEF NotReached, NotOf
  <2>2. CASE ~UeNew(p)'
    <3>1. SUFFICES ASSUME <<p, ulUe[p].block>> \in processed PROVE FALSE
      BY <1>2, <2>2, <3>1 DEF Reached
    <3>2. ulHarq[p].ndi \in {0, 1}
      BY <1>6, SMTT(30) DEF UlRec
    <3>3. CASE UeNew(p)
      <4>1. ulHarq[p].round < UlRoundMax - 1 /\ crc # [pid |-> p, ok |-> TRUE]
        BY <1>5, <1>6, <1>12, <3>3, SMTT(30) DEF WithFeedback, NotReached
      <4>2. ok = FALSE
        BY <1>3, <4>1
      <4> QED
        BY <1>2, <1>6, <2>2, <3>3, <4>1, <4>2, SMTT(30) DEF UeNew
    <3>4. CASE ~UeNew(p)
      <4>1. crc = [pid |-> p, ok |-> TRUE]
        BY <1>5, <1>6, <3>1, <3>4 DEF WithFeedback, Reached
      <4>2. ok = TRUE
        BY <1>3, <4>1, Zenon
      <4>3. ulHarq'[p].ndi = 1 - ulHarq[p].ndi
        BY <1>6, <4>2
      <4>4. ulUe[p].ndi = ulHarq[p].ndi /\ ulUe[p].ndi = ulHarq'[p].ndi
        BY <1>2, <2>2, <3>4 DEF UeNew
      <4> QED
        BY <3>2, <4>3, <4>4, SMTT(30)
    <3> QED
      BY <3>3, <3>4
  <2> QED
    BY <2>1, <2>2, SMTT(30)
<1>16. \A q \in UlPids : IF UeNew(q)' THEN NotReached(q)' ELSE Reached(q)'
  BY <1>14, <1>15
<1> QED
  BY <1>5, <1>10, <1>11, <1>16 DEF WithFeedback

(* The state of the uplink blocks                                            *)
onceVars == <<disableHarq, ulFeedback, ulHarq, pusch, crc, ulUe, processed, twice, ulResets>>

(* What leaves the uplink alone keeps it.                                    *)
LEMMA OnceUnchanged == OnceInv /\ UNCHANGED onceVars => OnceInv'
<1> SUFFICES ASSUME OnceInv, UNCHANGED onceVars PROVE OnceInv'
  OBVIOUS
<1>1. UNCHANGED <<disableHarq, ulFeedback, ulHarq, pusch, crc, ulUe, processed, twice, ulResets>>
  BY DEF onceVars
<1>2. UlTypes' <=> UlTypes
  BY <1>1 DEF UlTypes
<1>3. WithoutFeedback' <=> WithoutFeedback
  BY <1>1, SMTT(30) DEF WithoutFeedback, UeNew, InFlight
<1>4. WithFeedback' <=> WithFeedback
  BY <1>1, Zenon DEF WithFeedback, PuschsInOrder, LastBlocks, UeNew, NotReached, Reached
<1> QED
  BY <1>1, <1>2, <1>3, <1>4 DEF OnceInv
=============================================================================
