--------------------------- MODULE NrRlcAmRxProofs --------------------------
(***************************************************************************)
(* The receiving side of an RLC AM entity, for every window, SDU and       *)
(* buffer size: the reception window stays in order, gaps are timed, the   *)
(* size of the buffer is exact and no new byte is discarded.               *)
(***************************************************************************)
EXTENDS NrRlcAmRx, WellFoundedInduction, TLAPS

(* A nonempty set of numbers has a least one.                                *)
LEMMA LeastNat ==
  ASSUME NEW T \in SUBSET Nat, T # {}
  PROVE  \E m \in T : \A k \in T : m <= k
<1> DEFINE R == OpToRel(<, Nat)
<1>1. IsWellFoundedOn(R, Nat)
  BY NatLessThanWellFounded
<1>2. \A m, k \in Nat : k < m => <<k, m>> \in R
  BY DEF OpToRel
<1> HIDE DEF R
<1>3. PICK m \in T : \A k \in T : ~(<<k, m>> \in R)
  BY <1>1, WFMin
<1>4. ASSUME NEW k \in T PROVE m <= k
  <2>1. ~(<<k, m>> \in R)
    BY <1>3
  <2>2. m \in Nat /\ k \in Nat
    OBVIOUS
  <2>3. ~(k < m)
    BY <1>2, <2>1, <2>2
  <2> QED
    BY <2>2, <2>3
<1> QED
  BY <1>4

(* Induction up to n: a set of numbers that has 0 and, with each number      *)
(* below n, the next one, has all of them.                                   *)
LEMMA UpTo ==
  ASSUME NEW n \in Nat, NEW S, 0 \in S, \A m \in 0 .. n - 1 : m \in S => m + 1 \in S
  PROVE  \A m \in 0 .. n : m \in S
<1> DEFINE T == {m \in 0 .. n : m \notin S}
<1>1. SUFFICES ASSUME T # {} PROVE FALSE
  BY <1>1
<1>2. T \in SUBSET Nat
  OBVIOUS
<1>3. PICK m \in T : \A k \in T : m <= k
  BY <1>1, <1>2, LeastNat
<1>4. m \in Nat /\ m # 0 /\ m <= n /\ m \notin S
  OBVIOUS
<1>5. m - 1 \in 0 .. n - 1 /\ m - 1 \in 0 .. n /\ ~(m <= m - 1)
  BY <1>4
<1>6. m - 1 \in S
  BY <1>3, <1>5
<1>7. (m - 1) + 1 \in S
  BY <1>5, <1>6
<1> QED
  BY <1>4, <1>7

(* f is v at 0 and then follows the steps F[m], m up to n.                   *)
IsRecursion(f, v, n, F, V) ==
  f \in [0 .. n -> V] /\ f[0] = v /\ \A m \in 1 .. n : f[m] = F[m][f[m - 1]]

(* A function defined by recursion over 0 .. n with steps F[m] exists.       *)
LEMMA Recursion ==
  ASSUME NEW V, NEW v \in V, NEW n \in Nat, NEW F \in [1 .. n -> [V -> V]]
  PROVE  \E f : IsRecursion(f, v, n, F, V)
<1> DEFINE Rec(m, f) == f \in [0 .. m -> V] /\ f[0] = v /\ \A k \in 1 .. m : f[k] = F[k][f[k - 1]]
           S == {m \in Nat : \E f : Rec(m, f)}
<1>1. 0 \in S
  <2>1. Rec(0, [k \in 0 .. 0 |-> v])
    OBVIOUS
  <2> QED
    BY <2>1
<1>2. ASSUME NEW m \in 0 .. n - 1, m \in S PROVE m + 1 \in S
  <2>1. PICK f : Rec(m, f)
    BY <1>2
  <2>2. m \in Nat /\ m + 1 \in Nat /\ m + 1 \in 1 .. n /\ f[m] \in V /\ F[m + 1][f[m]] \in V
    BY <2>1
  <2> DEFINE g == [k \in 0 .. m + 1 |-> IF k = m + 1 THEN F[m + 1][f[m]] ELSE f[k]]
  <2>3. g \in [0 .. m + 1 -> V] /\ g[0] = v
    BY <2>1, <2>2
  <2>4. ASSUME NEW k \in 1 .. m + 1 PROVE g[k] = F[k][g[k - 1]]
    <3>1. CASE k = m + 1
      BY <2>1, <2>2, <3>1
    <3>2. CASE k # m + 1
      <4>1. k \in 1 .. m /\ k - 1 \in 0 .. m /\ k - 1 # m + 1 /\ k \in 0 .. m + 1 /\ k - 1 \in 0 .. m + 1
        BY <2>2, <3>2
      <4>2. g[k] = f[k] /\ g[k - 1] = f[k - 1]
        BY <3>2, <4>1
      <4> QED
        BY <2>1, <4>1, <4>2
    <3> QED
      BY <3>1, <3>2
  <2>5. Rec(m + 1, g)
    BY <2>3, <2>4
  <2> QED
    BY <2>2, <2>5
<1> HIDE DEF S
<1>3. \A m \in 0 .. n : m \in S
  BY <1>1, <1>2, UpTo
<1>4. PICK f : Rec(n, f)
  <2>1. n \in S
    BY <1>3
  <2> HIDE DEF Rec
  <2> QED
    BY <2>1 DEF S
<1> QED
  BY <1>4 DEF IsRecursion

(* A function that satisfies the recursion has its values in V.              *)
LEMMA RecursionType ==
  ASSUME NEW V, NEW v \in V, NEW n \in Nat, NEW F \in [1 .. n -> [V -> V]], NEW f,
         f[0] = v, \A m \in 1 .. n : f[m - 1] \in V => f[m] = F[m][f[m - 1]]
  PROVE  \A m \in 0 .. n : f[m] \in V
<1> DEFINE S == {m \in Nat : f[m] \in V}
<1>1. 0 \in S
  OBVIOUS
<1>2. ASSUME NEW m \in 0 .. n - 1, m \in S PROVE m + 1 \in S
  <2>1. m + 1 \in 1 .. n /\ (m + 1) - 1 = m /\ m + 1 \in Nat
    OBVIOUS
  <2>2. f[m + 1] = F[m + 1][f[m]] /\ f[m] \in V
    BY <1>2, <2>1
  <2> QED
    BY <2>1, <2>2
<1> HIDE DEF S
<1>3. \A m \in 0 .. n : m \in S
  BY <1>1, <1>2, UpTo
<1> QED
  BY <1>3 DEF S

(* The sums of the first numbers of a sequence, and their total.             *)
LEMMA SumsFacts ==
  ASSUME NEW s \in Seq(Nat)
  PROVE  /\ SumsOf(s)[0] = 0 /\ \A n \in 1 .. Len(s) : SumsOf(s)[n] = SumsOf(s)[n - 1] + s[n]
         /\ \A n \in 0 .. Len(s) : SumsOf(s)[n] \in Nat
         /\ Total(s) \in Nat
<1> DEFINE F == [m \in 1 .. Len(s) |-> [x \in Nat |-> x + s[m]]]
           IsSums(f) == f = [n \in 0 .. Len(s) |-> IF n = 0 THEN 0 ELSE f[n - 1] + s[n]]
<1>1. Len(s) \in Nat /\ F \in [1 .. Len(s) -> [Nat -> Nat]]
  OBVIOUS
<1>2. \A m \in 1 .. Len(s), x \in Nat : F[m][x] = x + s[m]
  OBVIOUS
<1> HIDE DEF F
<1>0. 0 \in Nat
  OBVIOUS
<1>3. PICK g \in [0 .. Len(s) -> Nat] : g[0] = 0 /\ \A m \in 1 .. Len(s) : g[m] = F[m][g[m - 1]]
  <2>1. \E h : IsRecursion(h, 0, Len(s), F, Nat)
    BY <1>0, <1>1, Recursion, Zenon
  <2> QED
    BY <2>1 DEF IsRecursion
<1>4. IsSums(g)
  <2>1. g = [n \in 0 .. Len(s) |-> g[n]]
    BY <1>3
  <2>2. ASSUME NEW n \in 0 .. Len(s) PROVE g[n] = IF n = 0 THEN 0 ELSE g[n - 1] + s[n]
    <3>1. n = 0 \/ (n \in 1 .. Len(s) /\ n - 1 \in 0 .. Len(s))
      BY <1>1
    <3> QED
      BY <1>2, <1>3, <3>1
  <2> QED
    BY <2>1, <2>2
<1> DEFINE f == SumsOf(s)
<1>5. IsSums(f)
  <2>1. f = CHOOSE h : IsSums(h)
    BY DEF SumsOf
  <2> HIDE DEF IsSums, f
  <2> QED
    BY <1>4, <2>1
<1> HIDE DEF f
<1>6. f[0] = 0 /\ \A n \in 1 .. Len(s) : f[n] = f[n - 1] + s[n]
  <2>1. 0 \in 0 .. Len(s) /\ \A n \in 1 .. Len(s) : n \in 0 .. Len(s) /\ n # 0
    BY <1>1
  <2> QED
    BY <1>5, <2>1
<1>7. \A n \in 0 .. Len(s) : f[n] \in Nat
  <2>1. \A m \in 1 .. Len(s) : f[m - 1] \in Nat => f[m] = F[m][f[m - 1]]
    BY <1>2, <1>6
  <2> QED
    BY <1>0, <1>1, <1>6, <2>1, RecursionType, Zenon
<1>8. Total(s) = f[Len(s)]
  BY DEF Total, f
<1> QED
  BY <1>1, <1>6, <1>7, <1>8 DEF f

-----------------------------------------------------------------------------
(* What segment_already_received has left of a segment: a start and a size,  *)
(* which is zero or less when nothing is left.                               *)
Lefts == [so : Int, size : Int]
Within(left, b) == left.so <= b /\ b <= left.so + left.size - 1

(* A segment of the list cuts nothing that it does not have.                 *)
LEMMA CutFacts ==
  ASSUME NEW left \in Lefts, NEW l \in Segments
  PROVE  /\ Cut(left, l) \in Lefts
         /\ \A b \in Int : Within(left, b) => b \in Bytes(l) \/ Within(Cut(left, l), b)
<1> DEFINE head == left.size > 0 /\ l.so <= left.so /\ left.so <= LastByte(l)
           tail == left.size > 0 /\ l.so <= left.so + left.size - 1 /\ left.so + left.size - 1 <= LastByte(l)
<1>1. /\ left.so \in Int /\ left.size \in Int /\ l.so \in Int /\ l.size \in Int
      /\ LastByte(l) = l.so + l.size - 1 /\ LastByte(l) \in Int
  BY RlcConstants DEF Lefts, Segments, LastByte
<1>2. CASE head
  <2>1. Cut(left, l) = [so |-> LastByte(l) + 1, size |-> left.size - (LastByte(l) + 1 - left.so)]
    BY <1>2 DEF Cut
  <2> QED
    BY <1>1, <1>2, <2>1 DEF Lefts, Within, Bytes
<1>3. CASE ~head /\ tail
  <2>1. Cut(left, l) = [so |-> left.so, size |-> l.so - left.so]
    BY <1>3 DEF Cut
  <2> QED
    BY <1>1, <1>3, <2>1 DEF Lefts, Within, Bytes
<1>4. CASE ~head /\ ~tail
  <2>1. Cut(left, l) = left
    BY <1>4 DEF Cut
  <2> QED
    BY <2>1
<1> QED
  BY <1>2, <1>3, <1>4

(* The walk over the list.                                                   *)
LEMMA LeftFacts ==
  ASSUME NEW list \in Seq(Segments), NEW seg, seg.so \in Int, seg.size \in Int
  PROVE  /\ LeftOf(list, seg)[0] = [so |-> seg.so, size |-> seg.size]
         /\ \A n \in 1 .. Len(list) : LeftOf(list, seg)[n] = Cut(LeftOf(list, seg)[n - 1], list[n])
         /\ \A n \in 0 .. Len(list) : LeftOf(list, seg)[n] \in Lefts
<1> DEFINE all == [so |-> seg.so, size |-> seg.size]
           F == [m \in 1 .. Len(list) |-> [x \in Lefts |-> Cut(x, list[m])]]
           IsLeft(f) == f = [n \in 0 .. Len(list) |-> IF n = 0 THEN all ELSE Cut(f[n - 1], list[n])]
<1>1. Len(list) \in Nat /\ \A m \in 1 .. Len(list) : list[m] \in Segments
  OBVIOUS
<1>2. all \in Lefts
  BY DEF Lefts
<1>3. F \in [1 .. Len(list) -> [Lefts -> Lefts]]
  BY <1>1, CutFacts
<1>4. \A m \in 1 .. Len(list), x \in Lefts : F[m][x] = Cut(x, list[m])
  OBVIOUS
<1> HIDE DEF F, all
<1>5. PICK g \in [0 .. Len(list) -> Lefts] : g[0] = all /\ \A m \in 1 .. Len(list) : g[m] = F[m][g[m - 1]]
  <2>1. \E h : IsRecursion(h, all, Len(list), F, Lefts)
    BY <1>1, <1>2, <1>3, Recursion, Zenon
  <2> QED
    BY <2>1 DEF IsRecursion
<1>6. IsLeft(g)
  <2>1. g = [n \in 0 .. Len(list) |-> g[n]]
    BY <1>5
  <2>2. ASSUME NEW n \in 0 .. Len(list) PROVE g[n] = IF n = 0 THEN all ELSE Cut(g[n - 1], list[n])
    <3>1. n = 0 \/ (n \in 1 .. Len(list) /\ n - 1 \in 0 .. Len(list))
      BY <1>1
    <3> QED
      BY <1>4, <1>5, <3>1
  <2> QED
    BY <2>1, <2>2
<1> DEFINE f == LeftOf(list, seg)
<1>7. IsLeft(f)
  <2>1. f = CHOOSE h : IsLeft(h)
    BY DEF LeftOf, all
  <2> HIDE DEF IsLeft, f
  <2> QED
    BY <1>6, <2>1
<1> HIDE DEF f
<1>8. f[0] = all /\ \A n \in 1 .. Len(list) : f[n] = Cut(f[n - 1], list[n])
  <2>1. 0 \in 0 .. Len(list) /\ \A n \in 1 .. Len(list) : n \in 0 .. Len(list) /\ n # 0
    BY <1>1
  <2> QED
    BY <1>7, <2>1
<1>9. \A n \in 0 .. Len(list) : f[n] \in Lefts
  <2>1. \A m \in 1 .. Len(list) : f[m - 1] \in Lefts => f[m] = F[m][f[m - 1]]
    BY <1>4, <1>8
  <2> QED
    BY <1>1, <1>2, <1>3, <1>8, <2>1, RecursionType, Zenon
<1> QED
  BY <1>8, <1>9 DEF f, all

(* segment_already_received for every list of segments: what it takes for    *)
(* received is there, byte by byte.                                          *)
LEMMA AlreadyReceivedSound ==
  ASSUME NEW list \in Seq(Segments), NEW seg, seg.so \in Int, seg.size \in Int,
         AlreadyReceived(list, seg)
  PROVE  Bytes(seg) \subseteq ReceivedBytes(list)
<1> SUFFICES ASSUME NEW b \in Bytes(seg) PROVE b \in ReceivedBytes(list)
  OBVIOUS
<1> DEFINE f == LeftOf(list, seg)
           Found(n) == Within(f[n], b) \/ \E i \in 1 .. n : b \in Bytes(list[i])
           S == {n \in Nat : Found(n)}
<1>1. Len(list) \in Nat /\ b \in Int /\ DOMAIN list = 1 .. Len(list)
  BY DEF Bytes, LastByte
<1>2. /\ f[0] = [so |-> seg.so, size |-> seg.size]
      /\ \A n \in 1 .. Len(list) : f[n] = Cut(f[n - 1], list[n])
      /\ \A n \in 0 .. Len(list) : f[n] \in Lefts
  BY LeftFacts
<1>3. 0 \in S
  <2>1. Within(f[0], b)
    BY <1>2 DEF Within, Bytes, LastByte
  <2> QED
    BY <2>1
<1> HIDE DEF f
<1>4. ASSUME NEW m \in 0 .. Len(list) - 1, m \in S PROVE m + 1 \in S
  <2>1. m + 1 \in 1 .. Len(list) /\ (m + 1) - 1 = m /\ m + 1 \in Nat /\ m \in 0 .. Len(list)
    BY <1>1
  <2>2. f[m + 1] = Cut(f[m], list[m + 1]) /\ f[m] \in Lefts /\ list[m + 1] \in Segments
    BY <1>2, <2>1
  <2>3. CASE Within(f[m], b)
    <3>1. b \in Bytes(list[m + 1]) \/ Within(f[m + 1], b)
      BY <1>1, <2>2, <2>3, CutFacts
    <3>2. m + 1 \in 1 .. m + 1
      BY <2>1
    <3> QED
      BY <2>1, <3>1, <3>2
  <2>4. CASE \E i \in 1 .. m : b \in Bytes(list[i])
    <3>1. PICK i \in 1 .. m : b \in Bytes(list[i])
      BY <2>4
    <3>2. i \in 1 .. m + 1
      BY <2>1
    <3> QED
      BY <2>1, <3>1, <3>2
  <2> QED
    BY <1>4, <2>3, <2>4
<1> HIDE DEF S
<1>5. Len(list) \in S
  <2>1. \A n \in 0 .. Len(list) : n \in S
    BY <1>1, <1>3, <1>4, UpTo
  <2> QED
    BY <1>1, <2>1
<1>6. ~Within(f[Len(list)], b)
  <2>1. f[Len(list)] \in Lefts /\ f[Len(list)].size <= 0
    BY <1>1, <1>2 DEF AlreadyReceived, f
  <2> QED
    BY <1>1, <2>1 DEF Within, Lefts
<1>7. PICK i \in 1 .. Len(list) : b \in Bytes(list[i])
  BY <1>5, <1>6 DEF S
<1> QED
  BY <1>1, <1>7 DEF ReceivedBytes

-----------------------------------------------------------------------------
(* The numbers of a sequence.                                                *)
LEMMA NumbersOf ==
  ASSUME NEW s \in Seq(Nat)
  PROVE  Len(s) \in Nat /\ \A n \in 1 .. Len(s) : s[n] \in Nat
OBVIOUS

(* f gives the sums of the first numbers of s, up to l.                      *)
IsSumsUpTo(f, s, l) ==
  /\ l \in Nat /\ f[0] = 0
  /\ \A n \in 0 .. l : f[n] \in Nat
  /\ \A n \in 1 .. l : s[n] \in Nat /\ f[n] = f[n - 1] + s[n]

LEMMA SumsUpTo ==
  ASSUME NEW s \in Seq(Nat)
  PROVE  IsSumsUpTo(SumsOf(s), s, Len(s)) /\ Total(s) = SumsOf(s)[Len(s)]
BY SumsFacts, NumbersOf DEF IsSumsUpTo, Total

(* Sums of sequences that differ in what they have at k.                     *)
LEMMA SumsChanged ==
  ASSUME NEW f, NEW g, NEW s, NEW t, NEW l, NEW k \in 1 .. l, IsSumsUpTo(f, s, l), IsSumsUpTo(g, t, l),
         \A n \in 1 .. l : n # k => s[n] = t[n]
  PROVE  g[l] = f[l] - s[k] + t[k]
<1> DEFINE S == {n \in Nat : (n < k => g[n] = f[n]) /\ (n >= k => g[n] = f[n] - s[k] + t[k])}
<1>1. l \in Nat /\ k \in Nat /\ s[k] \in Nat /\ t[k] \in Nat /\ 0 < k /\ k <= l
  BY DEF IsSumsUpTo
<1>2. 0 \in S
  <2>1. g[0] = f[0]
    BY DEF IsSumsUpTo
  <2> QED
    BY <1>1, <2>1
<1>3. ASSUME NEW m \in 0 .. l - 1, m \in S PROVE m + 1 \in S
  <2>1. m + 1 \in 1 .. l /\ (m + 1) - 1 = m /\ m + 1 \in Nat /\ m \in 0 .. l /\ m \in Nat
    BY <1>1
  <2>2. /\ f[m + 1] = f[m] + s[m + 1] /\ g[m + 1] = g[m] + t[m + 1] /\ f[m] \in Nat /\ g[m] \in Nat
        /\ s[m + 1] \in Nat /\ t[m + 1] \in Nat
    BY <2>1 DEF IsSumsUpTo
  <2>3. (m < k => g[m] = f[m]) /\ (m >= k => g[m] = f[m] - s[k] + t[k])
    BY <1>3
  <2>4. CASE m + 1 = k
    <3>1. g[m + 1] = f[m + 1] - s[k] + t[k]
      BY <1>1, <2>1, <2>2, <2>3, <2>4
    <3> QED
      BY <1>1, <2>1, <2>4, <3>1
  <2>5. CASE m + 1 < k
    <3>1. s[m + 1] = t[m + 1] /\ g[m] = f[m]
      BY <1>1, <2>1, <2>3, <2>5
    <3>2. g[m + 1] = f[m + 1]
      BY <2>2, <3>1
    <3> QED
      BY <1>1, <2>1, <2>5, <3>2
  <2>6. CASE m + 1 > k
    <3>1. s[m + 1] = t[m + 1] /\ g[m] = f[m] - s[k] + t[k]
      BY <1>1, <2>1, <2>3, <2>6
    <3>2. g[m + 1] = f[m + 1] - s[k] + t[k]
      BY <1>1, <2>2, <3>1
    <3> QED
      BY <1>1, <2>1, <2>6, <3>2
  <2> QED
    BY <1>1, <2>1, <2>4, <2>5, <2>6
<1>4. l \in S
  <2> HIDE DEF S
  <2>1. \A n \in 0 .. l : n \in S
    BY <1>1, <1>2, <1>3, UpTo
  <2> QED
    BY <1>1, <2>1
<1> QED
  BY <1>1, <1>4

LEMMA TotalChanged ==
  ASSUME NEW s \in Seq(Nat), NEW t \in Seq(Nat), Len(s) = Len(t), NEW k \in 1 .. Len(s),
         \A n \in 1 .. Len(s) : n # k => s[n] = t[n]
  PROVE  Total(t) = Total(s) - s[k] + t[k]
<1>1. IsSumsUpTo(SumsOf(s), s, Len(s)) /\ Total(s) = SumsOf(s)[Len(s)]
  BY SumsUpTo
<1>2. IsSumsUpTo(SumsOf(t), t, Len(s)) /\ Total(t) = SumsOf(t)[Len(s)]
  <2>1. IsSumsUpTo(SumsOf(t), t, Len(t)) /\ Total(t) = SumsOf(t)[Len(t)]
    BY SumsUpTo
  <2> QED
    BY <2>1
<1>3. SumsOf(t)[Len(s)] = SumsOf(s)[Len(s)] - s[k] + t[k]
  BY <1>1, <1>2, SumsChanged
<1> QED
  BY <1>1, <1>2, <1>3

(* t has one number more than s, behind the first k.                         *)
Inserted(s, t, k, l) ==
  /\ k \in 0 .. l
  /\ \A n \in 1 .. k : t[n] = s[n]
  /\ \A n \in k + 1 .. l : t[n + 1] = s[n]

InsertedSums(f, g, s, t, l, m, k) ==
  IsSumsUpTo(f, s, l) /\ IsSumsUpTo(g, t, m) /\ Inserted(s, t, k, l) /\ m = l + 1

LEMMA SumsInserted ==
  ASSUME NEW f, NEW g, NEW s, NEW t, NEW l, NEW m, NEW k, InsertedSums(f, g, s, t, l, m, k)
  PROVE  g[m] = f[l] + t[k + 1]
<1> USE DEF Inserted, InsertedSums
<1> DEFINE S == {n \in Nat : (n <= k => g[n] = f[n]) /\ (n > k => g[n] = f[n - 1] + t[k + 1])}
<1>1. l \in Nat /\ k \in Nat /\ t[k + 1] \in Nat /\ k <= l
  BY DEF IsSumsUpTo
<1>2. 0 \in S
  <2>1. g[0] = f[0]
    BY DEF IsSumsUpTo
  <2> QED
    BY <1>1, <2>1
<1>3. ASSUME NEW j \in 0 .. l, j \in S PROVE j + 1 \in S
  <2>1. j + 1 \in 1 .. l + 1 /\ (j + 1) - 1 = j /\ j + 1 \in Nat /\ j \in Nat /\ j \in 0 .. l + 1
    BY <1>1
  <2>2. g[j + 1] = g[j] + t[j + 1] /\ f[j] \in Nat /\ g[j] \in Nat /\ t[j + 1] \in Nat
    BY <2>1 DEF IsSumsUpTo
  <2>3. (j <= k => g[j] = f[j]) /\ (j > k => g[j] = f[j - 1] + t[k + 1])
    BY <1>3
  <2>4. CASE j < k
    <3>1. j + 1 \in 1 .. k /\ j + 1 \in 1 .. l /\ j <= k
      BY <1>1, <2>1, <2>4
    <3>2. f[j + 1] = f[j] + s[j + 1]
      BY <2>1, <3>1 DEF IsSumsUpTo
    <3>3. g[j + 1] = f[j + 1]
      BY <2>2, <2>3, <3>1, <3>2
    <3> QED
      BY <1>1, <2>1, <2>4, <3>3
  <2>5. CASE j = k
    <3>1. g[j + 1] = f[(j + 1) - 1] + t[k + 1]
      BY <1>1, <2>1, <2>2, <2>3, <2>5
    <3> QED
      BY <1>1, <2>1, <2>5, <3>1
  <2>6. CASE j > k
    <3>1. j \in k + 1 .. l /\ j \in 1 .. l /\ j - 1 \in 0 .. l
      BY <1>1, <2>1, <2>6
    <3>2. f[j] = f[j - 1] + s[j] /\ s[j] \in Nat /\ f[j - 1] \in Nat
      BY <3>1 DEF IsSumsUpTo
    <3>3. t[j + 1] = s[j] /\ g[j] = f[j - 1] + t[k + 1]
      BY <2>3, <2>6, <3>1
    <3>4. g[j + 1] = f[(j + 1) - 1] + t[k + 1]
      BY <1>1, <2>1, <2>2, <3>2, <3>3
    <3> QED
      BY <1>1, <2>1, <2>6, <3>4
  <2> QED
    BY <1>1, <2>1, <2>4, <2>5, <2>6
<1>4. l + 1 \in S
  <2>1. l + 1 \in Nat /\ (l + 1) - 1 = l
    BY <1>1
  <2> HIDE DEF S
  <2>2. \A j \in 0 .. (l + 1) - 1 : j \in S => j + 1 \in S
    BY <1>3, <2>1
  <2>3. \A n \in 0 .. l + 1 : n \in S
    BY <1>2, <2>1, <2>2, UpTo
  <2> QED
    BY <2>1, <2>3
<1>5. l + 1 > k /\ (l + 1) - 1 = l
  BY <1>1
<1> QED
  BY <1>4, <1>5

LEMMA TotalInserted ==
  ASSUME NEW s \in Seq(Nat), NEW t \in Seq(Nat), Len(t) = Len(s) + 1, NEW k, Inserted(s, t, k, Len(s))
  PROVE  Total(t) = Total(s) + t[k + 1]
<1>1. IsSumsUpTo(SumsOf(s), s, Len(s)) /\ Total(s) = SumsOf(s)[Len(s)]
  BY SumsUpTo
<1>2. IsSumsUpTo(SumsOf(t), t, Len(t)) /\ Total(t) = SumsOf(t)[Len(t)]
  BY SumsUpTo
<1>3. SumsOf(t)[Len(t)] = SumsOf(s)[Len(s)] + t[k + 1]
  <2>1. InsertedSums(SumsOf(s), SumsOf(t), s, t, Len(s), Len(t), k)
    BY <1>1, <1>2, Zenon DEF InsertedSums
  <2> QED
    BY <2>1, SumsInserted
<1> QED
  BY <1>1, <1>2, <1>3, Zenon

(* The sum of zeros.                                                         *)
LEMMA TotalZero ==
  ASSUME NEW s \in Seq(Nat), \A n \in 1 .. Len(s) : s[n] = 0
  PROVE  Total(s) = 0
<1> DEFINE S == {n \in Nat : SumsOf(s)[n] = 0}
<1>1. Len(s) \in Nat
  OBVIOUS
<1>2. 0 \in S
  BY SumsFacts
<1>3. ASSUME NEW m \in 0 .. Len(s) - 1, m \in S PROVE m + 1 \in S
  <2>1. m + 1 \in 1 .. Len(s) /\ (m + 1) - 1 = m /\ m + 1 \in Nat
    BY <1>1
  <2>2. SumsOf(s)[m + 1] = SumsOf(s)[m] + s[m + 1]
    BY <2>1, SumsFacts
  <2> QED
    BY <1>3, <2>1, <2>2
<1> HIDE DEF S
<1>4. \A n \in 0 .. Len(s) : n \in S
  BY <1>1, <1>2, <1>3, UpTo
<1>5. Len(s) \in S
  BY <1>1, <1>4
<1> QED
  BY <1>5 DEF S, Total

-----------------------------------------------------------------------------
(* Division with remainder.                                                  *)
LEMMA DivMod ==
  ASSUME NEW n \in Int, NEW b \in Nat \ {0}
  PROVE  n \div b \in Int /\ n % b \in 0 .. b - 1 /\ n = b * (n \div b) + (n % b)
OBVIOUS

(* A number less than b away from a multiple of b is a remainder once.       *)
LEMMA RemainderUnique ==
  ASSUME NEW b \in Nat \ {0}, NEW q \in Int, NEW r \in 0 .. b - 1, NEW p \in Int, NEW s \in 0 .. b - 1,
         b * q + r = b * p + s
  PROVE  r = s
<1>1. b * (q - p) = s - r
  OBVIOUS
<1>2. q - p >= 1 => b * (q - p) >= b
  OBVIOUS
<1>3. q - p <= -1 => b * (q - p) <= -b
  OBVIOUS
<1> QED
  BY <1>1, <1>2, <1>3

(* The remainder of a number that differs from r by a multiple of b.         *)
LEMMA ModIs ==
  ASSUME NEW b \in Nat \ {0}, NEW x \in Int, NEW r \in 0 .. b - 1, NEW q \in Int, x = b * q + r
  PROVE  x % b = r
<1>1. x \div b \in Int /\ x % b \in 0 .. b - 1 /\ x = b * (x \div b) + (x % b)
  BY DivMod
<1> QED
  BY <1>1, RemainderUnique

(* The SN space.                                                             *)
LEMMA SnSpace ==
  /\ Window \in Nat /\ Window >= 2 /\ SnMod = 2 * Window /\ SnMod \in Nat \ {0} /\ Window \in Nat \ {0}
  /\ SN = 0 .. SnMod - 1
BY RlcConstants DEF SnMod, SN

(* The distance of an SN from another one.                                   *)
LEMMA Distance ==
  ASSUME NEW base \in SN, NEW a \in SN
  PROVE  /\ Modulus(base, a) \in 0 .. SnMod - 1
         /\ a = base + Modulus(base, a) \/ a = base + Modulus(base, a) - SnMod
<1>1. base \in Int /\ a \in Int /\ 0 <= base /\ base < SnMod /\ 0 <= a /\ a < SnMod /\ SnMod \in Nat \ {0}
  BY SnSpace
<1>2. CASE a >= base
  <2>1. a - base \in 0 .. SnMod - 1 /\ a - base = SnMod * 0 + (a - base)
    BY <1>1, <1>2
  <2>2. Modulus(base, a) = a - base
    BY <1>1, <2>1, ModIs DEF Modulus
  <2> QED
    BY <1>1, <2>1, <2>2
<1>3. CASE a < base
  <2>1. a - base + SnMod \in 0 .. SnMod - 1 /\ a - base = SnMod * (-1) + (a - base + SnMod)
    BY <1>1, <1>3
  <2>2. Modulus(base, a) = a - base + SnMod
    BY <1>1, <2>1, ModIs DEF Modulus
  <2> QED
    BY <1>1, <2>1, <2>2
<1> QED
  BY <1>1, <1>2, <1>3

LEMMA DistanceNat ==
  ASSUME NEW base \in SN, NEW a \in SN
  PROVE  Modulus(base, a) \in Nat
<1>1. Modulus(base, a) \in 0 .. SnMod - 1 /\ SnMod \in Nat
  BY Distance, SnSpace
<1> QED
  BY <1>1

LEMMA DistanceIs ==
  ASSUME NEW base \in SN, NEW a \in SN, NEW d \in 0 .. SnMod - 1, a = base + d \/ a = base + d - SnMod
  PROVE  Modulus(base, a) = d
<1>1. base \in Int /\ a \in Int /\ 0 <= base /\ base < SnMod /\ 0 <= a /\ a < SnMod /\ SnMod \in Nat \ {0}
  BY SnSpace
<1>2. /\ Modulus(base, a) \in 0 .. SnMod - 1
      /\ a = base + Modulus(base, a) \/ a = base + Modulus(base, a) - SnMod
  BY Distance
<1> QED
  BY <1>1, <1>2

(* The SN n further on.                                                      *)
LEMMA PlusFacts ==
  ASSUME NEW a \in SN, NEW n \in 0 .. SnMod
  PROVE  Plus(a, n) \in SN /\ (Plus(a, n) = a + n \/ Plus(a, n) = a + n - SnMod)
<1>1. a \in Int /\ 0 <= a /\ a < SnMod /\ SnMod \in Nat \ {0} /\ n \in Int /\ 0 <= n /\ n <= SnMod
  BY SnSpace
<1>2. CASE a + n < SnMod
  <2>1. a + n \in 0 .. SnMod - 1 /\ a + n = SnMod * 0 + (a + n)
    BY <1>1, <1>2
  <2>2. Plus(a, n) = a + n
    BY <1>1, <2>1, ModIs DEF Plus
  <2> QED
    BY <1>1, <2>1, <2>2, SnSpace
<1>3. CASE a + n >= SnMod
  <2>1. a + n - SnMod \in 0 .. SnMod - 1 /\ a + n = SnMod * 1 + (a + n - SnMod)
    BY <1>1, <1>3
  <2>2. Plus(a, n) = a + n - SnMod
    BY <1>1, <2>1, ModIs DEF Plus
  <2> QED
    BY <1>1, <2>1, <2>2, SnSpace
<1> QED
  BY <1>1, <1>2, <1>3

(* Distances add up ...                                                      *)
LEMMA DistancePlus ==
  ASSUME NEW base \in SN, NEW a \in SN, NEW n \in 0 .. SnMod, Modulus(base, a) + n < SnMod
  PROVE  Plus(a, n) \in SN /\ Modulus(base, Plus(a, n)) = Modulus(base, a) + n
<1>1. /\ Modulus(base, a) \in 0 .. SnMod - 1
      /\ a = base + Modulus(base, a) \/ a = base + Modulus(base, a) - SnMod
  BY Distance
<1>2. Plus(a, n) \in SN /\ (Plus(a, n) = a + n \/ Plus(a, n) = a + n - SnMod)
  BY PlusFacts
<1>3. base \in Int /\ 0 <= base /\ base < SnMod /\ 0 <= a /\ a < SnMod /\ SnMod \in Nat \ {0} /\ a \in Int
  BY SnSpace
<1>4. 0 <= Plus(a, n) /\ Plus(a, n) < SnMod /\ Plus(a, n) \in Int
  BY <1>2, SnSpace
<1>5. Modulus(base, a) + n \in 0 .. SnMod - 1
  BY <1>1, <1>3
<1>6. \/ Plus(a, n) = base + (Modulus(base, a) + n)
      \/ Plus(a, n) = base + (Modulus(base, a) + n) - SnMod
  BY <1>1, <1>2, <1>3, <1>4
<1> QED
  BY <1>2, <1>5, <1>6, DistanceIs

(* ... and a base that moves up takes its move off the distance.             *)
LEMMA DistanceMoved ==
  ASSUME NEW base \in SN, NEW a \in SN, NEW n \in 0 .. Window
  PROVE  /\ Plus(base, n) \in SN
         /\ n <= Modulus(base, a) => Modulus(Plus(base, n), a) = Modulus(base, a) - n
         /\ n > Modulus(base, a) => Modulus(Plus(base, n), a) = Modulus(base, a) - n + SnMod
<1>1. /\ Modulus(base, a) \in 0 .. SnMod - 1
      /\ a = base + Modulus(base, a) \/ a = base + Modulus(base, a) - SnMod
  BY Distance
<1>2. /\ SnMod \in Nat /\ Window \in Nat /\ SnMod = 2 * Window /\ n \in 0 .. SnMod /\ n \in Int
      /\ base \in Int /\ 0 <= base /\ base < SnMod /\ 0 <= a /\ a < SnMod /\ a \in Int
  BY SnSpace
<1>3. Plus(base, n) \in SN /\ (Plus(base, n) = base + n \/ Plus(base, n) = base + n - SnMod)
  BY <1>2, PlusFacts
<1>4. 0 <= Plus(base, n) /\ Plus(base, n) < SnMod /\ Plus(base, n) \in Int
  BY <1>3, SnSpace
<1>5. CASE n <= Modulus(base, a)
  <2>1. Modulus(base, a) - n \in 0 .. SnMod - 1
    BY <1>1, <1>2, <1>5
  <2>2. \/ a = Plus(base, n) + (Modulus(base, a) - n)
        \/ a = Plus(base, n) + (Modulus(base, a) - n) - SnMod
    BY <1>1, <1>2, <1>3, <1>4, <2>1
  <2>3. Modulus(Plus(base, n), a) = Modulus(base, a) - n
    BY <1>3, <2>1, <2>2, DistanceIs
  <2> QED
    BY <1>1, <1>2, <1>3, <1>5, <2>3
<1>6. CASE n > Modulus(base, a)
  <2>1. Modulus(base, a) - n + SnMod \in 0 .. SnMod - 1
    BY <1>1, <1>2, <1>6
  <2>2. \/ a = Plus(base, n) + (Modulus(base, a) - n + SnMod)
        \/ a = Plus(base, n) + (Modulus(base, a) - n + SnMod) - SnMod
    BY <1>1, <1>2, <1>3, <1>4, <2>1
  <2>3. Modulus(Plus(base, n), a) = Modulus(base, a) - n + SnMod
    BY <1>3, <2>1, <2>2, DistanceIs
  <2> QED
    BY <1>1, <1>2, <1>3, <1>6, <2>3
<1> QED
  BY <1>1, <1>2, <1>5, <1>6

-----------------------------------------------------------------------------
(* The entry of an SN, and of the SN a window or the SN space further on.    *)
LEMMA PosFacts ==
  ASSUME NEW x \in Int
  PROVE  Pos(x) \in 0 .. Window - 1 /\ Pos(x + Window) = Pos(x) /\ Pos(x + SnMod) = Pos(x)
<1>1. Window \in Nat \ {0} /\ SnMod = 2 * Window
  BY SnSpace
<1> DEFINE q == x \div Window
           r == x % Window
<1>2. q \in Int /\ r \in 0 .. Window - 1 /\ x = Window * q + r
  BY <1>1, DivMod
<1> HIDE DEF q, r
<1>3. x + Window \in Int /\ q + 1 \in Int /\ x + Window = Window * (q + 1) + r
  BY <1>1, <1>2
<1>4. x + SnMod \in Int /\ q + 2 \in Int /\ x + SnMod = Window * (q + 2) + r
  BY <1>1, <1>2
<1>5. (x + Window) % Window = r
  BY <1>1, <1>2, <1>3, ModIs
<1>6. (x + SnMod) % Window = r
  BY <1>1, <1>2, <1>4, ModIs
<1> QED
  BY <1>2, <1>5, <1>6 DEF Pos, r

(* The entries of a window are different ones.                               *)
LEMMA PosDiffer ==
  ASSUME NEW x \in Int, NEW j \in 0 .. Window - 1, NEW k \in 0 .. Window - 1, Pos(x + j) = Pos(x + k)
  PROVE  j = k
<1>1. Window \in Nat \ {0} /\ x + j \in Int /\ x + k \in Int
  BY SnSpace
<1> DEFINE p == (x + j) \div Window
           q == (x + k) \div Window
           r == Pos(x + j)
<1>2. /\ p \in Int /\ x + j = Window * p + r
      /\ q \in Int /\ x + k = Window * q + r
      /\ r \in 0 .. Window - 1
  BY <1>1, DivMod DEF Pos
<1> HIDE DEF p, q, r
<1>3. p \in Int /\ q \in Int /\ j - k = Window * (p - q)
  <2>1. j - k = Window * p - Window * q
    BY <1>1, <1>2
  <2> QED
    BY <1>1, <1>2, <2>1
<1>4. (p - q >= 1 => Window * (p - q) >= Window) /\ (p - q <= -1 => Window * (p - q) <= -Window)
  BY <1>1, <1>3
<1>5. j - k < Window /\ j - k > -Window /\ p - q \in Int
  BY <1>1, <1>3
<1>6. p - q = 0
  BY <1>1, <1>3, <1>4, <1>5
<1> QED
  BY <1>1, <1>3, <1>6

(* Every entry is that of an SN of the window from x on.                     *)
LEMMA PosOnto ==
  ASSUME NEW x \in Int, NEW i \in 0 .. Window - 1
  PROVE  \E k \in 0 .. Window - 1 : Pos(x + k) = i
<1> DEFINE k == (i - x) % Window
<1>1. Window \in Nat \ {0} /\ i - x \in Int /\ i \in Int
  BY SnSpace
<1>2. k \in 0 .. Window - 1 /\ (i - x) \div Window \in Int /\ i - x = Window * ((i - x) \div Window) + k
  BY <1>1, DivMod
<1> HIDE DEF k
<1>3. x + k \in Int /\ -((i - x) \div Window) \in Int /\ x + k = Window * (-((i - x) \div Window)) + i
  BY <1>1, <1>2
<1>4. (x + k) % Window = i
  BY <1>1, <1>3, ModIs
<1> QED
  BY <1>2, <1>4 DEF Pos

(* The entry at a distance from an SN, and from one further on.              *)
LEMMA PosPlus ==
  ASSUME NEW a \in SN, NEW n \in 0 .. SnMod, NEW k \in Nat
  PROVE  Pos(Plus(a, n) + k) = Pos(a + (n + k))
<1>1. a \in Int /\ n \in Int /\ SnMod \in Nat
  BY SnSpace
<1>2. Plus(a, n) = a + n \/ Plus(a, n) = a + n - SnMod
  BY PlusFacts
<1>3. CASE Plus(a, n) = a + n
  BY <1>1, <1>3
<1>4. CASE Plus(a, n) = a + n - SnMod
  <2>1. a + n - SnMod + k \in Int /\ (a + n - SnMod + k) + SnMod = a + (n + k)
    BY <1>1
  <2> QED
    BY <1>4, <2>1, PosFacts
<1> QED
  BY <1>2, <1>3, <1>4

LEMMA PosDistance ==
  ASSUME NEW base \in SN, NEW a \in SN, NEW k \in Nat
  PROVE  Pos(a + k) = Pos(base + (Modulus(base, a) + k))
<1>1. a \in Int /\ base \in Int /\ SnMod \in Nat
  BY SnSpace
<1> DEFINE d == Modulus(base, a)
<1>2. d \in 0 .. SnMod - 1 /\ (a = base + d \/ a = base + d - SnMod)
  BY Distance
<1> HIDE DEF d
<1>3. CASE a = base + d
  <2>1. a + k = base + (d + k)
    BY <1>1, <1>2, <1>3
  <2> QED
    BY <2>1 DEF d
<1>4. CASE a = base + d - SnMod
  <2>1. a + k \in Int /\ (a + k) + SnMod = base + (d + k)
    BY <1>1, <1>2, <1>4
  <2> QED
    BY <2>1, PosFacts DEF d
<1> QED
  BY <1>2, <1>3, <1>4

(* The walk over delivered SDUs stops at the first entry that is not one.    *)
LEMMA RunFacts ==
  ASSUME NEW buf, NEW sn
  PROVE  LET run == DeliveredRun(buf, sn)
         IN  /\ run \in 0 .. Window
             /\ \A k \in 0 .. run - 1 : buf[Pos(sn + k)] = Delivered
             /\ run < Window => buf[Pos(sn + run)] # Delivered
<1> DEFINE Stops(n) == /\ \A k \in 0 .. n - 1 : buf[Pos(sn + k)] = Delivered
                       /\ n < Window => buf[Pos(sn + n)] # Delivered
           T == {n \in 0 .. Window : n = Window \/ buf[Pos(sn + n)] # Delivered}
<1>1. Window \in Nat
  BY SnSpace
<1>2. T \in SUBSET Nat /\ Window \in T
  BY <1>1
<1>3. PICK n \in T : \A k \in T : n <= k
  <2> HIDE DEF T
  <2> QED
    BY <1>2, LeastNat
<1>4. n \in 0 .. Window /\ (n < Window => buf[Pos(sn + n)] # Delivered)
  BY <1>1, <1>3
<1>5. ASSUME NEW k \in 0 .. n - 1 PROVE buf[Pos(sn + k)] = Delivered
  <2>1. k \in 0 .. Window /\ ~(n <= k)
    BY <1>1, <1>4
  <2>2. k \notin T
    BY <1>3, <2>1
  <2> QED
    BY <2>1, <2>2
<1>6. Stops(n)
  BY <1>4, <1>5
<1>7. DeliveredRun(buf, sn) = CHOOSE m \in 0 .. Window : Stops(m)
  BY DEF DeliveredRun
<1> HIDE DEF Stops
<1>8. DeliveredRun(buf, sn) \in 0 .. Window /\ Stops(DeliveredRun(buf, sn))
  BY <1>4, <1>6, <1>7
<1> QED
  BY <1>8 DEF Stops

(* A segment that is added is in the list, and so is what was there before.  *)
LEMMA AddFacts ==
  ASSUME NEW list \in Seq(Segments), NEW seg \in Segments
  PROVE  /\ AddPdu(list, seg) \in Seq(Segments) /\ Len(AddPdu(list, seg)) = Len(list) + 1
         /\ \E n : Inserted(list, AddPdu(list, seg), n, Len(list)) /\ AddPdu(list, seg)[n + 1] = seg
<1> DEFINE Before(n) == /\ \A i \in 1 .. n : list[i].so <= seg.so
                        /\ n < Len(list) => list[n + 1].so > seg.so
           T == {n \in 0 .. Len(list) : n = Len(list) \/ list[n + 1].so > seg.so}
<1>1. Len(list) \in Nat /\ \A i \in 1 .. Len(list) : list[i] \in Segments /\ list[i].so \in Int
  <2>1. Len(list) \in Nat /\ \A i \in 1 .. Len(list) : list[i] \in Segments
    OBVIOUS
  <2>2. \A l \in Segments : l.so \in Int
    BY DEF Segments
  <2> QED
    BY <2>1, <2>2
<1>2. seg.so \in Int
  BY DEF Segments
<1>3. T \in SUBSET Nat /\ Len(list) \in T
  BY <1>1
<1>4. PICK n \in T : \A k \in T : n <= k
  <2> HIDE DEF T
  <2> QED
    BY <1>3, LeastNat
<1>5. n \in 0 .. Len(list) /\ (n < Len(list) => list[n + 1].so > seg.so)
  BY <1>1, <1>4
<1>6. ASSUME NEW i \in 1 .. n PROVE list[i].so <= seg.so
  <2>1. i - 1 \in 0 .. Len(list) /\ ~(n <= i - 1) /\ (i - 1) + 1 = i /\ i - 1 # Len(list) /\ i \in 1 .. Len(list)
    BY <1>1, <1>5
  <2>2. i - 1 \notin T
    BY <1>4, <2>1
  <2>3. ~(list[i].so > seg.so)
    BY <2>1, <2>2
  <2> QED
    BY <1>1, <1>2, <2>1, <2>3
<1>7. Before(n)
  BY <1>5, <1>6
<1> DEFINE c == CHOOSE m \in 0 .. Len(list) : Before(m)
<1> HIDE DEF Before
<1>8. c \in 0 .. Len(list)
  BY <1>5, <1>7
<1>9. AddPdu(list, seg) = [i \in 1 .. Len(list) + 1 |->
                             IF i <= c THEN list[i] ELSE IF i = c + 1 THEN seg ELSE list[i - 1]]
  BY DEF AddPdu, Before, InsertAfter
<1> HIDE DEF c
<1> DEFINE a == AddPdu(list, seg)
<1> HIDE DEF a
<1>10. ASSUME NEW i \in 1 .. Len(list) + 1
       PROVE  (IF i <= c THEN list[i] ELSE IF i = c + 1 THEN seg ELSE list[i - 1]) \in Segments
  <2>1. i <= c => i \in 1 .. Len(list)
    BY <1>1, <1>8
  <2>2. ~(i <= c) /\ i # c + 1 => i - 1 \in 1 .. Len(list)
    BY <1>1, <1>8
  <2> QED
    BY <1>1, <2>1, <2>2
<1>11. a \in [1 .. Len(list) + 1 -> Segments] /\ Len(list) + 1 \in Nat
  BY <1>1, <1>9, <1>10 DEF a
<1>12. a \in Seq(Segments) /\ Len(a) = Len(list) + 1
  BY <1>11
<1>13. \A i \in 1 .. Len(list) + 1 :
         a[i] = IF i <= c THEN list[i] ELSE IF i = c + 1 THEN seg ELSE list[i - 1]
  BY <1>9 DEF a
<1>14. Inserted(list, a, c, Len(list)) /\ a[c + 1] = seg
  <2>1. c + 1 \in 1 .. Len(list) + 1 /\ ~(c + 1 <= c)
    BY <1>1, <1>8
  <2>2. ASSUME NEW i \in 1 .. c PROVE a[i] = list[i]
    <3>1. i \in 1 .. Len(list) + 1 /\ i <= c
      BY <1>1, <1>8
    <3> QED
      BY <1>13, <3>1
  <2>3. ASSUME NEW i \in c + 1 .. Len(list) PROVE a[i + 1] = list[i]
    <3>1. i + 1 \in 1 .. Len(list) + 1 /\ ~(i + 1 <= c) /\ i + 1 # c + 1 /\ (i + 1) - 1 = i
      BY <1>1, <1>8
    <3> QED
      BY <1>13, <3>1
  <2> QED
    BY <1>8, <1>13, <2>1, <2>2, <2>3 DEF Inserted
<1> QED
  BY <1>12, <1>14 DEF a

-----------------------------------------------------------------------------
(* The numbers that BufferedBytes adds up.                                   *)
Sizes(list) == [i \in DOMAIN list |-> IF list[i].data = NULL THEN 0 ELSE list[i].size]

LEMMA SegmentFacts ==
  ASSUME NEW l \in Segments
  PROVE  /\ l.so \in Int /\ l.so \in 0 .. SduSize - 1 /\ l.size \in Nat /\ l.size \in 1 .. SduSize
         /\ l.data \in Int
BY RlcConstants DEF Segments

LEMMA SizesFacts ==
  ASSUME NEW list \in Seq(Segments)
  PROVE  /\ Sizes(list) \in Seq(Nat) /\ Len(Sizes(list)) = Len(list) /\ Len(list) \in Nat
         /\ \A i \in 1 .. Len(list) :
              list[i] \in Segments /\ Sizes(list)[i] = IF list[i].data = NULL THEN 0 ELSE list[i].size
         /\ BufferedBytes(list) = Total(Sizes(list)) /\ BufferedBytes(list) \in Nat
<1>1. Len(list) \in Nat /\ DOMAIN list = 1 .. Len(list) /\ \A i \in 1 .. Len(list) : list[i] \in Segments
  OBVIOUS
<1>2. \A i \in 1 .. Len(list) : (IF list[i].data = NULL THEN 0 ELSE list[i].size) \in Nat
  BY <1>1, SegmentFacts
<1>3. Sizes(list) \in [1 .. Len(list) -> Nat]
  BY <1>1, <1>2 DEF Sizes
<1>4. Sizes(list) \in Seq(Nat) /\ Len(Sizes(list)) = Len(list)
  BY <1>1, <1>3
<1>5. BufferedBytes(list) = Total(Sizes(list))
  BY DEF BufferedBytes, Sizes
<1>6. Total(Sizes(list)) \in Nat
  BY <1>4, SumsFacts
<1>7. \A i \in 1 .. Len(list) : Sizes(list)[i] = IF list[i].data = NULL THEN 0 ELSE list[i].size
  BY <1>1 DEF Sizes
<1> QED
  BY <1>1, <1>4, <1>5, <1>6, <1>7

(* A delivered SDU and an empty entry have no bytes in the buffer.           *)
LEMMA BufferedNone ==
  /\ <<>> \in Seq(Segments) /\ BufferedBytes(<<>>) = 0
  /\ Delivered \in Seq(Segments) /\ BufferedBytes(Delivered) = 0 /\ Delivered # <<>>
<1>1. <<>> \in Seq(Segments) /\ Len(<<>>) = 0
  OBVIOUS
<1>2. BufferedBytes(<<>>) = 0
  <2>1. PICK e \in Seq(Segments) : e = <<>> /\ Len(e) = 0
    BY <1>1
  <2>2. Sizes(e) \in Seq(Nat) /\ Len(Sizes(e)) = 0 /\ BufferedBytes(e) = Total(Sizes(e))
    BY <2>1, SizesFacts
  <2>3. \A i \in 1 .. Len(Sizes(e)) : Sizes(e)[i] = 0
    BY <2>2
  <2> QED
    BY <2>1, <2>2, <2>3, TotalZero
<1> DEFINE d == [so |-> 0, size |-> SduSize, data |-> NULL]
<1>3. d \in Segments /\ d.data = NULL
  BY RlcConstants DEF Segments, NULL
<1>4. Delivered = <<d>>
  BY DEF Delivered
<1> HIDE DEF d
<1>5. Delivered \in Seq(Segments) /\ Len(Delivered) = 1 /\ Delivered[1] = d /\ Delivered # <<>>
  BY <1>3, <1>4
<1>6. BufferedBytes(Delivered) = 0
  <2>1. \A i \in 1 .. Len(Sizes(Delivered)) : Sizes(Delivered)[i] = 0
    BY <1>3, <1>5, SizesFacts
  <2> QED
    BY <1>5, <2>1, SizesFacts, TotalZero
<1> QED
  BY <1>1, <1>2, <1>5, <1>6

(* What AddPdu adds to the bytes of a list.                                  *)
LEMMA BufferedAdd ==
  ASSUME NEW list \in Seq(Segments), NEW seg \in Segments, seg.data # NULL
  PROVE  BufferedBytes(AddPdu(list, seg)) = BufferedBytes(list) + seg.size
<1> DEFINE a == AddPdu(list, seg)
<1>1. a \in Seq(Segments) /\ Len(a) = Len(list) + 1
  BY AddFacts
<1>2. PICK n : Inserted(list, a, n, Len(list)) /\ a[n + 1] = seg
  BY AddFacts
<1> HIDE DEF a
<1>3. /\ Sizes(list) \in Seq(Nat) /\ Len(Sizes(list)) = Len(list) /\ Len(list) \in Nat
      /\ \A i \in 1 .. Len(list) : Sizes(list)[i] = IF list[i].data = NULL THEN 0 ELSE list[i].size
      /\ BufferedBytes(list) = Total(Sizes(list))
  BY SizesFacts
<1>4. /\ Sizes(a) \in Seq(Nat) /\ Len(Sizes(a)) = Len(list) + 1
      /\ \A i \in 1 .. Len(list) + 1 : Sizes(a)[i] = IF a[i].data = NULL THEN 0 ELSE a[i].size
      /\ BufferedBytes(a) = Total(Sizes(a))
  BY <1>1, SizesFacts
<1>5. n \in 0 .. Len(list) /\ n \in Int
  BY <1>2, <1>3 DEF Inserted
<1>6. ASSUME NEW i \in 1 .. n PROVE Sizes(a)[i] = Sizes(list)[i]
  <2>1. i \in 1 .. Len(list) /\ i \in 1 .. Len(list) + 1
    BY <1>3, <1>5
  <2>2. a[i] = list[i]
    BY <1>2 DEF Inserted
  <2> QED
    BY <1>3, <1>4, <2>1, <2>2
<1>7. ASSUME NEW i \in n + 1 .. Len(list) PROVE Sizes(a)[i + 1] = Sizes(list)[i]
  <2>1. i \in 1 .. Len(list) /\ i + 1 \in 1 .. Len(list) + 1
    BY <1>3, <1>5
  <2>2. a[i + 1] = list[i]
    BY <1>2 DEF Inserted
  <2> QED
    BY <1>3, <1>4, <2>1, <2>2
<1>8. Inserted(Sizes(list), Sizes(a), n, Len(list))
  BY <1>5, <1>6, <1>7 DEF Inserted
<1>9. Sizes(a)[n + 1] = seg.size
  <2>1. n + 1 \in 1 .. Len(list) + 1
    BY <1>3, <1>5
  <2> QED
    BY <1>2, <1>4, <2>1
<1>10. Total(Sizes(a)) = Total(Sizes(list)) + Sizes(a)[n + 1]
  BY <1>3, <1>4, <1>8, TotalInserted
<1> QED
  BY <1>3, <1>4, <1>9, <1>10 DEF a

(* The bytes in the buffer, and what a change of one entry does to them.     *)
Buffers == [0 .. Window - 1 -> Seq(Segments)]
EntrySizes(buf) == [i \in 1 .. Window |-> BufferedBytes(buf[i - 1])]

LEMMA EntrySizesFacts ==
  ASSUME NEW buf \in Buffers
  PROVE  /\ EntrySizes(buf) \in Seq(Nat) /\ Len(EntrySizes(buf)) = Window
         /\ \A i \in 1 .. Window : EntrySizes(buf)[i] = BufferedBytes(buf[i - 1])
         /\ Total(EntrySizes(buf)) \in Nat
<1>1. Window \in Nat
  BY SnSpace
<1>2. ASSUME NEW i \in 1 .. Window PROVE BufferedBytes(buf[i - 1]) \in Nat
  <2>1. i - 1 \in 0 .. Window - 1
    BY <1>1
  <2>2. buf[i - 1] \in Seq(Segments)
    BY <2>1 DEF Buffers
  <2> QED
    BY <2>2, SizesFacts
<1>3. EntrySizes(buf) \in [1 .. Window -> Nat]
  BY <1>2 DEF EntrySizes
<1>4. EntrySizes(buf) \in Seq(Nat) /\ Len(EntrySizes(buf)) = Window
  BY <1>1, <1>3
<1>5. \A i \in 1 .. Window : EntrySizes(buf)[i] = BufferedBytes(buf[i - 1])
  BY DEF EntrySizes
<1> QED
  BY <1>4, <1>5, SumsFacts

LEMMA BufferChanged ==
  ASSUME NEW buf \in Buffers, NEW new \in Buffers, NEW p \in 0 .. Window - 1,
         \A i \in 0 .. Window - 1 : i # p => BufferedBytes(new[i]) = BufferedBytes(buf[i])
  PROVE  Total(EntrySizes(new)) = Total(EntrySizes(buf)) - BufferedBytes(buf[p]) + BufferedBytes(new[p])
<1> DEFINE s == EntrySizes(buf)
           t == EntrySizes(new)
<1>1. Window \in Nat /\ p + 1 \in 1 .. Window /\ (p + 1) - 1 = p
  BY SnSpace
<1>2. /\ s \in Seq(Nat) /\ Len(s) = Window /\ t \in Seq(Nat) /\ Len(t) = Window
      /\ \A i \in 1 .. Window : s[i] = BufferedBytes(buf[i - 1]) /\ t[i] = BufferedBytes(new[i - 1])
  BY EntrySizesFacts
<1> HIDE DEF s, t
<1>3. ASSUME NEW n \in 1 .. Window, n # p + 1 PROVE s[n] = t[n]
  <2>1. n - 1 \in 0 .. Window - 1 /\ n - 1 # p
    BY <1>1, <1>3
  <2> QED
    BY <1>2, <2>1
<1>4. Total(t) = Total(s) - s[p + 1] + t[p + 1]
  <2> DEFINE k == p + 1
  <2>1. k \in 1 .. Len(s) /\ Len(s) = Len(t) /\ \A n \in 1 .. Len(s) : n # k => s[n] = t[n]
    BY <1>1, <1>2, <1>3
  <2> HIDE DEF k
  <2>2. Total(t) = Total(s) - s[k] + t[k]
    BY <1>2, <2>1, TotalChanged
  <2> QED
    BY <2>2 DEF k
<1>5. s[p + 1] = BufferedBytes(buf[p]) /\ t[p + 1] = BufferedBytes(new[p])
  BY <1>1, <1>2
<1> QED
  BY <1>4, <1>5 DEF s, t

(* No entry has more than the whole buffer.                                  *)
LEMMA BufferHas ==
  ASSUME NEW buf \in Buffers, NEW p \in 0 .. Window - 1
  PROVE  BufferedBytes(buf[p]) <= Total(EntrySizes(buf)) /\ BufferedBytes(buf[p]) \in Nat
<1> DEFINE new == [buf EXCEPT ![p] = <<>>]
<1>1. new \in Buffers /\ new[p] = <<>> /\ \A i \in 0 .. Window - 1 : i # p => new[i] = buf[i]
  BY BufferedNone DEF Buffers
<1> HIDE DEF new
<1>2. Total(EntrySizes(new)) = Total(EntrySizes(buf)) - BufferedBytes(buf[p]) + BufferedBytes(new[p])
  BY <1>1, BufferChanged
<1>3. Total(EntrySizes(new)) \in Nat /\ Total(EntrySizes(buf)) \in Nat
  BY <1>1, EntrySizesFacts
<1>4. BufferedBytes(new[p]) = 0 /\ BufferedBytes(buf[p]) \in Nat
  BY <1>1, BufferedNone, SizesFacts DEF Buffers
<1> QED
  BY <1>2, <1>3, <1>4

-----------------------------------------------------------------------------
(* The order of the window variables and what the buffer has at the ends of  *)
(* the window, for rx_next = n, rx_highest_status = hs, rx_next_highest = nh *)
(* and the buffer buf.                                                       *)
Ordered(n, hs, nh, buf) ==
  /\ n \in SN /\ hs \in SN /\ nh \in SN
  /\ Modulus(n, hs) <= Modulus(n, nh) /\ Modulus(n, nh) <= Window
  /\ buf[Pos(n)] # Delivered /\ buf[Pos(hs)] # Delivered
  /\ \A k \in Modulus(n, nh) .. Window - 1 : buf[Pos(n + k)] = <<>>

(* The numbers in it.                                                        *)
LEMMA OrderedNumbers ==
  ASSUME NEW n, NEW hs, NEW nh, NEW buf, Ordered(n, hs, nh, buf)
  PROVE  /\ Window \in Nat /\ Window >= 2 /\ SnMod = 2 * Window /\ n \in Int
         /\ Modulus(n, hs) \in Nat /\ Modulus(n, nh) \in Nat
         /\ Modulus(n, hs) <= Modulus(n, nh) /\ Modulus(n, nh) <= Window
<1>1. n \in SN /\ hs \in SN /\ nh \in SN
  BY DEF Ordered
<1>2. Modulus(n, hs) \in 0 .. SnMod - 1 /\ Modulus(n, nh) \in 0 .. SnMod - 1
  BY <1>1, Distance
<1> QED
  BY <1>1, <1>2, SnSpace DEF Ordered

(* The entry of an SN at distance d.                                         *)
LEMMA EntryAt ==
  ASSUME NEW n \in SN, NEW a \in SN
  PROVE  Pos(a) = Pos(n + Modulus(n, a)) /\ Pos(n) = Pos(n + Window)
<1> DEFINE d == Modulus(n, a)
<1>0. d \in 0 .. SnMod - 1 /\ SnMod \in Nat
  BY Distance, SnSpace
<1> HIDE DEF d
<1>1. a \in Int /\ n \in Int /\ a + 0 = a /\ d \in Nat /\ d + 0 = d
  BY <1>0, SnSpace
<1> USE DEF d
<1>2. Pos(a + 0) = Pos(n + (Modulus(n, a) + 0))
  BY PosDistance
<1> QED
  BY <1>1, <1>2, PosFacts

LEMMA NoDistance ==
  ASSUME NEW n \in SN
  PROVE  Modulus(n, n) = 0 /\ \A a \in SN : Modulus(n, a) = 0 => a = n
<1>1. SnMod \in Nat \ {0} /\ 0 \in 0 .. SnMod - 1 /\ n = n + 0 /\ n \in Int /\ n < SnMod
  BY SnSpace
<1>2. Modulus(n, n) = 0
  BY <1>1, DistanceIs
<1>3. ASSUME NEW a \in SN, Modulus(n, a) = 0 PROVE a = n
  <2>1. a = n + 0 \/ a = n + 0 - SnMod
    BY <1>3, Distance
  <2>2. a \in Int /\ a >= 0
    BY SnSpace
  <2> QED
    BY <1>1, <2>1, <2>2
<1> QED
  BY <1>2, <1>3

(* rx_next_highest after the reception of sn.                                *)
Highest(n, nh, sn) == IF SnCompare(n, sn, nh) >= 0 THEN Plus(sn, 1) ELSE nh

LEMMA HighestFacts ==
  ASSUME NEW n \in SN, NEW nh \in SN, NEW sn \in SN, Modulus(n, sn) < Window, Modulus(n, nh) <= Window
  PROVE  LET x == Highest(n, nh, sn)
         IN  /\ x \in SN /\ Modulus(n, x) \in Nat /\ Modulus(n, x) <= Window
             /\ Modulus(n, sn) < Modulus(n, x) /\ Modulus(n, nh) <= Modulus(n, x)
<1>1. /\ Modulus(n, sn) \in Nat /\ Modulus(n, nh) \in Nat /\ Window \in Nat /\ Window >= 2 /\ SnMod = 2 * Window
      /\ SnMod \in Nat /\ 1 \in 0 .. SnMod
  BY Distance, SnSpace
<1>2. CASE SnCompare(n, sn, nh) >= 0
  <2>1. Modulus(n, sn) >= Modulus(n, nh)
    BY <1>1, <1>2 DEF SnCompare
  <2>2. Modulus(n, sn) + 1 < SnMod
    BY <1>1
  <2>3. Plus(sn, 1) \in SN /\ Modulus(n, Plus(sn, 1)) = Modulus(n, sn) + 1
    BY <1>1, <2>2, DistancePlus
  <2> QED
    BY <1>1, <1>2, <2>1, <2>3 DEF Highest
<1>3. CASE ~(SnCompare(n, sn, nh) >= 0)
  <2>1. Modulus(n, sn) < Modulus(n, nh)
    BY <1>1, <1>3 DEF SnCompare
  <2> QED
    BY <1>1, <1>3, <2>1 DEF Highest
<1> QED
  BY <1>2, <1>3

(* Reception of a segment that leaves its SDU incomplete.                    *)
LEMMA OrderedStore ==
  ASSUME NEW n, NEW hs, NEW nh, NEW buf \in Buffers, Ordered(n, hs, nh, buf),
         NEW sn \in SN, Modulus(n, sn) < Window, NEW list, list # Delivered
  PROVE  Ordered(n, hs, Highest(n, nh, sn), [buf EXCEPT ![Pos(sn)] = list])
<1> DEFINE new == [buf EXCEPT ![Pos(sn)] = list]
           x == Highest(n, nh, sn)
<1>1. n \in SN /\ hs \in SN /\ nh \in SN
  BY DEF Ordered
<1>2. /\ Window \in Nat /\ Window >= 2 /\ SnMod = 2 * Window /\ n \in Int
      /\ Modulus(n, hs) \in Nat /\ Modulus(n, nh) \in Nat
      /\ Modulus(n, hs) <= Modulus(n, nh) /\ Modulus(n, nh) <= Window
  BY OrderedNumbers
<1>3. /\ x \in SN /\ Modulus(n, x) \in Nat /\ Modulus(n, x) <= Window
      /\ Modulus(n, sn) < Modulus(n, x) /\ Modulus(n, nh) <= Modulus(n, x)
  BY <1>1, <1>2, HighestFacts
<1>4. /\ Modulus(n, sn) \in Nat /\ Pos(sn) = Pos(n + Modulus(n, sn))
      /\ Pos(sn) \in 0 .. Window - 1
  BY <1>1, EntryAt, Distance, PosFacts, SnSpace
<1> HIDE DEF x
<1>5. \A i \in 0 .. Window - 1 : new[i] = IF i = Pos(sn) THEN list ELSE buf[i]
  BY DEF Buffers
<1> HIDE DEF new
<1>6. new[Pos(n)] # Delivered /\ new[Pos(hs)] # Delivered
  <2>1. Pos(n) \in 0 .. Window - 1 /\ Pos(hs) \in 0 .. Window - 1
    BY <1>1, PosFacts, SnSpace
  <2> QED
    BY <1>5, <2>1 DEF Ordered
<1>7. ASSUME NEW k \in Modulus(n, x) .. Window - 1 PROVE new[Pos(n + k)] = <<>>
  <2>1. k \in 0 .. Window - 1 /\ k # Modulus(n, sn) /\ k \in Modulus(n, nh) .. Window - 1
        /\ Modulus(n, sn) \in 0 .. Window - 1 /\ n + k \in Int
    BY <1>2, <1>3, <1>4
  <2>2. Pos(n + k) # Pos(sn)
    BY <1>2, <1>4, <2>1, PosDiffer
  <2>3. Pos(n + k) \in 0 .. Window - 1
    BY <2>1, PosFacts
  <2>4. buf[Pos(n + k)] = <<>>
    BY <2>1 DEF Ordered
  <2> QED
    BY <1>5, <2>2, <2>3, <2>4
<1>8. Modulus(n, hs) <= Modulus(n, x)
  BY <1>2, <1>3
<1> QED
  BY <1>1, <1>3, <1>6, <1>7, <1>8 DEF Ordered, new, x

(* A run of delivered entries that starts after rx_next ends at the latest   *)
(* at rx_next_highest, from where on the window is empty, or at the entry of *)
(* rx_next, which is not delivered.                                          *)
OpenAt(buf, n, e) ==
  buf[Pos(n)] # Delivered /\ \A k \in e .. Window - 1 : buf[Pos(n + k)] = <<>>

LEMMA RunStops ==
  ASSUME NEW n \in SN, NEW a \in SN, NEW buf, NEW e \in 0 .. Window,
         Modulus(n, a) # 0, Modulus(n, a) <= e, OpenAt(buf, n, e)
  PROVE  LET b == Plus(a, DeliveredRun(buf, a))
         IN  b \in SN /\ Modulus(n, b) \in 0 .. e /\ buf[Pos(b)] # Delivered
<1> DEFINE run == DeliveredRun(buf, a)
           d == Modulus(n, a)
<1>1. Window \in Nat /\ Window >= 2 /\ SnMod = 2 * Window /\ n \in Int /\ a \in Int
  BY SnSpace
<1>2. d \in Nat /\ Pos(n) = Pos(n + Window)
  BY <1>1, EntryAt, Distance
<1>3. /\ run \in 0 .. Window
      /\ \A k \in 0 .. run - 1 : buf[Pos(a + k)] = Delivered
      /\ run < Window => buf[Pos(a + run)] # Delivered
  BY RunFacts
<1>4. \A k \in Nat : Pos(a + k) = Pos(n + (d + k))
  BY PosDistance
<1>5. d \in 1 .. Window /\ d <= e
  BY <1>1, <1>2
<1> HIDE DEF run, d
<1>6. d + run <= Window
  <2> SUFFICES ASSUME d + run > Window PROVE FALSE
    BY <1>1, <1>3, <1>5
  <2>1. Window - d \in 0 .. run - 1 /\ Window - d \in Nat /\ d + (Window - d) = Window
    BY <1>1, <1>3, <1>5
  <2>2. buf[Pos(a + (Window - d))] = Delivered
    BY <1>3, <2>1
  <2>3. Pos(a + (Window - d)) = Pos(n)
    BY <1>2, <1>4, <2>1
  <2> QED
    BY <2>2, <2>3 DEF OpenAt
<1>7. d + run <= e
  <2> SUFFICES ASSUME d + run > e PROVE FALSE
    BY <1>1, <1>3, <1>5
  <2> DEFINE j == e - d
  <2>1. j \in 0 .. run - 1 /\ j \in Nat /\ d + j = e /\ e \in e .. Window - 1
    BY <1>1, <1>3, <1>5, <1>6
  <2> HIDE DEF j
  <2>2. buf[Pos(a + j)] = Delivered /\ Pos(a + j) = Pos(n + e)
    BY <1>3, <1>4, <2>1
  <2>3. buf[Pos(n + e)] = <<>>
    BY <2>1 DEF OpenAt
  <2> QED
    BY <2>2, <2>3, BufferedNone
<1>8. run \in 0 .. SnMod /\ d + run < SnMod /\ run < Window /\ run \in Nat /\ d + run \in 0 .. e
  BY <1>1, <1>3, <1>5, <1>6, <1>7
<1>9. Plus(a, run) \in SN /\ Modulus(n, Plus(a, run)) = d + run
  BY <1>8, DistancePlus DEF d
<1>10. Pos(Plus(a, run)) = Pos(a + run)
  <2>1. Pos(Plus(a, run) + 0) = Pos(a + (run + 0))
    BY <1>8, PosPlus
  <2>2. Plus(a, run) + 0 = Plus(a, run) /\ run + 0 = run
    BY <1>8, <1>9, SnSpace
  <2> QED
    BY <2>1, <2>2
<1> QED
  BY <1>3, <1>8, <1>9, <1>10 DEF run

(* Reception of the last bytes of an SDU that is not the one of rx_next:    *)
(* the SDU is delivered and stays in its entry; rx_highest_status moves over *)
(* the delivered SDUs if it was that SDU, and does not pass rx_next_highest. *)
LEMMA OrderedDeliver ==
  ASSUME NEW n, NEW hs, NEW nh, NEW buf \in Buffers, Ordered(n, hs, nh, buf),
         NEW sn \in SN, Modulus(n, sn) < Window, sn # n,
         NEW new, new = [buf EXCEPT ![Pos(sn)] = Delivered],
         NEW next, next = IF sn = hs THEN Plus(sn, DeliveredRun(new, sn)) ELSE hs
  PROVE  Ordered(n, next, Highest(n, nh, sn), new)
<1> DEFINE x == Highest(n, nh, sn)
           d == Modulus(n, sn)
<1>1. n \in SN /\ hs \in SN /\ nh \in SN
  BY DEF Ordered
<1>2. /\ Window \in Nat /\ Window >= 2 /\ SnMod = 2 * Window /\ n \in Int
      /\ Modulus(n, hs) \in Nat /\ Modulus(n, nh) \in Nat
      /\ Modulus(n, hs) <= Modulus(n, nh) /\ Modulus(n, nh) <= Window
  BY OrderedNumbers
<1>3. /\ x \in SN /\ Modulus(n, x) \in Nat /\ Modulus(n, x) <= Window
      /\ d < Modulus(n, x) /\ Modulus(n, nh) <= Modulus(n, x)
  BY <1>1, <1>2, HighestFacts
<1>4. d \in Nat /\ Pos(sn) = Pos(n + d) /\ Pos(sn) \in 0 .. Window - 1 /\ Pos(n) = Pos(n + Window)
  BY <1>1, EntryAt, Distance, PosFacts, SnSpace
<1>5. d # 0
  BY <1>1, NoDistance
<1>8. d \in 1 .. Window - 1 /\ n + 0 = n
  BY <1>2, <1>4, <1>5
<1> HIDE DEF x, d
<1>9. \A i \in 0 .. Window - 1 : new[i] = IF i = Pos(sn) THEN Delivered ELSE buf[i]
  BY DEF Buffers
<1>10. \A k \in 0 .. Window - 1 : k # d => Pos(n + k) # Pos(sn) /\ Pos(n + k) \in 0 .. Window - 1
  <2> SUFFICES ASSUME NEW k \in 0 .. Window - 1, k # d
               PROVE  Pos(n + k) # Pos(sn) /\ Pos(n + k) \in 0 .. Window - 1
    OBVIOUS
  <2>1. n + k \in Int /\ d \in 0 .. Window - 1
    BY <1>2, <1>8
  <2>2. Pos(n + k) # Pos(n + d)
    BY <1>2, <2>1, PosDiffer
  <2> QED
    BY <1>4, <2>1, <2>2, PosFacts
<1>11. new[Pos(n)] # Delivered
  <2>1. Pos(n) # Pos(sn) /\ Pos(n) \in 0 .. Window - 1
    BY <1>2, <1>8, <1>10
  <2> QED
    BY <1>9, <2>1 DEF Ordered
<1>12. ASSUME NEW k \in Modulus(n, x) .. Window - 1 PROVE new[Pos(n + k)] = <<>>
  <2>1. k \in 0 .. Window - 1 /\ k # d /\ k \in Modulus(n, nh) .. Window - 1
    BY <1>2, <1>3, <1>8
  <2>2. buf[Pos(n + k)] = <<>>
    BY <2>1 DEF Ordered
  <2> QED
    BY <1>9, <1>10, <2>1, <2>2
<1>13. CASE sn # hs
  <2> DEFINE h == Modulus(n, hs)
  <2>1. next = hs
    BY <1>13
  <2>2. h # d
    <3>1. /\ hs = n + h \/ hs = n + h - SnMod
          /\ sn = n + d \/ sn = n + d - SnMod
      BY <1>1, Distance DEF d
    <3>2. hs \in Int /\ sn \in Int /\ 0 <= hs /\ hs < SnMod /\ 0 <= sn /\ sn < SnMod /\ SnMod \in Nat
      BY <1>1, SnSpace
    <3> HIDE DEF h
    <3> QED
      BY <1>2, <1>8, <1>13, <3>1, <3>2
  <2>3. Pos(hs) = Pos(n + h) /\ h \in Nat /\ h <= Window
    BY <1>1, <1>2, EntryAt
  <2> HIDE DEF h
  <2>4. new[Pos(hs)] # Delivered
    <3>1. CASE h = Window
      BY <1>4, <1>11, <2>3, <3>1
    <3>2. CASE h # Window
      <4>1. h \in 0 .. Window - 1
        BY <1>2, <2>3, <3>2
      <4>2. Pos(hs) # Pos(sn) /\ Pos(hs) \in 0 .. Window - 1
        BY <1>10, <2>2, <2>3, <4>1
      <4> QED
        BY <1>9, <4>2 DEF Ordered
    <3> QED
      BY <3>1, <3>2
  <2>5. Modulus(n, hs) <= Modulus(n, x)
    BY <1>2, <1>3
  <2> QED
    BY <1>1, <1>3, <1>11, <1>12, <2>1, <2>4, <2>5 DEF Ordered, x
<1>14. CASE sn = hs
  <2>1. next = Plus(sn, DeliveredRun(new, sn))
    BY <1>14
  <2>2. Modulus(n, x) \in 0 .. Window /\ Modulus(n, sn) # 0 /\ Modulus(n, sn) <= Modulus(n, x)
    BY <1>2, <1>3, <1>8 DEF d
  <2>3. OpenAt(new, n, Modulus(n, x))
    BY <1>11, <1>12 DEF OpenAt
  <2>4. next \in SN /\ Modulus(n, next) \in 0 .. Modulus(n, x) /\ new[Pos(next)] # Delivered
    BY <1>1, <2>1, <2>2, <2>3, RunStops
  <2>5. Modulus(n, next) <= Modulus(n, x)
    BY <1>3, <2>4
  <2> QED
    BY <1>1, <1>3, <1>11, <1>12, <2>4, <2>5 DEF Ordered, x
<1> QED
  BY <1>13, <1>14

(* The buffer after rx_next has moved over the run entries it had.           *)
Freed(buf, n, run) ==
  [i \in 0 .. Window - 1 |-> IF \E k \in 0 .. run - 1 : i = Pos(n + k) THEN <<>> ELSE buf[i]]

IsFreed(after, buf, n, run) ==
  \A j \in Nat : run <= j /\ j < run + Window =>
     /\ j < Window => after[Pos(n + j)] = buf[Pos(n + j)]
     /\ j >= Window => after[Pos(n + j)] = <<>>

LEMMA FreedAt ==
  ASSUME NEW buf, NEW n \in Int, NEW run \in 0 .. Window
  PROVE  IsFreed(Freed(buf, n, run), buf, n, run)
<1> SUFFICES ASSUME NEW j \in Nat, run <= j, j < run + Window
             PROVE  /\ j < Window => Freed(buf, n, run)[Pos(n + j)] = buf[Pos(n + j)]
                    /\ j >= Window => Freed(buf, n, run)[Pos(n + j)] = <<>>
  BY Zenon DEF IsFreed
<1>1. Window \in Nat /\ n + j \in Int
  BY SnSpace
<1>2. Pos(n + j) \in 0 .. Window - 1
  BY <1>1, PosFacts
<1>3. CASE j < Window
  <2>1. ASSUME NEW k \in 0 .. run - 1, Pos(n + j) = Pos(n + k) PROVE FALSE
    <3>1. k \in 0 .. Window - 1 /\ j \in 0 .. Window - 1 /\ j # k
      BY <1>1, <1>3
    <3> QED
      BY <2>1, <3>1, PosDiffer
  <2> QED
    BY <1>1, <1>2, <1>3, <2>1 DEF Freed
<1>4. CASE j >= Window
  <2>1. j - Window \in 0 .. run - 1 /\ n + (j - Window) \in Int /\ n + (j - Window) + Window = n + j
    BY <1>1, <1>4
  <2>2. Pos(n + j) = Pos(n + (j - Window))
    BY <2>1, PosFacts
  <2>3. Freed(buf, n, run)[Pos(n + j)] = <<>>
    BY <1>2, <2>1, <2>2 DEF Freed
  <2> QED
    BY <1>1, <1>4, <2>3
<1> QED
  BY <1>1, <1>3, <1>4

(* Reception of the last bytes of the SDU of rx_next: rx_next moves over the *)
(* delivered SDUs and frees their entries, and passes neither                *)
(* rx_highest_status, unless it takes it along, nor rx_next_highest.         *)
LEMMA OrderedAdvance ==
  ASSUME NEW n, NEW hs, NEW nh, NEW buf \in Buffers, Ordered(n, hs, nh, buf),
         NEW new, new = [buf EXCEPT ![Pos(n)] = Delivered],
         NEW run, run = DeliveredRun(new, n), n = hs => run # Window,
         NEW next, next = IF n = hs THEN Plus(n, run) ELSE hs
  PROVE  /\ Ordered(Plus(n, run), next, Highest(n, nh, n), Freed(new, n, run))
         /\ run \in 1 .. Window /\ run <= Modulus(n, Highest(n, nh, n))
<1> DEFINE x == Highest(n, nh, n)
           e == Modulus(n, x)
           h == Modulus(n, hs)
           after == Freed(new, n, run)
           m == Plus(n, run)
<1>1. n \in SN /\ hs \in SN /\ nh \in SN
  BY DEF Ordered
<1>2. /\ Window \in Nat /\ Window >= 2 /\ SnMod = 2 * Window /\ n \in Int
      /\ h \in Nat /\ Modulus(n, nh) \in Nat
      /\ h <= Modulus(n, nh) /\ Modulus(n, nh) <= Window
  BY OrderedNumbers
<1>3. Modulus(n, n) = 0 /\ (hs # n => h # 0)
  BY <1>1, NoDistance
<1>4. /\ x \in SN /\ e \in Nat /\ e <= Window
      /\ 0 < e /\ Modulus(n, nh) <= e
  <2>1. Modulus(n, n) < Window
    BY <1>2, <1>3
  <2> QED
    BY <1>1, <1>2, <1>3, <2>1, HighestFacts
<1>5. /\ run \in 0 .. Window
      /\ \A k \in 0 .. run - 1 : new[Pos(n + k)] = Delivered
      /\ run < Window => new[Pos(n + run)] # Delivered
  BY RunFacts
<1>6. Pos(hs) = Pos(n + h) /\ Pos(n + 0) = Pos(n) /\ Pos(n) \in 0 .. Window - 1
  BY <1>1, <1>2, EntryAt, PosFacts
<1> HIDE DEF x, h, e
<1>7. \A i \in 0 .. Window - 1 : new[i] = IF i = Pos(n) THEN Delivered ELSE buf[i]
  BY DEF Buffers
<1>8. \A k \in 1 .. Window - 1 : new[Pos(n + k)] = buf[Pos(n + k)]
  <2> SUFFICES ASSUME NEW k \in 1 .. Window - 1 PROVE new[Pos(n + k)] = buf[Pos(n + k)]
    OBVIOUS
  <2>1. n + k \in Int /\ k \in 0 .. Window - 1 /\ 0 \in 0 .. Window - 1 /\ k # 0
    BY <1>2
  <2>2. Pos(n + k) # Pos(n + 0)
    BY <1>2, <2>1, PosDiffer
  <2> QED
    BY <1>6, <1>7, <2>1, <2>2, PosFacts
<1>9. run \in 1 .. Window
  <2>1. new[Pos(n + 0)] = Delivered
    BY <1>6, <1>7
  <2>2. run # 0
    BY <1>2, <1>5, <2>1
  <2> QED
    BY <1>2, <1>5, <2>2
<1>10. run <= e
  <2> SUFFICES ASSUME e < run PROVE FALSE
    BY <1>2, <1>4, <1>9
  <2>1. e \in 0 .. run - 1 /\ e \in 1 .. Window - 1 /\ e \in Modulus(n, nh) .. Window - 1
    BY <1>2, <1>4, <1>9
  <2>2. new[Pos(n + e)] = Delivered /\ new[Pos(n + e)] = buf[Pos(n + e)]
    BY <1>5, <1>8, <2>1
  <2>3. buf[Pos(n + e)] = <<>>
    BY <2>1 DEF Ordered
  <2> QED
    BY <2>2, <2>3, BufferedNone
<1>11. hs # n => run <= h
  <2> SUFFICES ASSUME hs # n, h < run PROVE FALSE
    BY <1>2, <1>9
  <2>1. h \in 0 .. run - 1 /\ h \in 1 .. Window - 1
    BY <1>2, <1>3, <1>9
  <2>2. new[Pos(n + h)] = Delivered /\ new[Pos(n + h)] = buf[Pos(n + h)]
    BY <1>5, <1>8, <2>1
  <2> QED
    BY <1>6, <2>2 DEF Ordered
<1>12. m \in SN /\ Modulus(m, x) = e - run /\ (hs # n => Modulus(m, hs) = h - run)
  BY <1>1, <1>2, <1>4, <1>5, <1>10, <1>11, DistanceMoved DEF e, h
<1>13. \A k \in Nat : Pos(m + k) = Pos(n + (run + k))
  <2>1. run \in 0 .. SnMod
    BY <1>2, <1>9
  <2> QED
    BY <1>1, <2>1, PosPlus
<1> HIDE DEF m, after
<1>14. \A j \in Nat : run <= j /\ j < run + Window =>
          /\ j < Window => after[Pos(n + j)] = new[Pos(n + j)]
          /\ j >= Window => after[Pos(n + j)] = <<>>
  <2>1. n \in Int /\ run \in 0 .. Window
    BY <1>2, <1>5
  <2>2. IsFreed(after, new, n, run)
    BY <2>1, FreedAt, Zenon DEF after
  <2> QED
    BY <2>2, Zenon DEF IsFreed
<1>15. after[Pos(m)] # Delivered
  <2>1. m \in Int /\ m + 0 = m /\ run + 0 = run /\ run \in Nat /\ run <= run /\ run < run + Window
    BY <1>2, <1>9, <1>12, SnSpace
  <2>2. Pos(m) = Pos(n + run)
    BY <1>13, <2>1
  <2>3. CASE run < Window
    BY <1>5, <1>14, <2>1, <2>2, <2>3
  <2>4. CASE run >= Window
    BY <1>14, <2>1, <2>2, <2>4, BufferedNone
  <2> QED
    BY <1>2, <2>1, <2>3, <2>4
<1>16. ASSUME NEW k \in Modulus(m, x) .. Window - 1 PROVE after[Pos(m + k)] = <<>>
  <2> DEFINE j == run + k
  <2>1. k \in e - run .. Window - 1
    BY <1>12
  <2>2. k \in Nat /\ j \in Nat /\ run <= j /\ j < run + Window /\ e <= j /\ 1 <= j
    BY <1>2, <1>4, <1>9, <1>10, <2>1
  <2>3. Pos(m + k) = Pos(n + j)
    BY <1>13, <2>2
  <2> HIDE DEF j
  <2>4. CASE j >= Window
    BY <1>14, <2>2, <2>3, <2>4
  <2>5. CASE j < Window
    <3>1. j \in Modulus(n, nh) .. Window - 1 /\ j \in 1 .. Window - 1
      BY <1>2, <1>4, <2>2, <2>5
    <3>2. buf[Pos(n + j)] = <<>>
      BY <3>1 DEF Ordered
    <3> QED
      BY <1>8, <1>14, <2>2, <2>3, <2>5, <3>1, <3>2
  <2> QED
    BY <1>2, <2>2, <2>4, <2>5
<1>17. next \in SN /\ Modulus(m, next) <= Modulus(m, x) /\ after[Pos(next)] # Delivered
  <2>1. CASE hs = n
    <3>1. next = m
      BY <2>1 DEF m
    <3>2. Modulus(m, m) = 0 /\ e - run >= 0
      BY <1>4, <1>9, <1>10, <1>12, NoDistance
    <3> QED
      BY <1>12, <1>15, <3>1, <3>2
  <2>2. CASE hs # n
    <3>1. next = hs /\ run <= h
      BY <1>11, <2>2
    <3>2. h - run <= e - run
      BY <1>2, <1>4, <1>9
    <3>3. h \in Nat /\ h < run + Window /\ h <= Window /\ 1 <= h
      BY <1>2, <1>4, <1>9, <3>1
    <3>4. CASE h = Window
      <4>1. after[Pos(n + h)] = <<>>
        BY <1>2, <1>14, <3>1, <3>3, <3>4
      <4> QED
        BY <1>1, <1>6, <1>12, <2>2, <3>1, <3>2, <4>1, BufferedNone
    <3>5. CASE h # Window
      <4>1. h \in 1 .. Window - 1 /\ h < Window
        BY <1>2, <3>3, <3>5
      <4>2. after[Pos(n + h)] = buf[Pos(n + h)]
        BY <1>8, <1>14, <3>1, <3>3, <4>1
      <4>3. after[Pos(hs)] # Delivered
        BY <1>6, <4>2 DEF Ordered
      <4> QED
        BY <1>1, <1>12, <2>2, <3>1, <3>2, <4>3
    <3> QED
      BY <3>4, <3>5
  <2> QED
    BY <2>1, <2>2
<1>18. e - run <= Window
  BY <1>2, <1>4, <1>9
<1>19. Ordered(m, next, x, after)
  BY <1>4, <1>12, <1>15, <1>16, <1>17, <1>18 DEF Ordered
<1> QED
  BY <1>9, <1>10, <1>19 DEF m, x, e, after

-----------------------------------------------------------------------------
(* t-Reassembly: its trigger, and when it has to be started for the SNs      *)
(* from `at' on.                                                             *)
TriggerIn(n, tr, nh) == 0 < Modulus(n, tr) /\ Modulus(n, tr) <= Modulus(n, nh)

Starts(n, nh, at, buf) ==
  \/ SnCompare(n, nh, Plus(at, 1)) > 0
  \/ nh = Plus(at, 1) /\ SduHasMissingBytes(buf[Pos(at)])

(* When it is started, rx_next_highest is above `at', and so above rx_next.  *)
LEMMA StartsAbove ==
  ASSUME NEW n, NEW at, NEW nh, NEW buf, Ordered(n, at, nh, buf)
  PROVE  /\ Starts(n, nh, at, buf) <=> \/ Modulus(n, nh) > Modulus(n, at) + 1
                                       \/ nh = Plus(at, 1) /\ SduHasMissingBytes(buf[Pos(at)])
         /\ nh = Plus(at, 1) => Modulus(n, nh) = Modulus(n, at) + 1
         /\ Starts(n, nh, at, buf) => TriggerIn(n, nh, nh)
<1>1. n \in SN /\ at \in SN /\ nh \in SN
  BY DEF Ordered
<1>2. /\ Window \in Nat /\ Window >= 2 /\ SnMod = 2 * Window
      /\ Modulus(n, at) \in Nat /\ Modulus(n, nh) \in Nat
      /\ Modulus(n, at) <= Modulus(n, nh) /\ Modulus(n, nh) <= Window
  BY OrderedNumbers
<1>3. 1 \in 0 .. SnMod /\ Modulus(n, at) + 1 < SnMod
  BY <1>2
<1>4. Modulus(n, Plus(at, 1)) = Modulus(n, at) + 1
  BY <1>1, <1>3, DistancePlus
<1>5. SnCompare(n, nh, Plus(at, 1)) > 0 <=> Modulus(n, nh) > Modulus(n, at) + 1
  BY <1>2, <1>4 DEF SnCompare
<1>6. nh = Plus(at, 1) => Modulus(n, nh) = Modulus(n, at) + 1
  BY <1>4
<1>7. Modulus(n, nh) > Modulus(n, at) + 1 \/ Modulus(n, nh) = Modulus(n, at) + 1 => TriggerIn(n, nh, nh)
  BY <1>2 DEF TriggerIn
<1> QED
  BY <1>5, <1>6, <1>7, Zenon DEF Starts

(* The start condition of the receiver, which looks at rx_next, holds        *)
(* whenever rx_highest_status is a gap to report.                            *)
LEMMA GapStarts ==
  ASSUME NEW n, NEW hs, NEW nh, NEW buf, Ordered(n, hs, nh, buf), Starts(n, nh, hs, buf)
  PROVE  Starts(n, nh, n, buf)
<1>1. CASE hs = n
  BY <1>1
<1>2. CASE hs # n
  <2>1. Modulus(n, n) = 0 /\ Modulus(n, hs) # 0
    BY <1>2, NoDistance DEF Ordered
  <2>2. Modulus(n, hs) \in Nat /\ Modulus(n, nh) \in Nat
    BY OrderedNumbers
  <2>3. Ordered(n, n, nh, buf)
    BY <2>1, <2>2 DEF Ordered
  <2>4. Modulus(n, nh) > Modulus(n, hs) + 1 \/ Modulus(n, nh) = Modulus(n, hs) + 1
    BY StartsAbove
  <2>5. Modulus(n, nh) > 0 + 1
    BY <2>1, <2>2, <2>4
  <2> QED
    BY <2>1, <2>3, <2>5, StartsAbove
<1> QED
  BY <1>1, <1>2

(* A trigger that rx_next has passed is out of the window, where the         *)
(* receiver stops the timer: one that is left is still in order.             *)
LEMMA TriggerMoved ==
  ASSUME NEW n \in SN, NEW tr \in SN, NEW x \in SN, NEW run \in 0 .. Window,
         TriggerIn(n, tr, x), run <= Modulus(n, x), Modulus(n, x) <= Window,
         tr # Plus(n, run),
         InRecvWindow(Plus(n, run), tr) \/ tr = Plus(Plus(n, run), Window)
  PROVE  TriggerIn(Plus(n, run), tr, x)
<1> DEFINE m == Plus(n, run)
<1>1. Window \in Nat /\ Window >= 2 /\ SnMod = 2 * Window
  BY SnSpace
<1>2. /\ m \in SN
      /\ run <= Modulus(n, x) => Modulus(m, x) = Modulus(n, x) - run
      /\ run <= Modulus(n, tr) => Modulus(m, tr) = Modulus(n, tr) - run
      /\ run > Modulus(n, tr) => Modulus(m, tr) = Modulus(n, tr) - run + SnMod
  BY DistanceMoved
<1>3. Modulus(n, x) \in Nat /\ Modulus(n, tr) \in Nat
  BY <1>1, Distance
<1> HIDE DEF m
<1>4. Modulus(m, tr) <= Window
  <2>1. CASE InRecvWindow(m, tr)
    <3>1. Modulus(m, tr) \in Nat
      BY <1>1, <1>2, Distance
    <3> QED
      BY <1>1, <2>1, <3>1 DEF InRecvWindow
  <2>2. CASE tr = Plus(m, Window)
    <3>1. Window \in 0 .. SnMod /\ Modulus(m, m) = 0 /\ Modulus(m, m) + Window < SnMod
      BY <1>1, <1>2, NoDistance
    <3>2. Modulus(m, tr) = Modulus(m, m) + Window
      BY <1>2, <2>2, <3>1, DistancePlus
    <3> QED
      BY <1>1, <3>1, <3>2
  <2> QED
    BY <2>1, <2>2 DEF m
<1>5. run <= Modulus(n, tr)
  BY <1>1, <1>2, <1>3, <1>4 DEF TriggerIn
<1>6. Modulus(m, tr) # 0
  BY <1>2, NoDistance DEF m
<1> QED
  BY <1>1, <1>2, <1>3, <1>5, <1>6 DEF TriggerIn, m

(* The expiry of t-Reassembly.                                               *)
LEMMA OrderedExpiry ==
  ASSUME NEW n, NEW hs, NEW nh, NEW buf, Ordered(n, hs, nh, buf),
         NEW tr \in SN, TriggerIn(n, tr, nh)
  PROVE  Ordered(n, Plus(tr, DeliveredRun(buf, tr)), nh, buf)
<1> DEFINE b == Plus(tr, DeliveredRun(buf, tr))
<1>1. n \in SN /\ nh \in SN /\ OpenAt(buf, n, Modulus(n, nh))
  BY DEF Ordered, OpenAt
<1>2. Modulus(n, nh) \in Nat /\ Modulus(n, nh) <= Window /\ Window \in Nat
  BY OrderedNumbers
<1>3. Modulus(n, nh) \in 0 .. Window /\ Modulus(n, tr) # 0 /\ Modulus(n, tr) <= Modulus(n, nh)
  BY <1>2 DEF TriggerIn
<1>4. b \in SN /\ Modulus(n, b) \in 0 .. Modulus(n, nh) /\ buf[Pos(b)] # Delivered
  BY <1>1, <1>3, RunStops
<1> HIDE DEF b
<1>5. Modulus(n, b) <= Modulus(n, nh)
  BY <1>2, <1>4
<1>6. Ordered(n, b, nh, buf)
  BY <1>4, <1>5 DEF Ordered
<1> QED
  BY <1>6 DEF b

(* What reception_actions does with t-Reassembly, rx_next being m,           *)
(* rx_next_highest x and the buffer buf by then.                             *)
Updated(m, x, buf, tr, t, trNew, tNew) ==
    LET missing == SduHasMissingBytes(buf[Pos(m)])
        stop    == \/ tr = m
                   \/ tr = Plus(m, 1) /\ ~missing
                   \/ /\ ~InRecvWindow(m, tr)
                      /\ tr # Plus(m, Window)
        running == t /\ ~stop
        start   == /\ ~running
                   /\ \/ SnCompare(m, x, Plus(m, 1)) > 0
                      \/ x = Plus(m, 1) /\ missing
    IN  /\ tNew = (running \/ start)
        /\ trNew = IF start THEN x ELSE tr

(* The timer and its trigger fit the window.                                 *)
Timed(n, hs, nh, buf, tr, t) ==
  /\ tr \in SN /\ t \in BOOLEAN
  /\ t => TriggerIn(n, tr, nh)
  /\ Starts(n, nh, hs, buf) => t

LEMMA TimedUpdated ==
  ASSUME NEW n \in SN, NEW hs, NEW x, NEW buf, NEW run \in 0 .. Window,
         run <= Modulus(n, x), Modulus(n, x) <= Window,
         Ordered(Plus(n, run), hs, x, buf),
         NEW tr \in SN, NEW t \in BOOLEAN, t => TriggerIn(n, tr, x),
         NEW trNew, NEW tNew, Updated(Plus(n, run), x, buf, tr, t, trNew, tNew)
  PROVE  Timed(Plus(n, run), hs, x, buf, trNew, tNew)
<1> DEFINE m == Plus(n, run)
           missing == SduHasMissingBytes(buf[Pos(m)])
           stop    == \/ tr = m
                      \/ tr = Plus(m, 1) /\ ~missing
                      \/ ~InRecvWindow(m, tr) /\ tr # Plus(m, Window)
           running == t /\ ~stop
<1>1. /\ tNew = (running \/ (~running /\ Starts(m, x, m, buf)))
      /\ trNew = IF ~running /\ Starts(m, x, m, buf) THEN x ELSE tr
  BY Zenon DEF Updated, Starts
<1>2. x \in SN
  BY DEF Ordered
<1>3. trNew \in SN /\ tNew \in BOOLEAN
  BY <1>1, <1>2, Zenon
<1>4. Starts(m, x, hs, buf) => tNew
  BY <1>1, GapStarts, Zenon
<1>5. ASSUME running, ~Starts(m, x, m, buf) \/ running PROVE TriggerIn(m, tr, x)
  <2>1. TriggerIn(n, tr, x) /\ tr # m /\ (InRecvWindow(m, tr) \/ tr = Plus(m, Window))
    BY <1>5, Zenon
  <2> QED
    BY <1>2, <2>1, TriggerMoved
<1>6. ASSUME Starts(m, x, m, buf) PROVE TriggerIn(m, x, x)
  <2>1. Modulus(m, m) = 0 /\ Modulus(m, x) \in Nat /\ m \in SN
    BY NoDistance, OrderedNumbers DEF Ordered
  <2>2. Ordered(m, m, x, buf)
    BY <2>1 DEF Ordered
  <2> QED
    BY <1>6, <2>2, StartsAbove, Zenon
<1>7. tNew => TriggerIn(m, trNew, x)
  BY <1>1, <1>5, <1>6, Zenon
<1> QED
  BY <1>3, <1>4, <1>7, Zenon DEF Timed

(* The expiry of the timer.                                                  *)
LEMMA TimedExpiry ==
  ASSUME NEW n, NEW hs, NEW nh, NEW buf, Ordered(n, hs, nh, buf), NEW tr \in SN
  PROVE  LET start == Starts(n, nh, hs, buf)
         IN  Timed(n, hs, nh, buf, IF start THEN nh ELSE tr, start)
<1>1. nh \in SN /\ Starts(n, nh, hs, buf) \in BOOLEAN
  BY Zenon DEF Ordered, Starts
<1>2. Starts(n, nh, hs, buf) => TriggerIn(n, nh, nh)
  BY StartsAbove, Zenon
<1> QED
  BY <1>1, <1>2, Zenon DEF Timed

(* The bytes of an SDU leave the sum when it is delivered.                   *)
LEMMA BufferDelivered ==
  ASSUME NEW buf \in Buffers, NEW p \in 0 .. Window - 1, NEW after \in Buffers,
         \A i \in 0 .. Window - 1 :
            \/ i # p /\ after[i] = buf[i]
            \/ (i = p \/ buf[i] = Delivered) /\ after[i] \in {<<>>, Delivered}
  PROVE  Total(EntrySizes(after)) = Total(EntrySizes(buf)) - BufferedBytes(buf[p])
<1>1. \A i \in 0 .. Window - 1 : i # p => BufferedBytes(after[i]) = BufferedBytes(buf[i])
  BY BufferedNone
<1>2. BufferedBytes(after[p]) = 0
  BY BufferedNone
<1>3. Total(EntrySizes(after)) = Total(EntrySizes(buf)) - BufferedBytes(buf[p]) + BufferedBytes(after[p])
  BY <1>1, BufferChanged
<1>4. Total(EntrySizes(buf)) \in Nat /\ BufferedBytes(buf[p]) \in Nat
  BY EntrySizesFacts, BufferHas
<1> QED
  BY <1>2, <1>3, <1>4

-----------------------------------------------------------------------------
(* The inductive invariant: the invariants of NrRlcAmRx in the terms of the  *)
(* lemmas above.                                                             *)
RxInv ==
  /\ RxTypeOK
  /\ rx_size = Total(EntrySizes(rx))
  /\ ~hung => /\ Ordered(rx_next, rx_highest_status, rx_next_highest, rx)
              /\ Timed(rx_next, rx_highest_status, rx_next_highest, rx,
                       rx_next_status_trigger, t_reassembly)

LEMMA RxTypes ==
  RxTypeOK <=>
    /\ rx_next \in SN /\ rx_next_status_trigger \in SN /\ rx_highest_status \in SN
    /\ rx_next_highest \in SN
    /\ status_triggered \in BOOLEAN /\ t_reassembly \in BOOLEAN /\ t_status_prohibit \in BOOLEAN
    /\ hung \in BOOLEAN
    /\ rx \in Buffers /\ rx_size \in 0 .. RxMax /\ Len(out) <= 1
BY Zenon DEF RxTypeOK, Buffers

LEMMA RxTypesNext ==
  RxTypeOK' <=>
    /\ rx_next' \in SN /\ rx_next_status_trigger' \in SN /\ rx_highest_status' \in SN
    /\ rx_next_highest' \in SN
    /\ status_triggered' \in BOOLEAN /\ t_reassembly' \in BOOLEAN /\ t_status_prohibit' \in BOOLEAN
    /\ hung' \in BOOLEAN
    /\ rx' \in Buffers /\ rx_size' \in 0 .. RxMax /\ Len(out') <= 1
BY Zenon DEF RxTypeOK, Buffers

(* What it says, in the words of the model.                                  *)
LEMMA RxInvImplies ==
  RxInv => RxTypeOK /\ RxOrdered /\ GapTimed /\ RxSizeExact
<1> SUFFICES ASSUME RxInv PROVE RxTypeOK /\ RxOrdered /\ GapTimed /\ RxSizeExact
  OBVIOUS
<1>1. RxTypeOK /\ RxSizeExact
  BY Zenon DEF RxInv, RxSizeExact, EntrySizes
<1>2. RxOrdered
  BY Zenon DEF RxInv, RxOrdered, Ordered, Timed, TriggerIn
<1>3. GapTimed
  BY Zenon DEF RxInv, GapTimed, Timed, Starts
<1> QED
  BY <1>1, <1>2, <1>3

(* The empty receiver.                                                       *)
LEMMA EmptyBuffer ==
  ASSUME NEW buf, buf = [i \in 0 .. Window - 1 |-> <<>>]
  PROVE  /\ buf \in Buffers /\ Total(EntrySizes(buf)) = 0
         /\ Ordered(0, 0, 0, buf) /\ Timed(0, 0, 0, buf, 0, FALSE)
<1>1. Window \in Nat /\ 0 \in SN /\ 0 \in Int /\ Window >= 2
  BY SnSpace
<1>2. buf \in Buffers /\ \A i \in 0 .. Window - 1 : buf[i] = <<>>
  BY BufferedNone DEF Buffers
<1>3. Total(EntrySizes(buf)) = 0
  <2>1. EntrySizes(buf) \in Seq(Nat) /\ Len(EntrySizes(buf)) = Window
    BY <1>2, EntrySizesFacts
  <2>2. ASSUME NEW i \in 1 .. Window PROVE EntrySizes(buf)[i] = 0
    <3>1. i - 1 \in 0 .. Window - 1
      BY <1>1
    <3> QED
      BY <1>2, <3>1, BufferedNone, EntrySizesFacts
  <2> QED
    BY <2>1, <2>2, TotalZero
<1>4. Modulus(0, 0) = 0 /\ Pos(0) \in 0 .. Window - 1 /\ \A k \in 0 .. Window - 1 : Pos(0 + k) \in 0 .. Window - 1
  <2>1. \A k \in 0 .. Window - 1 : 0 + k \in Int
    BY <1>1
  <2> QED
    BY <1>1, <2>1, NoDistance, PosFacts
<1>5. Ordered(0, 0, 0, buf)
  BY <1>1, <1>2, <1>4, BufferedNone DEF Ordered
<1>6. ~Starts(0, 0, 0, buf)
  <2>1. ~(0 > 0 + 1) /\ 0 # 0 + 1
    OBVIOUS
  <2> QED
    BY <1>4, <1>5, <2>1, StartsAbove
<1>7. Timed(0, 0, 0, buf, 0, FALSE)
  BY <1>1, <1>6, Zenon DEF Timed
<1> QED
  BY <1>2, <1>3, <1>5, <1>7

LEMMA RxInvInit == RxInit => RxInv
<1> SUFFICES ASSUME RxInit PROVE RxInv
  OBVIOUS
<1>1. /\ rx \in Buffers /\ Total(EntrySizes(rx)) = 0
      /\ Ordered(0, 0, 0, rx) /\ Timed(0, 0, 0, rx, 0, FALSE)
  BY EmptyBuffer DEF RxInit
<1>2. 0 \in SN /\ 0 \in 0 .. RxMax /\ Len(<<>>) <= 1
  BY SnSpace, RxConstants
<1>3. RxTypeOK
  BY <1>1, <1>2, RxTypes DEF RxInit
<1> QED
  BY <1>1, <1>3 DEF RxInit, RxInv

(* The data of a PDU in its list: never taken for the delivered SDU.         *)
LEMMA StoredFacts ==
  ASSUME RxInv, NEW pdu \in DataPdus
  PROVE  LET p == Pos(pdu.sn)
         IN  /\ pdu.sn \in SN /\ pdu.size \in Nat /\ pdu.size >= 1 /\ pdu.p \in BOOLEAN
             /\ p \in 0 .. Window - 1 /\ rx \in Buffers
             /\ Stored(pdu) \in Seq(Segments) /\ Stored(pdu) # Delivered
             /\ BufferedBytes(rx[p]) \in Nat /\ BufferedBytes(rx[p]) <= rx_size
             /\ BufferedBytes(Stored(pdu)) = BufferedBytes(rx[p]) + pdu.size
<1> DEFINE p == Pos(pdu.sn)
           seg == [so |-> pdu.so, size |-> pdu.size, data |-> pdu.data]
<1>1. /\ pdu.sn \in SN /\ pdu.so \in 0 .. SduSize - 1 /\ pdu.size \in 1 .. SduSize
      /\ pdu.data = 0 /\ pdu.p \in BOOLEAN
  BY DEF DataPdus
<1>2. pdu.size \in Nat /\ pdu.size >= 1 /\ pdu.sn \in Int
  BY <1>1, RlcConstants, SnSpace
<1>3. seg \in Segments /\ seg.data # NULL /\ seg.size = pdu.size
  BY <1>1 DEF Segments, NULL
<1>4. p \in 0 .. Window - 1
  BY <1>2, PosFacts
<1>5. rx \in Buffers /\ rx_size = Total(EntrySizes(rx))
  BY RxTypes DEF RxInv
<1>6. rx[p] \in Seq(Segments)
  BY <1>4, <1>5 DEF Buffers
<1>7. BufferedBytes(rx[p]) \in Nat /\ BufferedBytes(rx[p]) <= rx_size
  BY <1>4, <1>5, BufferHas
<1>8. Stored(pdu) = AddPdu(rx[p], seg)
  BY DEF Stored
<1> HIDE DEF p, seg
<1>9. Stored(pdu) \in Seq(Segments)
  BY <1>3, <1>6, <1>8, AddFacts
<1>10. BufferedBytes(Stored(pdu)) = BufferedBytes(rx[p]) + pdu.size
  BY <1>3, <1>6, <1>8, BufferedAdd
<1>11. Stored(pdu) # Delivered
  BY <1>2, <1>7, <1>10, BufferedNone
<1> QED
  BY <1>1, <1>2, <1>4, <1>5, <1>7, <1>9, <1>10, <1>11 DEF p

LEMMA PlusZero ==
  ASSUME NEW a \in SN
  PROVE  a = Plus(a, 0)
<1>1. 0 \in 0 .. SnMod /\ a \in Int /\ a < SnMod /\ SnMod \in Nat /\ a >= 0
  BY SnSpace
<1>2. Plus(a, 0) \in SN /\ (Plus(a, 0) = a + 0 \/ Plus(a, 0) = a + 0 - SnMod)
  BY <1>1, PlusFacts
<1>3. Plus(a, 0) \in Int /\ Plus(a, 0) >= 0
  BY <1>2, SnSpace
<1> QED
  BY <1>1, <1>2, <1>3

(* recv_pdu, one lemma per outcome.                                          *)
LEMMA InvSegment ==
  ASSUME RxInv, ~hung, NEW pdu \in DataPdus, RecvSegment(pdu)
  PROVE  RxInv'
<1> DEFINE p == Pos(pdu.sn)
           x == Highest(rx_next, rx_next_highest, pdu.sn)
<1>1. /\ pdu.sn \in SN /\ pdu.size \in Nat /\ pdu.size >= 1 /\ pdu.p \in BOOLEAN
      /\ p \in 0 .. Window - 1 /\ rx \in Buffers
      /\ Stored(pdu) \in Seq(Segments) /\ Stored(pdu) # Delivered
      /\ BufferedBytes(rx[p]) \in Nat
      /\ BufferedBytes(Stored(pdu)) = BufferedBytes(rx[p]) + pdu.size
  BY StoredFacts
<1>2. /\ rx_next \in SN /\ rx_next_status_trigger \in SN /\ rx_highest_status \in SN
      /\ rx_next_highest \in SN
      /\ status_triggered \in BOOLEAN /\ t_reassembly \in BOOLEAN /\ t_status_prohibit \in BOOLEAN
      /\ hung \in BOOLEAN /\ rx_size \in 0 .. RxMax
  BY RxTypes DEF RxInv
<1>3. /\ rx_size + pdu.size <= RxMax /\ Modulus(rx_next, pdu.sn) < Window
      /\ rx' = [rx EXCEPT ![p] = Stored(pdu)] /\ rx_size' = rx_size + pdu.size
      /\ out' = <<>> /\ rx_next_highest' = x /\ rx_next' = rx_next
      /\ rx_highest_status' = rx_highest_status
      /\ t_status_prohibit' = t_status_prohibit /\ hung' = hung
      /\ status_triggered' = (status_triggered \/ pdu.p)
  BY DEF RecvSegment, AcceptData, InRecvWindow, NextHighest, Highest
<1>4. Updated(rx_next', x, rx', rx_next_status_trigger, t_reassembly, rx_next_status_trigger', t_reassembly')
  BY <1>3, Zenon DEF RecvSegment, UpdateReassembly, Updated
<1>5. Ordered(rx_next, rx_highest_status, rx_next_highest, rx)
  BY DEF RxInv
<1>6. Ordered(rx_next, rx_highest_status, x, rx')
  BY <1>1, <1>3, <1>5, OrderedStore
<1>7. /\ rx' \in Buffers /\ rx'[p] = Stored(pdu)
      /\ \A i \in 0 .. Window - 1 : i # p => rx'[i] = rx[i]
  BY <1>1, <1>3 DEF Buffers
<1>8. rx_size' = Total(EntrySizes(rx'))
  <2>1. \A i \in 0 .. Window - 1 : i # p => BufferedBytes(rx'[i]) = BufferedBytes(rx[i])
    BY <1>7
  <2>2. Total(EntrySizes(rx')) = Total(EntrySizes(rx)) - BufferedBytes(rx[p]) + BufferedBytes(rx'[p])
    BY <1>1, <1>7, <2>1, BufferChanged
  <2>3. Total(EntrySizes(rx)) = rx_size
    BY DEF RxInv
  <2>4. rx_size \in Nat
    BY <1>2, RxConstants
  <2>5. BufferedBytes(rx'[p]) = BufferedBytes(rx[p]) + pdu.size
    BY <1>1, <1>7
  <2>6. Total(EntrySizes(rx')) = rx_size - BufferedBytes(rx[p]) + (BufferedBytes(rx[p]) + pdu.size)
    BY <2>2, <2>3, <2>5
  <2>7. rx_size - BufferedBytes(rx[p]) + (BufferedBytes(rx[p]) + pdu.size) = rx_size + pdu.size
    BY <1>1, <2>4
  <2> QED
    BY <1>3, <2>6, <2>7
<1>9. Modulus(rx_next, x) <= Window /\ Modulus(rx_next, rx_next_highest) <= Modulus(rx_next, x)
      /\ Modulus(rx_next, x) \in Nat /\ x \in SN
  <2>1. Modulus(rx_next, rx_next_highest) <= Window
    BY <1>5 DEF Ordered
  <2> QED
    BY <1>1, <1>2, <1>3, <2>1, HighestFacts
<1>10. Timed(rx_next, rx_highest_status, x, rx', rx_next_status_trigger', t_reassembly')
  <2>1. rx_next = Plus(rx_next, 0)
    BY <1>2, PlusZero
  <2>2. ASSUME t_reassembly PROVE TriggerIn(rx_next, rx_next_status_trigger, x)
    <3>1. TriggerIn(rx_next, rx_next_status_trigger, rx_next_highest)
      BY <2>2 DEF RxInv, Timed
    <3>2. Modulus(rx_next, rx_next_status_trigger) \in Nat /\ Modulus(rx_next, rx_next_highest) \in Nat
      BY <1>2, DistanceNat
    <3> QED
      BY <1>9, <3>1, <3>2 DEF TriggerIn
  <2>3. 0 \in 0 .. Window /\ 0 <= Modulus(rx_next, x)
    BY <1>9, SnSpace
  <2> HIDE DEF x
  <2>4. Ordered(Plus(rx_next, 0), rx_highest_status, x, rx')
    BY <1>6, <2>1, Zenon
  <2>5. Updated(Plus(rx_next, 0), x, rx', rx_next_status_trigger, t_reassembly, rx_next_status_trigger', t_reassembly')
    BY <1>3, <1>4, <2>1, Zenon
  <2>6. Timed(Plus(rx_next, 0), rx_highest_status, x, rx', rx_next_status_trigger', t_reassembly')
    BY <1>2, <1>9, <2>2, <2>3, <2>4, <2>5, TimedUpdated, Zenon
  <2> QED
    BY <2>1, <2>6, Zenon
<1>11. RxTypeOK'
  <2>1. rx_size' \in 0 .. RxMax
    BY <1>1, <1>2, <1>3, RxConstants
  <2>2. rx_next_status_trigger' \in SN /\ t_reassembly' \in BOOLEAN
    BY <1>10 DEF Timed
  <2>3. status_triggered' \in BOOLEAN
    BY <1>1, <1>2, <1>3, Zenon
  <2>4. Len(out') <= 1
    BY <1>3
  <2> QED
    BY <1>2, <1>3, <1>7, <1>9, <2>1, <2>2, <2>3, <2>4, RxTypesNext, Zenon
<1> QED
  BY <1>3, <1>6, <1>8, <1>10, <1>11, Zenon DEF RxInv

(* rx_size when an SDU is delivered.                                         *)
LEMMA DeliverSize ==
  ASSUME RxInv, NEW pdu \in DataPdus, Deliver(pdu), rx' \in Buffers,
         \A i \in 0 .. Window - 1 :
            \/ i # Pos(pdu.sn) /\ rx'[i] = rx[i]
            \/ (i = Pos(pdu.sn) \/ rx[i] = Delivered) /\ rx'[i] \in {<<>>, Delivered}
  PROVE  rx_size' = Total(EntrySizes(rx')) /\ rx_size' \in 0 .. RxMax /\ Len(out') <= 1
<1> DEFINE p == Pos(pdu.sn)
<1>1. /\ pdu.size \in Nat /\ p \in 0 .. Window - 1 /\ rx \in Buffers
      /\ BufferedBytes(rx[p]) \in Nat /\ BufferedBytes(rx[p]) <= rx_size
      /\ BufferedBytes(Stored(pdu)) = BufferedBytes(rx[p]) + pdu.size
  BY StoredFacts
<1>2. rx_size = Total(EntrySizes(rx)) /\ rx_size \in 0 .. RxMax
  BY RxTypes DEF RxInv
<1>3. Total(EntrySizes(rx')) = Total(EntrySizes(rx)) - BufferedBytes(rx[p])
  BY <1>1, BufferDelivered
<1>4. rx_size' = rx_size + pdu.size - BufferedBytes(Stored(pdu)) /\ Len(out') <= 1
  BY DEF Deliver
<1>5. rx_size' = rx_size + pdu.size - (BufferedBytes(rx[p]) + pdu.size)
  BY <1>1, <1>4
<1> HIDE DEF p
<1>6. rx_size' = rx_size - BufferedBytes(rx[p])
  BY <1>1, <1>2, <1>5, RxConstants
<1>7. rx_size' \in 0 .. RxMax
  BY <1>1, <1>2, <1>6, RxConstants
<1> QED
  BY <1>2, <1>3, <1>4, <1>6, <1>7 DEF p

LEMMA InvSdu ==
  ASSUME RxInv, ~hung, NEW pdu \in DataPdus, RecvSdu(pdu)
  PROVE  RxInv'
<1> DEFINE p == Pos(pdu.sn)
           buf == [rx EXCEPT ![p] = Delivered]
           run == DeliveredRun(buf, pdu.sn)
           freed == IF pdu.sn = rx_next THEN run ELSE 0
           x == Highest(rx_next, rx_next_highest, pdu.sn)
<1>1. pdu.sn \in SN /\ pdu.p \in BOOLEAN /\ p \in 0 .. Window - 1 /\ rx \in Buffers
  BY StoredFacts
<1>2. /\ rx_next \in SN /\ rx_next_status_trigger \in SN /\ rx_highest_status \in SN
      /\ rx_next_highest \in SN
      /\ status_triggered \in BOOLEAN /\ t_reassembly \in BOOLEAN /\ t_status_prohibit \in BOOLEAN
      /\ hung \in BOOLEAN
  BY RxTypes DEF RxInv
<1>3. DOMAIN buf = 0 .. Window - 1 /\ \A i \in 0 .. Window - 1 : buf[i] = IF i = p THEN Delivered ELSE rx[i]
  BY <1>1 DEF Buffers
<1>4. /\ Modulus(rx_next, pdu.sn) < Window
      /\ Deliver(pdu) /\ (pdu.sn = rx_highest_status => run # Window)
      /\ rx_next_highest' = x /\ rx_next' = Plus(rx_next, freed)
      /\ rx_highest_status' = IF pdu.sn = rx_highest_status THEN Plus(pdu.sn, run) ELSE rx_highest_status
      /\ t_status_prohibit' = t_status_prohibit /\ hung' = hung
      /\ status_triggered' = (status_triggered \/ pdu.p)
  BY DEF RecvSdu, AcceptData, InRecvWindow, NextHighest, Highest, LoopsForever, Reassembled
<1>5. rx' = Freed(buf, rx_next, freed)
  BY <1>3, Zenon DEF RecvSdu, Reassembled, Freed
<1>6. Updated(rx_next', x, rx', rx_next_status_trigger, t_reassembly, rx_next_status_trigger', t_reassembly')
  BY <1>4, Zenon DEF RecvSdu, UpdateReassembly, Updated
<1>7. Ordered(rx_next, rx_highest_status, rx_next_highest, rx)
  BY DEF RxInv
<1>8. Modulus(rx_next, x) <= Window /\ Modulus(rx_next, rx_next_highest) <= Modulus(rx_next, x)
      /\ Modulus(rx_next, x) \in Nat /\ x \in SN
  <2>1. Modulus(rx_next, rx_next_highest) <= Window
    BY <1>7 DEF Ordered
  <2> QED
    BY <1>1, <1>2, <1>4, <2>1, HighestFacts
<1>9. run \in 0 .. Window /\ \A k \in 0 .. run - 1 : buf[Pos(pdu.sn + k)] = Delivered
  BY RunFacts
<1> HIDE DEF p, buf, run, x
<1>10. /\ Ordered(Plus(rx_next, freed), rx_highest_status', x, rx')
       /\ freed \in 0 .. Window /\ freed <= Modulus(rx_next, x)
  <2>1. CASE pdu.sn = rx_next
    <3>1. freed = run /\ p = Pos(rx_next) /\ x = Highest(rx_next, rx_next_highest, rx_next)
      BY <2>1 DEF p, x
    <3>2. /\ buf = [rx EXCEPT ![Pos(rx_next)] = Delivered]
          /\ run = DeliveredRun(buf, rx_next) /\ (rx_next = rx_highest_status => run # Window)
          /\ rx_highest_status' = IF rx_next = rx_highest_status THEN Plus(rx_next, run) ELSE rx_highest_status
      BY <1>4, <2>1, <3>1 DEF buf, run, p
    <3>3. /\ Ordered(Plus(rx_next, run), rx_highest_status', x, Freed(buf, rx_next, run))
          /\ run \in 1 .. Window /\ run <= Modulus(rx_next, x)
      BY <1>1, <1>7, <3>1, <3>2, OrderedAdvance
    <3> QED
      BY <1>5, <1>9, <3>1, <3>3
  <2>2. CASE pdu.sn # rx_next
    <3>1. freed = 0 /\ Plus(rx_next, 0) = rx_next
      BY <1>2, <2>2, PlusZero
    <3>2. rx' = buf
      <4>1. Freed(buf, rx_next, 0) = [i \in 0 .. Window - 1 |-> buf[i]]
        BY DEF Freed
      <4>2. buf = [i \in DOMAIN buf |-> buf[i]]
        BY DEF buf
      <4> QED
        BY <1>3, <1>5, <3>1, <4>1, <4>2
    <3>3. Ordered(rx_next, rx_highest_status', x, buf)
      BY <1>1, <1>4, <1>7, <2>2, OrderedDeliver DEF buf, run, p, x
    <3>4. 0 \in 0 .. Window /\ 0 <= Modulus(rx_next, x)
      BY <1>8, SnSpace
    <3> QED
      BY <3>1, <3>2, <3>3, <3>4, Zenon
  <2> QED
    BY <2>1, <2>2
<1>11. ASSUME t_reassembly PROVE TriggerIn(rx_next, rx_next_status_trigger, x)
  <2>1. TriggerIn(rx_next, rx_next_status_trigger, rx_next_highest)
    BY <1>11 DEF RxInv, Timed
  <2>2. Modulus(rx_next, rx_next_status_trigger) \in Nat /\ Modulus(rx_next, rx_next_highest) \in Nat
    BY <1>2, DistanceNat
  <2> QED
    BY <1>8, <2>1, <2>2 DEF TriggerIn
<1>12. ASSUME NEW i \in 0 .. Window - 1
       PROVE  \/ i # p /\ rx'[i] = rx[i]
              \/ (i = p \/ rx[i] = Delivered) /\ rx'[i] \in {<<>>, Delivered}
  <2>1. rx'[i] = IF \E k \in 0 .. freed - 1 : i = Pos(rx_next + k) THEN <<>> ELSE buf[i]
    BY <1>5 DEF Freed
  <2>2. CASE \E k \in 0 .. freed - 1 : i = Pos(rx_next + k)
    <3>1. pdu.sn = rx_next /\ freed = run
      BY <2>2
    <3>2. buf[i] = Delivered
      BY <1>9, <2>2, <3>1
    <3> QED
      BY <1>3, <2>1, <2>2, <3>2
  <2>3. CASE ~\E k \in 0 .. freed - 1 : i = Pos(rx_next + k)
    BY <1>3, <2>1, <2>3
  <2> QED
    BY <2>2, <2>3
<1> HIDE DEF freed
<1>13. Timed(rx_next', rx_highest_status', x, rx', rx_next_status_trigger', t_reassembly')
  <2>1. Updated(Plus(rx_next, freed), x, rx', rx_next_status_trigger, t_reassembly,
                rx_next_status_trigger', t_reassembly')
    BY <1>4, <1>6, Zenon
  <2>2. Timed(Plus(rx_next, freed), rx_highest_status', x, rx', rx_next_status_trigger', t_reassembly')
    BY <1>2, <1>8, <1>10, <1>11, <2>1, TimedUpdated, Zenon
  <2> QED
    BY <1>4, <2>2, Zenon
<1>14. rx' \in Buffers
  <2>1. ASSUME NEW i \in 0 .. Window - 1 PROVE rx'[i] \in Seq(Segments)
    BY <1>1, <1>12, <2>1, BufferedNone DEF Buffers
  <2>2. rx' = [i \in 0 .. Window - 1 |-> rx'[i]]
    BY <1>5 DEF Freed
  <2> QED
    BY <2>1, <2>2 DEF Buffers
<1>15. rx_size' = Total(EntrySizes(rx')) /\ rx_size' \in 0 .. RxMax /\ Len(out') <= 1
  BY <1>4, <1>12, <1>14, DeliverSize DEF p
<1>16. RxTypeOK'
  <2>1. rx_next' \in SN /\ rx_highest_status' \in SN /\ rx_next_status_trigger' \in SN /\ t_reassembly' \in BOOLEAN
    BY <1>4, <1>10, <1>13, Zenon DEF Timed, Ordered
  <2>2. status_triggered' \in BOOLEAN
    BY <1>1, <1>2, <1>4, Zenon
  <2> QED
    BY <1>2, <1>4, <1>8, <1>14, <1>15, <2>1, <2>2, RxTypesNext, Zenon
<1> QED
  BY <1>4, <1>10, <1>13, <1>15, <1>16, Zenon DEF RxInv

LEMMA InvSduForever ==
  ASSUME RxInv, ~hung, NEW pdu \in DataPdus, RecvSduForever(pdu)
  PROVE  RxInv'
<1> DEFINE p == Pos(pdu.sn)
<1>1. pdu.sn \in SN /\ p \in 0 .. Window - 1 /\ rx \in Buffers
  BY StoredFacts
<1>2. /\ rx_next \in SN /\ rx_next_status_trigger \in SN /\ rx_highest_status \in SN
      /\ rx_next_highest \in SN
      /\ status_triggered \in BOOLEAN /\ t_reassembly \in BOOLEAN /\ t_status_prohibit \in BOOLEAN
  BY RxTypes DEF RxInv
<1>3. /\ Modulus(rx_next, pdu.sn) < Window /\ Deliver(pdu) /\ hung' = TRUE
      /\ rx' = [rx EXCEPT ![p] = Delivered]
      /\ rx_next_highest' = Highest(rx_next, rx_next_highest, pdu.sn)
      /\ UNCHANGED <<rx_next, rx_next_status_trigger, rx_highest_status,
                     status_triggered, t_reassembly, t_status_prohibit>>
  BY DEF RecvSduForever, AcceptData, InRecvWindow, NextHighest, Highest, Reassembled
<1>4. rx_next_highest' \in SN
  <2>1. Modulus(rx_next, rx_next_highest) <= Window
    BY DEF RxInv, Ordered
  <2> QED
    BY <1>1, <1>2, <1>3, <2>1, HighestFacts
<1>5. rx' \in Buffers /\ \A i \in 0 .. Window - 1 : rx'[i] = IF i = p THEN Delivered ELSE rx[i]
  BY <1>1, <1>3, BufferedNone DEF Buffers
<1>6. rx_size' = Total(EntrySizes(rx')) /\ rx_size' \in 0 .. RxMax /\ Len(out') <= 1
  BY <1>3, <1>5, DeliverSize
<1>7. RxTypeOK'
  BY <1>2, <1>3, <1>4, <1>5, <1>6, RxTypesNext, Zenon
<1> QED
  BY <1>3, <1>6, <1>7, Zenon DEF RxInv

(* check_t_reassembly.                                                       *)
LEMMA InvReassemblyExpired ==
  ASSUME RxInv, ~hung, ReassemblyExpired
  PROVE  RxInv'
<1> DEFINE status == Plus(rx_next_status_trigger, DeliveredRun(rx, rx_next_status_trigger))
           start == Starts(rx_next, rx_next_highest, status, rx)
<1>1. /\ rx_next \in SN /\ rx_next_status_trigger \in SN /\ rx_next_highest \in SN
      /\ t_status_prohibit \in BOOLEAN /\ hung \in BOOLEAN
      /\ rx \in Buffers /\ rx_size \in 0 .. RxMax
  BY RxTypes DEF RxInv
<1>2. /\ t_reassembly /\ rx_highest_status' = status /\ status_triggered' = TRUE
      /\ t_reassembly' = start
      /\ rx_next_status_trigger' = IF start THEN rx_next_highest ELSE rx_next_status_trigger
      /\ out' = <<>>
      /\ UNCHANGED <<rx_next, rx_next_highest, t_status_prohibit, rx, rx_size, hung>>
  BY Zenon DEF ReassemblyExpired, Starts
<1>3. /\ Ordered(rx_next, rx_highest_status, rx_next_highest, rx)
      /\ TriggerIn(rx_next, rx_next_status_trigger, rx_next_highest)
  BY <1>2 DEF RxInv, Timed
<1>4. Ordered(rx_next, status, rx_next_highest, rx)
  BY <1>1, <1>3, OrderedExpiry
<1> HIDE DEF status
<1>5. Timed(rx_next, status, rx_next_highest, rx,
            IF start THEN rx_next_highest ELSE rx_next_status_trigger, start)
  BY <1>1, <1>4, TimedExpiry, Zenon
<1>6. status \in SN /\ rx_next_status_trigger' \in SN /\ t_reassembly' \in BOOLEAN
  BY <1>2, <1>4, <1>5, Zenon DEF Ordered, Timed
<1>7. Len(out') <= 1
  BY <1>2
<1>8. RxTypeOK'
  BY <1>1, <1>2, <1>6, <1>7, RxTypesNext, Zenon
<1>9. rx_size' = Total(EntrySizes(rx'))
  BY <1>2, Zenon DEF RxInv
<1> QED
  BY <1>2, <1>4, <1>5, <1>8, <1>9, Zenon DEF RxInv

(* The steps that leave the window alone.                                    *)
LEMMA InvSameWindow ==
  ASSUME RxInv,
         UNCHANGED <<rx_next, rx_next_status_trigger, rx_highest_status,
                     rx_next_highest, t_reassembly, rx, rx_size, hung>>,
         status_triggered' \in BOOLEAN, t_status_prohibit' \in BOOLEAN, Len(out') <= 1
  PROVE  RxInv'
<1>1. /\ rx_next \in SN /\ rx_next_status_trigger \in SN /\ rx_highest_status \in SN
      /\ rx_next_highest \in SN /\ t_reassembly \in BOOLEAN /\ hung \in BOOLEAN
      /\ rx \in Buffers /\ rx_size \in 0 .. RxMax
  BY RxTypes DEF RxInv
<1>2. RxTypeOK'
  BY <1>1, RxTypesNext, Zenon
<1> QED
  BY <1>2, Zenon DEF RxInv

(* clear_entity.                                                             *)
LEMMA InvReestablish ==
  ASSUME RxInv, RxReestablish
  PROVE  RxInv'
<1>1. /\ rx' \in Buffers /\ Total(EntrySizes(rx')) = 0
      /\ Ordered(0, 0, 0, rx') /\ Timed(0, 0, 0, rx', 0, FALSE)
  BY EmptyBuffer DEF RxReestablish
<1>2. 0 \in SN /\ 0 \in 0 .. RxMax /\ Len(<<>>) <= 1 /\ hung \in BOOLEAN
  BY SnSpace, RxConstants, RxTypes DEF RxInv
<1>3. RxTypeOK'
  BY <1>1, <1>2, RxTypesNext DEF RxReestablish
<1> QED
  BY <1>1, <1>3 DEF RxReestablish, RxInv

LEMMA RxInvNext == RxInv /\ [RxNext]_rxVars => RxInv'
<1> SUFFICES ASSUME RxInv, [RxNext]_rxVars PROVE RxInv'
  OBVIOUS
<1> USE DEF RxInv
<1>1. status_triggered \in BOOLEAN /\ t_status_prohibit \in BOOLEAN /\ Len(out) <= 1
  BY RxTypes
<1> HIDE DEF RxInv
<1>2. Len(<<>>) <= 1
  OBVIOUS
<1>3. ASSUME ~hung, NEW pdu \in DataPdus, RecvPdu(pdu) PROVE RxInv'
  <2>1. CASE Discard(pdu)
    <3>1. pdu.p \in BOOLEAN
      BY DEF DataPdus
    <3>2. status_triggered' \in BOOLEAN /\ t_status_prohibit' \in BOOLEAN
      BY <1>1, <2>1, <3>1, Zenon DEF Discard
    <3> QED
      BY <1>2, <2>1, <3>2, InvSameWindow DEF Discard
  <2>2. CASE RecvSegment(pdu)
    BY <1>3, <2>2, InvSegment
  <2>3. CASE RecvSdu(pdu)
    BY <1>3, <2>3, InvSdu
  <2>4. CASE RecvSduForever(pdu)
    BY <1>3, <2>4, InvSduForever
  <2> QED
    BY <1>3, <2>1, <2>2, <2>3, <2>4, Zenon DEF RecvPdu
<1>4. ASSUME ~hung, ReassemblyExpired PROVE RxInv'
  BY <1>4, InvReassemblyExpired
<1>5. ASSUME ProhibitExpired PROVE RxInv'
  BY <1>1, <1>2, <1>5, InvSameWindow DEF ProhibitExpired
<1>6. ASSUME GenerateStatus PROVE RxInv'
  BY <1>1, <1>2, <1>6, InvSameWindow DEF GenerateStatus
<1>7. ASSUME RxReestablish PROVE RxInv'
  BY <1>7, InvReestablish
<1>8. ASSUME UNCHANGED rxVars PROVE RxInv'
  BY <1>1, <1>8, InvSameWindow DEF rxVars
<1> QED
  BY <1>3, <1>4, <1>5, <1>6, <1>7, <1>8, Zenon DEF RxNext

(***************************************************************************)
(* nr_rlc_entity_am_recv_pdu, check_t_reassembly, the STATUS trigger and   *)
(* reestablishment keep the receiver consistent, for every window and SDU  *)
(* size: the window variables stay in order, also over the wrap of the SN  *)
(* space; no entry is taken for another SN; every gap is timed; and        *)
(* rx_size counts the bytes stored.                                        *)
(***************************************************************************)
THEOREM RxSafety == RxSpec => []RxConsistent
<1>1. RxInv => RxConsistent
  BY RxInvImplies DEF RxConsistent
<1> QED
  BY <1>1, RxInvInit, RxInvNext, PTL DEF RxSpec

(***************************************************************************)
(* segment_already_received, which cuts what it finds from the head or     *)
(* from the tail of the segment, whatever the overlaps of the list are,    *)
(* makes recv_pdu discard nothing the receiver does not have.              *)
(***************************************************************************)
THEOREM RxNothingNewDiscarded == RxSpec => []NothingNewDiscarded
<1>1. RxInv => NothingNewDiscarded
  <2> SUFFICES ASSUME RxInv,
                      NEW k \in 0 .. Window - 1, NEW so \in 0 .. SduSize - 1, NEW size \in 1 .. SduSize,
                      AlreadyReceived(rx[Pos(rx_next + k)], [so |-> so, size |-> size])
               PROVE  Bytes([so |-> so, size |-> size]) \subseteq ReceivedBytes(rx[Pos(rx_next + k)])
    BY Zenon DEF NothingNewDiscarded
  <2>1. rx_next \in SN /\ rx \in Buffers
    BY RxTypes DEF RxInv
  <2>2. rx_next + k \in Int
    BY <2>1, SnSpace
  <2>3. rx[Pos(rx_next + k)] \in Seq(Segments)
    BY <2>1, <2>2, PosFacts DEF Buffers
  <2> DEFINE seg == [so |-> so, size |-> size]
  <2>4. seg.so \in Int /\ seg.size \in Int
    BY RlcConstants
  <2> HIDE DEF seg
  <2>5. Bytes(seg) \subseteq ReceivedBytes(rx[Pos(rx_next + k)])
    BY <2>3, <2>4, AlreadyReceivedSound DEF seg
  <2> QED
    BY <2>5 DEF seg
<1> QED
  BY <1>1, RxInvInit, RxInvNext, PTL DEF RxSpec

=============================================================================
