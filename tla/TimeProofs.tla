----------------------------- MODULE TimeProofs -----------------------------
(* The ticks of the time manager, for any numbers of clients and samples.    *)
EXTENDS TimeManager, WellFoundedInduction, TLAPS

(* A nonempty set of numbers has a least one.                                *)
LEMMA LeastNat ==
  ASSUME NEW T \in SUBSET Nat, T # {}
  PROVE  \E m \in T : \A k \in T : m <= k
<1> DEFINE R == OpToRel(<, Nat)
<1>1. IsWellFoundedOn(R, Nat)
  BY NatLessThanWellFounded, Zenon
<1>2. \A m, k \in Nat : k < m => <<k, m>> \in R
  BY DEF OpToRel
<1> HIDE DEF R
<1>3. PICK m \in T : \A k \in T : ~(<<k, m>> \in R)
  BY <1>1, WFMin, Zenon
<1>4. ASSUME NEW k \in T PROVE m <= k
  <2>1. ~(<<k, m>> \in R)
    BY <1>3
  <2>2. m \in Nat /\ k \in Nat
    OBVIOUS
  <2>3. ~(k < m)
    BY <1>2, <2>1, <2>2
  <2> QED
    BY <2>2, <2>3
<1> QED
  BY <1>4

(* Induction up to n: a set of numbers that has 0 and, with each number      *)
(* below n, the next one, has all of them.                                   *)
LEMMA UpTo ==
  ASSUME NEW n \in Nat, NEW S, 0 \in S, \A m \in 0 .. n - 1 : m \in S => m + 1 \in S
  PROVE  \A m \in 0 .. n : m \in S
<1> DEFINE T == {m \in 0 .. n : m \notin S}
<1>1. SUFFICES ASSUME T # {} PROVE FALSE
  BY <1>1
<1>2. T \in SUBSET Nat
  OBVIOUS
<1>3. PICK m \in T : \A k \in T : m <= k
  BY <1>1, <1>2, LeastNat, Zenon
<1>4. m \in Nat /\ m # 0 /\ m <= n /\ m \notin S
  OBVIOUS
<1>5. m - 1 \in 0 .. n - 1 /\ m - 1 \in 0 .. n /\ ~(m <= m - 1)
  BY <1>4
<1>6. m - 1 \in S
  BY <1>3, <1>5
<1>7. (m - 1) + 1 \in S
  BY <1>5, <1>6
<1> QED
  BY <1>4, <1>7

(* The recursive function of the sums exists.                                *)
LEMMA SumsExist ==
  ASSUME NEW s \in Seq(Nat)
  PROVE  \E f \in [0 .. Len(s) -> Nat] : f = [n \in 0 .. Len(s) |-> IF n = 0 THEN 0 ELSE f[n - 1] + s[n]]
<1> DEFINE Sums(m, f) == f \in [0 .. m -> Nat] /\ f[0] = 0 /\ \A n \in 1 .. m : f[n] = f[n - 1] + s[n]
           S == {m \in Nat : \E f : Sums(m, f)}
<1>1. Len(s) \in Nat /\ \A n \in 1 .. Len(s) : s[n] \in Nat
  OBVIOUS
<1>2. 0 \in S
  <2>1. Sums(0, [n \in 0 .. 0 |-> 0])
    OBVIOUS
  <2> QED
    BY <2>1, Zenon
<1>3. ASSUME NEW m \in 0 .. Len(s) - 1, m \in S PROVE m + 1 \in S
  <2>1. PICK f : Sums(m, f)
    BY <1>3, Zenon
  <2>2. m \in Nat /\ m + 1 \in 1 .. Len(s) /\ s[m + 1] \in Nat
    BY <1>1
  <2> DEFINE g == [n \in 0 .. m + 1 |-> IF n = m + 1 THEN f[m] + s[m + 1] ELSE f[n]]
  <2>3. g \in [0 .. m + 1 -> Nat] /\ g[0] = 0
    BY <2>1, <2>2
  <2>4. ASSUME NEW n \in 1 .. m + 1 PROVE g[n] = g[n - 1] + s[n]
    <3>1. CASE n = m + 1
      BY <2>1, <2>2, <3>1
    <3>2. CASE n # m + 1
      <4>1. n \in 1 .. m /\ n - 1 \in 0 .. m /\ n - 1 # m + 1 /\ n \in 0 .. m + 1 /\ n - 1 \in 0 .. m + 1
        BY <2>2, <3>2
      <4>2. g[n] = f[n] /\ g[n - 1] = f[n - 1]
        BY <3>2, <4>1
      <4> QED
        BY <2>1, <4>1, <4>2
    <3> QED
      BY <3>1, <3>2
  <2>5. Sums(m + 1, g)
    BY <2>3, <2>4, Zenon
  <2>6. m + 1 \in Nat
    BY <2>2
  <2> QED
    BY <2>5, <2>6, Zenon
<1> HIDE DEF S
<1>4. \A m \in 0 .. Len(s) : m \in S
  BY <1>1, <1>2, <1>3, UpTo, Zenon
<1>5. PICK f : Sums(Len(s), f)
  <2>1. Len(s) \in S
    BY <1>1, <1>4
  <2> HIDE DEF Sums
  <2> QED
    BY <2>1 DEF S
<1>6. f = [n \in 0 .. Len(s) |-> IF n = 0 THEN 0 ELSE f[n - 1] + s[n]]
  <2>1. f = [n \in 0 .. Len(s) |-> f[n]]
    BY <1>5
  <2>2. \A n \in 0 .. Len(s) : f[n] = IF n = 0 THEN 0 ELSE f[n - 1] + s[n]
    BY <1>1, <1>5
  <2> QED
    BY <2>1, <2>2
<1> QED
  BY <1>5, <1>6, Zenon

(* What SumsOf and Total are: the recursion, and numbers.                    *)
LEMMA SumsFacts ==
  ASSUME NEW s \in Seq(Nat)
  PROVE  /\ SumsOf(s) \in [0 .. Len(s) -> Nat] /\ SumsOf(s)[0] = 0
         /\ \A n \in 1 .. Len(s) : SumsOf(s)[n] = SumsOf(s)[n - 1] + s[n]
         /\ Total(s) \in Nat /\ (s = <<>> => Total(s) = 0)
<1> DEFINE f == SumsOf(s)
<1>1. f = [n \in 0 .. Len(s) |-> IF n = 0 THEN 0 ELSE f[n - 1] + s[n]]
  BY SumsExist, Zenon DEF SumsOf
<1>2. Len(s) \in Nat
  OBVIOUS
<1> HIDE DEF f
<1>3. PICK g \in [0 .. Len(s) -> Nat] : g = [n \in 0 .. Len(s) |-> IF n = 0 THEN 0 ELSE g[n - 1] + s[n]]
  BY SumsExist
<1>4. \A n \in 0 .. Len(s) : f[n] = g[n]
  <2> DEFINE S == {n \in Nat : f[n] = g[n]}
  <2>1. 0 \in S
    BY <1>1, <1>2, <1>3
  <2>2. ASSUME NEW m \in 0 .. Len(s) - 1, m \in S PROVE m + 1 \in S
    <3>1. m + 1 \in 0 .. Len(s) /\ m + 1 # 0 /\ (m + 1) - 1 = m /\ m + 1 \in Nat
      BY <1>2
    <3>2. f[m + 1] = f[m] + s[m + 1]
      BY <1>1, <3>1
    <3>3. g[m + 1] = g[m] + s[m + 1]
      BY <1>3, <3>1
    <3> QED
      BY <2>2, <3>1, <3>2, <3>3
  <2> HIDE DEF S
  <2>3. \A n \in 0 .. Len(s) : n \in S
    BY <1>2, <2>1, <2>2, UpTo, Zenon
  <2> QED
    BY <2>3 DEF S
<1>5. f \in [0 .. Len(s) -> Nat]
  BY <1>1, <1>3, <1>4
<1>6. f[0] = 0 /\ \A n \in 1 .. Len(s) : f[n] = f[n - 1] + s[n]
  <2>1. 0 \in 0 .. Len(s) /\ \A n \in 1 .. Len(s) : n \in 0 .. Len(s) /\ n # 0
    BY <1>2
  <2> QED
    BY <1>1, <2>1, Zenon
<1>7. Total(s) = f[Len(s)]
  BY DEF Total, f
<1>8. Total(s) \in Nat /\ (s = <<>> => Total(s) = 0)
  BY <1>2, <1>5, <1>6, <1>7
<1> QED
  BY <1>5, <1>6, <1>8 DEF f

(* Sequences with the same first k numbers have the same first k sums.       *)
LEMMA TotalPrefix ==
  ASSUME NEW s \in Seq(Nat), NEW t \in Seq(Nat), NEW k \in Nat, k <= Len(s), k <= Len(t),
         \A n \in 1 .. k : s[n] = t[n]
  PROVE  \A n \in 0 .. k : SumsOf(s)[n] = SumsOf(t)[n]
<1> DEFINE S == {n \in Nat : SumsOf(s)[n] = SumsOf(t)[n]}
<1>1. 0 \in S
  BY SumsFacts
<1>2. ASSUME NEW m \in 0 .. k - 1, m \in S PROVE m + 1 \in S
  <2>1. m + 1 \in 1 .. Len(s) /\ m + 1 \in 1 .. Len(t) /\ m + 1 \in 1 .. k /\ m + 1 \in Nat /\ (m + 1) - 1 = m
    OBVIOUS
  <2>2. SumsOf(s)[m + 1] = SumsOf(s)[m] + s[m + 1]
    BY <2>1, SumsFacts
  <2>3. SumsOf(t)[m + 1] = SumsOf(t)[m] + t[m + 1]
    BY <2>1, SumsFacts
  <2> QED
    BY <1>2, <2>1, <2>2, <2>3
<1> HIDE DEF S
<1>3. \A n \in 0 .. k : n \in S
  BY <1>1, <1>2, UpTo, Zenon
<1> QED
  BY <1>3 DEF S

(* f goes on from l, where it is c, as g does from 0, with the terms x.      *)
GoesOn(f, g, x, l, k, c) ==
  /\ l \in Nat /\ k \in Nat /\ g \in [0 .. k -> Nat] /\ c \in Nat /\ f[l] = c /\ g[0] = 0
  /\ \A n \in 1 .. k : f[l + n] = f[(l + n) - 1] + x[n] /\ g[n] = g[n - 1] + x[n] /\ x[n] \in Nat

(* The sums f at l + n are c more than the sums g at n.                      *)
LEMMA SumsShift ==
  ASSUME NEW l, NEW k, NEW f, NEW g, NEW x, NEW c, GoesOn(f, g, x, l, k, c)
  PROVE  \A n \in 0 .. k : f[l + n] = c + g[n]
<1> USE DEF GoesOn
<1> DEFINE S == {n \in Nat : f[l + n] = c + g[n]}
<1>1. 0 \in S
  OBVIOUS
<1>2. ASSUME NEW m \in 0 .. k - 1, m \in S PROVE m + 1 \in S
  <2>1. m \in 0 .. k /\ m + 1 \in 1 .. k /\ m + 1 \in Nat /\ (m + 1) - 1 = m /\ (l + (m + 1)) - 1 = l + m
    OBVIOUS
  <2>2. f[l + (m + 1)] = f[l + m] + x[m + 1] /\ g[m + 1] = g[m] + x[m + 1] /\ x[m + 1] \in Nat /\ g[m] \in Nat
    BY <2>1
  <2>3. f[l + m] = c + g[m] /\ c \in Nat
    BY <1>2
  <2>4. f[l + (m + 1)] = c + g[m + 1]
    BY <2>2, <2>3, SMTT(30)
  <2> QED
    BY <2>1, <2>4
<1> HIDE DEF S
<1>3. \A n \in 0 .. k : n \in S
  BY <1>1, <1>2, UpTo, Zenon
<1> QED
  BY <1>3 DEF S

(* The elements of two sequences in one.                                     *)
LEMMA ConcatFacts ==
  ASSUME NEW T, NEW s \in Seq(T), NEW t \in Seq(T)
  PROVE  /\ s \o t \in Seq(T) /\ Len(s) \in Nat /\ Len(t) \in Nat /\ Len(s \o t) = Len(s) + Len(t)
         /\ \A n \in 1 .. Len(s) : (s \o t)[n] = s[n]
         /\ \A n \in 1 .. Len(t) : (s \o t)[Len(s) + n] = t[n] /\ t[n] \in T
OBVIOUS

(* The sum of two sequences in one is that of their sums.                    *)
LEMMA TotalConcat ==
  ASSUME NEW s \in Seq(Nat), NEW t \in Seq(Nat)
  PROVE  s \o t \in Seq(Nat) /\ Total(s \o t) = Total(s) + Total(t)
<1> DEFINE u == s \o t
           l == Len(s)
           k == Len(t)
           f == SumsOf(u)
           g == SumsOf(t)
<1>1. /\ u \in Seq(Nat) /\ l \in Nat /\ k \in Nat /\ Len(u) = l + k
      /\ \A n \in 1 .. l : u[n] = s[n]
      /\ \A n \in 1 .. k : u[l + n] = t[n] /\ t[n] \in Nat
  BY ConcatFacts
<1> HIDE DEF u
<1>2. f[l] = Total(s)
  <2>1. l <= Len(u) /\ l <= Len(s) /\ l \in 0 .. l
    BY <1>1
  <2>2. \A n \in 0 .. l : SumsOf(u)[n] = SumsOf(s)[n]
    BY <1>1, <2>1, TotalPrefix, Zenon
  <2> QED
    BY <2>1, <2>2 DEF Total
<1>3. /\ g \in [0 .. k -> Nat] /\ g[0] = 0 /\ Total(s) \in Nat
      /\ \A n \in 1 .. k : g[n] = g[n - 1] + t[n]
  BY SumsFacts
<1>4. \A n \in 1 .. l + k : f[n] = f[n - 1] + u[n]
  <2>1. \A n \in 1 .. Len(u) : f[n] = f[n - 1] + u[n]
    BY <1>1, SumsFacts, Zenon
  <2>2. Len(u) = l + k
    BY <1>1
  <2> HIDE DEF l, k, f
  <2> QED
    BY <2>1, <2>2
<1> HIDE DEF l, k, f, g
<1>5. \A n \in 1 .. k : f[l + n] = f[(l + n) - 1] + t[n]
  <2>1. \A n \in 1 .. k : l + n \in 1 .. l + k
    BY <1>1
  <2> QED
    BY <1>1, <1>4, <2>1, Zenon
<1>6. \A n \in 0 .. k : f[l + n] = Total(s) + g[n]
  <2>1. \A n \in 1 .. k : f[l + n] = f[(l + n) - 1] + t[n] /\ g[n] = g[n - 1] + t[n] /\ t[n] \in Nat
    BY <1>1, <1>3, <1>5, Zenon
  <2>2. l \in Nat /\ k \in Nat /\ g \in [0 .. k -> Nat] /\ Total(s) \in Nat /\ g[0] = 0
    BY <1>1, <1>3
  <2>3. GoesOn(f, g, t, l, k, Total(s))
    BY <1>2, <2>1, <2>2, Zenon DEF GoesOn
  <2> QED
    BY <2>3, SumsShift
<1>7. f[l + k] = Total(s) + g[k]
  BY <1>1, <1>6
<1> QED
  BY <1>1, <1>7 DEF Total, u, l, k, f, g

(* The sum of one number.                                                    *)
LEMMA TotalOne ==
  ASSUME NEW x \in Nat
  PROVE  Total(<<x>>) = x
<1>1. <<x>> \in Seq(Nat) /\ Len(<<x>>) = 1 /\ <<x>>[1] = x
  OBVIOUS
<1> DEFINE s == <<x>>
<1> HIDE DEF s
<1>2. s \in Seq(Nat) /\ Len(s) = 1 /\ s[1] = x
  BY <1>1 DEF s
<1>3. SumsOf(s)[0] = 0 /\ \A n \in 1 .. 1 : SumsOf(s)[n] = SumsOf(s)[n - 1] + s[n]
  BY <1>2, SumsFacts
<1>4. SumsOf(s)[1] = 0 + x
  BY <1>2, <1>3
<1> QED
  BY <1>2, <1>4 DEF Total, s

(* The sum without the first number.                                         *)
LEMMA TotalTail ==
  ASSUME NEW s \in Seq(Nat), s # <<>>
  PROVE  Head(s) \in Nat /\ Tail(s) \in Seq(Nat) /\ Total(s) = Head(s) + Total(Tail(s))
<1>1. Head(s) \in Nat /\ Tail(s) \in Seq(Nat) /\ <<Head(s)>> \in Seq(Nat) /\ s = <<Head(s)>> \o Tail(s)
  OBVIOUS
<1> QED
  <2>1. Total(<<Head(s)>> \o Tail(s)) = Total(<<Head(s)>>) + Total(Tail(s))
    BY <1>1, TotalConcat, Zenon
  <2>2. Total(<<Head(s)>>) = Head(s)
    BY <1>1, TotalOne
  <2>3. Total(s) = Total(<<Head(s)>> \o Tail(s))
    BY <1>1, Zenon
  <2> QED
    BY <1>1, <2>1, <2>2, <2>3, Zenon

(* The elements with one more.                                               *)
LEMMA AppendFacts ==
  ASSUME NEW T, NEW s \in Seq(T), NEW x \in T
  PROVE  /\ Append(s, x) \in Seq(T) /\ Len(s) \in Nat /\ Len(Append(s, x)) = Len(s) + 1
         /\ \A n \in 1 .. Len(s) : Append(s, x)[n] = s[n]
         /\ Append(s, x)[Len(s) + 1] = x
OBVIOUS

(* f gives what is kept of the first n elements of s.                        *)
IsKept(f, s, S) ==
  f = [n \in 0 .. Len(s) |-> IF n = 0 THEN <<>>
                             ELSE IF s[n] \in S THEN Append(f[n - 1], s[n]) ELSE f[n - 1]]

(* The recursive function of what is kept exists.                            *)
LEMMA KeptExist ==
  ASSUME NEW T, NEW s \in Seq(T), NEW S
  PROVE  \E f \in [0 .. Len(s) -> Seq(T)] : IsKept(f, s, S)
<1> DEFINE Next(n, t) == IF s[n] \in S THEN Append(t, s[n]) ELSE t
           Good(m, f) == f \in [0 .. m -> Seq(T)] /\ f[0] = <<>> /\ \A n \in 1 .. m : f[n] = Next(n, f[n - 1])
           G == {m \in Nat : \E f : Good(m, f)}
<1>1. Len(s) \in Nat /\ \A n \in 1 .. Len(s) : s[n] \in T
  OBVIOUS
<1>2. \A n \in 1 .. Len(s), t \in Seq(T) : Next(n, t) \in Seq(T)
  BY <1>1, AppendFacts
<1> HIDE DEF Next
<1>3. 0 \in G
  <2>1. Good(0, [n \in 0 .. 0 |-> <<>>])
    OBVIOUS
  <2> QED
    BY <2>1, Zenon
<1>4. ASSUME NEW m \in 0 .. Len(s) - 1, m \in G PROVE m + 1 \in G
  <2>1. PICK f : Good(m, f)
    BY <1>4, Zenon
  <2>2. m \in Nat /\ m + 1 \in Nat /\ m + 1 \in 1 .. Len(s) /\ (m + 1) - 1 = m /\ m # m + 1 /\ m \in 0 .. m + 1
    BY <1>1
  <2> DEFINE g == [n \in 0 .. m + 1 |-> IF n = m + 1 THEN Next(m + 1, f[m]) ELSE f[n]]
  <2>3. Next(m + 1, f[m]) \in Seq(T)
    BY <1>2, <2>1, <2>2
  <2>4. \A n \in 0 .. m + 1 : n # m + 1 => n \in 0 .. m
    BY <2>2
  <2>5. g \in [0 .. m + 1 -> Seq(T)] /\ g[0] = <<>>
    BY <2>1, <2>2, <2>3, <2>4
  <2>6. ASSUME NEW n \in 1 .. m + 1 PROVE g[n] = Next(n, g[n - 1])
    <3>1. CASE n = m + 1
      BY <2>1, <2>2, <3>1
    <3>2. CASE n # m + 1
      <4>1. n \in 1 .. m /\ n - 1 \in 0 .. m /\ n - 1 # m + 1 /\ n \in 0 .. m + 1 /\ n - 1 \in 0 .. m + 1
        BY <2>2, <3>2
      <4>2. g[n] = f[n] /\ g[n - 1] = f[n - 1]
        BY <3>2, <4>1
      <4> QED
        BY <2>1, <4>1, <4>2
    <3> QED
      BY <3>1, <3>2
  <2>7. Good(m + 1, g)
    BY <2>5, <2>6, Zenon
  <2> QED
    BY <2>2, <2>7, Zenon
<1> HIDE DEF G
<1>5. \A m \in 0 .. Len(s) : m \in G
  BY <1>1, <1>3, <1>4, UpTo, Zenon
<1>6. Len(s) \in G
  BY <1>1, <1>5
<1>7. PICK f : Good(Len(s), f)
  <2> HIDE DEF Good
  <2> QED
    BY <1>6 DEF G
<1>8. f = [n \in 0 .. Len(s) |-> f[n]]
  BY <1>7
<1>9. \A n \in 0 .. Len(s) : f[n] = IF n = 0 THEN <<>> ELSE Next(n, f[n - 1])
  BY <1>1, <1>7
<1>10. f = [n \in 0 .. Len(s) |-> IF n = 0 THEN <<>> ELSE Next(n, f[n - 1])]
  BY <1>8, <1>9
<1> QED
  BY <1>7, <1>10, Zenon DEF Next, IsKept

(* What KeptOf is: the recursion, and sequences over the same set.           *)
LEMMA KeptFacts ==
  ASSUME NEW T, NEW s \in Seq(T), NEW S
  PROVE  /\ KeptOf(s, S) \in [0 .. Len(s) -> Seq(T)] /\ KeptOf(s, S)[0] = <<>>
         /\ \A n \in 1 .. Len(s) : KeptOf(s, S)[n] =
               IF s[n] \in S THEN Append(KeptOf(s, S)[n - 1], s[n]) ELSE KeptOf(s, S)[n - 1]
<1> DEFINE f == KeptOf(s, S)
           Next(n, t) == IF s[n] \in S THEN Append(t, s[n]) ELSE t
<1>2. PICK g \in [0 .. Len(s) -> Seq(T)] : IsKept(g, s, S)
  BY KeptExist, Zenon
<1>1. IsKept(f, s, S)
  BY <1>2, Zenon DEF KeptOf, IsKept
<1> HIDE DEF f
<1>3. Len(s) \in Nat
  OBVIOUS
<1>4. f = [n \in 0 .. Len(s) |-> IF n = 0 THEN <<>> ELSE Next(n, f[n - 1])]
  BY <1>1, Zenon DEF IsKept
<1>5. g = [n \in 0 .. Len(s) |-> IF n = 0 THEN <<>> ELSE Next(n, g[n - 1])]
  BY <1>2, Zenon DEF IsKept
<1> HIDE DEF Next
<1>6. \A n \in 0 .. Len(s) : f[n] = g[n]
  <2> DEFINE G == {n \in Nat : f[n] = g[n]}
  <2>1. 0 \in G
    BY <1>3, <1>4, <1>5
  <2>2. ASSUME NEW m \in 0 .. Len(s) - 1, m \in G PROVE m + 1 \in G
    <3>1. m + 1 \in 0 .. Len(s) /\ m + 1 # 0 /\ (m + 1) - 1 = m /\ m + 1 \in Nat
      BY <1>3
    <3>2. f[m + 1] = Next(m + 1, f[m])
      BY <1>4, <3>1
    <3>3. g[m + 1] = Next(m + 1, g[m])
      BY <1>5, <3>1
    <3> QED
      BY <2>2, <3>1, <3>2, <3>3
  <2> HIDE DEF G
  <2>3. \A n \in 0 .. Len(s) : n \in G
    BY <1>3, <2>1, <2>2, UpTo, Zenon
  <2> QED
    BY <2>3 DEF G
<1>7. f \in [0 .. Len(s) -> Seq(T)]
  <2>1. f = [n \in 0 .. Len(s) |-> g[n]]
    BY <1>4, <1>6
  <2> QED
    BY <2>1
<1>8. f[0] = <<>> /\ \A n \in 1 .. Len(s) : f[n] = Next(n, f[n - 1])
  BY <1>3, <1>4
<1> QED
  BY <1>7, <1>8 DEF f, Next
Elems(s) == {s[n] : n \in 1 .. Len(s)}

(* The elements as a set, with one more.                                     *)
LEMMA ElemsAppend ==
  ASSUME NEW T, NEW s \in Seq(T), NEW x \in T
  PROVE  Elems(Append(s, x)) = Elems(s) \cup {x}
<1> DEFINE t == Append(s, x)
<1>1. /\ Len(s) \in Nat /\ Len(t) = Len(s) + 1 /\ t[Len(s) + 1] = x
      /\ \A n \in 1 .. Len(s) : t[n] = s[n]
  BY AppendFacts
<1> HIDE DEF t
<1>2. \A n \in 1 .. Len(t) : n \in 1 .. Len(s) \/ n = Len(s) + 1
  BY <1>1
<1>3. \A n \in 1 .. Len(s) : n \in 1 .. Len(t)
  BY <1>1
<1>4. Len(s) + 1 \in 1 .. Len(t)
  BY <1>1
<1>5. ASSUME NEW y \in Elems(t) PROVE y \in Elems(s) \cup {x}
  BY <1>1, <1>2, <1>5 DEF Elems
<1>6. ASSUME NEW y \in Elems(s) \cup {x} PROVE y \in Elems(t)
  BY <1>1, <1>3, <1>4, <1>6 DEF Elems
<1>7. Elems(t) = Elems(s) \cup {x}
  BY <1>5, <1>6
<1> QED
  BY <1>7 DEF t

(* Keep leaves the elements that are in S, each as often as it was.          *)
LEMMA KeepFacts ==
  ASSUME NEW T, NEW s \in Seq(T), NEW S
  PROVE  Keep(s, S) \in Seq(T) /\ Elems(Keep(s, S)) = Elems(s) \cap S /\ Len(Keep(s, S)) <= Len(s)
<1> DEFINE f == KeptOf(s, S)
           First(n) == {s[m] : m \in 1 .. n}
           G == {n \in Nat : Elems(f[n]) = First(n) \cap S /\ Len(f[n]) <= n}
<1>1. /\ f \in [0 .. Len(s) -> Seq(T)] /\ f[0] = <<>>
      /\ \A n \in 1 .. Len(s) : f[n] = IF s[n] \in S THEN Append(f[n - 1], s[n]) ELSE f[n - 1]
  BY KeptFacts
<1>2. Len(s) \in Nat /\ \A n \in 1 .. Len(s) : s[n] \in T
  OBVIOUS
<1> HIDE DEF f
<1>3. 0 \in G
  BY <1>1 DEF Elems
<1>4. ASSUME NEW m \in 0 .. Len(s) - 1, m \in G PROVE m + 1 \in G
  <2>1. m \in Nat /\ m \in 0 .. Len(s) /\ m + 1 \in Nat /\ m + 1 \in 1 .. Len(s) /\ (m + 1) - 1 = m
    BY <1>2
  <2>2. f[m] \in Seq(T) /\ Len(f[m]) <= m /\ Elems(f[m]) = First(m) \cap S /\ s[m + 1] \in T
    BY <1>1, <1>2, <1>4, <2>1
  <2>3. First(m + 1) = First(m) \cup {s[m + 1]}
    <3>1. \A n : n \in 1 .. m + 1 <=> n \in 1 .. m \/ n = m + 1
      BY <2>1
    <3> QED
      BY <3>1
  <2>4. f[m + 1] = IF s[m + 1] \in S THEN Append(f[m], s[m + 1]) ELSE f[m]
    BY <1>1, <2>1
  <2> HIDE DEF First
  <2>5. CASE s[m + 1] \in S
    <3>1. Elems(f[m + 1]) = Elems(f[m]) \cup {s[m + 1]}
      BY <2>2, <2>4, <2>5, ElemsAppend
    <3>2. Len(f[m + 1]) = Len(f[m]) + 1 /\ Len(f[m]) \in Nat
      BY <2>2, <2>4, <2>5, AppendFacts
    <3> QED
      BY <2>1, <2>2, <2>3, <2>5, <3>1, <3>2
  <2>6. CASE s[m + 1] \notin S
    <3>1. Len(f[m]) \in Nat
      BY <2>2
    <3> QED
      BY <2>1, <2>2, <2>3, <2>4, <2>6, <3>1
  <2> QED
    BY <2>5, <2>6
<1> HIDE DEF G
<1>5. Len(s) \in G
  <2>1. \A m \in 0 .. Len(s) : m \in G
    BY <1>2, <1>3, <1>4, UpTo, Zenon
  <2> QED
    BY <1>2, <2>1
<1>6. Elems(f[Len(s)]) = First(Len(s)) \cap S /\ Len(f[Len(s)]) <= Len(s) /\ f[Len(s)] \in Seq(T)
  BY <1>1, <1>2, <1>5 DEF G
<1> QED
  BY <1>6 DEF Keep, f, Elems

(* What setting one entry of a function does.                                *)
LEMMA ExceptFacts ==
  ASSUME NEW S, NEW T, NEW f \in [S -> T], NEW x \in S, NEW v \in T, NEW g, g = [f EXCEPT ![x] = v]
  PROVE  g \in [S -> T] /\ g[x] = v /\ \A y \in S \ {x} : g[y] = f[y]
OBVIOUS

(* What taking the head out does.                                            *)
LEMMA TailFacts ==
  ASSUME NEW S, NEW s \in Seq(S), s # <<>>
  PROVE  /\ Head(s) = s[1] /\ Head(s) \in S /\ Tail(s) \in Seq(S)
         /\ Len(s) \in Nat \ {0} /\ Len(Tail(s)) = Len(s) - 1
         /\ \A m \in 1 .. Len(Tail(s)) : m + 1 \in 1 .. Len(s) /\ Tail(s)[m] = s[m + 1]
OBVIOUS

-----------------------------------------------------------------------------
(* Types of the time manager and of its server.                              *)
TimeTypeOK ==
  /\ mexit \in BOOLEAN /\ mcount \in Int /\ added \in Nat /\ ticks \in Nat /\ tick_fd \in Nat
  /\ socket_fds \in Seq(TimeClients) /\ backlog \in Seq(TimeClients)
  /\ link \in [TimeClients -> {"none", "up", "hung up", "closed", "reset"}]
  /\ sent \in [TimeClients -> Seq(Nat)] /\ behind \in [TimeClients -> Int]

(* The samples received are those of the ticks, those being turned into one  *)
(* and those left.                                                           *)
SamplesCounted ==
  /\ mpc # "run" => mexit
  /\ ~mexit => (ticks + tick_fd + (IF tpc \in {"took", "call"} THEN 1 ELSE 0)) * SamplesPerMs + mcount = added

(* A client is in one list of the server, once, or in none; it has its ticks *)
(* or they are on the way.                                                   *)
ClientsCounted ==
  /\ \A c \in Elems(socket_fds) : c \notin Elems(backlog)
  /\ \A m, n \in 1 .. Len(backlog) : backlog[m] = backlog[n] => m = n
  /\ \A c \in TimeClients : link[c] \in {"none", "hung up"} => c \notin Elems(socket_fds) /\ c \notin Elems(backlog)
  /\ \A c \in Elems(backlog) : link[c] = "up" => sent[c] = <<>>
  /\ \A c \in Elems(socket_fds) : link[c] = "up" => behind[c] = Total(sent[c])
  /\ spc \in {"woken", "ticked"} /\ revents.accept => backlog # <<>>

TimeInv == TimeTypeOK /\ SamplesCounted /\ ClientsCounted

(* The elements of a list, as the model has them.                            *)
LEMMA RangeElems ==
  ASSUME NEW T, NEW s \in Seq(T)
  PROVE  Range(s) = Elems(s) /\ Elems(s) \subseteq T
BY DEF Range, Elems

(* The invariant is strong enough.                                           *)
LEMMA TimeInvSafe == TimeInv => TicksExact
<1> SUFFICES ASSUME TimeInv PROVE TicksExact
  OBVIOUS
<1>1. Range(socket_fds) = Elems(socket_fds)
  BY RangeElems DEF TimeInv, TimeTypeOK
<1> QED
  BY <1>1 DEF TimeInv, SamplesCounted, ClientsCounted, TicksExact, TicksOf

(* It holds when the threads are started.                                    *)
LEMMA TimeInvInit == TimeInit => TimeInv
<1> SUFFICES ASSUME TimeInit PROVE TimeInv
  OBVIOUS
<1>1. TimeTypeOK
  <2>1. mexit \in BOOLEAN
    BY Zenon DEF TimeInit
  <2>2. mcount \in Int /\ added \in Nat /\ ticks \in Nat /\ tick_fd \in Nat
    BY DEF TimeInit
  <2>3. socket_fds \in Seq(TimeClients) /\ backlog \in Seq(TimeClients)
    BY DEF TimeInit
  <2>4. link \in [TimeClients -> {"none", "up", "hung up", "closed", "reset"}]
        /\ sent \in [TimeClients -> Seq(Nat)] /\ behind \in [TimeClients -> Int]
    BY DEF TimeInit
  <2> QED
    BY <2>1, <2>2, <2>3, <2>4 DEF TimeTypeOK
<1>2. SamplesCounted
  BY TimeAssumption DEF TimeInit, SamplesCounted
<1>3. ClientsCounted
  <2>1. Elems(socket_fds) = {} /\ Elems(backlog) = {} /\ Len(backlog) = 0 /\ spc \in {"poll", "ended"}
    BY DEF TimeInit, Elems
  <2> QED
    BY <2>1 DEF ClientsCounted
<1> QED
  BY <1>1, <1>2, <1>3 DEF TimeInv

(* Division with remainder, in the form used below.                          *)
LEMMA DivMod ==
  ASSUME NEW n \in Nat, NEW b \in Nat \ {0}
  PROVE  n \div b \in Nat /\ n % b \in 0 .. b - 1 /\ n = b * (n \div b) + (n % b)
OBVIOUS

(* The ticks that the server sends in blocks are as many as it was given.    *)
LEMMA BlocksTotal ==
  ASSUME NEW n \in Nat
  PROVE  Blocks(n) \in Seq(Nat) /\ Total(Blocks(n)) = n
<1> DEFINE B == Block
           q == n \div B
           r == n % B
           K == (n + B - 1) \div B
           s == Blocks(n)
           f == SumsOf(s)
<1>1. B \in Nat \ {0}
  BY TimeAssumption
<1>2. q \in Nat /\ r \in 0 .. B - 1 /\ n = B * q + r
  BY <1>1, DivMod, Zenon
<1>3. K \in Nat /\ K = IF r = 0 THEN q ELSE q + 1
  <2>1. n + B - 1 \in Nat
    BY <1>1
  <2> DEFINE x == (n + B - 1) % B
  <2>2. K \in Nat /\ x \in 0 .. B - 1 /\ n + B - 1 = B * K + x
    BY <1>1, <2>1, DivMod, Zenon
  <2> HIDE DEF K, q, r, B, x
  <2>3. B * q + r + B - 1 = B * K + x
    BY <1>1, <1>2, <2>2
  <2>4. B * (q + 1) = B * q + B /\ B * (q + 2) = B * q + B + B
    BY <1>1, <1>2
  <2>5. CASE r = 0
    <3>1. B * K <= B * q + B - 1 /\ B * q <= B * K
      BY <1>1, <1>2, <2>2, <2>3, <2>5
    <3>2. ~(K >= q + 1)
      <4>1. K >= q + 1 => B * K >= B * (q + 1)
        BY <1>1, <1>2, <2>2
      <4> QED
        BY <1>1, <1>2, <2>2, <2>4, <3>1, <4>1
    <3>3. ~(K + 1 <= q)
      <4>1. K + 1 <= q => B * (K + 1) <= B * q
        BY <1>1, <1>2, <2>2
      <4>2. B * (K + 1) = B * K + B
        BY <1>1, <2>2
      <4> QED
        BY <1>1, <1>2, <2>2, <3>1, <4>1, <4>2
    <3> QED
      BY <1>2, <2>2, <2>5, <3>2, <3>3
  <2>6. CASE r # 0
    <3>1. B * K <= B * q + B + B - 2 /\ B * q + B - (B - 1) <= B * K
      BY <1>1, <1>2, <2>2, <2>3, <2>6
    <3>2. ~(K >= q + 2)
      <4>1. K >= q + 2 => B * K >= B * (q + 2)
        BY <1>1, <1>2, <2>2
      <4> QED
        BY <1>1, <1>2, <2>2, <2>4, <3>1, <4>1
    <3>3. ~(K <= q)
      <4>1. K <= q => B * K <= B * q
        BY <1>1, <1>2, <2>2
      <4> QED
        BY <1>1, <1>2, <2>2, <3>1, <4>1
    <3> QED
      BY <1>2, <2>2, <2>6, <3>2, <3>3
  <2> QED
    BY <2>2, <2>5, <2>6
<1>4. s = [k \in 1 .. K |-> IF k * B <= n THEN B ELSE r]
  BY DEF Blocks
<1> HIDE DEF K, q, r, B, s, f
<1>5. s \in Seq(Nat) /\ Len(s) = K
  <2>1. s \in [1 .. K -> Nat]
    BY <1>1, <1>2, <1>3, <1>4
  <2> QED
    BY <1>3, <2>1
<1>6. f[0] = 0 /\ (\A m \in 1 .. K : f[m] = f[m - 1] + s[m]) /\ Total(s) = f[K]
  BY <1>5, SumsFacts, SMTT(30) DEF f, Total
<1>7. \A k \in 1 .. K : s[k] = IF k <= q THEN B ELSE r
  <2>1. ASSUME NEW k \in 1 .. K PROVE k * B <= n <=> k <= q
    <3>1. k \in Nat
      BY <1>3
    <3>2. k <= q => k * B <= q * B
      BY <1>1, <1>2, <3>1
    <3>3. k >= q + 1 => k * B >= (q + 1) * B
      BY <1>1, <1>2, <3>1
    <3>4. (q + 1) * B = B * q + B /\ q * B = B * q
      BY <1>1, <1>2
    <3> QED
      BY <1>1, <1>2, <3>1, <3>2, <3>3, <3>4
  <2> QED
    BY <1>4, <2>1
<1>8. f[q] = q * B
  <2> DEFINE G == {m \in Nat : f[m] = m * B}
  <2>1. 0 \in G
    BY <1>1, <1>6
  <2>2. ASSUME NEW m \in 0 .. q - 1, m \in G PROVE m + 1 \in G
    <3>1. m \in Nat /\ m + 1 \in 1 .. K /\ m + 1 <= q /\ (m + 1) - 1 = m /\ m + 1 \in Nat
      BY <1>2, <1>3
    <3>2. f[m + 1] = f[m] + B
      BY <1>6, <1>7, <3>1
    <3>3. (m + 1) * B = m * B + B
      BY <1>1, <3>1
    <3> QED
      BY <2>2, <3>1, <3>2, <3>3
  <2> HIDE DEF G
  <2>3. \A m \in 0 .. q : m \in G
    BY <1>2, <2>1, <2>2, UpTo
  <2>4. q \in G
    BY <1>2, <2>3
  <2> QED
    BY <2>4 DEF G
<1>9. f[K] = n
  <2>1. q * B = B * q
    BY <1>1, <1>2
  <2>2. CASE r = 0
    BY <1>1, <1>2, <1>3, <1>8, <2>1, <2>2
  <2>3. CASE r # 0
    <3>1. K = q + 1 /\ K \in 1 .. K /\ ~(K <= q) /\ K - 1 = q
      BY <1>2, <1>3, <2>3
    <3>2. f[K] = f[q] + r
      BY <1>6, <1>7, <3>1
    <3> QED
      BY <1>2, <1>8, <2>1, <3>2
  <2> QED
    BY <2>2, <2>3
<1> QED
  BY <1>5, <1>6, <1>9 DEF s

(* The state of the server                                                   *)
listVars == <<socket_fds, backlog, link, sent, behind, spc, revents>>

(* What does not touch the server keeps its part of the invariant...         *)
LEMMA ClientsKept == ASSUME ClientsCounted, UNCHANGED listVars PROVE ClientsCounted'
BY DEF ClientsCounted, listVars

(* ... and its types.                                                        *)
LEMMA TypesKept ==
  ASSUME TimeTypeOK, UNCHANGED listVars, mexit' \in BOOLEAN, mcount' \in Int, added' \in Nat,
         ticks' \in Nat, tick_fd' \in Nat
  PROVE  TimeTypeOK'
BY DEF TimeTypeOK, listVars

(* The thread of the time source and the tick thread.                        *)
LEMMA TimeInvSource == ASSUME TimeInv, SourceStep PROVE TimeInv'
<1> USE DEF TimeInv
<1> DEFINE S == SamplesPerMs
<1>0. /\ S \in Nat \ {0} /\ mcount \in Int /\ added \in Nat /\ ticks \in Nat /\ tick_fd \in Nat
      /\ mexit \in BOOLEAN
  BY TimeAssumption DEF TimeTypeOK
<1>1. CASE SourceCalls
  <2>1. /\ UNCHANGED <<mode, mpc, source, mcount, mexit, missed, added, listVars>>
        /\ tpc = "call" /\ tpc' = "test"
        /\ \/ ticks' = ticks + 1 /\ tick_fd' = tick_fd
           \/ ticks' = ticks /\ tick_fd' = tick_fd + 1
    BY <1>1 DEF SourceCalls, listVars
  <2>2. TimeTypeOK'
    <3>1. ticks' \in Nat /\ tick_fd' \in Nat
      BY <1>0, <2>1
    <3>2. mexit' \in BOOLEAN
      BY <1>0, <2>1
    <3> QED
      BY <1>0, <2>1, <3>1, <3>2, TypesKept
  <2>3. ticks' + tick_fd' + 0 = ticks + tick_fd + 1
    BY <1>0, <2>1
  <2>4. SamplesCounted'
    BY <2>1, <2>3 DEF SamplesCounted
  <2> QED
    BY <2>1, <2>2, <2>4, ClientsKept
<1>2. ASSUME UNCHANGED <<mode, mpc, serverVars>>, RealtimeSleeps \/ SourceTests \/ SourceSleeps \/ SourceEnds \/ SourceReadsCallback
      PROVE  TimeInv'
  <2>1. UNCHANGED <<mpc, mexit, ticks, tick_fd, listVars>>
    <3>1. UNCHANGED mexit
      BY <1>2 DEF RealtimeSleeps, SourceTests, SourceSleeps, SourceEnds, SourceReadsCallback
    <3> QED
      BY <1>2, <3>1 DEF serverVars, listVars
  <2> DEFINE N == ticks + tick_fd
  <2>2. N \in Nat
    BY <1>0
  <2>3. ASSUME ~mexit
        PROVE  /\ mcount' \in Int /\ added' \in Nat
               /\ (N + (IF tpc' \in {"took", "call"} THEN 1 ELSE 0)) * S + mcount' = added'
    <3>1. (N + (IF tpc \in {"took", "call"} THEN 1 ELSE 0)) * S + mcount = added
      BY <2>3 DEF SamplesCounted
    <3>2. (N + 1) * S = N * S + S /\ (N + 0) * S = N * S /\ N * S \in Nat
      BY <1>0, <2>2
    <3> HIDE DEF N
    <3>3. CASE RealtimeSleeps
      <4>1. tpc = "test" /\ tpc' = "took" /\ added' = added + S /\ mcount' = mcount
        BY <3>3 DEF RealtimeSleeps
      <4> QED
        BY <1>0, <3>1, <3>2, <4>1
    <3>4. CASE SourceTests
      <4>1. /\ tpc \in {"test", "awake"} /\ added' = added
            /\ \/ tpc' = "will wait" /\ mcount' = mcount
               \/ tpc' = "took" /\ mcount' = mcount - S
        BY <3>4 DEF SourceTests
      <4>2. N * S + mcount = added
        BY <3>1, <3>2, <4>1
      <4>3. CASE tpc' = "will wait" /\ mcount' = mcount
        BY <1>0, <3>2, <4>1, <4>2, <4>3
      <4>4. CASE tpc' = "took" /\ mcount' = mcount - S
        <5>1. mcount' \in Int /\ added' \in Nat /\ (N * S + S) + mcount' = added'
          BY <1>0, <3>2, <4>1, <4>2, <4>4
        <5> QED
          BY <3>2, <4>4, <5>1
      <4> QED
        BY <4>1, <4>3, <4>4
    <3>5. CASE SourceSleeps
      BY <1>0, <3>1, <3>5 DEF SourceSleeps
    <3>6. CASE SourceEnds
      BY <2>3, <3>6 DEF SourceEnds
    <3>7. CASE SourceReadsCallback
      BY <1>0, <3>1, <3>7 DEF SourceReadsCallback
    <3> QED
      BY <1>2, <3>3, <3>4, <3>5, <3>6, <3>7
  <2>4. mcount' \in Int /\ added' \in Nat
    <3>1. CASE RealtimeSleeps
      BY <1>0, <3>1 DEF RealtimeSleeps
    <3>2. CASE SourceTests
      <4>1. added' = added /\ (mcount' = mcount \/ mcount' = mcount - S)
        BY <3>2 DEF SourceTests
      <4> QED
        BY <1>0, <4>1
    <3>3. CASE SourceSleeps \/ SourceEnds \/ SourceReadsCallback
      BY <1>0, <3>3 DEF SourceSleeps, SourceEnds, SourceReadsCallback
    <3> QED
      BY <1>2, <3>1, <3>2, <3>3
  <2>5. TimeTypeOK'
    BY <1>0, <2>1, <2>4 DEF TimeTypeOK, listVars
  <2>6. SamplesCounted'
    BY <2>1, <2>3 DEF SamplesCounted
  <2> QED
    BY <2>1, <2>5, <2>6, ClientsKept
<1> QED
  BY <1>1, <1>2 DEF SourceStep

(* Samples come, and time_manager_finish is called.                          *)
LEMMA TimeInvInputs == ASSUME TimeInv, Samples \/ FinishExits \/ FinishGoesOn PROVE TimeInv'
<1> USE DEF TimeInv
<1>0. /\ SamplesPerMs \in Nat \ {0} /\ mcount \in Int /\ added \in Nat /\ ticks \in Nat /\ tick_fd \in Nat
      /\ mexit \in BOOLEAN
  BY TimeAssumption DEF TimeTypeOK
<1>1. CASE Samples
  <2>1. PICK n \in Chunks : IqAdd(n)
    BY <1>1 DEF Samples
  <2>2. /\ UNCHANGED <<mpc, mexit, ticks, tick_fd, listVars>> /\ added' = added + n /\ mcount' = mcount + n
        /\ tpc' = Signalled
    BY <1>1, <2>1 DEF Samples, IqAdd, serverVars, listVars
  <2>3. n \in Nat
    BY TimeAssumption
  <2>4. tpc' \in {"took", "call"} <=> tpc \in {"took", "call"}
    BY <2>2 DEF Signalled
  <2>5. TimeTypeOK'
    <3>1. added' \in Nat /\ mcount' \in Int
      BY <1>0, <2>2, <2>3
    <3>2. mexit' \in BOOLEAN
      BY <1>0, <2>2
    <3> QED
      BY <1>0, <2>2, <3>1, <3>2, TypesKept
  <2> DEFINE N == (ticks + tick_fd + (IF tpc \in {"took", "call"} THEN 1 ELSE 0)) * SamplesPerMs
  <2>6. N \in Nat /\ N' = N
    BY <1>0, <2>2, <2>4
  <2>7. ~mexit => N + mcount = added
    BY DEF SamplesCounted
  <2> HIDE DEF N
  <2>8. ~mexit => N' + mcount' = added'
    BY <1>0, <2>2, <2>3, <2>6, <2>7
  <2>9. SamplesCounted'
    BY <2>2, <2>8 DEF SamplesCounted, N
  <2> QED
    BY <2>2, <2>5, <2>9, ClientsKept
<1>2. CASE FinishExits
  <2>1. mexit' = TRUE /\ UNCHANGED <<mcount, added, ticks, tick_fd, listVars>>
    BY <1>2 DEF FinishExits, serverVars, listVars
  <2>2. mexit' \in BOOLEAN
    BY <2>1, Zenon
  <2>3. TimeTypeOK'
    BY <1>0, <2>1, <2>2 DEF TimeTypeOK, listVars
  <2>4. SamplesCounted'
    BY <2>1 DEF SamplesCounted
  <2> QED
    BY <2>1, <2>3, <2>4, ClientsKept
<1>3. CASE FinishGoesOn
  <2>1. mpc # "run" /\ mexit /\ UNCHANGED <<mexit, mcount, added, ticks, listVars>>
    <3>1. mpc # "run" /\ UNCHANGED <<mexit, mcount, added, ticks, listVars>>
      BY <1>3 DEF FinishGoesOn, FinishSignals, FinishServer, FinishReturns, sourceVars, serverVars, listVars
    <3> QED
      BY <3>1 DEF SamplesCounted
  <2>2. tick_fd' = tick_fd \/ tick_fd' = tick_fd + 1
    BY <1>3 DEF FinishGoesOn, FinishSignals, FinishServer, FinishReturns, serverVars
  <2>3. TimeTypeOK'
    <3>1. tick_fd' \in Nat
      BY <1>0, <2>2
    <3>2. mexit' \in BOOLEAN
      BY <1>0, <2>1
    <3> QED
      BY <1>0, <2>1, <3>1, <3>2, TypesKept
  <2>4. SamplesCounted'
    BY <2>1 DEF SamplesCounted
  <2> QED
    BY <2>1, <2>3, <2>4, ClientsKept
<1> QED
  BY <1>1, <1>2, <1>3

(* The server thread: accept, tick and hang up.                              *)
LEMMA TimeInvServer == ASSUME TimeInv, ServerStep PROVE TimeInv'
<1> USE DEF TimeInv
<1>0. /\ mcount \in Int /\ added \in Nat /\ ticks \in Nat /\ tick_fd \in Nat /\ mexit \in BOOLEAN
      /\ socket_fds \in Seq(TimeClients) /\ backlog \in Seq(TimeClients)
      /\ link \in [TimeClients -> {"none", "up", "hung up", "closed", "reset"}]
      /\ sent \in [TimeClients -> Seq(Nat)] /\ behind \in [TimeClients -> Int]
  BY DEF TimeTypeOK
<1>1. UNCHANGED <<mpc, mcount, tpc, mexit, added>>
  BY DEF ServerStep, sourceVars
<1>2. Range(socket_fds) = Elems(socket_fds) /\ Elems(socket_fds) \subseteq TimeClients /\ Elems(backlog) \subseteq TimeClients
  BY <1>0, RangeElems
<1>3. ASSUME UNCHANGED <<ticks, tick_fd>> PROVE SamplesCounted'
  BY <1>1, <1>3 DEF SamplesCounted
<1>4. ASSUME NEW cs, cs \subseteq TimeClients
      PROVE  /\ ClosedBy(cs) \in [TimeClients -> {"none", "up", "hung up", "closed", "reset"}]
             /\ \A c \in TimeClients \ cs : ClosedBy(cs)[c] = link[c]
             /\ \A c \in cs : ClosedBy(cs)[c] \in {"none", "hung up"}
  BY <1>0, <1>4 DEF ClosedBy
<1>5. CASE ServerPolls
  <2>1. UNCHANGED <<ticks, tick_fd, socket_fds, backlog, link, sent, behind>>
    BY <1>5 DEF ServerPolls
  <2>2. revents'.accept = (backlog # <<>>)
    BY <1>5 DEF ServerPolls
  <2>3. TimeTypeOK'
    BY <1>1, <2>1 DEF TimeTypeOK
  <2>4. ClientsCounted'
    BY <2>1, <2>2 DEF ClientsCounted
  <2> QED
    BY <1>3, <2>1, <2>3, <2>4
<1>6. CASE ServerEnds
  <2> DEFINE cs == Elems(socket_fds)
  <2>1. /\ UNCHANGED <<ticks, tick_fd, backlog, sent, behind>> /\ spc' = "ended"
        /\ link' = ClosedBy(cs) /\ socket_fds' = <<>>
    BY <1>2, <1>6 DEF ServerEnds
  <2>2. TimeTypeOK'
    <3>1. socket_fds' \in Seq(TimeClients)
      BY <2>1
    <3> QED
      BY <1>1, <1>2, <1>4, <2>1, <3>1 DEF TimeTypeOK
  <2>3. Elems(socket_fds') = {}
    BY <2>1 DEF Elems
  <2>4. ClientsCounted'
    <3>1. \A c \in Elems(backlog) : c \notin cs /\ c \in TimeClients
      BY <1>2 DEF ClientsCounted
    <3>2. \A c \in Elems(backlog) : link'[c] = link[c]
      BY <1>2, <1>4, <2>1, <3>1
    <3> QED
      BY <2>1, <2>3, <3>1, <3>2 DEF ClientsCounted
  <2> QED
    BY <1>3, <2>1, <2>2, <2>4
<1>7. CASE ServerTicks
  <2> DEFINE failed == {c \in Elems(socket_fds) : link[c] = "reset"}
             kept == Keep(socket_fds, TimeClients \ failed)
  <2>1. /\ UNCHANGED <<backlog, revents>> /\ spc = "woken" /\ spc' = "ticked" /\ revents.tick
        /\ ticks' = ticks + tick_fd /\ tick_fd' = 0 /\ socket_fds' = kept /\ link' = ClosedBy(failed)
        /\ sent' = [c \in TimeClients |-> IF c \in Range(kept) THEN sent[c] \o Blocks(tick_fd) ELSE sent[c]]
        /\ behind' = [c \in TimeClients |-> IF c \in Range(kept) THEN behind[c] + tick_fd ELSE behind[c]]
    BY <1>2, <1>7 DEF ServerTicks
  <2>2. kept \in Seq(TimeClients) /\ Elems(kept) = Elems(socket_fds) \ failed /\ Range(kept) = Elems(kept)
    <3>1. kept \in Seq(TimeClients) /\ Elems(kept) = Elems(socket_fds) \cap (TimeClients \ failed)
      BY <1>0, KeepFacts
    <3> QED
      BY <1>2, <3>1, RangeElems
  <2>3. Blocks(tick_fd) \in Seq(Nat) /\ Total(Blocks(tick_fd)) = tick_fd
    BY <1>0, BlocksTotal
  <2>4. failed \subseteq TimeClients
    BY <1>2
  <2> HIDE DEF kept, failed
  <2>5. \A c \in TimeClients : /\ sent'[c] = IF c \in Elems(kept) THEN sent[c] \o Blocks(tick_fd) ELSE sent[c]
                               /\ behind'[c] = IF c \in Elems(kept) THEN behind[c] + tick_fd ELSE behind[c]
    BY <2>1, <2>2
  <2>6. \A c \in TimeClients : sent[c] \o Blocks(tick_fd) \in Seq(Nat)
    BY <1>0, <2>3, ConcatFacts
  <2>7. TimeTypeOK'
    <3>1. sent' \in [TimeClients -> Seq(Nat)]
      BY <1>0, <2>1, <2>6
    <3>2. behind' \in [TimeClients -> Int]
      <4>1. behind' = [c \in TimeClients |-> IF c \in Range(kept) THEN behind[c] + tick_fd ELSE behind[c]]
        BY <2>1
      <4>2. \A c \in TimeClients : (IF c \in Range(kept) THEN behind[c] + tick_fd ELSE behind[c]) \in Int
        <5>1. \A c \in TimeClients : behind[c] \in Int
          BY <1>0
        <5>2. tick_fd \in Int
          <6>1. tick_fd \in Nat
            BY <1>0
          <6> QED
            BY <6>1
        <5>3. \A c \in TimeClients : behind[c] + tick_fd \in Int
          BY <5>1, <5>2
        <5> QED
          BY <5>1, <5>3
      <4> QED
        BY <4>1, <4>2
    <3>3. ticks' \in Nat /\ tick_fd' \in Nat
      <4>1. ticks' = ticks + tick_fd /\ tick_fd' = 0 /\ ticks \in Nat /\ tick_fd \in Nat
        BY <1>0, <2>1
      <4> QED
        BY <4>1
    <3>4. mexit' \in BOOLEAN /\ link' \in [TimeClients -> {"none", "up", "hung up", "closed", "reset"}]
      BY <1>0, <1>1, <1>4, <2>1, <2>4
    <3> QED
      BY <1>0, <1>1, <2>1, <2>2, <3>1, <3>2, <3>3, <3>4 DEF TimeTypeOK
  <2>8. SamplesCounted'
    <3>1. ticks' + tick_fd' = ticks + tick_fd
      <4>1. ticks' = ticks + tick_fd /\ tick_fd' = 0 /\ ticks \in Nat /\ tick_fd \in Nat
        BY <1>0, <2>1
      <4> QED
        BY <4>1, SMTT(30)
    <3> QED
      BY <1>1, <3>1 DEF SamplesCounted
  <2>9. ClientsCounted'
    <3>1. \A c \in Elems(kept) : c \in Elems(socket_fds) /\ c \notin failed /\ c \in TimeClients
      BY <1>2, <2>2
    <3>2. \A c \in Elems(backlog) : c \notin failed /\ c \in TimeClients /\ c \notin Elems(kept)
      BY <1>2, <3>1 DEF ClientsCounted, failed
    <3>3. \A c \in TimeClients \ failed : link'[c] = link[c]
      <4>1. link' = ClosedBy(failed)
        BY <2>1
      <4> QED
        BY <1>4, <2>4, <4>1
    <3>4. \A c \in TimeClients : link'[c] \in {"none", "hung up"} => c \notin Elems(kept) /\ c \notin Elems(backlog)
      <4>1. ASSUME NEW c \in TimeClients, link'[c] \in {"none", "hung up"}
            PROVE  c \notin Elems(kept) /\ c \notin Elems(backlog)
        <5>1. CASE c \in failed
          BY <3>1, <3>2, <5>1
        <5>2. CASE c \notin failed
          BY <3>1, <3>3, <4>1, <5>2 DEF ClientsCounted
        <5> QED
          BY <5>1, <5>2
      <4> QED
        BY <4>1
    <3>5. \A c \in Elems(backlog) : link'[c] = "up" => sent'[c] = <<>>
      BY <2>5, <3>2, <3>3 DEF ClientsCounted
    <3>6. ASSUME NEW c \in Elems(kept), link'[c] = "up" PROVE behind'[c] = Total(sent'[c])
      <4>1. c \in TimeClients /\ behind[c] = Total(sent[c])
        BY <3>1, <3>3, <3>6 DEF ClientsCounted
      <4>2. sent'[c] = sent[c] \o Blocks(tick_fd) /\ behind'[c] = behind[c] + tick_fd
        BY <2>5, <4>1, Zenon
      <4>3. Total(sent[c] \o Blocks(tick_fd)) = Total(sent[c]) + Total(Blocks(tick_fd))
        BY <1>0, <2>3, <4>1, TotalConcat
      <4> QED
        BY <2>3, <4>1, <4>2, <4>3, Zenon
    <3>7. spc' \in {"woken", "ticked"} /\ revents'.accept => backlog' # <<>>
      BY <2>1 DEF ClientsCounted
    <3> QED
      BY <2>1, <3>1, <3>2, <3>4, <3>5, <3>6, <3>7 DEF ClientsCounted
  <2> QED
    BY <2>7, <2>8, <2>9
<1>8. CASE ServerNoTick
  <2>1. UNCHANGED <<ticks, tick_fd, socket_fds, backlog, link, sent, behind, revents>> /\ spc = "woken"
    BY <1>8 DEF ServerNoTick
  <2>2. TimeTypeOK'
    BY <1>1, <2>1 DEF TimeTypeOK
  <2>3. ClientsCounted'
    BY <2>1 DEF ClientsCounted
  <2> QED
    BY <1>3, <2>1, <2>2, <2>3
<1>9. CASE ServerAccepts
  <2> DEFINE c == Head(backlog)
  <2>1. /\ UNCHANGED <<ticks, tick_fd, link, sent>> /\ socket_fds' = Append(socket_fds, c)
        /\ behind' = [behind EXCEPT ![c] = 0] /\ backlog' = Tail(backlog) /\ spc' = "poll"
    BY <1>9 DEF ServerAccepts
  <2>2. backlog # <<>>
    BY <1>9 DEF ServerAccepts, ClientsCounted
  <2>3. /\ c = backlog[1] /\ c \in TimeClients /\ Tail(backlog) \in Seq(TimeClients) /\ Len(backlog) \in Nat \ {0}
        /\ Len(Tail(backlog)) = Len(backlog) - 1
        /\ \A m \in 1 .. Len(Tail(backlog)) : m + 1 \in 1 .. Len(backlog) /\ Tail(backlog)[m] = backlog[m + 1]
    BY <1>0, <2>2, TailFacts
  <2> HIDE DEF c
  <2>4. socket_fds' \in Seq(TimeClients) /\ Elems(socket_fds') = Elems(socket_fds) \cup {c}
    <3>1. socket_fds' = Append(socket_fds, c) /\ socket_fds \in Seq(TimeClients) /\ c \in TimeClients
      BY <1>0, <2>1, <2>3
    <3>2. Append(socket_fds, c) \in Seq(TimeClients)
      BY <3>1, AppendFacts
    <3>3. Elems(Append(socket_fds, c)) = Elems(socket_fds) \cup {c}
      BY <3>1, ElemsAppend
    <3> QED
      BY <3>1, <3>2, <3>3, Zenon
  <2>5. c \in Elems(backlog) /\ c \notin Elems(backlog') /\ Elems(backlog') \subseteq Elems(backlog)
    <3>1. c \in Elems(backlog)
      BY <2>3 DEF Elems
    <3>2. ASSUME NEW d \in Elems(backlog') PROVE d \in Elems(backlog) /\ d # c
      <4>1. PICK m \in 1 .. Len(Tail(backlog)) : d = Tail(backlog)[m]
        BY <2>1, <3>2 DEF Elems
      <4>2. m + 1 \in 1 .. Len(backlog) /\ d = backlog[m + 1] /\ m + 1 # 1 /\ 1 \in 1 .. Len(backlog)
        BY <2>3, <4>1
      <4>3. backlog[m + 1] # backlog[1]
        BY <4>2 DEF ClientsCounted
      <4> QED
        BY <2>3, <4>2, <4>3 DEF Elems
    <3> QED
      BY <3>1, <3>2
  <2>6. TimeTypeOK'
    <3>1. behind' \in [TimeClients -> Int]
      <4>1. behind' = [behind EXCEPT ![c] = 0] /\ behind \in [TimeClients -> Int]
        BY <1>0, <2>1
      <4> QED
        BY <2>3, <4>1, ExceptFacts
    <3> QED
      BY <1>0, <1>1, <2>1, <2>3, <2>4, <3>1 DEF TimeTypeOK
  <2>7. ClientsCounted'
    <3>1. \A m, n \in 1 .. Len(backlog') : backlog'[m] = backlog'[n] => m = n
      <4>1. ASSUME NEW m \in 1 .. Len(Tail(backlog)), NEW n \in 1 .. Len(Tail(backlog)), Tail(backlog)[m] = Tail(backlog)[n]
            PROVE  m = n
        <5>1. backlog[m + 1] = backlog[n + 1] /\ m + 1 \in 1 .. Len(backlog) /\ n + 1 \in 1 .. Len(backlog)
          BY <2>3, <4>1, SMTT(30)
        <5>2. m + 1 = n + 1
          BY <5>1 DEF ClientsCounted
        <5>3. m \in Int /\ n \in Int
          OBVIOUS
        <5> QED
          BY <5>2, <5>3
      <4> QED
        BY <2>1, <4>1
    <3>2. \A d \in TimeClients : behind'[d] = IF d = c THEN 0 ELSE behind[d]
      BY <1>0, <2>1, <2>3
    <3>3. link[c] = "up" => sent[c] = <<>> /\ Total(sent[c]) = 0
      <4>1. link[c] = "up" => sent[c] = <<>>
        BY <2>5 DEF ClientsCounted
      <4>2. sent[c] \in Seq(Nat)
        BY <1>0, <2>3
      <4> QED
        BY <4>1, <4>2, SumsFacts
    <3>4. ASSUME NEW d \in Elems(socket_fds'), link'[d] = "up" PROVE behind'[d] = Total(sent'[d])
      <4>1. link[d] = "up" /\ sent'[d] = sent[d] /\ d \in TimeClients /\ (d = c \/ d \in Elems(socket_fds))
        BY <1>2, <2>1, <2>3, <2>4, <3>4
      <4>2. CASE d = c
        BY <3>2, <3>3, <4>1, <4>2
      <4>3. CASE d # c
        <5>1. behind[d] = Total(sent[d])
          BY <4>1, <4>3 DEF ClientsCounted
        <5> QED
          BY <3>2, <4>1, <4>3, <5>1
      <4> QED
        BY <4>2, <4>3
    <3>5. \A d \in Elems(socket_fds') : d \notin Elems(backlog')
      BY <2>4, <2>5 DEF ClientsCounted
    <3>6. \A d \in TimeClients : link'[d] \in {"none", "hung up"} => d \notin Elems(socket_fds') /\ d \notin Elems(backlog')
      BY <2>1, <2>4, <2>5 DEF ClientsCounted
    <3>7. \A d \in Elems(backlog') : link'[d] = "up" => sent'[d] = <<>>
      BY <2>1, <2>5 DEF ClientsCounted
    <3> QED
      BY <2>1, <3>1, <3>4, <3>5, <3>6, <3>7 DEF ClientsCounted
  <2> QED
    BY <1>3, <2>1, <2>6, <2>7
<1>10. CASE ServerRemoves
  <2>1. PICK gone \in SUBSET Elems(socket_fds) :
           socket_fds' = Keep(socket_fds, TimeClients \ gone) /\ link' = ClosedBy(gone)
    <3> DEFINE gone == {socket_fds[k] : k \in {k \in DOMAIN socket_fds : revents.of[k]}}
    <3>1. socket_fds' = Keep(socket_fds, TimeClients \ gone) /\ link' = ClosedBy(gone)
      BY <1>10 DEF ServerRemoves
    <3>2. gone \subseteq Range(socket_fds)
      BY DEF Range
    <3> QED
      BY <1>2, <3>1, <3>2, SMTT(30)
  <2>2. UNCHANGED <<ticks, tick_fd, backlog, sent, behind>> /\ spc' = "poll"
    BY <1>10 DEF ServerRemoves
  <2>3. /\ socket_fds' \in Seq(TimeClients) /\ Elems(socket_fds') = Elems(socket_fds) \ gone
        /\ gone \subseteq TimeClients
    <3>1. socket_fds' \in Seq(TimeClients) /\ Elems(socket_fds') = Elems(socket_fds) \cap (TimeClients \ gone)
      BY <1>0, <2>1, KeepFacts
    <3> QED
      BY <1>2, <3>1
  <2>4. TimeTypeOK'
    BY <1>0, <1>1, <1>4, <2>1, <2>2, <2>3 DEF TimeTypeOK
  <2>5. ClientsCounted'
    <3>1. \A c \in Elems(backlog) : c \notin gone /\ c \in TimeClients
      BY <1>2, <2>1 DEF ClientsCounted
    <3>2. \A c \in TimeClients \ gone : link'[c] = link[c]
      BY <1>4, <2>1, <2>3
    <3>3. ASSUME NEW c \in TimeClients, link'[c] \in {"none", "hung up"}
          PROVE  c \notin Elems(socket_fds') /\ c \notin Elems(backlog)
      <4>1. CASE c \in gone
        BY <2>3, <3>1, <4>1
      <4>2. CASE c \notin gone
        BY <2>3, <3>2, <3>3, <4>2 DEF ClientsCounted
      <4> QED
        BY <4>1, <4>2
    <3>4. \A c \in Elems(socket_fds') : c \in Elems(socket_fds) /\ c \in TimeClients /\ link'[c] = link[c]
      BY <1>2, <2>3, <3>2
    <3> QED
      BY <2>2, <3>1, <3>2, <3>3, <3>4 DEF ClientsCounted
  <2> QED
    BY <1>3, <2>2, <2>4, <2>5
<1> QED
  BY <1>5, <1>6, <1>7, <1>8, <1>9, <1>10 DEF ServerStep

(* The clients connect, leave and break.                                     *)
LEMMA TimeInvClients == ASSUME TimeInv, ClientSteps PROVE TimeInv'
<1> USE DEF TimeInv
<1>0. /\ socket_fds \in Seq(TimeClients) /\ backlog \in Seq(TimeClients)
      /\ link \in [TimeClients -> {"none", "up", "hung up", "closed", "reset"}]
      /\ sent \in [TimeClients -> Seq(Nat)] /\ behind \in [TimeClients -> Int]
  BY DEF TimeTypeOK
<1>1. UNCHANGED <<mpc, mcount, tpc, mexit, added>>
  BY DEF ClientSteps, sourceVars
<1>2. Elems(socket_fds) \subseteq TimeClients /\ Elems(backlog) \subseteq TimeClients
  BY <1>0, RangeElems
<1>3. ASSUME UNCHANGED <<ticks, tick_fd, socket_fds>>, backlog' \in Seq(TimeClients),
             link' \in [TimeClients -> {"none", "up", "hung up", "closed", "reset"}],
             sent' \in [TimeClients -> Seq(Nat)], behind' \in [TimeClients -> Int]
      PROVE  TimeTypeOK' /\ SamplesCounted'
  <2>1. TimeTypeOK'
    BY <1>1, <1>3 DEF TimeTypeOK
  <2>2. SamplesCounted'
    BY <1>1, <1>3 DEF SamplesCounted
  <2> QED
    BY <2>1, <2>2
<1>4. PICK c \in TimeClients : Connects(c) \/ ClientReads(c) \/ ClientHangsUp(c) \/ ClientFails(c)
  BY DEF ClientSteps
<1>5. CASE Connects(c)
  <2>1. /\ link[c] = "none" /\ link' = [link EXCEPT ![c] = "up"] /\ sent' = [sent EXCEPT ![c] = <<>>]
        /\ backlog' = Append(backlog, c)
    BY <1>5 DEF Connects
  <2>2. UNCHANGED <<ticks, tick_fd, spc, socket_fds, revents, behind>>
    BY <1>5 DEF Connects
  <2>3. /\ link' \in [TimeClients -> {"none", "up", "hung up", "closed", "reset"}]
        /\ link'[c] = "up" /\ \A d \in TimeClients \ {c} : link'[d] = link[d]
    BY <1>0, <2>1, ExceptFacts
  <2>4. <<>> \in Seq(Nat)
    OBVIOUS
  <2>5. sent' \in [TimeClients -> Seq(Nat)] /\ sent'[c] = <<>> /\ \A d \in TimeClients \ {c} : sent'[d] = sent[d]
    BY <1>0, <2>1, <2>4, ExceptFacts
  <2>6. /\ backlog' \in Seq(TimeClients) /\ Len(backlog) \in Nat /\ Len(backlog') = Len(backlog) + 1
        /\ \A n \in 1 .. Len(backlog) : backlog'[n] = backlog[n]
        /\ backlog'[Len(backlog) + 1] = c
    <3>1. backlog \in Seq(TimeClients) /\ backlog' = Append(backlog, c)
      BY <1>0, <2>1
    <3> QED
      BY <3>1, AppendFacts
  <2>7. Elems(backlog') = Elems(backlog) \cup {c}
    <3>1. backlog \in Seq(TimeClients) /\ backlog' = Append(backlog, c)
      BY <1>0, <2>1
    <3> QED
      BY <3>1, ElemsAppend
  <2>8. c \notin Elems(socket_fds) /\ c \notin Elems(backlog)
    BY <2>1 DEF ClientsCounted
  <2>9. ClientsCounted'
    <3>1. ASSUME NEW m \in 1 .. Len(backlog'), NEW n \in 1 .. Len(backlog'), backlog'[m] = backlog'[n] PROVE m = n
      <4>1. \A k \in 1 .. Len(backlog') : k = Len(backlog) + 1 \/ k \in 1 .. Len(backlog)
        BY <2>6
      <4>2. \A k \in 1 .. Len(backlog) : backlog'[k] # c
        BY <2>6, <2>8 DEF Elems
      <4> QED
        BY <2>6, <3>1, <4>1, <4>2 DEF ClientsCounted
    <3>2. \A d \in Elems(socket_fds) : d \notin Elems(backlog') /\ d \in TimeClients \ {c}
      BY <1>2, <2>7, <2>8 DEF ClientsCounted
    <3>3. \A d \in TimeClients : link'[d] \in {"none", "hung up"} => d \notin Elems(socket_fds) /\ d \notin Elems(backlog')
      <4>1. \A d \in TimeClients : link'[d] \in {"none", "hung up"} => d # c /\ link[d] \in {"none", "hung up"}
        BY <2>3
      <4> QED
        BY <2>7, <4>1 DEF ClientsCounted
    <3>4. \A d \in Elems(backlog') : link'[d] = "up" => sent'[d] = <<>>
      BY <1>2, <2>3, <2>5, <2>7 DEF ClientsCounted
    <3>5. \A d \in Elems(socket_fds) : link'[d] = "up" => behind[d] = Total(sent'[d])
      BY <2>3, <2>5, <3>2 DEF ClientsCounted
    <3>6. backlog' # <<>>
      BY <2>6
    <3> QED
      BY <2>2, <3>1, <3>2, <3>3, <3>4, <3>5, <3>6, Zenon DEF ClientsCounted
  <2> QED
    BY <1>0, <1>3, <2>2, <2>3, <2>5, <2>6, <2>9
<1>6. ASSUME UNCHANGED <<ticks, tick_fd, spc, socket_fds, backlog, revents>>,
             link' \in [TimeClients -> {"none", "up", "hung up", "closed", "reset"}],
             sent' \in [TimeClients -> Seq(Nat)], behind' \in [TimeClients -> Int],
             \A d \in TimeClients \ {c} : link'[d] = link[d] /\ sent'[d] = sent[d] /\ behind'[d] = behind[d],
             link'[c] \in {"none", "hung up"} => link[c] \in {"none", "hung up"},
             link'[c] = "up" => /\ link[c] = "up" /\ (sent[c] = <<>> => sent'[c] = <<>>)
                                /\ behind[c] = Total(sent[c]) => behind'[c] = Total(sent'[c])
      PROVE  TimeInv'
  <2>1. \A d \in TimeClients : link'[d] \in {"none", "hung up"} => link[d] \in {"none", "hung up"}
    BY <1>6
  <2>2. \A d \in Elems(backlog) : link'[d] = "up" => sent'[d] = <<>>
    BY <1>2, <1>6 DEF ClientsCounted
  <2>3. \A d \in Elems(socket_fds) : link'[d] = "up" => behind'[d] = Total(sent'[d])
    <3>1. ASSUME NEW d \in Elems(socket_fds), link'[d] = "up" PROVE behind'[d] = Total(sent'[d])
      <4>1. d \in TimeClients
        BY <1>2
      <4>2. link[d] = "up"
        BY <1>6, <3>1, <4>1
      <4>3. behind[d] = Total(sent[d])
        BY <4>2 DEF ClientsCounted
      <4> QED
        BY <1>6, <3>1, <4>1, <4>2, <4>3
    <3> QED
      BY <3>1
  <2>4. ClientsCounted'
    BY <1>6, <2>1, <2>2, <2>3 DEF ClientsCounted
  <2> QED
    BY <1>0, <1>3, <1>6, <2>4
<1>7. CASE ClientReads(c)
  <2>1. /\ sent[c] # <<>> /\ behind' = [behind EXCEPT ![c] = behind[c] - Head(sent[c])]
        /\ sent' = [sent EXCEPT ![c] = Tail(sent[c])]
        /\ UNCHANGED <<ticks, tick_fd, spc, socket_fds, backlog, revents, link>>
    BY <1>7 DEF ClientReads
  <2>2. sent[c] \in Seq(Nat) /\ behind[c] \in Int
    BY <1>0
  <2>3. /\ Head(sent[c]) \in Nat /\ Tail(sent[c]) \in Seq(Nat) /\ Total(sent[c]) = Head(sent[c]) + Total(Tail(sent[c]))
        /\ Total(Tail(sent[c])) \in Nat
    BY <2>1, <2>2, TotalTail, SumsFacts, Zenon
  <2>4. behind[c] - Head(sent[c]) \in Int
    BY <2>2, <2>3
  <2>5. behind' \in [TimeClients -> Int] /\ behind'[c] = behind[c] - Head(sent[c]) /\ \A d \in TimeClients \ {c} : behind'[d] = behind[d]
    BY <1>0, <2>1, <2>4, ExceptFacts
  <2>6. sent' \in [TimeClients -> Seq(Nat)] /\ sent'[c] = Tail(sent[c]) /\ \A d \in TimeClients \ {c} : sent'[d] = sent[d]
    BY <1>0, <2>1, <2>3, ExceptFacts
  <2>7. behind[c] = Total(sent[c]) => behind'[c] = Total(sent'[c])
    BY <2>2, <2>3, <2>5, <2>6, SMTT(30)
  <2> QED
    BY <1>0, <1>6, <2>1, <2>5, <2>6, <2>7
<1>8. CASE ClientHangsUp(c)
  <2>1. /\ link[c] = "hung up" /\ link' = [link EXCEPT ![c] = "none"]
        /\ UNCHANGED <<ticks, tick_fd, spc, socket_fds, backlog, revents, sent, behind>>
    BY <1>8 DEF ClientHangsUp
  <2>2. /\ link' \in [TimeClients -> {"none", "up", "hung up", "closed", "reset"}]
        /\ link'[c] = "none" /\ \A d \in TimeClients \ {c} : link'[d] = link[d]
    BY <1>0, <2>1, ExceptFacts
  <2> QED
    BY <1>0, <1>6, <2>1, <2>2
<1>9. CASE ClientFails(c)
  <2>1. PICK l \in {"closed", "reset"} : link' = [link EXCEPT ![c] = l]
    BY <1>9, Zenon DEF ClientFails
  <2>2. /\ sent' = [sent EXCEPT ![c] = <<>>] /\ behind' = [behind EXCEPT ![c] = 0]
        /\ UNCHANGED <<ticks, tick_fd, spc, socket_fds, backlog, revents>>
    BY <1>9 DEF ClientFails
  <2>3. /\ link' \in [TimeClients -> {"none", "up", "hung up", "closed", "reset"}]
        /\ link'[c] = l /\ \A d \in TimeClients \ {c} : link'[d] = link[d]
    BY <1>0, <2>1, ExceptFacts
  <2>4. <<>> \in Seq(Nat) /\ 0 \in Int
    OBVIOUS
  <2>5. sent' \in [TimeClients -> Seq(Nat)] /\ \A d \in TimeClients \ {c} : sent'[d] = sent[d]
    BY <1>0, <2>2, <2>4, ExceptFacts
  <2>6. behind' \in [TimeClients -> Int] /\ \A d \in TimeClients \ {c} : behind'[d] = behind[d]
    BY <1>0, <2>2, <2>4, ExceptFacts
  <2> QED
    BY <1>6, <2>1, <2>2, <2>3, <2>5, <2>6
<1> QED
  BY <1>4, <1>5, <1>7, <1>8, <1>9

(* Every step.                                                               *)
LEMMA TimeInvNext == TimeInv /\ [TimeNext]_timeVars => TimeInv'
<1> SUFFICES ASSUME TimeInv, [TimeNext]_timeVars PROVE TimeInv'
  OBVIOUS
<1>1. CASE UNCHANGED timeVars
  <2>1. UNCHANGED <<mpc, tpc, mexit, mcount, added, ticks, tick_fd, listVars>>
    BY <1>1 DEF timeVars, sourceVars, serverVars, listVars
  <2>2. ClientsCounted'
    BY <2>1, ClientsKept DEF TimeInv
  <2>3. TimeTypeOK'
    BY <2>1 DEF TimeInv, TimeTypeOK, listVars
  <2>4. SamplesCounted'
    BY <2>1 DEF TimeInv, SamplesCounted
  <2> QED
    BY <2>2, <2>3, <2>4 DEF TimeInv
<1>2. CASE TimeNext
  BY <1>2, TimeInvSource, TimeInvInputs, TimeInvServer, TimeInvClients DEF TimeNext
<1> QED
  BY <1>1, <1>2

(* TicksExact for any clients, samples per millisecond and sizes of          *)
(* time_source_iq_add: no millisecond of samples is lost or counted twice    *)
(* between the source and time_server_tick_callback before                   *)
(* time_manager_finish, and a client gets every tick the server gave since   *)
(* it was accepted.                                                          *)
THEOREM TimeSafety == TimeInit /\ [][TimeNext]_timeVars => []TicksExact
<1>1. TimeInit /\ [][TimeNext]_timeVars => []TimeInv
  BY TimeInvInit, TimeInvNext, PTL
<1> QED
  BY <1>1, TimeInvSafe, PTL
=============================================================================
