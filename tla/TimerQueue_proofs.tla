-------------------------- MODULE TimerQueue_proofs --------------------------
(***************************************************************************)
(* The timer of an event loop, for any events, intervals and retry delay,  *)
(* however the wall clock is set and however late the loop is: the         *)
(* multimap stays ordered and holds an event once, the timerfd is armed    *)
(* while events wait and expires in time for the first, and a deleted      *)
(* event does not come back.                                               *)
(*                                                                         *)
(* Kept is defined by recursion; what it returns is shown by an induction  *)
(* over the length of the sequence, which is the least-number principle    *)
(* used on the lengths for which the claim fails.                          *)
(***************************************************************************)
EXTENDS TimerQueue, SequenceTheorems, WellFoundedInduction, TLAPS

LEMMA LeastNumber ==
    ASSUME NEW T, T \in SUBSET Nat, T # {}
    PROVE  \E x \in T : \A y \in T : x <= y
  <1>. DEFINE R == {r \in Nat \X Nat : r[1] < r[2]}
  <1>1. IsWellFoundedOn(R, Nat)
    BY NatLessThanWellFounded DEF OpToRel
  <1>2. \A x, y \in Nat : y < x => <<y, x>> \in R
    OBVIOUS
  <1>. HIDE DEF R
  <1>3. PICK x \in T : \A y \in T : ~ (<<y, x>> \in R)
    BY <1>1, WFMin
  <1>4. ASSUME NEW y \in T
        PROVE  x <= y
    <2>1. x \in Nat /\ y \in Nat
      OBVIOUS
    <2>2. ~ (y < x)
      BY <1>2, <1>3, <2>1
    <2>. QED
      BY <2>1, <2>2
  <1>. QED
    BY <1>4

(***************************************************************************)
(* Kept: the members of a sequence that are in a set, in their order.      *)
(***************************************************************************)

\* The function that Kept defines by recursion, on the first m members.
Keeps(f, s, S, m) ==
    f = [i \in 0 .. m |->
           IF i = 0 THEN <<>>
           ELSE IF s[i] \in S THEN Append(f[i - 1], s[i]) ELSE f[i - 1]]

LEMMA KeepsNone ==
    ASSUME NEW s, NEW S, NEW m \in Nat, NEW f, Keeps(f, s, S, m)
    PROVE  f[0] = <<>>
  <1>1. 0 \in 0 .. m
    OBVIOUS
  <1>. QED
    BY <1>1 DEF Keeps

LEMMA KeepsAt ==
    ASSUME NEW s, NEW S, NEW m \in Nat, NEW f, Keeps(f, s, S, m), NEW i \in 1 .. m
    PROVE  f[i] = IF s[i] \in S THEN Append(f[i - 1], s[i]) ELSE f[i - 1]
  <1>1. i \in 0 .. m /\ i # 0
    OBVIOUS
  <1>. QED
    BY <1>1 DEF Keeps

LEMMA KeepsExists ==
    ASSUME NEW s, NEW S, NEW n \in Nat
    PROVE  \E f : Keeps(f, s, S, n)
  <1>. DEFINE T == {m \in Nat : ~ \E f : Keeps(f, s, S, m)}
  <1>1. SUFFICES ASSUME T # {} PROVE FALSE
    OBVIOUS
  <1>2. PICK m \in T : \A y \in T : m <= y
    <2>. HIDE DEF T
    <2>1. T \in SUBSET Nat
      BY DEF T
    <2>. QED
      BY <1>1, <2>1, LeastNumber
  <1>3. m \in Nat /\ ~ \E f : Keeps(f, s, S, m)
    OBVIOUS
  <1>4. CASE m = 0
    <2>. DEFINE h == [i \in 0 .. 0 |-> <<>>]
    <2>1. Keeps(h, s, S, 0)
      BY DEF Keeps
    <2>. QED
      BY <1>3, <1>4, <2>1
  <1>5. CASE m > 0
    <2>1. m - 1 \in Nat /\ ~ (m <= m - 1)
      BY <1>3, <1>5
    <2>2. m - 1 \notin T
      BY <1>2, <2>1
    <2>3. PICK g : Keeps(g, s, S, m - 1)
      BY <2>1, <2>2
    <2>. DEFINE h == [i \in 0 .. m |->
                        IF i = 0 THEN <<>>
                        ELSE IF s[i] \in S THEN Append(g[i - 1], s[i]) ELSE g[i - 1]]
    <2>4. ASSUME NEW i \in 0 .. m - 1
          PROVE  h[i] = g[i]
      <3>1. PICK p \in Nat : p = m - 1
        BY <2>1
      <3>2. i \in 0 .. m /\ Keeps(g, s, S, p)
        BY <1>3, <2>3, <3>1
      <3>3. CASE i = 0
        <4>1. g[0] = <<>>
          BY <3>2, KeepsNone
        <4>. QED
          BY <3>2, <3>3, <4>1
      <3>4. CASE i # 0
        <4>1. i \in 1 .. p
          BY <1>3, <3>1, <3>4
        <4>2. g[i] = IF s[i] \in S THEN Append(g[i - 1], s[i]) ELSE g[i - 1]
          BY <3>2, <4>1, KeepsAt
        <4>. QED
          BY <3>2, <3>4, <4>2
      <3>. QED
        BY <3>3, <3>4
    <2>5. \A i \in 0 .. m : i # 0 => i - 1 \in 0 .. m - 1
      BY <1>3
    <2>6. \A i \in 0 .. m : i # 0 => h[i - 1] = g[i - 1]
      BY <2>4, <2>5
    <2>7. h = [i \in 0 .. m |->
                 IF i = 0 THEN <<>>
                 ELSE IF s[i] \in S THEN Append(h[i - 1], s[i]) ELSE h[i - 1]]
      BY <2>6
    <2>8. Keeps(h, s, S, m)
      BY <2>7 DEF Keeps
    <2>. QED
      BY <2>8, <1>3
  <1>. QED
    BY <1>3, <1>4, <1>5

\* t is made of the members of the first m of s that are in S: g says where
\* each of them was.
Picks(t, s, S, m, g) ==
    /\ g \in [1 .. Len(t) -> 1 .. m]
    /\ \A j \in 1 .. Len(t) : t[j] = s[g[j]] /\ t[j] \in S
    /\ \A j, k \in 1 .. Len(t) : j < k => g[j] < g[k]
    /\ \A p \in 1 .. m : s[p] \in S => \E j \in 1 .. Len(t) : g[j] = p

LEMMA PicksNext ==
    ASSUME NEW U, NEW s \in Seq(U), NEW S, NEW m \in 1 .. Len(s),
           NEW t \in Seq(U), NEW g, Picks(t, s, S, m - 1, g)
    PROVE  \E h : Picks(IF s[m] \in S THEN Append(t, s[m]) ELSE t, s, S, m, h)
  <1>1. m \in Nat /\ m > 0 /\ s[m] \in U /\ Len(t) \in Nat
    OBVIOUS
  <1>2. /\ g \in [1 .. Len(t) -> 1 .. m - 1]
        /\ \A j \in 1 .. Len(t) : t[j] = s[g[j]] /\ t[j] \in S
        /\ \A j, k \in 1 .. Len(t) : j < k => g[j] < g[k]
        /\ \A p \in 1 .. m - 1 : s[p] \in S => \E j \in 1 .. Len(t) : g[j] = p
    BY DEF Picks
  <1>3. CASE s[m] \notin S
    <2>1. g \in [1 .. Len(t) -> 1 .. m]
      BY <1>1, <1>2
    <2>2. \A p \in 1 .. m : s[p] \in S => \E j \in 1 .. Len(t) : g[j] = p
      BY <1>1, <1>2, <1>3
    <2>3. Picks(t, s, S, m, g)
      BY <1>2, <2>1, <2>2 DEF Picks
    <2>. QED
      BY <1>3, <2>3
  <1>4. CASE s[m] \in S
    <2>. DEFINE u == Append(t, s[m])
                n == Len(t)
                h == [j \in 1 .. n + 1 |-> IF j <= n THEN g[j] ELSE m]
    <2>1. /\ u \in Seq(U) /\ Len(u) = n + 1 /\ u[n + 1] = s[m]
          /\ \A j \in 1 .. n : u[j] = t[j]
      BY <1>1
    <2>2. n \in Nat /\ n = Len(t)
      BY <1>1
    <2>. HIDE DEF u, n
    <2>a. \A j \in 1 .. n : g[j] \in 1 .. m - 1
      BY <1>2, <2>2
    <2>b. \A j \in 1 .. n : j \in 1 .. n + 1 /\ j <= n
      BY <2>2
    <2>c. \A j \in 1 .. n : h[j] = g[j]
      BY <2>b
    <2>3. \A j \in 1 .. n : h[j] = g[j] /\ g[j] \in 1 .. m - 1
      BY <2>a, <2>c
    <2>4. h[n + 1] = m
      BY <2>2
    <2>5. h \in [1 .. n + 1 -> 1 .. m]
      <3>1. ASSUME NEW j \in 1 .. n + 1
            PROVE  (IF j <= n THEN g[j] ELSE m) \in 1 .. m
        <4>1. CASE j <= n
          <5>1. j \in 1 .. n
            BY <2>2, <4>1
          <5>2. g[j] \in 1 .. m - 1
            BY <2>a, <5>1
          <5>. QED
            BY <1>1, <4>1, <5>2
        <4>2. CASE ~(j <= n)
          BY <1>1, <4>2
        <4>. QED
          BY <4>1, <4>2
      <3>. QED
        BY <3>1
    <2>. HIDE DEF h
    <2>6. \A j \in 1 .. n + 1 : j \in 1 .. n \/ j = n + 1
      BY <2>2
    <2>7. ASSUME NEW j \in 1 .. n + 1
          PROVE  u[j] = s[h[j]] /\ u[j] \in S
      BY <1>2, <1>4, <2>1, <2>2, <2>3, <2>4, <2>6
    <2>8. ASSUME NEW j \in 1 .. n + 1, NEW k \in 1 .. n + 1, j < k
          PROVE  h[j] < h[k]
      <3>1. j \in 1 .. n
        BY <2>2, <2>8
      <3>2. CASE k \in 1 .. n
        BY <1>2, <2>2, <2>3, <2>8, <3>1, <3>2
      <3>3. CASE k = n + 1
        <4>1. h[k] = m /\ h[j] \in 1 .. m - 1
          BY <2>3, <2>4, <3>1, <3>3
        <4>. QED
          BY <4>1, <1>1
      <3>. QED
        BY <2>6, <3>2, <3>3
    <2>9. ASSUME NEW p \in 1 .. m, s[p] \in S
          PROVE  \E j \in 1 .. n + 1 : h[j] = p
      <3>1. CASE p = m
        BY <2>2, <2>4, <3>1
      <3>2. CASE p # m
        <4>1. p \in 1 .. m - 1
          BY <1>1, <3>2
        <4>2. PICK j \in 1 .. n : g[j] = p
          BY <1>2, <2>2, <2>9, <4>1
        <4>3. j \in 1 .. n + 1 /\ h[j] = p
          BY <2>2, <2>3, <4>2
        <4>. QED
          BY <4>3
      <3>. QED
        BY <3>1, <3>2
    <2>10. Picks(u, s, S, m, h)
      BY <2>1, <2>5, <2>7, <2>8, <2>9 DEF Picks
    <2>. QED
      BY <1>4, <2>10 DEF u
  <1>. QED
    BY <1>3, <1>4

LEMMA KeptPicks ==
    ASSUME NEW U, NEW s \in Seq(U), NEW S
    PROVE  Kept(s, S) \in Seq(U) /\ \E g : Picks(Kept(s, S), s, S, Len(s), g)
  <1>. DEFINE f == CHOOSE g : Keeps(g, s, S, Len(s))
              n == Len(s)
  <1>1. n \in Nat /\ n = Len(s)
    OBVIOUS
  <1>2. Keeps(f, s, S, n)
    BY <1>1, KeepsExists
  <1>3. Kept(s, S) = f[n]
    BY DEF Kept, Keeps
  <1>. HIDE DEF f, n
  <1>4. f[0] = <<>>
    BY <1>1, <1>2, KeepsNone
  <1>5. ASSUME NEW i \in 1 .. n
        PROVE  f[i] = IF s[i] \in S THEN Append(f[i - 1], s[i]) ELSE f[i - 1]
    BY <1>1, <1>2, KeepsAt
  <1>. DEFINE Done(m) == f[m] \in Seq(U) /\ \E g : Picks(f[m], s, S, m, g)
              T == {m \in 0 .. n : ~ Done(m)}
  <1>6. Done(0)
    <2>. DEFINE none == [i \in 1 .. 0 |-> 0]
    <2>1. Len(<<>>) = 0 /\ <<>> \in Seq(U)
      BY EmptySeq
    <2>2. Picks(<<>>, s, S, 0, none)
      BY <2>1 DEF Picks
    <2>. QED
      BY <1>4, <2>1, <2>2
  <1>7. ASSUME NEW m \in 1 .. n, Done(m - 1)
        PROVE  Done(m)
    <2>1. PICK g : Picks(f[m - 1], s, S, m - 1, g)
      BY <1>7
    <2>2. \E h : Picks(IF s[m] \in S THEN Append(f[m - 1], s[m]) ELSE f[m - 1], s, S, m, h)
      BY <1>1, <1>7, <2>1, PicksNext
    <2>3. s[m] \in U
      BY <1>1
    <2>4. f[m] \in Seq(U)
      <3>1. f[m] = IF s[m] \in S THEN Append(f[m - 1], s[m]) ELSE f[m - 1]
        BY <1>5
      <3>2. f[m - 1] \in Seq(U) /\ Append(f[m - 1], s[m]) \in Seq(U)
        BY <1>7, <2>3
      <3>. QED
        BY <3>1, <3>2
    <2>. QED
      BY <1>5, <2>2, <2>4
  <1>. HIDE DEF Done
  <1>8. T = {}
    <2>1. SUFFICES ASSUME T # {} PROVE FALSE
      OBVIOUS
    <2>2. PICK m \in T : \A y \in T : m <= y
      <3>. HIDE DEF T
      <3>1. T \in SUBSET Nat
        BY <1>1 DEF T
      <3>. QED
        BY <2>1, <3>1, LeastNumber
    <2>3. m \in 0 .. n /\ ~ Done(m)
      OBVIOUS
    <2>4. m # 0
      BY <1>6, <2>3
    <2>5. m \in 1 .. n /\ m - 1 \in 0 .. n /\ ~ (m <= m - 1)
      BY <1>1, <2>3, <2>4
    <2>6. m - 1 \notin T
      BY <2>2, <2>5
    <2>7. Done(m - 1)
      BY <2>5, <2>6
    <2>. QED
      BY <1>7, <2>3, <2>5, <2>7
  <1>9. Done(n)
    BY <1>1, <1>8
  <1>. QED
    BY <1>1, <1>3, <1>9 DEF Done


\* What stays is exactly what is in the set, as often and in the order it was.
LEMMA KeptFacts ==
    ASSUME NEW U, NEW s \in Seq(U), NEW S
    PROVE  /\ Kept(s, S) \in Seq(U)
           /\ Elements(Kept(s, S)) = Elements(s) \cap S
           /\ Distinct(s) => Distinct(Kept(s, S))
           /\ \A at : Ordered(s, at) => Ordered(Kept(s, S), at)
  <1>. DEFINE t == Kept(s, S)
              n == Len(s)
  <1>1. PICK g : Picks(t, s, S, n, g)
    BY KeptPicks
  <1>2. t \in Seq(U) /\ Len(t) \in Nat /\ n \in Nat
    BY KeptPicks
  <1>. HIDE DEF t
  <1>3. /\ \A j \in 1 .. Len(t) : g[j] \in 1 .. n /\ t[j] = s[g[j]] /\ t[j] \in S
        /\ \A j, k \in 1 .. Len(t) : j < k => g[j] < g[k]
        /\ \A p \in 1 .. n : s[p] \in S => \E j \in 1 .. Len(t) : g[j] = p
    BY <1>1 DEF Picks
  <1>4. Elements(t) = Elements(s) \cap S
    <2>1. ASSUME NEW x \in Elements(t)
          PROVE  x \in Elements(s) \cap S
      <3>1. PICK j \in 1 .. Len(t) : x = t[j]
        BY DEF Elements
      <3>. QED
        BY <1>3, <3>1 DEF Elements
    <2>2. ASSUME NEW x \in Elements(s) \cap S
          PROVE  x \in Elements(t)
      <3>1. PICK p \in 1 .. n : x = s[p]
        BY DEF Elements
      <3>2. PICK j \in 1 .. Len(t) : g[j] = p
        BY <1>3, <3>1
      <3>. QED
        BY <1>3, <3>1, <3>2 DEF Elements
    <2>. QED
      BY <2>1, <2>2
  <1>5. ASSUME Distinct(s)
        PROVE  Distinct(t)
    <2>1. SUFFICES ASSUME NEW j \in 1 .. Len(t), NEW k \in 1 .. Len(t), t[j] = t[k]
                   PROVE  j = k
      BY DEF Distinct
    <2>2. g[j] \in 1 .. n /\ g[k] \in 1 .. n /\ s[g[j]] = s[g[k]]
      BY <1>3, <2>1
    <2>3. g[j] = g[k]
      BY <1>5, <2>2 DEF Distinct
    <2>4. ~ (j < k) /\ ~ (k < j)
      BY <1>3, <2>2, <2>3
    <2>. QED
      BY <2>4
  <1>6. ASSUME NEW at, Ordered(s, at)
        PROVE  Ordered(t, at)
    <2>1. SUFFICES ASSUME NEW j \in 1 .. Len(t), NEW k \in 1 .. Len(t), j < k
                   PROVE  at[t[j]] <= at[t[k]]
      BY DEF Ordered
    <2>2. g[j] \in 1 .. n /\ g[k] \in 1 .. n /\ g[j] < g[k] /\ t[j] = s[g[j]] /\ t[k] = s[g[k]]
      BY <1>3, <2>1
    <2>3. at[s[g[j]]] <= at[s[g[k]]]
      BY <1>6, <2>2 DEF Ordered
    <2>. QED
      BY <2>2, <2>3
  <1>. QED
    BY <1>2, <1>4, <1>5, <1>6 DEF t

\* The first that stays was not before the first there was.
LEMMA KeptHead ==
    ASSUME NEW U, NEW s \in Seq(U), NEW S, NEW at \in [U -> Int],
           Ordered(s, at), Kept(s, S) # <<>>
    PROVE  s # <<>> /\ at[Head(s)] <= at[Head(Kept(s, S))]
  <1>. DEFINE t == Kept(s, S)
              n == Len(s)
  <1>1. PICK g : Picks(t, s, S, n, g)
    BY KeptPicks
  <1>2. t \in Seq(U) /\ t # <<>> /\ n \in Nat
    BY KeptPicks
  <1>. HIDE DEF t
  <1>3. Len(t) \in Nat /\ 1 \in 1 .. Len(t) /\ Head(t) = t[1]
    BY <1>2
  <1>4. g[1] \in 1 .. n /\ t[1] = s[g[1]]
    BY <1>1, <1>3 DEF Picks
  <1>5. s # <<>> /\ Head(s) = s[1] /\ 1 \in 1 .. n /\ n \in Nat
    BY <1>4
  <1>6. at[s[1]] \in Int
    BY <1>5
  <1>7. at[s[1]] <= at[s[g[1]]]
    BY <1>4, <1>5, <1>6 DEF Ordered
  <1>. QED
    BY <1>3, <1>4, <1>5, <1>7 DEF t

(***************************************************************************)
(* The multimap.                                                           *)
(***************************************************************************)

LEMMA UpToIs ==
    ASSUME NEW U, NEW s \in Seq(U), NEW at \in [U -> Int], NEW time \in Int
    PROVE  /\ UpTo(s, at, time) \in 0 .. Len(s)
           /\ \A i \in 1 .. UpTo(s, at, time) : at[s[i]] <= time
           /\ UpTo(s, at, time) < Len(s) => at[s[UpTo(s, at, time) + 1]] > time
  <1>. DEFINE n == Len(s)
              T == {i \in 1 .. n : at[s[i]] > time}
  <1>1. n \in Nat /\ \A i \in 1 .. n : at[s[i]] \in Int
    OBVIOUS
  <1>2. \E k \in 0 .. n : /\ \A i \in 1 .. k : at[s[i]] <= time
                          /\ k < n => at[s[k + 1]] > time
    <2>1. CASE T = {}
      <3>1. \A i \in 1 .. n : at[s[i]] <= time
        BY <1>1, <2>1
      <3>2. n \in 0 .. n /\ ~ (n < n)
        BY <1>1
      <3>. QED
        BY <3>1, <3>2
    <2>2. CASE T # {}
      <3>1. PICK m \in T : \A y \in T : m <= y
        <4>. HIDE DEF T
        <4>1. T \in SUBSET Nat
          BY DEF T
        <4>. QED
          BY <2>2, <4>1, LeastNumber
      <3>2. m \in 1 .. n /\ at[s[m]] > time
        OBVIOUS
      <3>3. PICK k \in 0 .. n : k = m - 1
        BY <1>1, <3>2
      <3>4. ASSUME NEW i \in 1 .. k
            PROVE  at[s[i]] <= time
        <4>1. i \in 1 .. n /\ ~ (m <= i)
          BY <1>1, <3>2, <3>3
        <4>2. i \notin T
          BY <3>1, <4>1
        <4>. QED
          BY <1>1, <4>1, <4>2
      <3>5. k + 1 = m
        BY <3>2, <3>3
      <3>. QED
        BY <3>2, <3>4, <3>5
    <2>. QED
      BY <2>1, <2>2
  <1>. QED
    BY <1>2 DEF UpTo


\* A sequence with one more member behind the first k.
Inserted(s, e, k) == SubSeq(s, 1, k) \o <<e>> \o SubSeq(s, k + 1, Len(s))

IsInserted(u, s, e, k) ==
    /\ Len(u) = Len(s) + 1
    /\ \A i \in 1 .. k : u[i] = s[i]
    /\ u[k + 1] = e
    /\ \A i \in k + 1 .. Len(s) : u[i + 1] = s[i]

LEMMA InsertedFacts ==
    ASSUME NEW U, NEW s \in Seq(U), NEW e \in U, NEW k \in 0 .. Len(s)
    PROVE  Inserted(s, e, k) \in Seq(U) /\ IsInserted(Inserted(s, e, k), s, e, k)
  <1>. DEFINE n == Len(s)
              a == SubSeq(s, 1, k)
              b == SubSeq(s, k + 1, n)
              m == <<e>>
  <1>1. n \in Nat /\ k \in Nat /\ k <= n /\ \A i \in 1 .. n : s[i] \in U
    OBVIOUS
  <1>2. a \in Seq(U) /\ Len(a) = k /\ \A i \in 1 .. k : a[i] = s[i]
    <2>1. \A i \in 1 .. k : s[i] \in U
      BY <1>1
    <2>2. /\ a \in Seq(U) /\ Len(a) = IF 1 <= k THEN k - 1 + 1 ELSE 0
          /\ \A i \in 1 .. k - 1 + 1 : a[i] = s[1 + i - 1]
      BY <1>1, <2>1, SubSeqProperties
    <2>. HIDE DEF a
    <2>. QED
      BY <1>1, <2>2
  <1>3. b \in Seq(U) /\ Len(b) = n - k /\ \A i \in 1 .. n - k : b[i] = s[k + i]
    <2>1. \A i \in k + 1 .. n : s[i] \in U
      BY <1>1
    <2>2. k + 1 \in Int /\ n \in Int
      BY <1>1
    <2>3. /\ b \in Seq(U) /\ Len(b) = IF k + 1 <= n THEN n - (k + 1) + 1 ELSE 0
          /\ \A i \in 1 .. n - (k + 1) + 1 : b[i] = s[k + 1 + i - 1]
      BY <2>1, <2>2, SubSeqProperties
    <2>. HIDE DEF b
    <2>. QED
      BY <1>1, <2>3
  <1>4. m \in Seq(U) /\ Len(m) = 1 /\ m[1] = e
    OBVIOUS
  <1>12. Inserted(s, e, k) = a \o m \o b /\ n = Len(s)
    BY DEF Inserted
  <1>. HIDE DEF a, b, m, n
  <1>5. /\ a \o m \in Seq(U) /\ Len(a \o m) = Len(a) + Len(m)
        /\ \A i \in 1 .. Len(a) + Len(m) :
             (a \o m)[i] = IF i <= Len(a) THEN a[i] ELSE m[i - Len(a)]
    BY <1>2, <1>4, ConcatProperties
  <1>. DEFINE c == a \o m
  <1>6. c \in Seq(U) /\ Len(c) = k + 1 /\ (\A i \in 1 .. k : c[i] = s[i]) /\ c[k + 1] = e
    <2>1. \A i \in 1 .. k : i \in 1 .. Len(a) + Len(m) /\ i <= Len(a)
      BY <1>1, <1>2, <1>4
    <2>2. k + 1 \in 1 .. Len(a) + Len(m) /\ ~(k + 1 <= Len(a)) /\ k + 1 - Len(a) = 1
      BY <1>1, <1>2, <1>4
    <2>. QED
      BY <1>1, <1>2, <1>4, <1>5, <2>1, <2>2
  <1>13. Inserted(s, e, k) = c \o b
    BY <1>12
  <1>. HIDE DEF c
  <1>7. /\ c \o b \in Seq(U) /\ Len(c \o b) = Len(c) + Len(b)
        /\ \A i \in 1 .. Len(c) + Len(b) :
             (c \o b)[i] = IF i <= Len(c) THEN c[i] ELSE b[i - Len(c)]
    BY <1>3, <1>6, ConcatProperties
  <1>. DEFINE u == c \o b
  <1>8. u \in Seq(U) /\ Len(u) = n + 1
    BY <1>1, <1>3, <1>6, <1>7
  <1>9. ASSUME NEW i \in 1 .. k
        PROVE  u[i] = s[i]
    <2>1. i \in 1 .. Len(c) + Len(b) /\ i <= Len(c)
      BY <1>1, <1>3, <1>6
    <2>. QED
      BY <1>6, <1>7, <2>1
  <1>10. u[k + 1] = e
    <2>1. k + 1 \in 1 .. Len(c) + Len(b) /\ k + 1 <= Len(c)
      BY <1>1, <1>3, <1>6
    <2>. QED
      BY <1>6, <1>7, <2>1
  <1>11. ASSUME NEW i \in k + 1 .. n
         PROVE  u[i + 1] = s[i]
    <2>1. i + 1 \in 1 .. Len(c) + Len(b) /\ ~(i + 1 <= Len(c)) /\ i + 1 - Len(c) = i - k
          /\ i - k \in 1 .. n - k /\ k + (i - k) = i
      BY <1>1, <1>3, <1>6
    <2>2. u[i + 1] = b[i - k]
      BY <1>7, <2>1
    <2>3. b[i - k] = s[k + (i - k)]
      BY <1>3, <2>1
    <2>. QED
      BY <2>1, <2>2, <2>3
  <1>. QED
    BY <1>12, <1>13, <1>8, <1>9, <1>10, <1>11 DEF IsInserted

IsEmplaced(u, s, e, at) ==
    /\ u # <<>> /\ Distinct(u) /\ Ordered(u, at)
    /\ Elements(u) = Elements(s) \cup {e}
    /\ s # <<>> /\ at[Head(s)] <= at[e] => Head(u) = Head(s)

\* emplace keeps the multimap in order and takes an event that is not in it once.
LEMMA EmplaceFacts ==
    ASSUME NEW U, NEW s \in Seq(U), Distinct(s), NEW at \in [U -> Int], Ordered(s, at),
           NEW e \in U, e \notin Elements(s)
    PROVE  Emplace(s, e, at) \in Seq(U) /\ IsEmplaced(Emplace(s, e, at), s, e, at)
  <1>. DEFINE n == Len(s)
              k == UpTo(s, at, at[e])
              u == Emplace(s, e, at)
  <1>1. n \in Nat /\ at[e] \in Int /\ \A i \in 1 .. n : s[i] \in U /\ at[s[i]] \in Int
    OBVIOUS
  <1>2. /\ k \in 0 .. n
        /\ \A i \in 1 .. k : at[s[i]] <= at[e]
        /\ k < n => at[s[k + 1]] > at[e]
    BY <1>1, UpToIs
  <1>3. u = Inserted(s, e, k)
    BY DEF Emplace, Inserted
  <1>. HIDE DEF k, u
  <1>4. /\ u \in Seq(U) /\ Len(u) = n + 1
        /\ \A i \in 1 .. k : u[i] = s[i]
        /\ u[k + 1] = e
        /\ \A i \in k + 1 .. n : u[i + 1] = s[i]
    <2>1. k \in 0 .. Len(s)
      BY <1>2
    <2>2. Inserted(s, e, k) \in Seq(U) /\ IsInserted(Inserted(s, e, k), s, e, k)
      BY <2>1, InsertedFacts
    <2>3. u \in Seq(U) /\ IsInserted(u, s, e, k)
      BY <1>3, <2>2
    <2>. QED
      BY <2>3 DEF IsInserted
  <1>. HIDE DEF n
  <1>5. ASSUME NEW i \in 1 .. n + 1
        PROVE  \/ i \in 1 .. k /\ i \in 1 .. n /\ u[i] = s[i]
               \/ i = k + 1 /\ u[i] = e
               \/ i \in k + 2 .. n + 1 /\ i - 1 \in k + 1 .. n /\ i - 1 \in 1 .. n /\ u[i] = s[i - 1]
    <2>1. CASE i <= k
      BY <1>1, <1>2, <1>4, <2>1
    <2>2. CASE i = k + 1
      BY <1>4, <2>2
    <2>3. CASE i > k + 1
      <3>1. PICK j \in k + 1 .. n : i = j + 1
        <4>1. i - 1 \in k + 1 .. n /\ i = (i - 1) + 1
          BY <1>1, <1>2, <2>3
        <4>. QED
          BY <4>1
      <3>2. u[j + 1] = s[j] /\ j \in 1 .. n /\ i - 1 = j
        BY <1>1, <1>2, <1>4, <3>1
      <3>. QED
        BY <1>1, <1>2, <2>3, <3>1, <3>2
    <2>. QED
      BY <1>1, <1>2, <2>1, <2>2, <2>3
  <1>6. \A i \in 1 .. n : i > k => at[s[i]] > at[e]
    <2>1. SUFFICES ASSUME NEW i \in 1 .. n, i > k
                   PROVE  at[s[i]] > at[e]
      OBVIOUS
    <2>2. k + 1 \in 1 .. n /\ k < n /\ (k + 1 < i \/ k + 1 = i)
      BY <1>1, <1>2, <2>1
    <2>3. at[s[k + 1]] > at[e] /\ at[s[k + 1]] \in Int /\ at[s[i]] \in Int
      BY <1>1, <1>2, <2>2
    <2>4. at[s[k + 1]] <= at[s[i]]
      BY <2>2, <2>3 DEF Ordered, n
    <2>. QED
      BY <1>1, <2>3, <2>4
  <1>7. \A i \in 1 .. n : s[i] # e
    BY DEF Elements, n
  <1>8. Distinct(u)
    <2>1. SUFFICES ASSUME NEW i \in 1 .. n + 1, NEW j \in 1 .. n + 1, u[i] = u[j]
                   PROVE  i = j
      BY <1>4 DEF Distinct
    <2>2. \A p, q \in 1 .. n : s[p] = s[q] => p = q
      BY DEF Distinct, n
    <2>. QED
      BY <1>1, <1>2, <1>5, <1>7, <2>1, <2>2
  <1>9. Ordered(u, at)
    <2>1. SUFFICES ASSUME NEW i \in 1 .. n + 1, NEW j \in 1 .. n + 1, i < j
                   PROVE  at[u[i]] <= at[u[j]]
      BY <1>4 DEF Ordered
    <2>2. \A p, q \in 1 .. n : p < q => at[s[p]] <= at[s[q]]
      BY DEF Ordered, n
    <2>3. CASE i \in 1 .. k /\ i \in 1 .. n /\ u[i] = s[i]
      <3>1. at[s[i]] <= at[e] /\ at[s[i]] \in Int
        BY <1>1, <1>2, <2>3
      <3>2. CASE j \in 1 .. k /\ j \in 1 .. n /\ u[j] = s[j]
        BY <2>1, <2>2, <2>3, <3>2
      <3>3. CASE j = k + 1 /\ u[j] = e
        BY <2>3, <3>1, <3>3
      <3>4. CASE j \in k + 2 .. n + 1 /\ j - 1 \in k + 1 .. n /\ j - 1 \in 1 .. n /\ u[j] = s[j - 1]
        <4>1. i < j - 1
          BY <1>2, <2>3, <3>4
        <4>. QED
          BY <2>2, <2>3, <3>4, <4>1
      <3>. QED
        BY <1>5, <3>2, <3>3, <3>4
    <2>4. CASE i = k + 1 /\ u[i] = e
      <3>1. j \in k + 2 .. n + 1 /\ j - 1 \in k + 1 .. n /\ j - 1 \in 1 .. n /\ u[j] = s[j - 1]
        BY <1>2, <1>5, <2>1, <2>4
      <3>2. j - 1 > k
        BY <1>2, <3>1
      <3>3. at[s[j - 1]] > at[e] /\ at[s[j - 1]] \in Int
        BY <1>1, <1>6, <3>1, <3>2
      <3>. QED
        BY <1>1, <2>4, <3>1, <3>3
    <2>5. CASE i \in k + 2 .. n + 1 /\ i - 1 \in k + 1 .. n /\ i - 1 \in 1 .. n /\ u[i] = s[i - 1]
      <3>1. j \in k + 2 .. n + 1 /\ j - 1 \in k + 1 .. n /\ j - 1 \in 1 .. n /\ u[j] = s[j - 1]
        BY <1>2, <1>5, <2>1, <2>5
      <3>2. i - 1 < j - 1
        BY <2>1
      <3>. QED
        BY <2>2, <2>5, <3>1, <3>2
    <2>. QED
      BY <1>5, <2>3, <2>4, <2>5
  <1>10. Elements(u) = Elements(s) \cup {e}
    <2>1. ASSUME NEW x \in Elements(u)
          PROVE  x \in Elements(s) \cup {e}
      <3>1. PICK i \in 1 .. n + 1 : x = u[i]
        BY <1>4 DEF Elements
      <3>. QED
        BY <1>5, <3>1 DEF Elements, n
    <2>2. e \in Elements(u)
      <3>1. k + 1 \in 1 .. Len(u)
        BY <1>1, <1>2, <1>4
      <3>. QED
        BY <1>4, <3>1 DEF Elements
    <2>3. ASSUME NEW x \in Elements(s)
          PROVE  x \in Elements(u)
      <3>1. PICK i \in 1 .. n : x = s[i]
        BY DEF Elements, n
      <3>2. CASE i <= k
        <4>1. i \in 1 .. k /\ i \in 1 .. Len(u)
          BY <1>1, <1>2, <1>4, <3>2
        <4>. QED
          BY <1>4, <3>1, <4>1 DEF Elements
      <3>3. CASE i > k
        <4>1. i \in k + 1 .. n /\ i + 1 \in 1 .. Len(u)
          BY <1>1, <1>2, <1>4, <3>3
        <4>. QED
          BY <1>4, <3>1, <4>1 DEF Elements
      <3>. QED
        BY <1>2, <3>2, <3>3
    <2>. QED
      BY <2>1, <2>2, <2>3
  <1>11. ASSUME s # <<>>, at[Head(s)] <= at[e]
         PROVE  Head(u) = Head(s)
    <2>1. 1 \in 1 .. n /\ Head(s) = s[1]
      BY <1>1, <1>11 DEF n
    <2>2. ~ (at[s[1]] > at[e])
      BY <1>1, <1>11, <2>1
    <2>3. 1 \in 1 .. k
      <3>1. ~ (1 > k)
        BY <1>6, <2>1, <2>2
      <3>. QED
        BY <1>2, <3>1
    <2>4. u # <<>> /\ Head(u) = u[1]
      BY <1>1, <1>4
    <2>. QED
      BY <1>4, <2>1, <2>3, <2>4
  <1>12. u # <<>>
    BY <1>1, <1>4
  <1>. QED
    BY <1>4, <1>8, <1>9, <1>10, <1>11, <1>12 DEF u, IsEmplaced


\* Taking the first k members out leaves the others as they were.
LEMMA DroppedFacts ==
    ASSUME NEW U, NEW s \in Seq(U), NEW k \in 0 .. Len(s), NEW at,
           Distinct(s), Ordered(s, at)
    PROVE  LET a == SubSeq(s, 1, k)
               b == SubSeq(s, k + 1, Len(s))
           IN  /\ a \in Seq(U) /\ Distinct(a) /\ Elements(a) \subseteq Elements(s)
               /\ b \in Seq(U) /\ Distinct(b) /\ Ordered(b, at)
               /\ Elements(b) \subseteq Elements(s)
               /\ Elements(a) \cap Elements(b) = {}
  <1>. DEFINE n == Len(s)
              a == SubSeq(s, 1, k)
              b == SubSeq(s, k + 1, n)
  <1>1. n \in Nat /\ k \in Nat /\ k <= n /\ \A i \in 1 .. n : s[i] \in U
    OBVIOUS
  <1>2. a \in Seq(U) /\ Len(a) = k /\ \A i \in 1 .. k : a[i] = s[i]
    <2>1. \A i \in 1 .. k : s[i] \in U
      BY <1>1
    <2>2. /\ a \in Seq(U) /\ Len(a) = IF 1 <= k THEN k - 1 + 1 ELSE 0
          /\ \A i \in 1 .. k - 1 + 1 : a[i] = s[1 + i - 1]
      BY <1>1, <2>1, SubSeqProperties
    <2>. HIDE DEF a
    <2>. QED
      BY <1>1, <2>2
  <1>3. b \in Seq(U) /\ Len(b) = n - k /\ \A i \in 1 .. n - k : b[i] = s[k + i]
    <2>1. \A i \in k + 1 .. n : s[i] \in U
      BY <1>1
    <2>2. k + 1 \in Int /\ n \in Int
      BY <1>1
    <2>3. /\ b \in Seq(U) /\ Len(b) = IF k + 1 <= n THEN n - (k + 1) + 1 ELSE 0
          /\ \A i \in 1 .. n - (k + 1) + 1 : b[i] = s[k + 1 + i - 1]
      BY <2>1, <2>2, SubSeqProperties
    <2>. HIDE DEF b
    <2>. QED
      BY <1>1, <2>3
  <1>4. /\ \A i, j \in 1 .. n : s[i] = s[j] => i = j
        /\ \A i, j \in 1 .. n : i < j => at[s[i]] <= at[s[j]]
    BY DEF Distinct, Ordered
  <1>. HIDE DEF a, b
  <1>5. \A i \in 1 .. k : i \in 1 .. n
    BY <1>1
  <1>6. \A i \in 1 .. n - k : k + i \in 1 .. n
    BY <1>1
  <1>7. Distinct(a)
    BY <1>2, <1>4, <1>5 DEF Distinct
  <1>8. Distinct(b) /\ Ordered(b, at)
    <2>1. ASSUME NEW i \in 1 .. n - k, NEW j \in 1 .. n - k
          PROVE  (b[i] = b[j] => i = j) /\ (i < j => at[b[i]] <= at[b[j]])
      <3>1. k + i \in 1 .. n /\ k + j \in 1 .. n /\ b[i] = s[k + i] /\ b[j] = s[k + j]
        BY <1>3, <1>6
      <3>2. (k + i = k + j => i = j) /\ (i < j => k + i < k + j)
        BY <1>1
      <3>. QED
        BY <1>4, <3>1, <3>2
    <2>. QED
      BY <1>3, <2>1 DEF Distinct, Ordered
  <1>9. Elements(a) = {s[i] : i \in 1 .. k}
    BY <1>2 DEF Elements
  <1>10. Elements(b) = {s[k + i] : i \in 1 .. n - k}
    BY <1>3 DEF Elements
  <1>11. Elements(s) = {s[i] : i \in 1 .. n}
    BY DEF Elements
  <1>12. Elements(a) \subseteq Elements(s) /\ Elements(b) \subseteq Elements(s)
    BY <1>5, <1>6, <1>9, <1>10, <1>11
  <1>13. Elements(a) \cap Elements(b) = {}
    <2>1. SUFFICES ASSUME NEW i \in 1 .. k, NEW j \in 1 .. n - k, s[i] = s[k + j]
                   PROVE  FALSE
      BY <1>9, <1>10
    <2>2. i = k + j
      BY <1>4, <1>5, <1>6, <2>1
    <2>. QED
      BY <1>1, <2>2
  <1>. QED
    BY <1>2, <1>3, <1>7, <1>8, <1>12, <1>13 DEF a, b

LEMMA HeadTail ==
    ASSUME NEW U, NEW s \in Seq(U), Distinct(s), s # <<>>
    PROVE  /\ Head(s) \in U /\ Head(s) \in Elements(s)
           /\ Tail(s) \in Seq(U) /\ Distinct(Tail(s))
           /\ Elements(Tail(s)) = Elements(s) \ {Head(s)}
  <1>. DEFINE n == Len(s)
              t == Tail(s)
  <1>1. /\ n \in Nat /\ n > 0 /\ Head(s) = s[1] /\ s[1] \in U
        /\ t \in Seq(U) /\ Len(t) = n - 1 /\ \A i \in 1 .. n - 1 : t[i] = s[i + 1]
    OBVIOUS
  <1>2. \A i, j \in 1 .. n : s[i] = s[j] => i = j
    BY DEF Distinct
  <1>. HIDE DEF t
  <1>3. \A i \in 1 .. n - 1 : i + 1 \in 1 .. n /\ i + 1 # 1
    BY <1>1
  <1>4. Distinct(t)
    <2>1. SUFFICES ASSUME NEW i \in 1 .. n - 1, NEW j \in 1 .. n - 1, t[i] = t[j]
                   PROVE  i = j
      BY <1>1 DEF Distinct
    <2>2. i + 1 = j + 1
      BY <1>1, <1>2, <1>3, <2>1
    <2>. QED
      BY <2>2
  <1>5. Elements(t) = {s[i + 1] : i \in 1 .. n - 1} /\ Elements(s) = {s[i] : i \in 1 .. n}
    BY <1>1 DEF Elements
  <1>6. 1 \in 1 .. n
    BY <1>1
  <1>7. ASSUME NEW x \in Elements(s), x # s[1]
        PROVE  x \in Elements(t)
    <2>1. PICK i \in 1 .. n : x = s[i]
      BY <1>5
    <2>2. i - 1 \in 1 .. n - 1 /\ (i - 1) + 1 = i
      BY <1>1, <1>7, <2>1
    <2>. QED
      BY <1>5, <2>1, <2>2
  <1>8. ASSUME NEW x \in Elements(t)
        PROVE  x \in Elements(s) /\ x # s[1]
    <2>1. PICK i \in 1 .. n - 1 : x = s[i + 1]
      BY <1>5
    <2>. QED
      BY <1>2, <1>3, <1>5, <1>6, <2>1
  <1>. QED
    BY <1>1, <1>4, <1>5, <1>6, <1>7, <1>8 DEF t


(***************************************************************************)
(* The inductive invariant.                                                *)
(***************************************************************************)

\* An event waits in one place: in the multimap or, inside onTimer's first loops,
\* among the events to be looked at.
OnePlace ==
    /\ \A e \in Elements(tmps) : e \notin Elements(pending)
    /\ pc # "add" => tmps = <<>>

TInv == TypeOK /\ OnePlace /\ DeletedIsGone

\* The timerfd will expire or has expired...
Armed == pending # <<>> => expired \/ remaining > 0

\* ...and soon enough for the first event.
Latest(time) == IF time > Retry THEN time ELSE Retry
Timely == pending # <<>> /\ ~expired => remaining <= Latest(arrive[Head(pending)])

LEMMA NoElements == Elements(<<>>) = {} /\ Distinct(<<>>) /\ \A at : Ordered(<<>>, at)
  <1>1. 1 .. Len(<<>>) = {}
    BY EmptySeq
  <1>. QED
    BY <1>1 DEF Elements, Distinct, Ordered

\* An order that depends only on the times of the members.
LEMMA OrderedSame ==
    ASSUME NEW U, NEW s \in Seq(U), NEW at, NEW bt, Ordered(s, at),
           \A x \in Elements(s) : at[x] = bt[x]
    PROVE  Ordered(s, bt)
  <1>1. \A i \in 1 .. Len(s) : s[i] \in Elements(s)
    BY DEF Elements
  <1>. QED
    BY <1>1 DEF Ordered

\* resetArriveTime always arms the timerfd, even for an event that has arrived.
LEMMA ResetArms ==
    ASSUME NEW s \in Seq(Events), s # <<>>, NEW at \in [Events -> Int],
           ResetArriveTime(s, at)
    PROVE  /\ remaining' \in Nat /\ remaining' > 0 /\ expired' = FALSE
           /\ remaining' <= Latest(at[Head(s)])
  <1>1. at[Head(s)] \in Int
    <2>1. Head(s) \in Events
      OBVIOUS
    <2>. QED
      BY <2>1
  <1>2. remaining' = Delay(at[Head(s)]) /\ expired' = FALSE
    BY DEF ResetArriveTime
  <1>. DEFINE time == at[Head(s)]
  <1>. HIDE DEF time
  <1>3. time \in Int /\ remaining' = Delay(time)
    BY <1>1, <1>2 DEF time
  <1>4. remaining' \in Nat /\ remaining' > 0 /\ remaining' <= Latest(time)
    BY <1>3, RetryAssumption DEF Delay, Latest
  <1>. QED
    BY <1>2, <1>4 DEF time

\* addTimerEvent, after the arrival time of an event that is not pending was set.
LEMMA AddKeeps ==
    ASSUME TypeOK, NEW e \in Events, e \notin Elements(pending),
           arrive' = [arrive EXCEPT ![e] = Interval[e]], AddTimerEvent(e, arrive')
    PROVE  /\ pending' \in Seq(Events) /\ Distinct(pending') /\ Ordered(pending', arrive')
           /\ Elements(pending') = Elements(pending) \cup {e}
           /\ arrive' \in [Events -> Int]
           /\ remaining' \in Nat /\ expired' \in BOOLEAN
           /\ Armed => Armed'
           /\ Timely => Timely'
  <1>1. /\ pending \in Seq(Events) /\ Distinct(pending) /\ Ordered(pending, arrive)
        /\ arrive \in [Events -> Int] /\ remaining \in Nat /\ expired \in BOOLEAN
    BY DEF TypeOK
  <1>2. arrive' \in [Events -> Int]
    <2>1. Interval[e] \in Int
      BY EventsAssumption
    <2>. QED
      BY <1>1, <2>1
  <1>3. \A x \in Elements(pending) : arrive[x] = arrive'[x]
    <2>1. Elements(pending) \subseteq Events
      BY <1>1 DEF Elements
    <2>. QED
      BY <1>1, <2>1
  <1>4. Ordered(pending, arrive')
    BY <1>1, <1>3, OrderedSame
  <1>5. /\ pending' = Emplace(pending, e, arrive')
        /\ IF BecomesFirst(pending, e, arrive') THEN ResetArriveTime(pending', arrive')
           ELSE UNCHANGED <<remaining, expired>>
    BY DEF AddTimerEvent
  <1>6. /\ pending' \in Seq(Events) /\ pending' # <<>>
        /\ Distinct(pending') /\ Ordered(pending', arrive')
        /\ Elements(pending') = Elements(pending) \cup {e}
        /\ pending # <<>> /\ arrive'[Head(pending)] <= arrive'[e] => Head(pending') = Head(pending)
    <2>1. PICK at \in [Events -> Int] : at = arrive'
      BY <1>2
    <2>2. Ordered(pending, at) /\ pending' = Emplace(pending, e, at)
      BY <1>4, <1>5, <2>1
    <2>3. /\ Emplace(pending, e, at) \in Seq(Events)
          /\ IsEmplaced(Emplace(pending, e, at), pending, e, at)
      BY <1>1, <2>2, EmplaceFacts
    <2>4. pending' \in Seq(Events) /\ IsEmplaced(pending', pending, e, at)
      BY <2>2, <2>3
    <2>. QED
      BY <2>1, <2>4 DEF IsEmplaced
  <1>7. CASE BecomesFirst(pending, e, arrive')
    <2>1. /\ remaining' \in Nat /\ remaining' > 0 /\ expired' = FALSE
          /\ remaining' <= Latest(arrive'[Head(pending')])
      BY <1>2, <1>5, <1>6, <1>7, ResetArms
    <2>2. Armed' /\ Timely'
      BY <2>1 DEF Armed, Timely
    <2>. QED
      BY <1>2, <1>6, <2>1, <2>2
  <1>8. CASE ~BecomesFirst(pending, e, arrive')
    <2>1. remaining' = remaining /\ expired' = expired
      BY <1>5, <1>8
    <2>2. pending # <<>> /\ ~ (arrive'[Head(pending)] > arrive'[e])
      BY <1>8 DEF BecomesFirst
    <2>3. Head(pending) \in Events /\ Head(pending) \in Elements(pending)
      BY <1>1, <2>2, HeadTail
    <2>4. Head(pending') = Head(pending)
      <3>1. arrive'[Head(pending)] \in Int /\ arrive'[e] \in Int
        BY <1>2, <2>3
      <3>. QED
        BY <1>6, <2>2, <3>1
    <2>5. arrive'[Head(pending')] = arrive[Head(pending)]
      BY <1>3, <2>3, <2>4
    <2>6. Armed => Armed'
      BY <2>1, <2>2 DEF Armed
    <2>7. Timely => Timely'
      BY <2>1, <2>2, <2>5 DEF Timely
    <2>. QED
      BY <1>1, <1>2, <1>6, <2>1, <2>6, <2>7
  <1>. QED
    BY <1>7, <1>8


SInv == TInv /\ AlwaysArmed /\ InTime

LEMMA InvIsSo ==
    /\ AlwaysArmed <=> (Application => Armed)
    /\ InTime <=> (Application /\ settings = 0 => Timely)
  BY DEF AlwaysArmed, InTime, Armed, Timely, Latest

LEMMA InvIsSoNext ==
    /\ AlwaysArmed' <=> (Application' => Armed')
    /\ InTime' <=> (Application' /\ settings' = 0 => Timely')
  BY DEF AlwaysArmed, InTime, Armed, Timely, Latest

LEMMA InitSInv == Init => SInv
  <1>. SUFFICES ASSUME Init PROVE SInv
    OBVIOUS
  <1>1. pending = <<>> /\ tmps = <<>> /\ tasks = <<>> /\ canceled = {} /\ pc = "loop"
    BY DEF Init
  <1>2. <<>> \in Seq(Events)
    BY EmptySeq
  <1>3. remaining \in Nat /\ expired \in BOOLEAN /\ arrive \in [Events -> Int]
        /\ settings \in 0 .. MaxSettings
    <2>1. MaxSettings \in Nat
      BY ClockAssumption
    <2>2. settings \in 0 .. MaxSettings
      BY <2>1 DEF Init
    <2>3. arrive \in [Events -> Int]
      BY DEF Init
    <2>4. remaining \in Nat
      BY DEF Init
    <2>5. expired \in BOOLEAN
      BY DEF Init
    <2>. QED
      BY <2>2, <2>3, <2>4, <2>5
  <1>4. TypeOK
    BY <1>1, <1>2, <1>3, NoElements DEF TypeOK
  <1>5. OnePlace /\ DeletedIsGone
    BY <1>1, NoElements DEF OnePlace, DeletedIsGone
  <1>6. AlwaysArmed /\ InTime
    BY <1>1 DEF AlwaysArmed, InTime
  <1>. QED
    BY <1>4, <1>5, <1>6 DEF SInv, TInv

\* Steps of the application leave no events to be looked at.
LEMMA NothingCollected ==
    ASSUME TInv, Application
    PROVE  pc \in {"loop", "run"} /\ tmps = <<>> /\ Elements(tmps) = {}
  BY NoElements DEF TInv, OnePlace, Application

LEMMA AddSInv ==
    ASSUME SInv, NEW e \in Events, Add(e)
    PROVE  SInv'
  <1>1. TypeOK /\ TInv /\ Application
    BY DEF SInv, TInv, Add
  <1>2. e \notin Elements(pending) /\ e \notin canceled'
        /\ canceled' = canceled \ {e} /\ tmps' = tmps /\ tasks' = tasks /\ pc' = pc
        /\ settings' = settings
        /\ arrive' = [arrive EXCEPT ![e] = Interval[e]] /\ AddTimerEvent(e, arrive')
    BY DEF Add, Idle
  <1>3. /\ pending' \in Seq(Events) /\ Distinct(pending') /\ Ordered(pending', arrive')
        /\ Elements(pending') = Elements(pending) \cup {e}
        /\ arrive' \in [Events -> Int]
        /\ remaining' \in Nat /\ expired' \in BOOLEAN
        /\ Armed => Armed'
        /\ Timely => Timely'
    BY <1>1, <1>2, AddKeeps
  <1>4. pc \in {"loop", "run"} /\ tmps = <<>> /\ Elements(tmps) = {}
    BY <1>1, NothingCollected
  <1>5. TypeOK'
    BY <1>1, <1>2, <1>3 DEF TypeOK
  <1>6. OnePlace'
    BY <1>2, <1>4 DEF OnePlace
  <1>7. DeletedIsGone'
    BY <1>1, <1>2, <1>3, <1>4 DEF TInv, DeletedIsGone
  <1>8. AlwaysArmed' /\ InTime'
    BY <1>1, <1>2, <1>3, InvIsSo, InvIsSoNext DEF SInv, Application
  <1>. QED
    BY <1>5, <1>6, <1>7, <1>8 DEF SInv, TInv

LEMMA DeleteSInv ==
    ASSUME SInv, NEW e \in Events, Delete(e)
    PROVE  SInv'
  <1>1. TypeOK /\ TInv /\ Application
    BY DEF SInv, TInv, Delete
  <1>2. /\ pending \in Seq(Events) /\ Distinct(pending) /\ Ordered(pending, arrive)
        /\ arrive \in [Events -> Int] /\ Elements(pending) \subseteq Events
    BY <1>1 DEF TypeOK, Elements
  <1>3. pending' = Kept(pending, Events \ {e}) /\ canceled' = canceled \cup {e}
        /\ UNCHANGED <<arrive, remaining, expired, pc, tmps, tasks, settings>>
    BY DEF Delete, Erase
  <1>4. /\ pending' \in Seq(Events) /\ Distinct(pending') /\ Ordered(pending', arrive)
        /\ Elements(pending') = Elements(pending) \ {e}
    BY <1>2, <1>3, KeptFacts
  <1>5. pending' # <<>> => pending # <<>> /\ arrive[Head(pending)] <= arrive[Head(pending')]
    BY <1>2, <1>3, KeptHead
  <1>6. pc \in {"loop", "run"} /\ tmps = <<>> /\ Elements(tmps) = {}
    BY <1>1, NothingCollected
  <1>7. TypeOK'
    BY <1>1, <1>3, <1>4 DEF TypeOK
  <1>8. OnePlace'
    BY <1>3, <1>6 DEF OnePlace
  <1>9. DeletedIsGone'
    BY <1>1, <1>3, <1>4, <1>6 DEF TInv, DeletedIsGone
  <1>10. Armed => Armed'
    BY <1>3, <1>5 DEF Armed
  <1>11. ASSUME Timely
         PROVE  Timely'
    <2>1. SUFFICES ASSUME pending' # <<>>, ~expired
                   PROVE  remaining <= Latest(arrive[Head(pending')])
      BY <1>3 DEF Timely
    <2>2. Head(pending') \in Events /\ Head(pending) \in Events
      BY <1>2, <1>4, <1>5, <2>1
    <2>3. PICK a \in Int, b \in Int : a = arrive[Head(pending)] /\ b = arrive[Head(pending')]
      BY <1>2, <2>2
    <2>4. a <= b /\ remaining <= Latest(a)
      BY <1>5, <1>11, <2>1, <2>3 DEF Timely
    <2>5. remaining \in Nat
      BY <1>1 DEF TypeOK
    <2>6. remaining <= Latest(b)
      BY <2>4, <2>5, RetryAssumption DEF Latest
    <2>. QED
      BY <2>3, <2>6
  <1>12. AlwaysArmed' /\ InTime'
    BY <1>1, <1>3, <1>10, <1>11, InvIsSo, InvIsSoNext DEF SInv, Application
  <1>. QED
    BY <1>7, <1>8, <1>9, <1>12 DEF SInv, TInv

LEMMA OnTimerSInv ==
    ASSUME SInv, OnTimer
    PROVE  SInv'
  <1>1. TypeOK /\ TInv
    BY DEF SInv, TInv
  <1>2. /\ pending \in Seq(Events) /\ Distinct(pending) /\ Ordered(pending, arrive)
        /\ arrive \in [Events -> Int]
    BY <1>1 DEF TypeOK
  <1>. DEFINE due == UpTo(pending, arrive, 0)
              gone == SubSeq(pending, 1, due)
              rest == SubSeq(pending, due + 1, Len(pending))
              live == Kept(gone, Events \ canceled)
  <1>3. due \in 0 .. Len(pending)
    BY <1>2, UpToIs
  <1>4. pending' = rest /\ tmps' = live /\ tasks' = live /\ pc' = "add" /\ expired' = FALSE
        /\ UNCHANGED <<arrive, canceled, remaining, settings>>
    BY DEF OnTimer
  <1>5. /\ gone \in Seq(Events) /\ Distinct(gone) /\ Elements(gone) \subseteq Elements(pending)
        /\ rest \in Seq(Events) /\ Distinct(rest) /\ Ordered(rest, arrive)
        /\ Elements(rest) \subseteq Elements(pending)
        /\ Elements(gone) \cap Elements(rest) = {}
    <2>. HIDE DEF due
    <2>. QED
      BY <1>2, <1>3, DroppedFacts
  <1>. HIDE DEF gone, rest
  <1>6. /\ live \in Seq(Events) /\ Distinct(live)
        /\ Elements(live) = Elements(gone) \cap (Events \ canceled)
    BY <1>5, KeptFacts
  <1>. HIDE DEF live
  <1>7. TypeOK'
    BY <1>1, <1>4, <1>5, <1>6 DEF TypeOK
  <1>8. OnePlace'
    BY <1>4, <1>5, <1>6 DEF OnePlace
  <1>9. DeletedIsGone'
    BY <1>1, <1>4, <1>5, <1>6 DEF TInv, DeletedIsGone
  <1>10. AlwaysArmed' /\ InTime'
    BY <1>4, InvIsSoNext DEF Application
  <1>. QED
    BY <1>7, <1>8, <1>9, <1>10 DEF SInv, TInv

LEMMA AddAgainSInv ==
    ASSUME SInv, AddAgain
    PROVE  SInv'
  <1>1. TypeOK /\ TInv
    BY DEF SInv, TInv
  <1>2. /\ tmps \in Seq(Events) /\ Distinct(tmps) /\ tmps # <<>> /\ pc = "add"
        /\ tmps' = Tail(tmps) /\ UNCHANGED <<canceled, pc, tasks, settings>>
    BY <1>1 DEF TypeOK, AddAgain
  <1>3. PICK e \in Events : /\ e = Head(tmps) /\ e \in Elements(tmps)
    BY <1>2, HeadTail
  <1>4. /\ tmps' \in Seq(Events) /\ Distinct(tmps')
        /\ Elements(tmps') = Elements(tmps) \ {e}
    BY <1>2, <1>3, HeadTail
  <1>5. e \notin Elements(pending) /\ e \notin canceled
    BY <1>1, <1>3 DEF TInv, OnePlace, DeletedIsGone
  <1>6. CASE e \in Repeated
    <2>1. arrive' = [arrive EXCEPT ![e] = Interval[e]] /\ AddTimerEvent(e, arrive')
      BY <1>3, <1>6 DEF AddAgain
    <2>2. /\ pending' \in Seq(Events) /\ Distinct(pending') /\ Ordered(pending', arrive')
          /\ Elements(pending') = Elements(pending) \cup {e}
          /\ arrive' \in [Events -> Int]
          /\ remaining' \in Nat /\ expired' \in BOOLEAN
      BY <1>1, <1>5, <2>1, AddKeeps
    <2>3. TypeOK'
      BY <1>1, <1>2, <1>4, <2>2 DEF TypeOK
    <2>4. OnePlace'
      BY <1>1, <1>2, <1>4, <2>2 DEF TInv, OnePlace
    <2>5. DeletedIsGone'
      BY <1>1, <1>2, <1>4, <1>5, <2>2 DEF TInv, DeletedIsGone
    <2>6. AlwaysArmed' /\ InTime'
      BY <1>2, InvIsSoNext DEF Application
    <2>. QED
      BY <2>3, <2>4, <2>5, <2>6 DEF SInv, TInv
  <1>7. CASE e \notin Repeated
    <2>1. UNCHANGED <<pending, arrive, remaining, expired>>
      BY <1>3, <1>7 DEF AddAgain
    <2>2. TypeOK'
      BY <1>1, <1>2, <1>4, <2>1 DEF TypeOK
    <2>3. OnePlace'
      BY <1>1, <1>2, <1>4, <2>1 DEF TInv, OnePlace
    <2>4. DeletedIsGone'
      BY <1>1, <1>2, <1>4, <2>1 DEF TInv, DeletedIsGone
    <2>5. AlwaysArmed' /\ InTime'
      BY <1>2, InvIsSoNext DEF Application
    <2>. QED
      BY <2>2, <2>3, <2>4, <2>5 DEF SInv, TInv
  <1>. QED
    BY <1>6, <1>7


LEMMA ResetSInv ==
    ASSUME SInv, Reset
    PROVE  SInv'
  <1>1. TypeOK /\ TInv
    BY DEF SInv, TInv
  <1>2. /\ ResetArriveTime(pending, arrive) /\ pc = "add" /\ pc' = "run"
        /\ tmps = <<>> /\ tmps' = <<>>
        /\ UNCHANGED <<pending, arrive, canceled, tasks, settings>>
    BY DEF Reset
  <1>3. /\ pending \in Seq(Events) /\ arrive \in [Events -> Int]
        /\ remaining \in Nat /\ expired \in BOOLEAN
    BY <1>1 DEF TypeOK
  <1>4. remaining' \in Nat /\ expired' \in BOOLEAN /\ Armed' /\ Timely'
    <2>1. CASE pending = <<>>
      BY <1>2, <1>3, <2>1 DEF ResetArriveTime, Armed, Timely
    <2>2. CASE pending # <<>>
      <3>1. /\ remaining' \in Nat /\ remaining' > 0 /\ expired' = FALSE
            /\ remaining' <= Latest(arrive[Head(pending)])
        BY <1>2, <1>3, <2>2, ResetArms
      <3>. QED
        BY <1>2, <3>1 DEF Armed, Timely
    <2>. QED
      BY <2>1, <2>2
  <1>5. TypeOK'
    BY <1>1, <1>2, <1>4 DEF TypeOK
  <1>6. OnePlace'
    BY <1>2, NoElements DEF OnePlace
  <1>7. DeletedIsGone'
    BY <1>1, <1>2 DEF TInv, DeletedIsGone
  <1>8. AlwaysArmed' /\ InTime'
    BY <1>4, InvIsSoNext
  <1>. QED
    BY <1>5, <1>6, <1>7, <1>8 DEF SInv, TInv

LEMMA RunSInv ==
    ASSUME SInv, RunTask \/ Return
    PROVE  SInv'
  <1>1. TypeOK /\ TInv
    BY DEF SInv, TInv
  <1>2. /\ UNCHANGED <<pending, arrive, canceled, remaining, expired, tmps, settings>>
        /\ pc = "run" /\ pc' \in {"run", "loop"}
    BY DEF RunTask, Return
  <1>3. tasks' \in Seq(Events) /\ Distinct(tasks')
    <2>1. CASE RunTask
      BY <1>1, <2>1, HeadTail DEF RunTask, TypeOK
    <2>2. CASE Return
      BY <1>1, <2>2 DEF Return, TypeOK
    <2>. QED
      BY <2>1, <2>2
  <1>4. TypeOK'
    BY <1>1, <1>2, <1>3 DEF TypeOK
  <1>5. OnePlace' /\ DeletedIsGone'
    BY <1>1, <1>2 DEF TInv, OnePlace, DeletedIsGone
  <1>6. (Armed => Armed') /\ (Timely => Timely')
    BY <1>2 DEF Armed, Timely
  <1>7. AlwaysArmed' /\ InTime'
    BY <1>2, <1>6, InvIsSo, InvIsSoNext DEF SInv, Application
  <1>. QED
    BY <1>4, <1>5, <1>7 DEF SInv, TInv

\* However far the wall clock moves, the order of the arrival times stays.
LEMMA LaterKeeps ==
    ASSUME TypeOK, NEW by \in Int, Later(by)
    PROVE  /\ arrive' \in [Events -> Int]
           /\ \A e \in Events :
                arrive'[e] = IF arrive[e] - by < -MaxLag THEN -MaxLag ELSE arrive[e] - by
           /\ Ordered(pending, arrive')
  <1>1. MaxLag \in Nat /\ arrive \in [Events -> Int] /\ pending \in Seq(Events)
        /\ Ordered(pending, arrive)
    BY ClockAssumption DEF TypeOK
  <1>2. arrive' = [e \in Events |->
                     IF arrive[e] - by < -MaxLag THEN -MaxLag ELSE arrive[e] - by]
    BY DEF Later
  <1>3. arrive' \in [Events -> Int]
    BY <1>1, <1>2
  <1>4. ASSUME NEW i \in 1 .. Len(pending), NEW j \in 1 .. Len(pending), i < j
        PROVE  arrive'[pending[i]] <= arrive'[pending[j]]
    <2>1. pending[i] \in Events /\ pending[j] \in Events
      BY <1>1
    <2>2. PICK a \in Int, b \in Int : a = arrive[pending[i]] /\ b = arrive[pending[j]]
      BY <1>1, <2>1
    <2>3. a <= b
      BY <1>1, <1>4, <2>2 DEF Ordered
    <2>4. /\ arrive'[pending[i]] = IF a - by < -MaxLag THEN -MaxLag ELSE a - by
          /\ arrive'[pending[j]] = IF b - by < -MaxLag THEN -MaxLag ELSE b - by
      BY <1>2, <2>1, <2>2
    <2>. QED
      BY <1>1, <2>3, <2>4
  <1>5. Ordered(pending, arrive')
    BY <1>4 DEF Ordered
  <1>. QED
    BY <1>2, <1>3, <1>5

LEMMA TickSInv ==
    ASSUME SInv, Tick
    PROVE  SInv'
  <1>1. TypeOK /\ TInv
    BY DEF SInv, TInv
  <1>2. /\ Later(1)
        /\ remaining' = IF remaining > 0 THEN remaining - 1 ELSE 0
        /\ expired' = (expired \/ remaining = 1)
        /\ UNCHANGED <<pending, canceled, pc, tmps, tasks, settings>>
    BY DEF Tick
  <1>3. /\ arrive' \in [Events -> Int]
        /\ \A e \in Events :
             arrive'[e] = IF arrive[e] - 1 < -MaxLag THEN -MaxLag ELSE arrive[e] - 1
        /\ Ordered(pending, arrive')
    BY <1>1, <1>2, LaterKeeps
  <1>4. remaining \in Nat /\ expired \in BOOLEAN /\ pending \in Seq(Events)
        /\ arrive \in [Events -> Int]
    BY <1>1 DEF TypeOK
  <1>5. remaining' \in Nat /\ expired' \in BOOLEAN
    BY <1>2, <1>4
  <1>6. TypeOK'
    BY <1>1, <1>2, <1>3, <1>5 DEF TypeOK
  <1>7. OnePlace' /\ DeletedIsGone'
    BY <1>1, <1>2 DEF TInv, OnePlace, DeletedIsGone
  <1>8. ASSUME Armed
        PROVE  Armed'
    <2>1. SUFFICES ASSUME pending # <<>>, ~expired'
                   PROVE  remaining' > 0
      BY <1>2 DEF Armed
    <2>2. ~expired /\ remaining # 1 /\ remaining > 0
      BY <1>2, <1>8, <2>1 DEF Armed
    <2>. QED
      BY <1>2, <1>4, <2>2
  <1>9. ASSUME Timely
        PROVE  Timely'
    <2>1. SUFFICES ASSUME pending # <<>>, ~expired'
                   PROVE  remaining' <= Latest(arrive'[Head(pending)])
      BY <1>2 DEF Timely
    <2>2. Head(pending) \in Events
      BY <1>4, <2>1
    <2>3. PICK a \in Int, b \in Int : a = arrive[Head(pending)] /\ b = arrive'[Head(pending)]
      BY <1>3, <1>4, <2>2
    <2>4. b = IF a - 1 < -MaxLag THEN -MaxLag ELSE a - 1
      BY <1>3, <2>2, <2>3
    <2>5. remaining <= Latest(a)
      BY <1>2, <1>9, <2>1, <2>3 DEF Timely
    <2>6. MaxLag \in Nat /\ Retry \in Nat /\ Retry > 0
      BY ClockAssumption, RetryAssumption
    <2>7. remaining' <= Latest(b)
      BY <1>2, <1>4, <2>4, <2>5, <2>6 DEF Latest
    <2>. QED
      BY <2>3, <2>7
  <1>10. AlwaysArmed' /\ InTime'
    BY <1>2, <1>8, <1>9, InvIsSo, InvIsSoNext DEF SInv, Application
  <1>. QED
    BY <1>6, <1>7, <1>10 DEF SInv, TInv

LEMMA SetClockSInv ==
    ASSUME SInv, SetClock
    PROVE  SInv'
  <1>1. TypeOK /\ TInv
    BY DEF SInv, TInv
  <1>2. /\ settings < MaxSettings /\ settings' = settings + 1
        /\ UNCHANGED <<pending, canceled, remaining, expired, pc, tmps, tasks>>
    BY DEF SetClock
  <1>3. PICK by \in Int : Later(by)
    BY ClockAssumption DEF SetClock
  <1>4. arrive' \in [Events -> Int] /\ Ordered(pending, arrive')
    BY <1>1, <1>3, LaterKeeps
  <1>5. settings' \in 0 .. MaxSettings /\ settings' # 0
    BY <1>1, <1>2, ClockAssumption DEF TypeOK
  <1>6. TypeOK'
    BY <1>1, <1>2, <1>4, <1>5 DEF TypeOK
  <1>7. OnePlace' /\ DeletedIsGone'
    BY <1>1, <1>2 DEF TInv, OnePlace, DeletedIsGone
  <1>8. Armed => Armed'
    BY <1>2 DEF Armed
  <1>9. AlwaysArmed' /\ InTime'
    BY <1>2, <1>5, <1>8, InvIsSo, InvIsSoNext DEF SInv, Application
  <1>. QED
    BY <1>6, <1>7, <1>9 DEF SInv, TInv

LEMMA NextSInv == SInv /\ [Next]_vars => SInv'
  <1>. SUFFICES ASSUME SInv, [Next]_vars
                PROVE  SInv'
    OBVIOUS
  <1>1. CASE LoopStep
    BY <1>1, OnTimerSInv, AddAgainSInv, ResetSInv, RunSInv DEF LoopStep
  <1>2. CASE UNCHANGED vars
    BY <1>2 DEF vars, SInv, TInv, TypeOK, OnePlace, DeletedIsGone, AlwaysArmed, InTime,
                Application
  <1>. QED
    BY <1>1, <1>2, AddSInv, DeleteSInv, TickSInv, SetClockSInv DEF Next

LEMMA AlwaysSInv == Spec => []SInv
  BY InitSInv, NextSInv, PTL DEF Spec

\* The multimap stays ordered by arrival time, whatever the clock does, and no
\* event is in it, or collected from it, twice.
THEOREM TypeCorrect == Spec => []TypeOK
  <1>1. SInv => TypeOK
    BY DEF SInv, TInv
  <1>. QED
    BY <1>1, AlwaysSInv, PTL

\* Whatever is added, deleted, repeated or late, the loop does not go to sleep
\* with events pending and the timerfd disarmed.
THEOREM StaysArmed == Spec => []AlwaysArmed
  <1>1. SInv => AlwaysArmed
    BY DEF SInv
  <1>. QED
    BY <1>1, AlwaysSInv, PTL

\* As long as nobody sets the clock, it expires in time for the first event.
THEOREM ExpiresInTime == Spec => []InTime
  <1>1. SInv => InTime
    BY DEF SInv
  <1>. QED
    BY <1>1, AlwaysSInv, PTL

\* An event that was deleted is neither pending nor about to be added again.
THEOREM DeletedStaysGone == Spec => []DeletedIsGone
  <1>1. SInv => DeletedIsGone
    BY DEF SInv, TInv
  <1>. QED
    BY <1>1, AlwaysSInv, PTL
=============================================================================
