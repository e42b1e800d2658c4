---------------------------- MODULE InductionLemmas ----------------------------
(***************************************************************************)
(* Induction over the naturals stated with a set instead of a predicate,   *)
(* so that the provers can use it, and what follows from it: a loop over   *)
(* 1 .. n computes a value after each of its turns, sequences put together *)
(* by \o and FlattenSeq have the elements they are made of, things have    *)
(* one falling order, and the parts of a finite set add up.                *)
(***************************************************************************)
EXTENDS Integers, Sequences, SequencesExt, WellFoundedInduction, FiniteSetTheorems, TLAPS

\* A set of naturals that has 0 and is closed under successor has them all.
LEMMA NaturalsBySets ==
  ASSUME NEW S, 0 \in S, \A n \in Nat : n \in S => n + 1 \in S
  PROVE  \A n \in Nat : n \in S
  <1> DEFINE T == Nat \ S
             R == OpToRel(<, Nat)
  <1> SUFFICES ASSUME T # {} PROVE FALSE
    OBVIOUS
  <1>1. PICK x \in T : \A y \in T : ~ (<<y, x>> \in R)
    <2>1. IsWellFoundedOn(R, Nat)
      BY NatLessThanWellFounded
    <2>2. T \subseteq Nat
      OBVIOUS
    <2> HIDE DEF R, T
    <2>3. QED BY <2>1, <2>2, WFMin
  <1>2. x \in Nat /\ x # 0
    OBVIOUS
  <1>3. x - 1 \in Nat /\ x - 1 < x /\ x - 1 + 1 = x
    BY <1>2
  <1>4. <<x - 1, x>> \in R
    BY <1>2, <1>3 DEF OpToRel
  <1>5. x - 1 \in S
    BY <1>1, <1>3, <1>4
  <1>6. QED
    BY <1>2, <1>3, <1>5

\* The same for the first n naturals.
LEMMA TurnsBySets ==
  ASSUME NEW n \in Nat, NEW S, 0 \in S, \A k \in 0 .. n - 1 : k \in S => k + 1 \in S
  PROVE  \A k \in 0 .. n : k \in S
  <1> DEFINE T == {k \in Nat : k <= n => k \in S}
  <1>1. 0 \in T
    OBVIOUS
  <1>2. ASSUME NEW k \in Nat, k \in T PROVE k + 1 \in T
    BY <1>2
  <1>3. \A k \in Nat : k \in T
    <2> HIDE DEF T
    <2>1. QED BY <1>1, <1>2, NaturalsBySets
  <1>4. QED BY <1>3

\* f[k] is what a loop has computed from base after its first k turns.
LoopValues(f, n, S, base, turn) ==
  /\ f \in [0 .. n -> S] /\ f[0] = base
  /\ \A k \in 1 .. n : f[k] = turn[<<f[k - 1], k>>]

\* A loop whose turn takes a value of S to a value of S has a value after each turn.
LEMMA LoopHasValues ==
  ASSUME NEW n \in Nat, NEW S, NEW base \in S, NEW turn \in [S \X (1 .. n) -> S]
  PROVE  \E f : LoopValues(f, n, S, base, turn)
  <1> DEFINE Values(f, k) == /\ f \in [0 .. k -> S] /\ f[0] = base
                             /\ \A j \in 1 .. k : f[j] = turn[<<f[j - 1], j>>]
             T == {k \in 0 .. n : \E f : Values(f, k)}
  <1>1. 0 \in T
    <2>1. Values([j \in 0 .. 0 |-> base], 0)
      OBVIOUS
    <2> HIDE DEF Values
    <2>2. QED BY <2>1
  <1>2. ASSUME NEW k \in 0 .. n - 1, k \in T PROVE k + 1 \in T
    <2>1. PICK f : Values(f, k)
      BY <1>2
    <2> DEFINE g == [j \in 0 .. k + 1 |-> IF j = k + 1 THEN turn[<<f[k], k + 1>>] ELSE f[j]]
    <2>2. f[k] \in S /\ k + 1 \in 1 .. n
      BY <2>1
    <2>3. turn[<<f[k], k + 1>>] \in S
      BY <2>2
    <2>4. g \in [0 .. k + 1 -> S] /\ g[0] = base
      BY <2>1, <2>3
    <2>5. ASSUME NEW j \in 1 .. k + 1 PROVE g[j] = turn[<<g[j - 1], j>>]
      <3>1. CASE j = k + 1
        <4>1. j - 1 = k /\ j - 1 \in 0 .. k + 1 /\ j - 1 # k + 1
          BY <3>1
        <4>2. g[j - 1] = f[k] /\ g[j] = turn[<<f[k], k + 1>>]
          BY <4>1, <3>1
        <4>3. QED BY <4>2, <3>1
      <3>2. CASE j # k + 1
        <4>1. j \in 1 .. k /\ j - 1 \in 0 .. k
          BY <3>2
        <4>2. g[j] = f[j] /\ g[j - 1] = f[j - 1]
          BY <4>1
        <4>3. QED BY <4>1, <4>2, <2>1
      <3>3. QED BY <3>1, <3>2
    <2>6. Values(g, k + 1)
      BY <2>4, <2>5
    <2>7. k + 1 \in 0 .. n
      BY <2>2
    <2> HIDE DEF Values, g
    <2>8. QED BY <2>6, <2>7
  <1>3. n \in T
    <2> HIDE DEF T
    <2>1. QED BY <1>1, <1>2, TurnsBySets
  <1>4. QED BY <1>3 DEF LoopValues

(***************************************************************************)
(* What sequences that are put together hold, as sets of their elements.   *)
(***************************************************************************)
IsSeq(s) == s \in Seq(ToSet(s))

LEMMA SequencesAreSeq ==
  ASSUME NEW S, NEW s \in Seq(S)
  PROVE  /\ IsSeq(s) /\ ToSet(s) \subseteq S
         /\ DOMAIN s = 1 .. Len(s) /\ Len(s) \in Nat
  BY DEF IsSeq, ToSet

LEMMA SeqDomain ==
  ASSUME NEW s, IsSeq(s)
  PROVE  /\ Len(s) \in Nat /\ DOMAIN s = 1 .. Len(s)
         /\ s = [i \in 1 .. Len(s) |-> s[i]]
         /\ \A i \in 1 .. Len(s) : s[i] \in ToSet(s)
  BY DEF IsSeq, ToSet

LEMMA SeqByPlaces ==
  ASSUME NEW n \in Nat, NEW s, s = [i \in 1 .. n |-> s[i]]
  PROVE  IsSeq(s) /\ Len(s) = n /\ DOMAIN s = 1 .. n /\ ToSet(s) = {s[i] : i \in 1 .. n}
  <1>1. DOMAIN s = 1 .. n
    OBVIOUS
  <1>2. s \in [1 .. n -> ToSet(s)]
    BY <1>1 DEF ToSet
  <1>3. s \in Seq(ToSet(s))
    BY <1>2
  <1>4. Len(s) = n
    BY <1>1, <1>3
  <1>5. QED BY <1>1, <1>3, <1>4 DEF IsSeq, ToSet

LEMMA Nothing == IsSeq(<<>>) /\ ToSet(<<>>) = {} /\ Len(<<>>) = 0
  BY DEF IsSeq, ToSet

LEMMA OneElement == ASSUME NEW e PROVE IsSeq(<<e>>) /\ ToSet(<<e>>) = {e} /\ Len(<<e>>) = 1
  BY DEF IsSeq, ToSet

LEMMA Concatenation ==
  ASSUME NEW a, NEW b, IsSeq(a), IsSeq(b)
  PROVE  /\ IsSeq(a \o b) /\ ToSet(a \o b) = ToSet(a) \cup ToSet(b)
         /\ Len(a \o b) = Len(a) + Len(b)
         /\ \A i \in 1 .. Len(a) : (a \o b)[i] = a[i]
         /\ \A i \in 1 .. Len(b) : (a \o b)[Len(a) + i] = b[i]
  <1> DEFINE S == ToSet(a) \cup ToSet(b)
  <1>1. a \in Seq(S) /\ b \in Seq(S)
    <2>1. ASSUME NEW T, NEW s \in Seq(T), T \subseteq S PROVE s \in Seq(S)
      BY <2>1
    <2>2. QED BY <2>1 DEF IsSeq
  <1>2. PICK c : c = a \o b
    OBVIOUS
  <1> HIDE DEF S
  <1>3. /\ c \in Seq(S) /\ Len(c) = Len(a) + Len(b) /\ Len(a) \in Nat /\ Len(b) \in Nat
        /\ \A i \in 1 .. Len(a) : c[i] = a[i]
        /\ \A i \in 1 .. Len(b) : c[Len(a) + i] = b[i]
    BY <1>1, <1>2
  <1>4. DOMAIN c = 1 .. Len(c) /\ DOMAIN a = 1 .. Len(a) /\ DOMAIN b = 1 .. Len(b)
    BY <1>1, <1>3
  <1>5. IsSeq(c) /\ ToSet(c) \subseteq S
    BY <1>3, SequencesAreSeq
  <1>6. \A i \in 1 .. Len(a) : c[i] \in ToSet(c)
    BY <1>3, <1>4 DEF ToSet
  <1>7. \A i \in 1 .. Len(b) : c[Len(a) + i] \in ToSet(c)
    BY <1>3, <1>4 DEF ToSet
  <1>8. ToSet(a) \subseteq ToSet(c) /\ ToSet(b) \subseteq ToSet(c)
    BY <1>3, <1>4, <1>6, <1>7 DEF ToSet
  <1>9. QED BY <1>2, <1>3, <1>5, <1>8 DEF S

\* The sequences f[1], ..., f[n] in a row: what FlattenSeq computes, turn by turn.
LEMMA FlatteningValues ==
  ASSUME NEW n \in Nat, NEW f, f = [i \in 1 .. n |-> f[i]], n # 0, \A i \in 1 .. n : IsSeq(f[i])
  PROVE  \E g : /\ g = [i \in 1 .. n |-> IF i = 1 THEN f[i] ELSE g[i - 1] \o f[i]]
                /\ FlattenSeq(f) = g[n]
  <1> DEFINE Turn(g, i) == IF i = 1 THEN f[i] ELSE g[i - 1] \o f[i]
             Values(g, k) == g = [i \in 1 .. k |-> Turn(g, i)]
             T == {k \in 0 .. n : \E g : Values(g, k)}
  <1>1. 0 \in T
    <2>1. Values([i \in 1 .. 0 |-> 0], 0)
      <3>1. \A i : i \notin 1 .. 0
        OBVIOUS
      <3> HIDE DEF Turn
      <3>2. QED BY <3>1
    <2> HIDE DEF Values
    <2>2. QED BY <2>1
  <1>2. ASSUME NEW k \in 0 .. n - 1, k \in T PROVE k + 1 \in T
    <2>1. PICK g : Values(g, k)
      BY <1>2
    <2> DEFINE h == [i \in 1 .. k + 1 |-> IF i = k + 1 THEN Turn(g, i) ELSE g[i]]
    <2>2. ASSUME NEW i \in 1 .. k + 1 PROVE h[i] = Turn(h, i)
      <3>1. CASE i = k + 1 /\ i = 1
        BY <3>1
      <3>2. CASE i = k + 1 /\ i # 1
        <4>1. i - 1 \in 1 .. k + 1 /\ i - 1 # k + 1
          BY <3>2
        <4>2. h[i - 1] = g[i - 1]
          BY <4>1
        <4>3. QED BY <3>2, <4>2
      <3>3. CASE i # k + 1
        <4>1. i \in 1 .. k /\ h[i] = g[i]
          BY <3>3
        <4>2. g[i] = Turn(g, i)
          BY <4>1, <2>1
        <4>3. i # 1 => i - 1 \in 1 .. k + 1 /\ i - 1 # k + 1
          BY <4>1
        <4>4. i # 1 => h[i - 1] = g[i - 1]
          BY <4>3
        <4>5. QED BY <4>1, <4>2, <4>4
      <3>4. QED BY <3>1, <3>2, <3>3
    <2>3. h = [i \in 1 .. k + 1 |-> h[i]]
      OBVIOUS
    <2> HIDE DEF h
    <2>4. Values(h, k + 1)
      <3> HIDE DEF Turn
      <3>1. [i \in 1 .. k + 1 |-> h[i]] = [i \in 1 .. k + 1 |-> Turn(h, i)]
        BY <2>2
      <3>2. QED BY <2>3, <3>1
    <2>5. k + 1 \in 0 .. n
      OBVIOUS
    <2> HIDE DEF Values
    <2>6. QED BY <2>4, <2>5
  <1>3. n \in T
    <2> HIDE DEF T
    <2>1. QED BY <1>1, <1>2, TurnsBySets
  <1>4. PICK g : g = [i \in 1 .. n |-> IF i = 1 THEN f[i] ELSE g[i - 1] \o f[i]]
    BY <1>3
  <1>5. Len(f) = n
    BY SeqByPlaces
  <1> DEFINE F == CHOOSE g_1 : g_1 = [i \in 1 .. n |-> IF i = 1 THEN f[i] ELSE g_1[i - 1] \o f[i]]
  <1>6. F = [i \in 1 .. n |-> IF i = 1 THEN f[i] ELSE F[i - 1] \o f[i]]
    BY <1>4
  <1>7. FlattenSeq(f) = F[n]
    BY <1>5 DEF FlattenSeq
  <1> HIDE DEF F
  <1>8. QED BY <1>6, <1>7

\* FlattenSeq of sequences holds what they hold.
LEMMA Flattening ==
  ASSUME NEW n \in Nat, NEW f, f = [i \in 1 .. n |-> f[i]], \A i \in 1 .. n : IsSeq(f[i])
  PROVE  /\ IsSeq(FlattenSeq(f))
         /\ ToSet(FlattenSeq(f)) = UNION {ToSet(f[i]) : i \in 1 .. n}
  <1>1. CASE n = 0
    <2>1. f = <<>>
      BY <1>1
    <2>2. FlattenSeq(f) = <<>>
      BY <2>1 DEF FlattenSeq
    <2>3. QED BY <1>1, <2>2, Nothing
  <1>2. CASE n # 0
    <2>1. PICK g : /\ g = [i \in 1 .. n |-> IF i = 1 THEN f[i] ELSE g[i - 1] \o f[i]]
                   /\ FlattenSeq(f) = g[n]
      BY <1>2, FlatteningValues
    <2> DEFINE Held(k) == UNION {ToSet(f[i]) : i \in 1 .. k}
               T == {k \in 0 .. n : k # 0 => IsSeq(g[k]) /\ ToSet(g[k]) = Held(k)}
    <2>2. 0 \in T
      OBVIOUS
    <2>3. ASSUME NEW k \in 0 .. n - 1, k \in T PROVE k + 1 \in T
      <3>1. k + 1 \in 1 .. n /\ IsSeq(f[k + 1])
        OBVIOUS
      <3>2. CASE k = 0
        <4>1. g[1] = f[1]
          BY <2>1, <3>1, <3>2
        <4>2. Held(1) = ToSet(f[1])
          OBVIOUS
        <4>3. QED BY <3>1, <3>2, <4>1, <4>2
      <3>3. CASE k # 0
        <4>1. g[k + 1] = g[k] \o f[k + 1]
          <5>1. k + 1 # 1 /\ k + 1 - 1 = k
            BY <3>3
          <5>2. g[k + 1] = IF k + 1 = 1 THEN f[k + 1] ELSE g[k + 1 - 1] \o f[k + 1]
            <6>1. PICK i \in 1 .. n : i = k + 1
              BY <3>1
            <6>2. g[i] = IF i = 1 THEN f[i] ELSE g[i - 1] \o f[i]
              BY <2>1
            <6>3. QED BY <6>1, <6>2
          <5>3. QED BY <5>1, <5>2
        <4>2. IsSeq(g[k]) /\ ToSet(g[k]) = Held(k)
          BY <2>3, <3>3
        <4>3. IsSeq(g[k + 1]) /\ ToSet(g[k + 1]) = Held(k) \cup ToSet(f[k + 1])
          <5> HIDE DEF Held
          <5>1. QED BY <3>1, <4>1, <4>2, Concatenation
        <4>4. Held(k + 1) = Held(k) \cup ToSet(f[k + 1])
          <5>1. \A i : i \in 1 .. k + 1 <=> i \in 1 .. k \/ i = k + 1
            BY <3>1
          <5>2. QED BY <5>1
        <4>5. k + 1 \in 0 .. n
          OBVIOUS
        <4> HIDE DEF Held
        <4>6. QED BY <4>3, <4>4, <4>5
      <3>4. QED BY <3>2, <3>3
    <2>4. n \in T
      <3> HIDE DEF T
      <3>1. QED BY <2>2, <2>3, TurnsBySets
    <2>5. QED BY <1>2, <2>1, <2>4
  <1>3. QED BY <1>1, <1>2

(***************************************************************************)
(* The bounds of a listing.                                                *)
(***************************************************************************)
LEMMA SmallerOfTwo ==
  ASSUME NEW a \in Int, NEW b \in Int
  PROVE  /\ Min({a, b}) \in {a, b} /\ Min({a, b}) <= a /\ Min({a, b}) <= b
         /\ Max({a, b}) \in {a, b} /\ Max({a, b}) >= a /\ Max({a, b}) >= b
  <1>1. CASE a <= b
    <2>1. \E x \in {a, b} : \A y \in {a, b} : x =< y
      BY <1>1
    <2>2. \E x \in {a, b} : \A y \in {a, b} : x >= y
      BY <1>1
    <2>3. QED BY <2>1, <2>2 DEF Min, Max
  <1>2. CASE ~ (a <= b)
    <2>1. \E x \in {a, b} : \A y \in {a, b} : x =< y
      BY <1>2
    <2>2. \E x \in {a, b} : \A y \in {a, b} : x >= y
      BY <1>2
    <2>3. QED BY <2>1, <2>2 DEF Min, Max
  <1>3. QED BY <1>1, <1>2

\* A bound of at least least and at most upper.
LEMMA Bounds ==
  ASSUME NEW n \in Nat, NEW limit \in Int, NEW least \in Nat, NEW upper \in Int
  PROVE  Min({n, Max({least, Min({limit, upper})})}) \in 0 .. n
  <1>1. PICK low : low = Min({limit, upper})
    OBVIOUS
  <1>2. low \in Int
    BY <1>1, SmallerOfTwo
  <1>3. PICK most : most = Max({least, low})
    OBVIOUS
  <1>4. most \in Int /\ most >= 0
    <2>1. Max({least, low}) \in {least, low} /\ Max({least, low}) >= least
      BY <1>2, SmallerOfTwo
    <2>2. QED BY <1>2, <1>3, <2>1
  <1>5. PICK m : m = Min({n, most})
    OBVIOUS
  <1>6. m \in {n, most} /\ m <= n
    BY <1>4, <1>5, SmallerOfTwo
  <1>7. QED BY <1>1, <1>3, <1>4, <1>5, <1>6

\* The first m of n rows.
LEMMA FirstPart ==
  ASSUME NEW n \in Nat, NEW s, s = [i \in 1 .. n |-> s[i]], NEW m \in 0 .. n
  PROVE  Len(s) = n /\ SubSeq(s, 1, m) = [i \in 1 .. m |-> s[i]]
  <1>1. s \in Seq({s[i] : i \in 1 .. n}) /\ Len(s) = n
    OBVIOUS
  <1>2. QED BY <1>1

\* A map from 1 .. n to itself that keeps the order of places leaves each where it is.
LEMMA IncreasingIsIdentity ==
  ASSUME NEW n \in Nat, NEW p \in [1 .. n -> 1 .. n],
         \A i, j \in 1 .. n : i < j => p[i] < p[j]
  PROVE  \A i \in 1 .. n : p[i] = i
  <1> DEFINE Up == {k \in 0 .. n : k # 0 => p[k] >= k}
             Down == {k \in 0 .. n : k # n => p[n - k] <= n - k}
  <1>1. \A k \in 0 .. n : k \in Up
    <2>1. 0 \in Up
      OBVIOUS
    <2>2. ASSUME NEW k \in 0 .. n - 1, k \in Up PROVE k + 1 \in Up
      <3>1. k + 1 \in 1 .. n /\ k + 1 \in 0 .. n /\ p[k + 1] \in 1 .. n
        OBVIOUS
      <3>2. CASE k = 0
        BY <3>1, <3>2
      <3>3. CASE k # 0
        <4>1. k \in 1 .. n /\ p[k] >= k /\ p[k] \in 1 .. n
          BY <2>2, <3>3
        <4>2. p[k] < p[k + 1]
          <5>1. k < k + 1
            OBVIOUS
          <5>2. QED BY <3>1, <4>1, <5>1
        <4>3. p[k + 1] >= k + 1
          BY <3>1, <4>1, <4>2
        <4>4. QED BY <3>1, <4>3
      <3>4. QED BY <3>2, <3>3
    <2> HIDE DEF Up
    <2>3. QED BY <2>1, <2>2, TurnsBySets
  <1>2. \A k \in 0 .. n : k \in Down
    <2>1. 0 \in Down
      <3>1. n # 0 => n \in 1 .. n
        OBVIOUS
      <3>2. n # 0 => p[n] \in 1 .. n
        BY <3>1
      <3>3. n - 0 = n
        OBVIOUS
      <3>4. QED BY <3>2, <3>3
    <2>2. ASSUME NEW k \in 0 .. n - 1, k \in Down PROVE k + 1 \in Down
      <3>1. k + 1 \in 0 .. n
        OBVIOUS
      <3>2. CASE k + 1 = n
        BY <3>1, <3>2
      <3>3. CASE k + 1 # n
        <4>1. PICK a \in Int : a = n - k
          OBVIOUS
        <4>2. PICK b \in Int : b = n - (k + 1)
          OBVIOUS
        <4>3. a \in 1 .. n /\ b \in 1 .. n /\ b < a /\ a = b + 1
          BY <3>3, <4>1, <4>2
        <4>4. p[b] < p[a] /\ p[a] \in 1 .. n /\ p[b] \in 1 .. n
          BY <4>3
        <4>5. p[a] <= a
          <5>1. k # n
            OBVIOUS
          <5>2. QED BY <2>2, <4>1, <5>1
        <4>6. p[b] <= b
          BY <4>3, <4>4, <4>5
        <4>7. QED BY <3>1, <4>2, <4>6
      <3>4. QED BY <3>2, <3>3
    <2> HIDE DEF Down
    <2>3. QED BY <2>1, <2>2, TurnsBySets
  <1>3. TAKE i \in 1 .. n
  <1>4. p[i] >= i
    BY <1>1
  <1>5. p[i] <= i
    <2>1. PICK k \in 0 .. n : k = n - i
      OBVIOUS
    <2>2. k # n /\ n - k = i
      BY <2>1
    <2>3. QED BY <1>2, <2>2
  <1>6. p[i] \in 1 .. n
    OBVIOUS
  <1>7. QED BY <1>4, <1>5, <1>6

Falling(p, n, things, v) ==
  /\ p \in [1 .. n -> things] /\ \A i, j \in 1 .. n : p[i] = p[j] => i = j
  /\ \A i, j \in 1 .. n : i < j => v[p[j]] < v[p[i]]
  /\ \A x \in things : \E j \in 1 .. n : p[j] = x

\* Two ways to put the same things into falling order are the same.
LEMMA OneOrder ==
  ASSUME NEW n \in Nat, NEW W, NEW v \in [W -> Int], NEW p, Falling(p, n, W, v), NEW q, Falling(q, n, W, v)
  PROVE  p = q
  <1> USE DEF Falling
  <1>1. PICK r : r = [i \in 1 .. n |-> CHOOSE j \in 1 .. n : q[j] = p[i]]
    OBVIOUS
  <1>2. \A i \in 1 .. n : r[i] \in 1 .. n /\ q[r[i]] = p[i]
    <2>1. ASSUME NEW i \in 1 .. n PROVE r[i] \in 1 .. n /\ q[r[i]] = p[i]
      <3>1. p[i] \in W
        OBVIOUS
      <3>2. \E j \in 1 .. n : q[j] = p[i]
        BY <3>1
      <3>3. r[i] = CHOOSE j \in 1 .. n : q[j] = p[i]
        BY <1>1
      <3>4. QED BY <3>2, <3>3
    <2>2. QED BY <2>1
  <1>3. r \in [1 .. n -> 1 .. n]
    BY <1>1, <1>2
  <1>4. \A i, j \in 1 .. n : i < j => r[i] < r[j]
    <2>1. ASSUME NEW i \in 1 .. n, NEW j \in 1 .. n, i < j PROVE r[i] < r[j]
      <3>1. v[p[j]] < v[p[i]]
        BY <2>1
      <3>2. PICK a \in 1 .. n, b \in 1 .. n : a = r[i] /\ b = r[j]
        BY <1>2
      <3>3. p[i] = q[a] /\ p[j] = q[b]
        BY <1>2, <3>2
      <3>4. PICK va \in Int, vb \in Int : va = v[q[a]] /\ vb = v[q[b]]
        OBVIOUS
      <3>5. vb < va
        BY <3>1, <3>3, <3>4
      <3>6. a # b
        BY <3>4, <3>5
      <3>7. ~ (b < a)
        <4>1. b < a => va < vb
          BY <3>4
        <4>2. QED BY <3>5, <4>1
      <3>8. \A c, d \in 1 .. n : c # d /\ ~ (d < c) => c < d
        OBVIOUS
      <3>9. QED BY <3>2, <3>6, <3>7, <3>8
    <2>2. QED BY <2>1
  <1>5. \A i \in 1 .. n : r[i] = i
    BY <1>3, <1>4, IncreasingIsIdentity
  <1>6. \A i \in 1 .. n : p[i] = q[i]
    BY <1>2, <1>5
  <1>7. QED BY <1>6

(***************************************************************************)
(* Sequences and their places.                                             *)
(***************************************************************************)
LEMMA SameSeqs ==
  ASSUME NEW s, NEW t, IsSeq(s), IsSeq(t), Len(s) = Len(t), \A i \in 1 .. Len(s) : s[i] = t[i]
  PROVE  s = t
  <1>1. s = [i \in 1 .. Len(s) |-> s[i]] /\ t = [i \in 1 .. Len(s) |-> t[i]]
    BY SeqDomain
  <1>2. [i \in 1 .. Len(s) |-> s[i]] = [i \in 1 .. Len(s) |-> t[i]]
    OBVIOUS
  <1>3. QED BY <1>1, <1>2

LEMMA Places ==
  ASSUME NEW a, NEW b, IsSeq(a), IsSeq(b), NEW c, c = a \o b,
         NEW m \in Nat, NEW n \in Nat, m = Len(a) /\ n = Len(b)
  PROVE  \A i \in 1 .. m + n : (i \in 1 .. m /\ c[i] = a[i]) \/ (i - m \in 1 .. n /\ c[i] = b[i - m])
  <1>1. (\A i \in 1 .. m : c[i] = a[i]) /\ \A i \in 1 .. n : c[m + i] = b[i]
    BY Concatenation
  <1>2. TAKE i \in 1 .. m + n
  <1>3. CASE i <= m
    BY <1>1, <1>3
  <1>4. CASE ~ (i <= m)
    <2>1. PICK k \in 1 .. n : k = i - m
      BY <1>4
    <2>2. c[m + k] = b[k] /\ m + k = i
      BY <1>1, <2>1
    <2>3. QED BY <2>1, <2>2
  <1>5. QED BY <1>3, <1>4

LEMMA TwoAndTwo ==
  ASSUME NEW a, NEW b, NEW c, NEW d
  PROVE  <<a, b>> \o <<c, d>> = <<a, b, c, d>>
  <1>1. PICK s : s = <<a, b>>
    OBVIOUS
  <1>2. PICK t : t = <<c, d>>
    OBVIOUS
  <1>3. PICK u : u = <<a, b, c, d>>
    OBVIOUS
  <1>4. /\ IsSeq(s) /\ Len(s) = 2 /\ s[1] = a /\ s[2] = b
        /\ IsSeq(t) /\ Len(t) = 2 /\ t[1] = c /\ t[2] = d
    BY <1>1, <1>2 DEF IsSeq, ToSet
  <1>5. IsSeq(u) /\ Len(u) = 4 /\ u[1] = a /\ u[2] = b /\ u[3] = c /\ u[4] = d
    BY <1>3 DEF IsSeq, ToSet
  <1>6. PICK v : v = s \o t
    OBVIOUS
  <1>7. /\ IsSeq(v) /\ Len(v) = 2 + 2 /\ \A i \in 1 .. 2 : v[i] = s[i]
        /\ \A i \in 1 .. 2 : v[2 + i] = t[i]
    <2>1. /\ IsSeq(v) /\ Len(v) = Len(s) + Len(t) /\ \A i \in 1 .. Len(s) : v[i] = s[i]
          /\ \A i \in 1 .. Len(t) : v[Len(s) + i] = t[i]
      <3>1. IsSeq(s) /\ IsSeq(t)
        BY <1>4
      <3>2. QED BY ONLY <3>1, <1>6, Concatenation
    <2>2. QED BY <1>4, <2>1
  <1>8. v[1] = a /\ v[2] = b /\ v[2 + 1] = c /\ v[2 + 2] = d
    BY <1>4, <1>7
  <1>9. \A i \in 1 .. 4 : v[i] = u[i]
    BY <1>5, <1>8
  <1>10. v = u
    BY <1>5, <1>7, <1>9, SameSeqs
  <1>11. QED BY <1>1, <1>2, <1>3, <1>6, <1>10

LEMMA FourAndThree ==
  ASSUME NEW p, NEW e, NEW q, NEW v, NEW a, NEW r, NEW w
  PROVE  <<p, e>> \o (<<q, v>> \o <<a, r, w>>) = <<p, e, q, v, a, r, w>>
  <1>1. PICK s : s = <<p, e>>
    OBVIOUS
  <1>2. PICK t : t = <<q, v>>
    OBVIOUS
  <1>3. PICK u : u = <<a, r, w>>
    OBVIOUS
  <1>4. /\ IsSeq(s) /\ Len(s) = 2 /\ s[1] = p /\ s[2] = e
        /\ IsSeq(t) /\ Len(t) = 2 /\ t[1] = q /\ t[2] = v
    BY <1>1, <1>2 DEF IsSeq, ToSet
  <1>5. IsSeq(u) /\ Len(u) = 3 /\ u[1] = a /\ u[2] = r /\ u[3] = w
    BY <1>3 DEF IsSeq, ToSet
  <1>6. PICK all : all = <<p, e, q, v, a, r, w>>
    OBVIOUS
  <1>7. /\ IsSeq(all) /\ Len(all) = 7 /\ all[1] = p /\ all[2] = e /\ all[3] = q /\ all[4] = v
        /\ all[5] = a /\ all[6] = r /\ all[7] = w
    BY <1>6 DEF IsSeq, ToSet
  <1>8. PICK tu : tu = t \o u
    OBVIOUS
  <1>9. /\ IsSeq(tu) /\ Len(tu) = 2 + 3 /\ \A i \in 1 .. 2 : tu[i] = t[i]
        /\ \A i \in 1 .. 3 : tu[2 + i] = u[i]
    <2>1. /\ IsSeq(tu) /\ Len(tu) = Len(t) + Len(u) /\ \A i \in 1 .. Len(t) : tu[i] = t[i]
          /\ \A i \in 1 .. Len(u) : tu[Len(t) + i] = u[i]
      <3>1. IsSeq(t) /\ IsSeq(u)
        BY <1>4, <1>5
      <3>2. QED BY ONLY <3>1, <1>8, Concatenation
    <2>2. QED BY <1>4, <1>5, <2>1
  <1>10. tu[1] = q /\ tu[2] = v /\ tu[2 + 1] = a /\ tu[2 + 2] = r /\ tu[2 + 3] = w
    BY <1>4, <1>5, <1>9
  <1>11. PICK stu : stu = s \o tu
    OBVIOUS
  <1>12. /\ IsSeq(stu) /\ Len(stu) = 2 + 5 /\ \A i \in 1 .. 2 : stu[i] = s[i]
         /\ \A i \in 1 .. 5 : stu[2 + i] = tu[i]
    <2>1. /\ IsSeq(stu) /\ Len(stu) = Len(s) + Len(tu) /\ \A i \in 1 .. Len(s) : stu[i] = s[i]
          /\ \A i \in 1 .. Len(tu) : stu[Len(s) + i] = tu[i]
      <3>1. IsSeq(s) /\ IsSeq(tu)
        BY <1>4, <1>9
      <3>2. QED BY ONLY <3>1, <1>11, Concatenation
    <2>2. QED BY <1>4, <1>9, <2>1
  <1>13. /\ stu[1] = p /\ stu[2] = e /\ stu[2 + 1] = q /\ stu[2 + 2] = v /\ stu[2 + 3] = a
         /\ stu[2 + 4] = r /\ stu[2 + 5] = w
    BY <1>4, <1>10, <1>12
  <1>14. \A i \in 1 .. 7 : stu[i] = all[i]
    BY <1>7, <1>13
  <1>15. stu = all
    BY <1>7, <1>12, <1>14, SameSeqs
  <1>16. QED BY <1>1, <1>2, <1>3, <1>6, <1>8, <1>11, <1>15

LEMMA Appending ==
  ASSUME NEW n \in Nat, NEW s, IsSeq(s), Len(s) = n, NEW e
  PROVE  /\ IsSeq(Append(s, e)) /\ Len(Append(s, e)) = n + 1 /\ DOMAIN Append(s, e) = 1 .. n + 1
         /\ Append(s, e)[n + 1] = e /\ \A i \in 1 .. n : Append(s, e)[i] = s[i]
  <1>1. PICK S : S = ToSet(s) \cup {e}
    OBVIOUS
  <1>2. s \in Seq(S)
    <2>1. ToSet(s) \subseteq S
      BY <1>1
    <2>2. QED BY <2>1 DEF IsSeq
  <1>3. PICK next : next = Append(s, e)
    OBVIOUS
  <1>4. /\ next \in Seq(S) /\ Len(next) = Len(s) + 1 /\ Len(s) \in Nat
        /\ \A i \in 1 .. Len(s) : next[i] = s[i]
        /\ next[Len(s) + 1] = e
    BY <1>1, <1>2, <1>3
  <1>5. IsSeq(next) /\ DOMAIN next = 1 .. Len(next)
    BY <1>4, SequencesAreSeq
  <1>6. QED BY <1>3, <1>4, <1>5

LEMMA HeadAndTail ==
  ASSUME NEW S, NEW s \in Seq(S), s # <<>>, NEW x, x = Head(s), NEW rest, rest = Tail(s)
  PROVE  \A e : e \in ToSet(s) <=> e = x \/ e \in ToSet(rest)
  <1>1. PICK n \in Nat : n = Len(s) /\ DOMAIN s = 1 .. n
    OBVIOUS
  <1>2. n >= 1 /\ x = s[1]
    BY <1>1
  <1>3. rest \in Seq(S) /\ Len(rest) = n - 1 /\ \A i \in 1 .. n - 1 : rest[i] = s[i + 1]
    BY <1>1, <1>2
  <1>4. PICK m \in Nat : m = n - 1
    BY <1>2
  <1>5. DOMAIN rest = 1 .. m /\ \A i \in 1 .. m : rest[i] = s[i + 1]
    BY <1>3, <1>4
  <1>6. ASSUME NEW e, e \in ToSet(s) PROVE e = x \/ e \in ToSet(rest)
    <2>1. PICK i \in 1 .. n : e = s[i]
      BY <1>1, <1>6 DEF ToSet
    <2>2. CASE i = 1
      BY <1>2, <2>1, <2>2
    <2>3. CASE i # 1
      <3>1. PICK j \in 1 .. m : i = j + 1
        BY <1>4, <2>3
      <3>2. rest[j] = e
        BY <1>5, <2>1, <3>1
      <3>3. QED BY <1>5, <3>2 DEF ToSet
    <2>4. QED BY <2>2, <2>3
  <1>7. ASSUME NEW e, e = x \/ e \in ToSet(rest) PROVE e \in ToSet(s)
    <2>1. CASE e = x
      <3>1. 1 \in 1 .. n
        BY <1>2
      <3>2. QED BY <1>1, <1>2, <2>1, <3>1 DEF ToSet
    <2>2. CASE e \in ToSet(rest)
      <3>1. PICK j \in 1 .. m : e = rest[j]
        BY <1>5, <2>2 DEF ToSet
      <3>2. j + 1 \in 1 .. n /\ e = s[j + 1]
        BY <1>4, <1>5, <3>1
      <3>3. QED BY <1>1, <3>2 DEF ToSet
    <2>3. QED BY <1>7, <2>1, <2>2
  <1>8. QED BY <1>6, <1>7

\* A choice among the elements of a sequence.
LEMMA KeptRows ==
  ASSUME NEW rows, IsSeq(rows), NEW f, f = [i \in DOMAIN rows |-> f[i]],
         \A i \in DOMAIN rows : f[i] \in {<<rows[i]>>, <<>>}
  PROVE  IsSeq(FlattenSeq(f)) /\ ToSet(FlattenSeq(f)) \subseteq ToSet(rows)
  <1>1. PICK n \in Nat : DOMAIN rows = 1 .. n
    BY SeqDomain
  <1>2. f = [i \in 1 .. n |-> f[i]]
    BY <1>1
  <1>3. \A i \in 1 .. n : IsSeq(f[i]) /\ ToSet(f[i]) \subseteq {rows[i]}
    <2>1. ASSUME NEW i \in 1 .. n PROVE IsSeq(f[i]) /\ ToSet(f[i]) \subseteq {rows[i]}
      <3>1. f[i] = <<rows[i]>> \/ f[i] = <<>>
        BY <1>1
      <3>2. PICK r : r = rows[i]
        OBVIOUS
      <3>3. IsSeq(<<r>>) /\ ToSet(<<r>>) = {r} /\ IsSeq(<<>>) /\ ToSet(<<>>) = {}
        BY OneElement, Nothing
      <3>4. QED BY <3>1, <3>2, <3>3
    <2>2. QED BY <2>1
  <1>4. PICK kept : kept = FlattenSeq(f)
    OBVIOUS
  <1>5. IsSeq(kept) /\ ToSet(kept) = UNION {ToSet(f[i]) : i \in 1 .. n}
    BY <1>2, <1>3, <1>4, Flattening
  <1>6. \A i \in 1 .. n : rows[i] \in ToSet(rows)
    BY <1>1 DEF ToSet
  <1>7. ToSet(kept) \subseteq ToSet(rows)
    <2>1. ASSUME NEW r \in ToSet(kept) PROVE r \in ToSet(rows)
      <3>1. PICK i \in 1 .. n : r \in ToSet(f[i])
        BY <1>5
      <3>2. r = rows[i]
        BY <1>3, <3>1
      <3>3. QED BY <1>6, <3>2
    <2>2. QED BY <2>1
  <1>8. QED BY <1>4, <1>5, <1>7

(***************************************************************************)
(* Counting.                                                               *)
(***************************************************************************)
LEMMA PlacesAreFinite ==
  ASSUME NEW s, IsSeq(s)
  PROVE  IsFiniteSet(DOMAIN s) /\ Cardinality(DOMAIN s) = Len(s) /\ Len(s) \in Nat
  <1>1. PICK n \in Nat : n = Len(s) /\ DOMAIN s = 1 .. n
    BY SeqDomain
  <1>2. PICK one \in Int : one = 1
    OBVIOUS
  <1>3. IsFiniteSet(one .. n) /\ Cardinality(one .. n) = IF one > n THEN 0 ELSE n - one + 1
    BY FS_Interval
  <1>4. QED BY <1>1, <1>2, <1>3

\* How many rows of a finite number satisfy something.
LEMMA CountIsBounded ==
  ASSUME NEW places, IsFiniteSet(places), NEW S, S \subseteq places
  PROVE  /\ IsFiniteSet(S) /\ Cardinality(S) \in Nat /\ Cardinality(places) \in Nat
         /\ Cardinality(S) <= Cardinality(places)
  BY FS_Subset, FS_CardinalityType

LEMMA ImageIsFinite ==
  ASSUME NEW S, IsFiniteSet(S), NEW f, DOMAIN f = S, NEW T, \A t \in T : \E s \in S : t = f[s]
  PROVE  IsFiniteSet(T)
  <1>1. PICK U : U = {f[s] : s \in S}
    OBVIOUS
  <1>2. PICK g : g = [s \in S |-> f[s]]
    OBVIOUS
  <1>3. g \in Surjection(S, U)
    BY <1>1, <1>2 DEF Surjection
  <1>4. IsFiniteSet(U)
    BY <1>3, FS_Surjection
  <1>5. T \subseteq U
    BY <1>1
  <1>6. QED BY <1>4, <1>5, FS_Subset

LEMMA OneForOne ==
  ASSUME NEW S, NEW T, IsFiniteSet(S) \/ IsFiniteSet(T), NEW f, DOMAIN f = S, \A a \in S : f[a] \in T,
         \A a, b \in S : f[a] = f[b] => a = b, \A t \in T : \E a \in S : t = f[a]
  PROVE  IsFiniteSet(S) /\ IsFiniteSet(T) /\ Cardinality(S) = Cardinality(T) /\ Cardinality(S) \in Nat
  <1>1. PICK g : g = [a \in S |-> f[a]]
    OBVIOUS
  <1>2. g \in Injection(S, T)
    BY <1>1 DEF Injection, IsInjective
  <1>3. g \in Surjection(S, T)
    BY <1>1 DEF Surjection
  <1>4. ExistsBijection(S, T)
    BY <1>2, <1>3 DEF ExistsBijection, Bijection
  <1>5. CASE IsFiniteSet(S)
    BY <1>4, <1>5, FS_Bijection, FS_CardinalityType
  <1>6. CASE IsFiniteSet(T)
    BY <1>2, <1>3, <1>6, FS_Injection, FS_CardinalityType
  <1>7. QED BY <1>5, <1>6

\* As many pairs as the naturals that f takes add up to.
Pairs(f) == UNION {{k} \X (1..f[k]) : k \in DOMAIN f}

\* The sizes of the parts of a set add up.
Sharing(S, g, d) == {s \in S : g[s] = d}

LEMMA PairsAddUp ==
  ASSUME NEW S, IsFiniteSet(S), NEW g, NEW f, \A d : d \in DOMAIN f <=> \E s \in S : g[s] = d,
         \A d \in DOMAIN f : f[d] = Cardinality(Sharing(S, g, d))
  PROVE  Cardinality(Pairs(f)) = Cardinality(S)
  <1> DEFINE Those(d) == {s \in S : g[s] = d}
  <1>0. \A d : Those(d) = Sharing(S, g, d)
    BY DEF Sharing
  <1>1. PICK pairs : pairs = UNION {{k} \X (1..f[k]) : k \in DOMAIN f}
    OBVIOUS
  <1>2. \A p \in pairs : p = <<p[1], p[2]>> /\ p[1] \in DOMAIN f /\ p[2] \in 1..f[p[1]]
    BY <1>1
  <1>3. \A d \in DOMAIN f : \A n \in 1..f[d] : <<d, n>> \in pairs
    BY <1>1
  <1>4. ASSUME NEW d \in DOMAIN f PROVE \E h : h \in Bijection(1..f[d], Those(d))
    <2>1. IsFiniteSet(Those(d))
      BY FS_Subset
    <2>2. PICK part : part = Those(d)
      OBVIOUS
    <2>3. ExistsBijection(1..Cardinality(part), part)
      BY <2>1, <2>2, FS_CardinalityType
    <2>4. f[d] = Cardinality(part)
      BY <1>0, <2>2
    <2>5. QED BY <2>2, <2>3, <2>4 DEF ExistsBijection
  <1>5. PICK b : b = [d \in DOMAIN f |-> CHOOSE h : h \in Bijection(1..f[d], Those(d))]
    OBVIOUS
  <1>6. ASSUME NEW d \in DOMAIN f PROVE b[d] \in Bijection(1..f[d], Those(d))
    BY <1>4, <1>5
  <1>7. PICK h : h = [p \in pairs |-> b[p[1]][p[2]]]
    OBVIOUS
  <1>8. ASSUME NEW d \in DOMAIN f
        PROVE  /\ \A n \in 1..f[d] : b[d][n] \in S /\ g[b[d][n]] = d
               /\ \A m, n \in 1..f[d] : b[d][m] = b[d][n] => m = n
               /\ \A s \in S : g[s] = d => \E n \in 1..f[d] : s = b[d][n]
    <2>1. PICK part : part = Those(d)
      OBVIOUS
    <2>2. PICK c : c = b[d]
      OBVIOUS
    <2>3. c \in Bijection(1..f[d], part)
      BY <1>6, <2>1, <2>2
    <2>4. c \in Injection(1..f[d], part) /\ c \in Surjection(1..f[d], part)
      BY <2>3 DEF Bijection
    <2>5. /\ \A n \in 1..f[d] : c[n] \in part
          /\ \A m, n \in 1..f[d] : c[m] = c[n] => m = n
      BY <2>4 DEF Injection, IsInjective
    <2>6. \A s \in part : \E n \in 1..f[d] : s = c[n]
      BY <2>4 DEF Surjection
    <2>7. QED BY <2>1, <2>2, <2>5, <2>6
  <1>9. \A p \in pairs : h[p] \in S /\ g[h[p]] = p[1]
    BY <1>2, <1>7, <1>8
  <1>10. ASSUME NEW p \in pairs, NEW q \in pairs, h[p] = h[q] PROVE p = q
    <2>1. p[1] = q[1]
      BY <1>9, <1>10
    <2>2. PICK d \in DOMAIN f : d = p[1]
      BY <1>2
    <2>3. b[d][p[2]] = b[d][q[2]] /\ p[2] \in 1..f[d] /\ q[2] \in 1..f[d]
      BY <1>2, <1>7, <1>10, <2>1, <2>2
    <2>4. p[2] = q[2]
      BY <1>8, <2>3
    <2>5. QED BY <1>2, <2>1, <2>4
  <1>11. ASSUME NEW s \in S PROVE \E p \in pairs : s = h[p]
    <2>1. PICK d \in DOMAIN f : g[s] = d
      OBVIOUS
    <2>2. PICK n \in 1..f[d] : s = b[d][n]
      BY <1>8, <2>1
    <2>3. PICK p : p = <<d, n>>
      OBVIOUS
    <2>4. p \in pairs /\ p[1] = d /\ p[2] = n
      BY <1>3, <2>3
    <2>5. h[p] = s
      BY <1>7, <2>2, <2>4
    <2>6. QED BY <2>4, <2>5
  <1>12. DOMAIN h = pairs
    BY <1>7
  <1> HIDE DEF Those
  <1>13. Cardinality(pairs) = Cardinality(S)
    BY ONLY <1>9, <1>10, <1>11, <1>12, IsFiniteSet(S), OneForOne
  <1>14. QED BY <1>1, <1>13 DEF Pairs

LEMMA PairsAreBounded ==
  ASSUME NEW f, IsFiniteSet(DOMAIN f), NEW u \in Nat, \A k \in DOMAIN f : f[k] \in 0..u
  PROVE  Cardinality(Pairs(f)) \in Nat /\ Cardinality(Pairs(f)) <= Cardinality(DOMAIN f) * u
  <1>1. PICK pairs : pairs = UNION {{k} \X (1..f[k]) : k \in DOMAIN f}
    OBVIOUS
  <1>2. PICK keys : keys = DOMAIN f
    OBVIOUS
  <1>3. PICK places : places = 1..u
    OBVIOUS
  <1>4. IsFiniteSet(places) /\ Cardinality(places) = u
    <2>1. PICK one \in Int : one = 1
      OBVIOUS
    <2>2. IsFiniteSet(one..u) /\ Cardinality(one..u) = IF one > u THEN 0 ELSE u - one + 1
      BY FS_Interval
    <2>3. QED BY <1>3, <2>1, <2>2
  <1>5. PICK all : all = keys \X places
    OBVIOUS
  <1>6. IsFiniteSet(all) /\ Cardinality(all) = Cardinality(keys) * Cardinality(places)
    BY <1>2, <1>4, <1>5, FS_Product
  <1>7. ASSUME NEW k \in DOMAIN f PROVE {k} \X (1..f[k]) \subseteq all
    <2>1. 1..f[k] \subseteq places
      BY <1>3
    <2>2. QED BY <1>2, <1>5, <2>1
  <1>8. pairs \subseteq all
    BY <1>1, <1>7
  <1>9. IsFiniteSet(pairs) /\ Cardinality(pairs) <= Cardinality(all)
    BY <1>6, <1>8, FS_Subset
  <1>10. Cardinality(pairs) \in Nat
    BY <1>9, FS_CardinalityType
  <1>11. Cardinality(Pairs(f)) = Cardinality(pairs)
    BY <1>1 DEF Pairs
  <1>12. QED BY <1>2, <1>4, <1>6, <1>9, <1>10, <1>11

LEMMA Quotients ==
  ASSUME NEW n \in Nat, NEW m \in Nat, m # 0, NEW u \in Nat, n <= m * u
  PROVE  n \div m \in 0..u
  <1>1. PICK q \in Int : q = n \div m
    OBVIOUS
  <1>2. m * q <= n /\ n < m * q + m
    BY <1>1
  <1>3. q <= u
    <2>1. SUFFICES ASSUME q >= u + 1 PROVE FALSE
      BY <1>1
    <2>2. m * q >= m * (u + 1)
      BY <2>1
    <2>3. QED BY <1>2, <2>2
  <1>4. q >= 0
    <2>1. SUFFICES ASSUME q <= -1 PROVE FALSE
      OBVIOUS
    <2>2. m * q <= m * (-1)
      BY <2>1
    <2>3. QED BY <1>2, <2>2
  <1>5. QED BY <1>1, <1>3, <1>4
===============================================================================
