--------------------------- MODULE SequenceFacts ---------------------------
(***************************************************************************)
(* Induction, and what the proofs of this project need to know of          *)
(* sequences. The provers cannot instantiate a theorem whose parameter is  *)
(* an operator, so induction and recursion are stated for sets and         *)
(* functions.                                                              *)
(***************************************************************************)
EXTENDS SequenceOps, FiniteSets, FiniteSetTheorems, WellFoundedInduction, TLAPS

\* A set that has 0, and with each number the next one, has all of them.
LEMMA Induction ==
  ASSUME NEW S, 0 \in S, \A n \in Nat : n \in S => n + 1 \in S
  PROVE  Nat \subseteq S
<1> DEFINE T == {n \in Nat : n \notin S}
           R == OpToRel(<, Nat)
<1> SUFFICES ASSUME T # {} PROVE FALSE
  OBVIOUS
<1>1. IsWellFoundedOn(R, Nat)
  BY NatLessThanWellFounded
<1> HIDE DEF R
<1>2. PICK x \in T : \A y \in T : <<y, x>> \notin R
  BY <1>1, WFMin
<1>3. x # 0 /\ x - 1 \in Nat
  BY <1>2
<1>4. x - 1 \notin T
  <2>1. <<x - 1, x>> \in R
    BY <1>3 DEF R, OpToRel
  <2> QED
    BY <1>2, <2>1
<1> QED
  BY <1>2, <1>3, <1>4

\* Some positions of a sequence have a last one.
LEMMA LastOf ==
  ASSUME NEW n \in Nat, NEW J \in SUBSET (1..n), J # {}
  PROVE  \E m \in J : \A k \in J : k <= m
<1> DEFINE S == {i \in Nat : \A K \in SUBSET (1..i) : K # {} => \E m \in K : \A k \in K : k <= m}
<1>1. 0 \in S
  <2>1. \A K \in SUBSET (1..0) : K = {}
    OBVIOUS
  <2> QED
    BY <2>1
<1>2. ASSUME NEW i \in Nat, i \in S
      PROVE  i + 1 \in S
  <2> SUFFICES ASSUME NEW K \in SUBSET (1..(i + 1)), K # {}
               PROVE  \E m \in K : \A k \in K : k <= m
    OBVIOUS
  <2>1. CASE i + 1 \in K
    BY <2>1
  <2>2. CASE i + 1 \notin K
    <3>1. K \in SUBSET (1..i)
      BY <2>2
    <3> QED
      BY <1>2, <3>1
  <2> QED
    BY <2>1, <2>2
<1> HIDE DEF S
<1>3. Nat \subseteq S
  BY <1>1, <1>2, Induction
<1>4. n \in S
  BY <1>3
<1> QED
  BY <1>4 DEF S

\* What n steps F[1], ..., F[n] make of x, with all that is between.
Runs(T, x, n, F) == {g \in [0..n -> T] : g[0] = x /\ \A i \in 1..n : g[i] = F[i][g[i - 1]]}

\* It exists.
LEMMA Recursion ==
  ASSUME NEW T, NEW x \in T, NEW n \in Nat, NEW F \in [1..n -> [T -> T]]
  PROVE  Runs(T, x, n, F) # {}
<1> DEFINE RunsTo(m) == {g \in [0..m -> T] : g[0] = x /\ \A i \in 1..m : g[i] = F[i][g[i - 1]]}
           S == {m \in Nat : m <= n => RunsTo(m) # {}}
<1>1. 0 \in S
  <2>1. [i \in 0..0 |-> x] \in RunsTo(0)
    OBVIOUS
  <2> QED
    BY <2>1
<1>2. ASSUME NEW m \in Nat, m \in S
      PROVE  m + 1 \in S
  <2> SUFFICES ASSUME m + 1 <= n PROVE RunsTo(m + 1) # {}
    OBVIOUS
  <2>1. PICK g \in [0..m -> T] : g[0] = x /\ \A i \in 1..m : g[i] = F[i][g[i - 1]]
    BY <1>2
  <2> DEFINE h == [i \in 0..(m + 1) |-> IF i <= m THEN g[i] ELSE F[m + 1][g[m]]]
  <2>2. F[m + 1] \in [T -> T] /\ g[m] \in T
    BY <2>1
  <2>3. F[m + 1][g[m]] \in T
    BY <2>2
  <2>4. h \in [0..(m + 1) -> T] /\ h[0] = x
    BY <2>1, <2>3
  <2>5. ASSUME NEW i \in 1..(m + 1)
        PROVE  h[i] = F[i][h[i - 1]]
    <3>1. CASE i <= m
      BY <2>1, <3>1
    <3>2. CASE i = m + 1
      BY <3>2
    <3> QED
      BY <3>1, <3>2
  <2> HIDE DEF h
  <2> QED
    BY <2>4, <2>5
<1> HIDE DEF S
<1>3. n \in S
  BY <1>1, <1>2, Induction
<1> QED
  BY <1>3 DEF S, Runs

\* An image of a finite set is finite, and no larger.
LEMMA ImageFinite ==
  ASSUME NEW S, IsFiniteSet(S), NEW f, DOMAIN f = S, f = [x \in S |-> f[x]]
  PROVE  LET T == {f[x] : x \in S} IN IsFiniteSet(T) /\ Cardinality(T) <= Cardinality(S)
<1> DEFINE T == {f[x] : x \in S}
<1>1. f \in Surjection(S, T)
  BY DEF Surjection
<1> QED
  BY <1>1, FS_Surjection

\* Kept is the function its recursive definition asks for.
LEMMA KeptExists ==
  ASSUME NEW T, NEW s \in Seq(T), NEW X
  PROVE  Kept(s, X) = [i \in 0..Len(s) |->
           IF i = 0 THEN <<>>
           ELSE IF s[i] \in X THEN Kept(s, X)[i - 1] ELSE Append(Kept(s, X)[i - 1], s[i])]
<1> DEFINE n == Len(s)
           step(i) == [u \in Seq(T) |-> IF s[i] \in X THEN u ELSE Append(u, s[i])]
           F == [i \in 1..n |-> step(i)]
           Body(g) == [i \in 0..n |->
             IF i = 0 THEN <<>> ELSE IF s[i] \in X THEN g[i - 1] ELSE Append(g[i - 1], s[i])]
<1>1. \A i \in 1..n : s[i] \in T
  OBVIOUS
<1>2. \A i \in 1..n : step(i) \in [Seq(T) -> Seq(T)]
  BY <1>1
<1>3. F \in [1..n -> [Seq(T) -> Seq(T)]] /\ n \in Nat /\ <<>> \in Seq(T)
  BY <1>2
<1> HIDE DEF F
<1>4. PICK g \in [0..n -> Seq(T)] : g[0] = <<>> /\ \A i \in 1..n : g[i] = F[i][g[i - 1]]
  <2> HIDE DEF n
  <2>1. Runs(Seq(T), <<>>, n, F) # {}
    BY <1>3, Recursion
  <2> QED
    BY <2>1 DEF Runs
<1>5. g = Body(g)
  <2>1. ASSUME NEW i \in 0..n PROVE g[i] = Body(g)[i]
    <3>1. CASE i = 0
      BY <1>4, <3>1
    <3>2. CASE i # 0
      <4>1. i \in 1..n /\ i - 1 \in 0..n
        BY <1>3, <3>2
      <4>2. g[i - 1] \in Seq(T) /\ g[i] = F[i][g[i - 1]]
        BY <1>4, <4>1
      <4> QED
        BY <4>1, <4>2 DEF F
    <3> QED
      BY <3>1, <3>2
  <2> QED
    BY <2>1
<1>6. Kept(s, X) = CHOOSE h : h = Body(h)
  BY DEF Kept
<1> HIDE DEF Body
<1>7. Kept(s, X) = Body(Kept(s, X))
  BY <1>5, <1>6
<1> QED
  BY <1>7 DEF Body

\* What is left of a sequence is a sequence, and every place in it is the place
\* one had before.
LEMMA WithoutFacts ==
  ASSUME NEW T, NEW s \in Seq(T), NEW X
  PROVE  /\ Without(s, X) \in Seq(T)
         /\ \E f \in Injection(DOMAIN Without(s, X), DOMAIN s) :
              \A j \in DOMAIN Without(s, X) : Without(s, X)[j] = s[f[j]]
<1> DEFINE k == Kept(s, X)
           n == Len(s)
           Moved(i, f) == /\ \A j \in 1..Len(k[i]) : k[i][j] = s[f[j]]
                          /\ \A j, l \in 1..Len(k[i]) : f[j] = f[l] => j = l
           Good(i) == k[i] \in Seq(T) /\ \E f \in [1..Len(k[i]) -> 1..i] : Moved(i, f)
           S == {i \in Nat : i <= n => Good(i)}
<1>1. k[0] = <<>> /\ \A i \in 1..n : k[i] = IF s[i] \in X THEN k[i - 1] ELSE Append(k[i - 1], s[i])
  <2> DEFINE step(i) == IF i = 0 THEN <<>>
                        ELSE IF s[i] \in X THEN k[i - 1] ELSE Append(k[i - 1], s[i])
  <2>1. k = [i \in 0..n |-> step(i)]
    BY KeptExists
  <2> HIDE DEF k
  <2>2. n \in Nat
    OBVIOUS
  <2>3. \A i \in 0..n : k[i] = step(i)
    BY <2>1
  <2>4. 0 \in 0..n /\ \A i \in 1..n : i \in 0..n /\ i # 0
    BY <2>2
  <2> QED
    BY <2>3, <2>4
<1> HIDE DEF k
<1>2. 0 \in S
  <2>1. 1..0 = {}
    OBVIOUS
  <2>2. Len(k[0]) = 0 /\ k[0] \in Seq(T)
    BY <1>1
  <2>3. [j \in 1..0 |-> j] \in [1..0 -> 1..0]
    OBVIOUS
  <2>4. Good(0)
    BY <2>1, <2>2, <2>3
  <2> QED
    BY <2>4
<1>3. ASSUME NEW i \in Nat, i \in S
      PROVE  i + 1 \in S
  <2> SUFFICES ASSUME i + 1 <= n PROVE Good(i + 1)
    OBVIOUS
  <2>1. Good(i)
    BY <1>3
  <2>2. PICK f \in [1..Len(k[i]) -> 1..i] : Moved(i, f)
    BY <2>1
  <2>3. i + 1 \in 1..n /\ (i + 1) - 1 = i /\ s[i + 1] \in T
    OBVIOUS
  <2>4. CASE s[i + 1] \in X
    <3>1. k[i + 1] = k[i]
      BY <1>1, <2>3, <2>4
    <3>2. f \in [1..Len(k[i + 1]) -> 1..(i + 1)]
      BY <2>2, <3>1
    <3>3. k[i + 1] \in Seq(T)
      BY <2>1, <3>1
    <3>4. Moved(i + 1, f)
      BY <2>2, <3>1
    <3> QED
      BY <3>2, <3>3, <3>4
  <2>5. CASE s[i + 1] \notin X
    <3> DEFINE m == Len(k[i])
               h == [j \in 1..(m + 1) |-> IF j <= m THEN f[j] ELSE i + 1]
    <3>1. k[i + 1] = Append(k[i], s[i + 1])
      BY <1>1, <2>3, <2>5
    <3>2. m \in Nat /\ k[i + 1] \in Seq(T) /\ Len(k[i + 1]) = m + 1
      BY <2>1, <2>3, <3>1
    <3>3. h \in [1..(m + 1) -> 1..(i + 1)]
      BY <2>2, <3>2
    <3>4. ASSUME NEW j \in 1..(m + 1)
          PROVE  k[i + 1][j] = s[h[j]]
      <4>1. CASE j <= m
        BY <2>1, <2>2, <3>1, <3>2, <4>1
      <4>2. CASE j = m + 1
        BY <2>1, <3>1, <3>2, <4>2
      <4> QED
        BY <3>2, <4>1, <4>2
    <3>5. ASSUME NEW j \in 1..(m + 1), NEW l \in 1..(m + 1), h[j] = h[l]
          PROVE  j = l
      <4>1. \A p \in 1..m : f[p] \in 1..i
        BY <2>2
      <4> QED
        BY <2>2, <3>2, <3>5, <4>1
    <3> HIDE DEF h
    <3> QED
      BY <3>2, <3>3, <3>4, <3>5
  <2> QED
    BY <2>4, <2>5
<1> HIDE DEF S
<1>4. n \in S
  BY <1>2, <1>3, Induction
<1>5. Good(n)
  BY <1>4 DEF S
<1>6. Without(s, X) = k[n]
  BY DEF Without, k
<1>7. k[n] \in Seq(T)
  BY <1>5
<1>8. PICK f \in [1..Len(k[n]) -> 1..n] : Moved(n, f)
  BY <1>5
<1>9. DOMAIN s = 1..n /\ DOMAIN k[n] = 1..Len(k[n])
  BY <1>7
<1>10. f \in Injection(DOMAIN k[n], DOMAIN s)
  BY <1>8, <1>9 DEF Injection, IsInjective
<1> QED
  BY <1>6, <1>7, <1>8, <1>9, <1>10
=============================================================================
