------------------------- MODULE AddressIndexProofs -------------------------
(***************************************************************************)
(* AddressIndex for any network. The prover does not compute with powers:  *)
(* what the theorems need of the two spans is a premise, Split.            *)
(***************************************************************************)
EXTENDS AddressIndex, TLAPS

\* The hosts of a network of 16 bits or more, by the times an index can tell
\* apart: 2^64 in a network of 80 bits or more, 2^(Mask - 16) in a smaller one.
Split(span) ==
  /\ RandSpan \in Nat \ {0} /\ span \in Nat \ {0}
  /\ HostSpan = span * RandSpan

\* Numbers less than m apart do not leave the same remainder.
LEMMA RemaindersDiffer ==
  ASSUME NEW m \in Nat, m > 0, NEW a \in Int, NEW b \in Int, a < b, b < a + m
  PROVE  a % m # b % m
<1>1. \A x \in Int : x = m * (x \div m) + (x % m)
  OBVIOUS
<1>2. a \div m \in Int /\ b \div m \in Int /\ a % m \in Int /\ b % m \in Int
  OBVIOUS
<1> DEFINE p == a \div m
           q == b \div m
<1>3. SUFFICES ASSUME a % m = b % m
               PROVE  FALSE
  OBVIOUS
<1>4. b - a = m * (q - p) /\ p \in Int /\ q \in Int
  BY <1>1, <1>2, <1>3
<1> HIDE DEF p, q
<1>5. q - p < 1
  <2>1. SUFFICES ASSUME q - p >= 1
                 PROVE  FALSE
    BY <1>4
  <2>2. m * (q - p) >= m
    BY <1>4, <2>1
  <2> QED
    BY <1>4, <2>2
<1>6. q - p > 0
  <2>1. SUFFICES ASSUME q - p <= 0
                 PROVE  FALSE
    BY <1>4
  <2>2. m * (q - p) <= 0
    BY <1>4, <2>1
  <2> QED
    BY <1>4, <2>2
<1> QED
  BY <1>4, <1>5, <1>6

\* "this is used to generate a unique ip" (generateIndex): whatever the random
\* bits, the indices of two moments differ if the moments are at least two
\* nanoseconds apart, and not so far apart that the time in the index comes
\* round. One nanosecond is not enough: the random bits are added twice, so
\* they reach into the time.
THEOREM MomentsDiffer ==
  ASSUME NEW span, Split(span), NEW s \in Nat, NEW t \in Nat,
         s + 2 <= t, t + 2 <= s + span,
         NEW q \in Rands, NEW r \in Rands
  PROVE  Index(s, q) # Index(t, r)
<1> DEFINE R == RandSpan
           a == s * R + q + q
           b == t * R + r + r
<1>1. R \in Nat \ {0} /\ span \in Nat /\ HostSpan = span * R
  BY DEF Split
<1>2. q \in 0..(R - 2) /\ r \in 0..(R - 2)
  BY DEF Rands
<1> HIDE DEF R
<1>3. a \in Int /\ b \in Int
  BY <1>1, <1>2
<1>4. t * R >= (s + 2) * R /\ (t + 2) * R <= (s + span) * R
  BY <1>1
<1>5. t * R >= s * R + 2 * R /\ t * R + 2 * R <= s * R + span * R
  BY <1>1, <1>4
<1>6. a < b /\ b < a + HostSpan
  BY <1>1, <1>2, <1>5
<1>7. HostSpan \in Nat /\ HostSpan > 0
  BY <1>1, <1>6, <1>3
<1>8. Index(s, q) = a % HostSpan /\ Index(t, r) = b % HostSpan
  BY DEF Index, R
<1> HIDE DEF a, b
<1> QED
  BY <1>3, <1>6, <1>7, <1>8, RemaindersDiffer

\* The comment of generateIndex has the time in the top bits and the random ones
\* below. But half of the random range carries the index to that of the next
\* nanosecond, and all indices are even: half of the addresses never occur.
THEOREM NeighboursMeet ==
  ASSUME NEW half \in Nat, RandSpan = 2 * half, half >= 2, NEW t \in Nat
  PROVE  half \in Rands /\ 0 \in Rands /\ Index(t, half) = Index(t + 1, 0)
<1>1. half \in Rands /\ 0 \in Rands
  BY DEF Rands
<1>2. t * (2 * half) + half + half = (t + 1) * (2 * half) + 0 + 0
  OBVIOUS
<1> QED
  BY <1>1, <1>2 DEF Index
=============================================================================
