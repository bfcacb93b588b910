--------------------------- MODULE TransferLemmas ---------------------------
(***************************************************************************)
(* For the proofs about the two transfers: facts of arithmetic about a     *)
(* length that is split into blocks and a rest, and about prefixes.        *)
(***************************************************************************)
EXTENDS Integers, SequenceTheorems, TLAPS

\* Cutting a number that fits leaves it alone.
LEMMA ModSmall ==
    ASSUME NEW a \in Nat, NEW b \in Nat, a < b
    PROVE  a % b = a
  OBVIOUS

\* Blocks and rest add up to the length.
LEMMA DivMod ==
    ASSUME NEW n \in Nat, NEW b \in Nat \ {0}
    PROVE  /\ n \div b \in Nat
           /\ n % b \in 0..(b - 1)
           /\ n = b * (n \div b) + (n % b)
  OBVIOUS

LEMMA DivModInt ==
    ASSUME NEW n \in Int, NEW b \in Nat \ {0}
    PROVE  /\ n \div b \in Int
           /\ n % b \in 0..(b - 1)
           /\ n = b * (n \div b) + (n % b)
  OBVIOUS

\* A multiple leaves no rest.
LEMMA ModMultiple ==
    ASSUME NEW b \in Nat \ {0}, NEW q \in Int
    PROVE  (b * q) % b = 0
<1> DEFINE n == b * q
           d == n \div b
           r == n % b
<1>1. n \in Int
  OBVIOUS
<1>2. d \in Int /\ r \in 0..(b - 1) /\ n = b * d + r
  <2> HIDE DEF n
  <2> QED
    BY <1>1, DivModInt
<1> HIDE DEF d, r
<1>3. r = b * (q - d)
  BY <1>2
<1>4. CASE q - d >= 1
  <2>1. b * (q - d) >= b
    BY <1>2, <1>4
  <2> QED
    BY <1>2, <1>3, <2>1
<1>5. CASE q - d <= -1
  <2>1. b * (q - d) < 0
    BY <1>2, <1>5
  <2> QED
    BY <1>2, <1>3, <2>1
<1>6. CASE q - d = 0
  BY <1>2, <1>3, <1>6 DEF n, r
<1> QED
  BY <1>2, <1>4, <1>5, <1>6

\* One block more, counted with a counter that comes round.
LEMMA Spread ==
    ASSUME NEW b \in Int, NEW c \in Int, NEW t \in Int, NEW q \in Int, NEW w \in Int,
           NEW u, u = t + 1 + c * w
    PROVE  b * u + c * (q - b * w) = b * t + b + c * q
<1>1. b * u = b * t + b + b * (c * w)
  OBVIOUS
<1>2. c * (q - b * w) = c * q - c * (b * w)
  OBVIOUS
<1>3. b * (c * w) = c * (b * w) /\ b * (c * w) \in Int
  OBVIOUS
<1> QED
  BY <1>1, <1>2, <1>3

\* The blocks end within the length.
LEMMA BlocksBound ==
    ASSUME NEW n \in Nat, NEW b \in Nat \ {0}
    PROVE  b * (n \div b) \in Nat /\ b * (n \div b) <= n
<1>1. /\ n \div b \in Nat /\ n % b \in 0..(b - 1)
      /\ n = b * (n \div b) + (n % b)
  BY DivMod
<1>2. b * (n \div b) \in Nat
  BY <1>1
<1> QED
  BY <1>1, <1>2

\* Block m of n ends where the next one begins, and not behind the last one.
LEMMA NextBlock ==
    ASSUME NEW b \in Nat, NEW m \in Nat, NEW n \in Nat, m < n
    PROVE  b * (m + 1) = b * m + b /\ b * (m + 1) <= b * n
  OBVIOUS

\* Of two prefixes of a sequence, the longer one is the shorter one, or it has grown.
LEMMA GrowOrSame ==
    ASSUME NEW S, NEW whole \in Seq(S), NEW d \in Seq(S), NEW e \in Seq(S),
           Len(d) <= Len(e), Len(e) <= Len(whole),
           \A k \in 1..Len(d) : d[k] = whole[k],
           \A k \in 1..Len(e) : e[k] = whole[k]
    PROVE  \/ e = d
           \/ \E n \in (Len(d) + 1)..Len(whole) : e = SubSeq(whole, 1, n)
<1>1. Len(d) \in Nat /\ Len(e) \in Nat /\ Len(whole) \in Nat
  BY LenProperties
<1>2. CASE Len(d) = Len(e)
  BY <1>2, SeqEqual
<1>3. CASE Len(d) < Len(e)
  <2>1. Len(e) \in (Len(d) + 1)..Len(whole)
    BY <1>1, <1>3
  <2>2. \A k \in 1..Len(e) : whole[k] \in S
    <3>1. \A k \in 1..Len(e) : k \in 1..Len(whole)
      BY <1>1
    <3> QED
      BY <3>1, ElementOfSeq
  <2>3. /\ SubSeq(whole, 1, Len(e)) \in Seq(S)
        /\ Len(SubSeq(whole, 1, Len(e))) = IF 1 <= Len(e) THEN Len(e) - 1 + 1 ELSE 0
        /\ \A k \in 1..(Len(e) - 1 + 1) : SubSeq(whole, 1, Len(e))[k] = whole[1 + k - 1]
    BY <1>1, <2>2, SubSeqProperties
  <2>4. /\ Len(SubSeq(whole, 1, Len(e))) = Len(e)
        /\ \A k \in 1..Len(e) : SubSeq(whole, 1, Len(e))[k] = e[k]
    BY <1>1, <2>3
  <2>5. e = SubSeq(whole, 1, Len(e))
    BY <2>3, <2>4, SeqEqual
  <2> QED
    BY <2>1, <2>5
<1> QED
  BY <1>1, <1>2, <1>3
=============================================================================
