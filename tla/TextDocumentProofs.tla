------------------------- MODULE TextDocumentProofs -------------------------
(* Proofs about TextDocument, for texts of any length over any characters   *)
(* at which Python and the client split lines alike.                        *)
EXTENDS TextDocument, FiniteSetTheorems, SequenceTheorems, WellFoundedInduction, TLAPS

-----------------------------------------------------------------------------
(* Numbers and sequences.                                                   *)

\* A set of natural numbers that is not empty has a least one.
LEMMA Least ==
  ASSUME NEW T, T \subseteq Nat, T # {}
  PROVE  \E k \in T : \A j \in T : ~(j < k)
<1>1. PICK k \in T : \A j \in T : <<j, k>> \notin OpToRel(<, Nat)
  BY NatLessThanWellFounded, WFMin, Zenon
<1> QED
  BY <1>1 DEF OpToRel

\* Numbers below a bound have a greatest one.
LEMMA Greatest ==
  ASSUME NEW n \in Nat, NEW S, S \subseteq 0 .. n, S # {}
  PROVE  Max(S) \in S /\ \A y \in S : y <= Max(S)
<1> DEFINE T == {k \in 0 .. n : n - k \in S}
<1>1. T \subseteq Nat /\ T # {}
  <2>1. PICK x \in S : TRUE
    OBVIOUS
  <2>2. n - x \in 0 .. n /\ n - (n - x) = x
    BY <2>1
  <2>3. n - x \in T
    BY <2>1, <2>2
  <2>4. T \subseteq Nat
    OBVIOUS
  <2> HIDE DEF T
  <2> QED
    BY <2>3, <2>4
<1>2. PICK k \in T : \A j \in T : ~(j < k)
  BY <1>1, Least
<1>3. n - k \in S /\ k \in 0 .. n
  BY <1>2
<1>4. ASSUME NEW y \in S PROVE n - k >= y
  <2>1. y \in 0 .. n /\ n - y \in 0 .. n /\ n - (n - y) = y
    OBVIOUS
  <2>2. n - y \in T
    BY <2>1
  <2>3. ~(n - y < k)
    BY <1>2, <2>2
  <2> QED
    BY <1>3, <2>1, <2>3
<1>5. \E x \in S : \A y \in S : x >= y
  BY <1>3, <1>4
<1>6. Max(S) \in S /\ \A y \in S : Max(S) >= y
  BY <1>5 DEF Max
<1>7. \A y \in S : y \in Nat
  OBVIOUS
<1> QED
  BY <1>6, <1>7

\* A number that the others do not go below is the minimum, and one that they
\* do not exceed is the maximum.
LEMMA ExtremeIs ==
  ASSUME NEW S, S \subseteq Nat, NEW k \in S
  PROVE  /\ (\A j \in S : k <= j) => Min(S) = k
         /\ (\A j \in S : j <= k) => Max(S) = k
<1>1. ASSUME \A j \in S : k <= j PROVE Min(S) = k
  <2>1. \E x \in S : \A y \in S : x <= y
    BY <1>1
  <2>2. Min(S) \in S /\ \A y \in S : Min(S) <= y
    BY <2>1 DEF Min
  <2>3. Min(S) \in Nat /\ k \in Nat /\ k <= Min(S) /\ Min(S) <= k
    BY <1>1, <2>2
  <2> QED
    BY <2>3
<1>2. ASSUME \A j \in S : j <= k PROVE Max(S) = k
  <2>1. \E x \in S : \A y \in S : x >= y
    BY <1>2
  <2>2. Max(S) \in S /\ \A y \in S : Max(S) >= y
    BY <2>1 DEF Max
  <2>3. Max(S) \in Nat /\ k \in Nat /\ Max(S) <= k /\ Max(S) >= k
    BY <1>2, <2>2
  <2> QED
    BY <2>3
<1> QED
  BY <1>1, <1>2

\* Pieces of a sequence: their length and elements.
LEMMA Piece ==
  ASSUME NEW S, NEW s \in Seq(S), NEW a \in Nat, NEW b \in Nat, a <= b, b <= Len(s)
  PROVE  /\ SubSeq(s, a + 1, b) \in Seq(S)
         /\ Len(SubSeq(s, a + 1, b)) = b - a
         /\ \A i \in 1 .. b - a : SubSeq(s, a + 1, b)[i] = s[a + i]
  OBVIOUS

LEMMA Prefix ==
  ASSUME NEW S, NEW s \in Seq(S), NEW k \in 0 .. Len(s)
  PROVE  /\ SubSeq(s, 1, k) \in Seq(S)
         /\ Len(SubSeq(s, 1, k)) = k
         /\ \A i \in 1 .. k : SubSeq(s, 1, k)[i] = s[i]
<1>1. k \in Nat /\ 0 <= k /\ k <= Len(s) /\ k - 0 = k /\ 0 + 1 = 1
  OBVIOUS
<1>2. /\ SubSeq(s, 0 + 1, k) \in Seq(S) /\ Len(SubSeq(s, 0 + 1, k)) = k - 0
      /\ \A i \in 1 .. k - 0 : SubSeq(s, 0 + 1, k)[i] = s[0 + i]
  BY <1>1, Piece
<1> QED
  BY <1>1, <1>2

\* Two pieces that follow each other make one.
LEMMA PiecesJoin ==
  ASSUME NEW S, NEW s \in Seq(S), NEW a \in Nat, NEW b \in Nat, NEW c \in Nat,
         a <= b, b <= c, c <= Len(s)
  PROVE  SubSeq(s, a + 1, b) \o SubSeq(s, b + 1, c) = SubSeq(s, a + 1, c)
<1> DEFINE x == SubSeq(s, a + 1, b)
           y == SubSeq(s, b + 1, c)
           z == SubSeq(s, a + 1, c)
<1>0. Len(s) \in Nat
  OBVIOUS
<1>1. x \in Seq(S) /\ Len(x) = b - a /\ \A i \in 1 .. b - a : x[i] = s[a + i]
  BY <1>0, Piece
<1>2. y \in Seq(S) /\ Len(y) = c - b /\ \A i \in 1 .. c - b : y[i] = s[b + i]
  BY <1>0, Piece
<1>3. z \in Seq(S) /\ Len(z) = c - a /\ \A i \in 1 .. c - a : z[i] = s[a + i]
  BY <1>0, Piece
<1> HIDE DEF x, y, z
<1>4. /\ x \o y \in Seq(S) /\ Len(x \o y) = c - a
      /\ \A i \in 1 .. c - a : (x \o y)[i] = IF i <= b - a THEN x[i] ELSE y[i - (b - a)]
  <2>1. Len(x) + Len(y) = c - a
    BY <1>1, <1>2
  <2>2. /\ x \o y \in Seq(S) /\ Len(x \o y) = Len(x) + Len(y)
        /\ \A i \in 1 .. Len(x) + Len(y) :
             (x \o y)[i] = IF i <= Len(x) THEN x[i] ELSE y[i - Len(x)]
    BY <1>1, <1>2, ConcatProperties, Zenon
  <2> QED
    BY <1>1, <2>1, <2>2
<1>5. ASSUME NEW i \in 1 .. c - a PROVE (x \o y)[i] = z[i]
  BY <1>1, <1>2, <1>3, <1>4
<1> QED
  BY <1>3, <1>4, <1>5, SeqEqual DEF x, y, z

\* A piece of a piece.
LEMMA PieceOfPiece ==
  ASSUME NEW S, NEW s \in Seq(S), NEW a \in Nat, NEW b \in Nat, a <= b, b <= Len(s),
         NEW c \in Nat, NEW d \in Nat, c <= d, d <= b - a
  PROVE  SubSeq(SubSeq(s, a + 1, b), c + 1, d) = SubSeq(s, a + c + 1, a + d)
<1> DEFINE x == SubSeq(s, a + 1, b)
           y == SubSeq(x, c + 1, d)
           z == SubSeq(s, a + c + 1, a + d)
<1>0. Len(s) \in Nat /\ a + c \in Nat /\ a + d \in Nat /\ (a + d) - (a + c) = d - c
      /\ a + c <= a + d /\ a + d <= Len(s)
  OBVIOUS
<1>1. x \in Seq(S) /\ Len(x) = b - a /\ \A i \in 1 .. b - a : x[i] = s[a + i]
  BY <1>0, Piece
<1>2. z \in Seq(S) /\ Len(z) = d - c /\ \A i \in 1 .. d - c : z[i] = s[a + c + i]
  BY <1>0, Piece
<1> HIDE DEF x, z
<1>3. y \in Seq(S) /\ Len(y) = d - c /\ \A i \in 1 .. d - c : y[i] = x[c + i]
  BY <1>1, Piece
<1> HIDE DEF y
<1>4. ASSUME NEW i \in 1 .. d - c PROVE y[i] = z[i]
  <2>1. c + i \in 1 .. b - a /\ a + (c + i) = a + c + i
    OBVIOUS
  <2> QED
    BY <1>1, <1>2, <1>3, <2>1
<1> QED
  BY <1>2, <1>3, <1>4, SeqEqual DEF x, y, z

\* The partial results of joining a list of sequences determine the result.
LEMMA Flattened ==
  ASSUME NEW S, NEW f \in Seq(Seq(S)), Len(f) # 0,
         NEW G \in [0 .. Len(f) -> Seq(S)], G[0] = <<>>,
         \A i \in 1 .. Len(f) : G[i] = G[i - 1] \o f[i]
  PROVE  FlattenSeq(f) = G[Len(f)]
<1> DEFINE n == Len(f)
           Step(x, i) == IF i = 1 THEN f[i] ELSE x[i - 1] \o f[i]
           h == [i \in 1 .. n |-> G[i]]
           g == CHOOSE x : x = [i \in 1 .. n |-> Step(x, i)]
<1>0. n \in Nat \ {0} /\ n \in 1 .. n
  OBVIOUS
<1>1. ASSUME NEW i \in 1 .. n PROVE h[i] = Step(h, i)
  <2>1. CASE i = 1
    <3>0. 1 \in 1 .. n /\ 1 - 1 = 0
      BY <1>0
    <3>1. G[1] = G[1 - 1] \o f[1] /\ G[1 - 1] = <<>> /\ f[1] \in Seq(S)
      BY <3>0, ElementOfSeq, Zenon
    <3>2. <<>> \o f[1] = f[1]
      BY <3>1, ConcatEmptySeq
    <3>3. h[1] = G[1]
      BY <1>0
    <3> HIDE DEF h
    <3> QED
      BY <2>1, <3>1, <3>2, <3>3, Zenon
  <2>2. CASE i # 1
    <3>1. i - 1 \in 1 .. n
      BY <1>0, <2>2
    <3>2. h[i] = G[i] /\ h[i - 1] = G[i - 1]
      BY <3>1
    <3> HIDE DEF h
    <3> QED
      BY <2>2, <3>2
  <2> QED
    BY <2>1, <2>2
<1>2. h = [i \in 1 .. n |-> Step(h, i)]
  BY <1>1
<1>3. g = [i \in 1 .. n |-> Step(g, i)]
  <2> HIDE DEF h, Step, n
  <2> QED
    BY <1>2
<1>4. \A i \in 1 .. n : g[i] = h[i]
  <2> DEFINE T == {i \in 1 .. n : g[i] # h[i]}
  <2> SUFFICES ASSUME T # {} PROVE FALSE
    OBVIOUS
  <2>1. PICK k \in T : \A j \in T : ~(j < k)
    <3>1. T \subseteq Nat
      <4> HIDE DEF g, h
      <4> QED
        BY <1>0
    <3> HIDE DEF T
    <3> QED
      BY <3>1, Least
  <2>2. k \in 1 .. n /\ g[k] # h[k]
    BY <2>1
  <2>3. g[k] = Step(g, k) /\ h[k] = Step(h, k)
    <3> HIDE DEF g, h, Step, n
    <3> QED
      BY <1>1, <1>3, <2>2
  <2>4. k # 1 => k - 1 \in 1 .. n /\ g[k - 1] = h[k - 1]
    <3>1. k # 1 => k - 1 \in 1 .. n /\ k - 1 < k
      BY <1>0, <2>2
    <3> HIDE DEF g, h, n
    <3> QED
      BY <2>1, <3>1
  <2> HIDE DEF g, h, T, n
  <2> QED
    BY <2>2, <2>3, <2>4
<1>5. FlattenSeq(f) = g[n]
  BY <1>0 DEF FlattenSeq
<1> HIDE DEF g
<1> QED
  BY <1>0, <1>4, <1>5

-----------------------------------------------------------------------------
(* Client units.                                                            *)

\* Every character takes at least one unit.
LEMMA CharUnitsPositive ==
  ASSUME NEW enc, NEW c
  PROVE  CharUnits(enc, c) \in Nat \ {0}
  BY DEF CharUnits, utf8_bytes

\* The units of the prefixes of a text, each from the one before it.
UnitsOf(enc, s, U) ==
  /\ U \in [0 .. Len(s) -> Nat]
  /\ U[0] = 0
  /\ \A i \in 1 .. Len(s) : U[i] = U[i - 1] + CharUnits(enc, s[i])

\* The sum that client_num_units forms exists.
LEMMA UnitsExist ==
  ASSUME NEW enc, NEW S, NEW s \in Seq(S)
  PROVE  \E U : UnitsOf(enc, s, U)
<1> DEFINE n == Len(s)
           Good(m, U) == /\ U \in [0 .. m -> Nat]
                         /\ U[0] = 0
                         /\ \A i \in 1 .. m : U[i] = U[i - 1] + CharUnits(enc, s[i])
           T == {m \in 0 .. n : ~\E U : Good(m, U)}
<1>0. n \in Nat
  OBVIOUS
<1>1. T = {}
  <2> SUFFICES ASSUME T # {} PROVE FALSE
    OBVIOUS
  <2>1. PICK k \in T : \A j \in T : ~(j < k)
    <3>1. T \subseteq Nat
      BY <1>0
    <3> HIDE DEF T
    <3> QED
      BY <3>1, Least
  <2>2. k \in 0 .. n /\ ~\E U : Good(k, U)
    BY <2>1
  <2>3. CASE k = 0
    <3>1. Good(0, [i \in 0 .. 0 |-> 0])
      OBVIOUS
    <3> HIDE DEF Good
    <3> QED
      BY <2>2, <2>3, <3>1
  <2>4. CASE k # 0
    <3>1. k - 1 \in 0 .. n /\ k - 1 < k /\ k \in Nat
      BY <1>0, <2>2, <2>4
    <3>2. PICK U : Good(k - 1, U)
      <4>1. k - 1 \notin T
        <5> HIDE DEF T
        <5> QED
          BY <2>1, <3>1
      <4> HIDE DEF Good
      <4> QED
        BY <3>1, <4>1
    <3> DEFINE V == [i \in 0 .. k |-> IF i = k THEN U[k - 1] + CharUnits(enc, s[k]) ELSE U[i]]
    <3>3. CharUnits(enc, s[k]) \in Nat
      BY CharUnitsPositive
    <3>4. V \in [0 .. k -> Nat] /\ V[0] = 0
      BY <2>4, <3>1, <3>2, <3>3
    <3>5. ASSUME NEW i \in 1 .. k PROVE V[i] = V[i - 1] + CharUnits(enc, s[i])
      <4>1. i - 1 \in 0 .. k /\ i - 1 # k /\ i \in 0 .. k
        BY <3>1
      <4>2. V[i - 1] = U[i - 1]
        BY <4>1
      <4>3. CASE i = k
        BY <4>1, <4>2, <4>3
      <4>4. CASE i # k
        <5>1. i \in 1 .. k - 1 /\ V[i] = U[i]
          BY <3>1, <4>1, <4>4
        <5> HIDE DEF V
        <5> QED
          BY <3>2, <4>2, <5>1
      <4> QED
        BY <4>3, <4>4
    <3> HIDE DEF V
    <3>6. Good(k, V)
      BY <3>4, <3>5
    <3> HIDE DEF Good
    <3> QED
      BY <2>2, <3>6
  <2> QED
    BY <2>3, <2>4
<1>2. n \in 0 .. n /\ n \notin T
  BY <1>0, <1>1
<1>3. \E U : Good(n, U)
  <2> HIDE DEF Good
  <2> QED
    BY <1>2
<1> QED
  BY <1>3 DEF UnitsOf

\* It is what client_num_units returns.
LEMMA UnitsAre ==
  ASSUME NEW enc, NEW S, NEW s \in Seq(S), NEW U, UnitsOf(enc, s, U)
  PROVE  client_num_units(enc, s) = U[Len(s)]
<1> DEFINE n == Len(s)
           Step(x, i) == IF i = 0 THEN 0 ELSE x[i - 1] + CharUnits(enc, s[i])
           g == CHOOSE x : x = [i \in 0 .. n |-> Step(x, i)]
<1>0. n \in Nat /\ n \in 0 .. n
  OBVIOUS
<1>1. ASSUME NEW i \in 0 .. n PROVE U[i] = Step(U, i)
  <2>1. i = 0 \/ i \in 1 .. n
    BY <1>0
  <2> QED
    BY <2>1 DEF UnitsOf
<1>2. U = [i \in 0 .. n |-> Step(U, i)]
  BY <1>1 DEF UnitsOf
<1>3. g = [i \in 0 .. n |-> Step(g, i)]
  <2> HIDE DEF Step, n
  <2> QED
    BY <1>2
<1>4. \A i \in 0 .. n : g[i] = U[i]
  <2> DEFINE T == {i \in 0 .. n : g[i] # U[i]}
  <2> SUFFICES ASSUME T # {} PROVE FALSE
    OBVIOUS
  <2>1. PICK k \in T : \A j \in T : ~(j < k)
    <3>1. T \subseteq Nat
      BY <1>0
    <3> HIDE DEF T
    <3> QED
      BY <3>1, Least
  <2>2. k \in 0 .. n /\ g[k] # U[k]
    BY <2>1
  <2>3. g[k] = Step(g, k) /\ U[k] = Step(U, k)
    <3> HIDE DEF g, Step, n
    <3> QED
      BY <1>1, <1>3, <2>2
  <2>4. k # 0 => k - 1 \in 0 .. n /\ g[k - 1] = U[k - 1]
    <3>1. k # 0 => k - 1 \in 0 .. n /\ k - 1 < k
      BY <1>0, <2>2
    <3> HIDE DEF g, n
    <3> QED
      BY <2>1, <3>1
  <2> HIDE DEF g, T, n
  <2> QED
    BY <2>2, <2>3, <2>4
<1>5. client_num_units(enc, s) = g[n]
  BY DEF client_num_units
<1> HIDE DEF g
<1> QED
  BY <1>0, <1>4, <1>5

\* The units of a prefix.
LEMMA UnitsOfPrefix ==
  ASSUME NEW enc, NEW S, NEW s \in Seq(S), NEW U, UnitsOf(enc, s, U), NEW k \in 0 .. Len(s)
  PROVE  client_num_units(enc, SubSeq(s, 1, k)) = U[k]
<1> DEFINE p == SubSeq(s, 1, k)
           W == [i \in 0 .. k |-> U[i]]
<1>1. p \in Seq(S) /\ Len(p) = k /\ (\A i \in 1 .. k : p[i] = s[i]) /\ k \in Nat
  BY Prefix
<1> HIDE DEF p
<1>2. W \in [0 .. k -> Nat] /\ W[0] = 0
  BY <1>1 DEF UnitsOf
<1>3. ASSUME NEW i \in 1 .. k PROVE W[i] = W[i - 1] + CharUnits(enc, p[i])
  <2>1. i \in 1 .. Len(s) /\ i - 1 \in 0 .. k /\ i \in 0 .. k
    BY <1>1
  <2>2. W[i] = U[i] /\ W[i - 1] = U[i - 1] /\ p[i] = s[i]
    BY <1>1, <2>1
  <2> HIDE DEF W
  <2> QED
    BY <2>1, <2>2 DEF UnitsOf
<1>4. W[k] = U[k]
  BY <1>1
<1> HIDE DEF W
<1>5. UnitsOf(enc, p, W)
  BY <1>1, <1>2, <1>3 DEF UnitsOf
<1> QED
  BY <1>1, <1>4, <1>5, UnitsAre DEF p

\* A longer prefix takes more units, and one of k characters at least k.
LEMMA UnitsGrow ==
  ASSUME NEW enc, NEW S, NEW s \in Seq(S), NEW U, UnitsOf(enc, s, U)
  PROVE  /\ \A j, k \in 0 .. Len(s) : j < k => U[j] < U[k]
         /\ \A k \in 0 .. Len(s) : k <= U[k]
<1> DEFINE n == Len(s)
           T == {k \in 0 .. n : (\E j \in 0 .. n : j < k /\ ~(U[j] < U[k])) \/ ~(k <= U[k])}
<1>0. n \in Nat /\ \A k \in 0 .. n : U[k] \in Nat
  BY DEF UnitsOf
<1>1. T = {}
  <2> SUFFICES ASSUME T # {} PROVE FALSE
    OBVIOUS
  <2>1. PICK k \in T : \A j \in T : ~(j < k)
    <3>1. T \subseteq Nat
      BY <1>0
    <3> HIDE DEF T
    <3> QED
      BY <3>1, Least
  <2>2. k \in 0 .. n /\ ((\E j \in 0 .. n : j < k /\ ~(U[j] < U[k])) \/ ~(k <= U[k]))
    BY <2>1
  <2>3. k # 0
    BY <1>0, <2>2 DEF UnitsOf
  <2>4. k - 1 \in 0 .. n /\ k - 1 < k /\ k \in 1 .. n /\ k - 1 \notin T
    <3>1. k - 1 \in 0 .. n /\ k - 1 < k /\ k \in 1 .. n
      BY <1>0, <2>2, <2>3
    <3> HIDE DEF T
    <3> QED
      BY <2>1, <3>1
  <2>5. (\A j \in 0 .. n : j < k - 1 => U[j] < U[k - 1]) /\ k - 1 <= U[k - 1]
    BY <2>4
  <2>6. U[k] = U[k - 1] + CharUnits(enc, s[k]) /\ CharUnits(enc, s[k]) \in Nat \ {0}
    BY <2>4, CharUnitsPositive DEF UnitsOf
  <2>7. U[k - 1] < U[k] /\ k <= U[k]
    BY <1>0, <2>2, <2>4, <2>5, <2>6
  <2>8. ASSUME NEW j \in 0 .. n, j < k PROVE U[j] < U[k]
    <3>1. j = k - 1 \/ j < k - 1
      BY <1>0, <2>2, <2>8
    <3> QED
      BY <1>0, <2>2, <2>4, <2>5, <2>7, <3>1, SMTT(30)
  <2> QED
    BY <2>2, <2>7, <2>8
<1> QED
  BY <1>0, <1>1

\* The units of a text are a number, no less than its length.
LEMMA UnitsNumber ==
  ASSUME NEW enc, NEW S, NEW s \in Seq(S)
  PROVE  client_num_units(enc, s) \in Nat /\ Len(s) <= client_num_units(enc, s)
<1>1. PICK U : UnitsOf(enc, s, U)
  BY UnitsExist
<1>2. Len(s) \in 0 .. Len(s)
  OBVIOUS
<1>3. client_num_units(enc, s) = U[Len(s)]
  BY <1>1, UnitsAre
<1>4. \A k \in 0 .. Len(s) : k <= U[k]
  BY <1>1, UnitsGrow, Zenon
<1>5. U[Len(s)] \in Nat
  BY <1>1, <1>2 DEF UnitsOf
<1> QED
  BY <1>2, <1>3, <1>4, <1>5, Zenon

-----------------------------------------------------------------------------
(* Positions within a line.                                                 *)

\* What a sequence of one or two elements being a suffix means.
LEMMA SuffixMeans ==
  ASSUME NEW S, NEW s \in Seq(S), NEW a, NEW b
  PROVE  /\ IsSuffix(<<a>>, s) => Len(s) >= 1 /\ s[Len(s)] = a
         /\ IsSuffix(<<a, b>>, s) <=> Len(s) >= 2 /\ s[Len(s) - 1] = a /\ s[Len(s)] = b
<1>0. Len(s) \in Nat
  OBVIOUS
<1> DEFINE r == Reverse(s)
           r1 == Reverse(<<a>>)
           r2 == Reverse(<<a, b>>)
<1>1. r \in Seq(S) /\ Len(r) = Len(s) /\ \A i \in 1 .. Len(s) : r[i] = s[(Len(s) - i) + 1]
  <2>1. \A i \in 1 .. Len(s) : (Len(s) - i) + 1 \in 1 .. Len(s)
    BY <1>0
  <2> QED
    BY <1>0, <2>1 DEF Reverse
<1>2. Len(r1) = 1 /\ r1[1] = a /\ r1 \in Seq({a})
  BY DEF Reverse
<1>3. Len(r2) = 2 /\ r2[1] = b /\ r2[2] = a /\ r2 \in Seq({a, b})
  BY DEF Reverse
<1> HIDE DEF r, r1, r2
<1>4. IsSuffix(<<a>>, s) => Len(s) >= 1 /\ SubSeq(r1, 1, 1) = SubSeq(r, 1, 1)
  BY <1>0, <1>1, <1>2 DEF IsSuffix, IsPrefix, r, r1
<1>5. IsSuffix(<<a, b>>, s) <=> Len(s) >= 2 /\ SubSeq(r2, 1, 2) = SubSeq(r, 1, 2)
  BY <1>0, <1>1, <1>3 DEF IsSuffix, IsPrefix, r, r2
<1>6. SubSeq(r1, 1, 1)[1] = a /\ (Len(s) >= 1 => SubSeq(r, 1, 1)[1] = s[Len(s)])
  BY <1>0, <1>1, <1>2
<1>7. /\ Len(SubSeq(r2, 1, 2)) = 2 /\ SubSeq(r2, 1, 2)[1] = b /\ SubSeq(r2, 1, 2)[2] = a
      /\ SubSeq(r2, 1, 2) \in Seq({a, b})
  BY <1>3
<1>8. ASSUME Len(s) >= 2
      PROVE  /\ Len(SubSeq(r, 1, 2)) = 2 /\ SubSeq(r, 1, 2) \in Seq(S)
             /\ SubSeq(r, 1, 2)[1] = s[Len(s)] /\ SubSeq(r, 1, 2)[2] = s[Len(s) - 1]
  BY <1>0, <1>1, <1>8
<1>9. ASSUME Len(s) >= 2
      PROVE  SubSeq(r2, 1, 2) = SubSeq(r, 1, 2) <=> s[Len(s) - 1] = a /\ s[Len(s)] = b
  <2> DEFINE x == SubSeq(r2, 1, 2)
             y == SubSeq(r, 1, 2)
  <2>1. Len(x) = 2 /\ x[1] = b /\ x[2] = a /\ x \in Seq({a, b})
    BY <1>7
  <2>2. Len(y) = 2 /\ y[1] = s[Len(s)] /\ y[2] = s[Len(s) - 1] /\ y \in Seq(S)
    BY <1>8, <1>9
  <2> HIDE DEF x, y
  <2>3. x = <<x[1], x[2]>> /\ y = <<y[1], y[2]>>
    BY <2>1, <2>2
  <2>4. x = y <=> s[Len(s) - 1] = a /\ s[Len(s)] = b
    BY <2>1, <2>2, <2>3, Zenon
  <2> QED
    BY <2>4 DEF x, y
<1>10. IsSuffix(<<a>>, s) => Len(s) >= 1 /\ s[Len(s)] = a
  BY <1>4, <1>6
<1>11. IsSuffix(<<a, b>>, s) <=> Len(s) >= 2 /\ s[Len(s) - 1] = a /\ s[Len(s)] = b
  BY <1>5, <1>9, Zenon
<1> QED
  BY <1>10, <1>11

\* A line without the "\r" of its "\r\n": a text that agrees with the line up to
\* there.
LEMMA Joined ==
  ASSUME NEW line \in Seq(Chars)
  PROVE  LET n == IF IsSuffix(<<"cr", "lf">>, line) THEN Len(line) - 1 ELSE Len(line)
             m == IF IsSuffix(<<"cr", "lf">>, line) THEN Len(line) - 2 ELSE Len(line)
         IN  /\ JoinCrlf(line) \in Seq(Chars)
             /\ Len(JoinCrlf(line)) = n
             /\ \A k \in 0 .. m : SubSeq(JoinCrlf(line), 1, k) = SubSeq(line, 1, k)
<1>1. CASE ~IsSuffix(<<"cr", "lf">>, line)
  BY <1>1 DEF JoinCrlf
<1>2. CASE IsSuffix(<<"cr", "lf">>, line)
  <2> DEFINE m == Len(line) - 2
             p == SubSeq(line, 1, m)
             j == p \o <<"lf">>
  <2>1. m \in Nat /\ Len(line) >= 2 /\ Len(line) \in Nat
    <3>1. Len(line) >= 2
      BY <1>2, SuffixMeans, Zenon
    <3> QED
      BY <3>1
  <2>2. JoinCrlf(line) = j
    <3>1. Upto(line, m) = p
      BY <2>1 DEF Upto
    <3> HIDE DEF m, p
    <3> QED
      BY <1>2, <3>1 DEF JoinCrlf, m
  <2>3. p \in Seq(Chars) /\ Len(p) = m /\ \A i \in 1 .. m : p[i] = line[i]
    <3>1. m \in 0 .. Len(line)
      BY <2>1
    <3> HIDE DEF m
    <3> QED
      BY <3>1, Prefix
  <2>4. <<"lf">> \in Seq(Chars) /\ Len(<<"lf">>) = 1
    BY DEF Chars
  <2> HIDE DEF p
  <2>5. /\ j \in Seq(Chars) /\ Len(j) = Len(p) + Len(<<"lf">>)
        /\ \A i \in 1 .. Len(p) + Len(<<"lf">>) :
             j[i] = IF i <= Len(p) THEN p[i] ELSE <<"lf">>[i - Len(p)]
    BY <2>3, <2>4, ConcatProperties, Zenon
  <2> HIDE DEF j, m
  <2>6. Len(j) = m + 1 /\ \A i \in 1 .. m : j[i] = line[i]
    BY <2>1, <2>3, <2>4, <2>5
  <2>7. ASSUME NEW k \in 0 .. m PROVE SubSeq(j, 1, k) = SubSeq(line, 1, k)
    <3>1. k <= Len(j) /\ k <= Len(line) /\ k \in Nat
      BY <2>1, <2>6 DEF m
    <3>2. /\ SubSeq(j, 1, k) \in Seq(Chars) /\ Len(SubSeq(j, 1, k)) = k
          /\ \A i \in 1 .. k : SubSeq(j, 1, k)[i] = j[i]
      BY <2>5, <3>1
    <3>3. /\ SubSeq(line, 1, k) \in Seq(Chars) /\ Len(SubSeq(line, 1, k)) = k
          /\ \A i \in 1 .. k : SubSeq(line, 1, k)[i] = line[i]
      BY <3>1
    <3>4. \A i \in 1 .. k : i \in 1 .. m
      BY <2>1
    <3> QED
      BY <2>6, <3>2, <3>3, <3>4, SeqEqual
  <2>8. m + 1 = Len(line) - 1
    BY <2>1 DEF m
  <2> QED
    BY <1>2, <2>2, <2>5, <2>6, <2>7, <2>8 DEF m
<1> QED
  BY <1>1, <1>2

\* The units before a place in a line lead back to the place, unless it lies in
\* or behind the "\r\n" at the end of the line.
FindsPlace(enc, lines, l, k) ==
  position_from_client_units(enc, lines,
    Position(l, client_num_units(enc, SubSeq(lines[l + 1], 1, k)))) = Position(l, k)

LEMMA PlaceFromUnits ==
  ASSUME NEW enc, NEW lines, NEW l, ~(l >= Len(lines)), lines # <<>>,
         lines[l + 1] \in Seq(Chars), NEW k \in 0 .. Len(lines[l + 1]),
         IsSuffix(<<"cr", "lf">>, lines[l + 1]) => k <= Len(lines[l + 1]) - 2
  PROVE  FindsPlace(enc, lines, l, k)
<1> DEFINE line == lines[l + 1]
<1> DEFINE j == JoinCrlf(line)
           p == Position(l, client_num_units(enc, SubSeq(line, 1, k)))
<1>1. j \in Seq(Chars) /\ Len(j) \in Nat /\ k \in 0 .. Len(j) /\ SubSeq(j, 1, k) = SubSeq(line, 1, k)
  <2>1. Len(line) \in Nat
    OBVIOUS
  <2>2. CASE IsSuffix(<<"cr", "lf">>, line)
    <3>1. k \in 0 .. Len(line) - 2
      BY <2>1, <2>2
    <3> QED
      BY <2>1, <2>2, <3>1, Joined
  <2>3. CASE ~IsSuffix(<<"cr", "lf">>, line)
    BY <2>1, <2>3, Joined
  <2> QED
    BY <2>2, <2>3
<1> HIDE DEF j
<1>2. PICK U : UnitsOf(enc, j, U)
  BY <1>1, UnitsExist
<1>3. \A i \in 0 .. Len(j) : client_num_units(enc, SubSeq(j, 1, i)) = U[i] /\ U[i] \in Nat
  <2>1. ASSUME NEW i \in 0 .. Len(j) PROVE client_num_units(enc, SubSeq(j, 1, i)) = U[i]
    BY <1>1, <1>2, UnitsOfPrefix
  <2>2. U \in [0 .. Len(j) -> Nat]
    BY <1>2, Zenon DEF UnitsOf
  <2> QED
    BY <2>1, <2>2, Zenon
<1>4. \A h, i \in 0 .. Len(j) : h < i => U[h] < U[i]
  BY <1>1, <1>2, UnitsGrow, Zenon
<1>5. client_num_units(enc, j) = U[Len(j)]
  BY <1>1, <1>2, UnitsAre
<1>6. p.line = l /\ p.character = U[k] /\ p = Position(l, U[k])
  BY <1>1, <1>3 DEF Position
<1>7. U[k] \in Nat /\ U[Len(j)] \in Nat /\ ~(U[k] > U[Len(j)])
  <2>1. Len(j) \in 0 .. Len(j) /\ (k = Len(j) \/ k < Len(j))
    BY <1>1
  <2>2. U[k] \in Nat /\ U[Len(j)] \in Nat
    BY <1>1, <1>3, <2>1
  <2>3. k = Len(j) \/ U[k] < U[Len(j)]
    BY <1>1, <1>4, <2>1
  <2> QED
    BY <2>2, <2>3
<1> DEFINE P == {i \in 0 .. Len(j) :
                   i = Len(j) \/ client_num_units(enc, Upto(j, i)) >= U[k]}
<1>8. \A i \in 0 .. Len(j) : Upto(j, i) = SubSeq(j, 1, i)
  BY <1>1 DEF Upto
<1>9. P = {i \in 0 .. Len(j) : i = Len(j) \/ U[i] >= U[k]}
  BY <1>3, <1>8
<1>10. k \in P /\ P \subseteq Nat
  BY <1>1, <1>7, <1>9
<1>11. ASSUME NEW i \in P PROVE k <= i
  <2>1. i \in 0 .. Len(j) /\ (i = Len(j) \/ U[i] >= U[k]) /\ U[i] \in Nat
    BY <1>3, <1>9
  <2>2. i < k => U[i] < U[k]
    BY <1>1, <1>4, <2>1
  <2> QED
    BY <1>1, <1>7, <2>1, <2>2
<1>12. Min(P) = k
  <2> HIDE DEF P
  <2> QED
    BY <1>10, <1>11, ExtremeIs
<1>13. position_from_client_units(enc, lines, p) = Position(l, Min(P))
  <2>1. ~(p.line >= Len(lines)) /\ lines[p.line + 1] = line
    BY <1>6
  <2>2. (IF p.character > client_num_units(enc, j) THEN client_num_units(enc, j) - 1
         ELSE p.character) = U[k]
    BY <1>5, <1>6, <1>7
  <2> HIDE DEF p
  <2> QED
    BY <1>6, <2>1, <2>2 DEF position_from_client_units, j
<1> QED
  BY <1>12, <1>13 DEF FindsPlace

-----------------------------------------------------------------------------
(* Lines.                                                                   *)

\* How many lines end up to a place.
Rank(s, n) == Cardinality({m \in LineEnds(s) : m <= n})

\* The ends of lines are finitely many, and the end of the text is the last.
LEMMA EndsFinite ==
  ASSUME NEW S, NEW s \in Seq(S)
  PROVE  /\ IsFiniteSet(LineEnds(s)) /\ Cardinality(LineEnds(s)) \in Nat
         /\ LineEnds(s) \subseteq 1 .. Len(s)
         /\ Len(s) # 0 => Len(s) \in LineEnds(s)
<1>1. LineEnds(s) \subseteq 1 .. Len(s) /\ Len(s) \in Nat
  BY DEF LineEnds
<1>2. IsFiniteSet(1 .. Len(s))
  BY <1>1, FS_Interval
<1>3. IsFiniteSet(LineEnds(s))
  BY <1>1, <1>2, FS_Subset
<1>4. Cardinality(LineEnds(s)) \in Nat
  BY <1>3, FS_CardinalityType
<1>5. Len(s) # 0 => Len(s) \in LineEnds(s)
  BY <1>1 DEF LineEnds
<1> QED
  BY <1>1, <1>3, <1>4, <1>5

\* Of two ends, the later has more before it.
LEMMA RankOrder ==
  ASSUME NEW S, NEW s \in Seq(S)
  PROVE  /\ \A a \in LineEnds(s) \cup {0} : Rank(s, a) \in 0 .. Cardinality(LineEnds(s))
         /\ \A a, b \in LineEnds(s) \cup {0} : a < b => Rank(s, a) < Rank(s, b)
         /\ Rank(s, 0) = 0
<1> DEFINE E == LineEnds(s)
           Below(a) == {m \in E : m <= a}
<1>1. IsFiniteSet(E) /\ Cardinality(E) \in Nat /\ E \subseteq 1 .. Len(s) /\ Len(s) \in Nat
  BY EndsFinite
<1>0. \A m \in E : m \in Nat /\ 0 < m
  BY <1>1
<1> HIDE DEF E
<1>2. ASSUME NEW a \in E \cup {0}
      PROVE  IsFiniteSet(Below(a)) /\ Cardinality(Below(a)) \in 0 .. Cardinality(E)
  <2>1. Below(a) \in SUBSET E
    OBVIOUS
  <2> HIDE DEF Below
  <2>2. IsFiniteSet(Below(a)) /\ Cardinality(Below(a)) <= Cardinality(E)
    BY <1>1, <2>1, FS_Subset
  <2>3. Cardinality(Below(a)) \in Nat
    BY <2>2, FS_CardinalityType
  <2> QED
    BY <1>1, <2>2, <2>3
<1>3. ASSUME NEW a \in E \cup {0}, NEW b \in E \cup {0}, a < b
      PROVE  Cardinality(Below(a)) < Cardinality(Below(b))
  <2>1. Below(a) \in SUBSET Below(b) /\ b \in Below(b) /\ b \notin Below(a)
    <3>1. a \in Nat /\ b \in E /\ b \in Nat
      BY <1>0, <1>3
    <3>2. \A m \in E : m <= a => m <= b
      BY <1>0, <1>3, <3>1
    <3>3. b <= b /\ ~(b <= a)
      BY <1>3, <3>1
    <3> QED
      BY <3>1, <3>2, <3>3
  <2> HIDE DEF Below
  <2>2. /\ Cardinality(Below(a)) \in Nat /\ Cardinality(Below(b)) \in Nat
        /\ IsFiniteSet(Below(b))
    BY <1>1, <1>2
  <2>3. /\ Cardinality(Below(a)) <= Cardinality(Below(b))
        /\ Cardinality(Below(b)) = Cardinality(Below(a)) => Below(b) = Below(a)
    BY <2>1, <2>2, FS_Subset
  <2>4. Below(b) # Below(a)
    BY <2>1
  <2> QED
    BY <2>2, <2>3, <2>4
<1>4. Below(0) = {}
  BY <1>0
<1>5. Cardinality(Below(0)) = 0
  BY <1>4, FS_EmptySet
<1>6. \A a : Rank(s, a) = Cardinality(Below(a))
  BY DEF Rank, E
<1> HIDE DEF Below
<1>7. /\ \A a \in E \cup {0} : Rank(s, a) \in 0 .. Cardinality(E)
      /\ \A a, b \in E \cup {0} : a < b => Rank(s, a) < Rank(s, b)
      /\ Rank(s, 0) = 0
  BY <1>2, <1>3, <1>5, <1>6
<1> QED
  BY <1>7 DEF E

\* Every number of lines is the rank of an end.
LEMMA RankOnto ==
  ASSUME NEW S, NEW s \in Seq(S), NEW k \in 0 .. Cardinality(LineEnds(s))
  PROVE  \E n \in LineEnds(s) \cup {0} : Rank(s, n) = k
<1> DEFINE E == LineEnds(s)
           A == E \cup {0}
           B == 0 .. Cardinality(E)
           f == [n \in A |-> Rank(s, n)]
<1>1. IsFiniteSet(E) /\ Cardinality(E) \in Nat /\ E \subseteq 1 .. Len(s) /\ Len(s) \in Nat
  BY EndsFinite
<1>2. \A a, b \in A : a < b => Rank(s, a) < Rank(s, b)
  BY RankOrder, Zenon
<1>3. \A a \in A : Rank(s, a) \in B
  BY RankOrder, Zenon
<1> HIDE DEF E
<1>4. 0 \notin E /\ A \subseteq Nat
  BY <1>1
<1>5. IsFiniteSet(A) /\ Cardinality(A) = Cardinality(E) + 1
  BY <1>1, <1>4, FS_AddElement
<1>6. IsFiniteSet(B) /\ Cardinality(B) = Cardinality(E) + 1
  BY <1>1, FS_Interval
<1> HIDE DEF A
<1>7. f \in Injection(A, B)
  <2>1. f \in [A -> B]
    BY <1>3
  <2>2. ASSUME NEW a \in A, NEW b \in A, f[a] = f[b] PROVE a = b
    <3>1. Rank(s, a) = Rank(s, b) /\ Rank(s, a) \in Nat
      BY <1>1, <1>3, <2>2
    <3>2. ~(a < b) /\ ~(b < a)
      BY <1>2, <3>1
    <3> QED
      BY <1>4, <3>2
  <2> HIDE DEF f
  <2> QED
    BY <2>1, <2>2 DEF Injection, IsInjective
<1>8. f \in Surjection(A, B)
  <2> HIDE DEF f, B
  <2> QED
    BY <1>5, <1>6, <1>7, FS_Injection
<1>9. k \in B
  BY DEF E
<1>10. PICK n \in A : f[n] = k
  <2> HIDE DEF f, B
  <2> QED
    BY <1>8, <1>9 DEF Surjection
<1> QED
  BY <1>10 DEF A, E

\* Where lines end: in order, from the beginning to the end of the text.
LEMMA Cuts ==
  ASSUME NEW S, NEW s \in Seq(S)
  PROVE  LET K == Cardinality(LineEnds(s))
         IN  /\ \A k \in 0 .. K : Cut(s, k) \in LineEnds(s) \cup {0} /\ Cut(s, k) \in 0 .. Len(s)
             /\ \A n \in LineEnds(s) \cup {0} : Cut(s, Rank(s, n)) = n
             /\ \A j, k \in 0 .. K : j < k => Cut(s, j) < Cut(s, k)
             /\ Cut(s, 0) = 0 /\ Cut(s, K) = Len(s)
<1> DEFINE E == LineEnds(s)
           K == Cardinality(E)
           A == E \cup {0}
<1>1. /\ K \in Nat /\ E \subseteq 1 .. Len(s) /\ Len(s) \in Nat /\ A \subseteq 0 .. Len(s)
      /\ Len(s) # 0 => Len(s) \in E
  BY EndsFinite
<1>0. \A a \in A : a \in Nat /\ a \in 0 .. Len(s)
  BY <1>1
<1>2. /\ \A a, b \in A : a < b => Rank(s, a) < Rank(s, b)
      /\ Rank(s, 0) = 0
      /\ \A a \in A : Rank(s, a) \in 0 .. K
  BY RankOrder, Zenon
<1>3. \A k \in 0 .. K : \E n \in A : Rank(s, n) = k
  BY RankOnto
<1>4. \A k : Cut(s, k) = CHOOSE n \in A : Rank(s, n) = k
  BY DEF Cut, Rank
<1> HIDE DEF A, K
<1>5. \A k \in 0 .. K : Cut(s, k) \in A /\ Rank(s, Cut(s, k)) = k
  BY <1>3, <1>4, Zenon
<1>6. ASSUME NEW n \in A PROVE Cut(s, Rank(s, n)) = n
  <2> DEFINE c == Cut(s, Rank(s, n))
  <2>1. c \in A /\ Rank(s, c) = Rank(s, n) /\ Rank(s, c) \in 0 .. K
    BY <1>2, <1>5
  <2> HIDE DEF c
  <2>2. ~(c < n) /\ ~(n < c) /\ c \in Nat /\ n \in Nat
    BY <1>1, <1>2, <2>1
  <2>3. c = n
    BY <2>2
  <2> QED
    BY <2>3 DEF c
<1>7. ASSUME NEW j \in 0 .. K, NEW k \in 0 .. K, j < k PROVE Cut(s, j) < Cut(s, k)
  <2>1. /\ Cut(s, j) \in A /\ Cut(s, k) \in A
        /\ Rank(s, Cut(s, j)) = j /\ Rank(s, Cut(s, k)) = k
    BY <1>5
  <2>2. Cut(s, j) \in Nat /\ Cut(s, k) \in Nat
    BY <1>0, <2>1
  <2>3. Cut(s, k) < Cut(s, j) => k < j
    BY <1>2, <2>1
  <2>4. Cut(s, k) # Cut(s, j)
    BY <1>1, <1>7, <2>1
  <2> QED
    BY <1>1, <1>7, <2>2, <2>3, <2>4
<1>8. 0 \in A /\ Len(s) \in A
  BY <1>1 DEF A
<1>9. Cut(s, 0) = 0
  BY <1>2, <1>6, <1>8
<1>10. Cut(s, K) = Len(s)
  <2>0. K \in 0 .. K
    BY <1>1
  <2>1. Cut(s, K) \in A /\ Cut(s, K) \in 0 .. Len(s) /\ Rank(s, Cut(s, K)) = K
    BY <1>0, <1>5, <2>0
  <2>2. Rank(s, Len(s)) \in 0 .. K
    BY <1>2, <1>8
  <2>3. Cut(s, K) < Len(s) => K < Rank(s, Len(s))
    BY <1>2, <1>8, <2>1
  <2> QED
    BY <1>1, <2>1, <2>2, <2>3
<1>11. \A k \in 0 .. K : Cut(s, k) \in A /\ Cut(s, k) \in 0 .. Len(s)
  BY <1>1, <1>5
<1> QED
  BY <1>6, <1>7, <1>9, <1>10, <1>11 DEF A, K

\* The lines of a text are its pieces between these places, none of them empty.
LEMMA Lines ==
  ASSUME NEW S, NEW s \in Seq(S)
  PROVE  LET K == Cardinality(LineEnds(s))
         IN  /\ K \in Nat /\ Len(splitlines(s)) = K
             /\ splitlines(s) \in Seq(Seq(S))
             /\ (splitlines(s) = <<>>) <=> (K = 0)
             /\ K = 0 => s = <<>>
             /\ \A k \in 1 .. K :
                  /\ Cut(s, k - 1) \in Nat /\ Cut(s, k) \in Nat
                  /\ Cut(s, k - 1) < Cut(s, k) /\ Cut(s, k) <= Len(s)
                  /\ splitlines(s)[k] = SubSeq(s, Cut(s, k - 1) + 1, Cut(s, k))
                  /\ splitlines(s)[k] \in Seq(S)
                  /\ Len(splitlines(s)[k]) = Cut(s, k) - Cut(s, k - 1)
<1> DEFINE K == Cardinality(LineEnds(s))
           ls == splitlines(s)
<1>1. K \in Nat /\ Len(s) \in Nat
  BY EndsFinite
<1>2. /\ \A k \in 0 .. K : Cut(s, k) \in 0 .. Len(s)
      /\ \A j, k \in 0 .. K : j < k => Cut(s, j) < Cut(s, k)
      /\ Cut(s, 0) = 0 /\ Cut(s, K) = Len(s)
  BY Cuts, Zenon
<1>3. ls = [k \in 1 .. K |-> SubSeq(s, Cut(s, k - 1) + 1, Cut(s, k))]
  BY DEF splitlines
<1> HIDE DEF K, ls
<1>4. ASSUME NEW k \in 1 .. K
      PROVE  /\ Cut(s, k - 1) \in Nat /\ Cut(s, k) \in Nat
             /\ Cut(s, k - 1) < Cut(s, k) /\ Cut(s, k) <= Len(s)
             /\ ls[k] = SubSeq(s, Cut(s, k - 1) + 1, Cut(s, k))
             /\ ls[k] \in Seq(S)
             /\ Len(ls[k]) = Cut(s, k) - Cut(s, k - 1)
  <2>1. k - 1 \in 0 .. K /\ k \in 0 .. K /\ k - 1 < k
    BY <1>1
  <2>2. /\ Cut(s, k - 1) \in Nat /\ Cut(s, k) \in Nat
        /\ Cut(s, k - 1) < Cut(s, k) /\ Cut(s, k) <= Len(s)
    <3>1. Cut(s, k - 1) \in 0 .. Len(s) /\ Cut(s, k) \in 0 .. Len(s)
      BY <1>2, <2>1
    <3>2. Cut(s, k - 1) < Cut(s, k)
      BY <1>2, <2>1
    <3> QED
      BY <1>1, <3>1, <3>2
  <2>3. ls[k] = SubSeq(s, Cut(s, k - 1) + 1, Cut(s, k))
    BY <1>3
  <2>4. Cut(s, k - 1) <= Cut(s, k)
    BY <2>2
  <2> QED
    BY <2>2, <2>3, <2>4, Piece
<1>5. ls \in Seq(Seq(S)) /\ Len(ls) = K
  <2>1. ls \in [1 .. K -> Seq(S)]
    BY <1>3, <1>4
  <2> QED
    BY <1>1, <2>1
<1>6. (ls = <<>>) <=> (K = 0)
  BY <1>1, <1>5
<1>7. K = 0 => s = <<>>
  BY <1>2
<1> QED
  BY <1>1, <1>4, <1>5, <1>6, <1>7 DEF K, ls

\* The characters at which Python and the client split alike.
Plain == Chars \ {"separator"}

\* The line that the client counts an offset to.  The place after the last line
\* end begins a line that splitlines does not have.
LEMMA OffsetLine ==
  ASSUME NEW s \in Seq(Plain), NEW o \in 0 .. Len(s)
  PROVE  LET K == Cardinality(LineEnds(s))
             ends == {n \in 1 .. o : EndsLine(s, n)}
             L == Cardinality(ends)
             m == Max(ends \cup {0})
         IN  /\ L \in 0 .. K /\ m \in 0 .. o /\ Cut(s, L) = m
             /\ L < K => /\ o <= Cut(s, L + 1)
                         /\ o = Cut(s, L + 1) => o = Len(s) /\ ~EndsLine(s, o)
             /\ L = K => o = Len(s) /\ (o # 0 => EndsLine(s, o))
<1> DEFINE E == LineEnds(s)
           K == Cardinality(E)
           ends == {n \in 1 .. o : EndsLine(s, n)}
           L == Cardinality(ends)
           m == Max(ends \cup {0})
<1>1. /\ K \in Nat /\ Len(s) \in Nat /\ o \in Nat /\ o <= Len(s)
      /\ \A n \in E : n \in 1 .. Len(s)
  BY EndsFinite
<1>2. \A n \in 1 .. Len(s) : n \in E <=> EndsLine(s, n) \/ n = Len(s)
  <2>1. \A n \in 1 .. Len(s) : s[n] # "separator"
    BY DEF Plain
  <2> QED
    BY <2>1 DEF LineEnds
<1>3. m \in ends \cup {0} /\ \A n \in ends \cup {0} : n <= m
  <2>1. ends \cup {0} \subseteq 0 .. o /\ ends \cup {0} # {}
    BY <1>1
  <2> HIDE DEF ends
  <2> QED
    BY <1>1, <2>1, Greatest
<1> HIDE DEF m
<1>4. m \in 0 .. o /\ m \in Nat
  BY <1>1, <1>3
<1>5. m \in E \cup {0}
  <2>1. ASSUME m # 0 PROVE m \in 1 .. Len(s) /\ EndsLine(s, m)
    BY <1>1, <1>3, <1>4, <2>1
  <2> HIDE DEF E
  <2> QED
    BY <1>2, <2>1
<1>6. ends = {n \in E : n <= m}
  <2>1. ASSUME NEW n \in ends PROVE n \in E /\ n <= m
    <3>1. n \in 1 .. Len(s) /\ EndsLine(s, n)
      BY <1>1
    <3> HIDE DEF E, ends
    <3> QED
      BY <1>2, <1>3, <2>1, <3>1
  <2>2. ASSUME NEW n \in E, n <= m PROVE n \in ends
    <3>1. n \in 1 .. Len(s) /\ n \in 1 .. o
      BY <1>1, <1>4, <2>2
    <3>2. CASE EndsLine(s, n)
      BY <3>1, <3>2
    <3>3. CASE n = Len(s)
      <4>1. m = n
        BY <1>1, <1>4, <2>2, <3>1, <3>3
      <4> QED
        BY <1>3, <3>1, <4>1
    <3> HIDE DEF E, ends
    <3> QED
      BY <1>2, <3>1, <3>2, <3>3
  <2> HIDE DEF E, ends
  <2> QED
    BY <2>1, <2>2
<1>7. L = Rank(s, m)
  BY <1>6 DEF Rank
<1>8. L \in 0 .. K /\ Cut(s, L) = m
  <2>1. Rank(s, m) \in 0 .. K
    BY <1>5, RankOrder, Zenon
  <2>2. Cut(s, Rank(s, m)) = m
    BY <1>5, Cuts, Zenon
  <2> QED
    BY <1>7, <2>1, <2>2, Zenon
<1> HIDE DEF L, K
<1>9. ASSUME L < K
      PROVE  /\ o <= Cut(s, L + 1)
             /\ o = Cut(s, L + 1) => o = Len(s) /\ ~EndsLine(s, o)
  <2> DEFINE c == Cut(s, L + 1)
  <2>1. L + 1 \in 0 .. K /\ L < L + 1
    BY <1>1, <1>8, <1>9
  <2>2. c \in E \cup {0} /\ Cut(s, L) < c
    BY <1>8, <2>1, Cuts, Zenon DEF K
  <2> HIDE DEF c
  <2>3. c \in E /\ m < c /\ c \in 1 .. Len(s) /\ c \in Nat
    <3>1. m < c
      BY <1>8, <2>2
    <3>2. c # 0
      BY <1>4, <3>1
    <3> HIDE DEF E
    <3> QED
      BY <1>1, <2>2, <3>1, <3>2
  <2>4. c \notin ends
    <3>1. c \in ends => c <= m
      BY <1>3
    <3> QED
      BY <1>4, <2>3, <3>1
  <2>5. c \in 1 .. o => ~EndsLine(s, c)
    BY <2>4
  <2>6. EndsLine(s, c) \/ c = Len(s)
    <3> HIDE DEF E
    <3> QED
      BY <1>2, <2>3
  <2>7. o <= c
    BY <1>1, <2>3, <2>5, <2>6
  <2>8. o = c => c \in 1 .. o
    BY <1>1, <2>3
  <2> QED
    BY <2>5, <2>6, <2>7, <2>8 DEF c
<1>10. ASSUME L = K PROVE o = Len(s) /\ (o # 0 => EndsLine(s, o))
  <2>1. Cut(s, K) = Len(s)
    BY Cuts, Zenon DEF K
  <2>2. m = Len(s)
    BY <1>8, <1>10, <2>1
  <2>3. o = m
    BY <1>1, <1>4, <2>2
  <2>4. m # 0 => EndsLine(s, m)
    BY <1>3
  <2> QED
    BY <2>2, <2>3, <2>4
<1> QED
  BY <1>4, <1>8, <1>9, <1>10 DEF K, L, m

-----------------------------------------------------------------------------
(* Positions in a text.                                                     *)

\* The position of an offset names a line of splitlines, and converted to code
\* points the place in it, unless the offset is the end of a text that ends with
\* a line end, or of an empty one.
LEMMA Converted ==
  ASSUME text \in Seq(Plain), NEW o \in Offsets
  PROVE  LET K == Cardinality(LineEnds(text))
             p == PositionOf(o)
             i == o - Cut(text, p.line)
         IN  /\ p.line \in 0 .. K /\ o \in Nat /\ o <= Len(text)
             /\ p.line = K => o = Len(text) /\ (o # 0 => EndsLine(text, o))
             /\ p.line < K =>
                  /\ Cut(text, p.line) <= o /\ o <= Cut(text, p.line + 1)
                  /\ o = Cut(text, p.line + 1) =>
                       p.line + 1 = K /\ o = Len(text) /\ ~EndsLine(text, o)
                  /\ p = Position(p.line,
                           client_num_units(encoding, SubSeq(splitlines(text)[p.line + 1], 1, i)))
                  /\ position_from_client_units(encoding, splitlines(text), p) = Position(p.line, i)
<1> DEFINE K == Cardinality(LineEnds(text))
           ls == splitlines(text)
           ends == {n \in 1 .. o : EndsLine(text, n)}
           L == Cardinality(ends)
           m == Max(ends \cup {0})
           u == client_num_units(encoding, SubSeq(text, m + 1, o))
<1>1. o \in 0 .. Len(text) /\ Len(text) \in Nat /\ o \in Nat /\ o <= Len(text)
  BY DEF Offsets
<1>2. /\ L \in 0 .. K /\ m \in 0 .. o /\ Cut(text, L) = m
      /\ L < K => /\ o <= Cut(text, L + 1)
                  /\ o = Cut(text, L + 1) => o = Len(text) /\ ~EndsLine(text, o)
      /\ L = K => o = Len(text) /\ (o # 0 => EndsLine(text, o))
  BY <1>1, OffsetLine, Zenon
<1>3. PositionOf(o) = Position(L, u)
  BY DEF PositionOf
<1>4. Position(L, u).line = L
  BY DEF Position
<1>5. K \in Nat
  BY EndsFinite
<1> HIDE DEF K, L, m
<1>6. ASSUME L < K
      PROVE  /\ m <= o
             /\ o = Cut(text, L + 1) => L + 1 = K
             /\ u = client_num_units(encoding, SubSeq(ls[L + 1], 1, o - m))
             /\ position_from_client_units(encoding, ls, Position(L, u)) = Position(L, o - m)
  <2> DEFINE c == Cut(text, L + 1)
             line == ls[L + 1]
  <2>1. L + 1 \in 1 .. K /\ (L + 1) - 1 = L /\ L \in Nat /\ m \in Nat /\ m <= o
    BY <1>1, <1>2, <1>5, <1>6
  <2>2. /\ m < c /\ c \in Nat /\ c <= Len(text)
        /\ line = SubSeq(text, m + 1, c) /\ line \in Seq(Plain) /\ Len(line) = c - m
    <3>1. /\ Cut(text, (L + 1) - 1) \in Nat /\ c \in Nat
          /\ Cut(text, (L + 1) - 1) < c /\ c <= Len(text)
          /\ line = SubSeq(text, Cut(text, (L + 1) - 1) + 1, c)
          /\ line \in Seq(Plain)
          /\ Len(line) = c - Cut(text, (L + 1) - 1)
      BY <2>1, Lines, Zenon DEF K
    <3> HIDE DEF c, line
    <3> QED
      BY <1>2, <2>1, <3>1
  <2>3. /\ ls # <<>> /\ Len(ls) = K
    <3>1. Len(ls) = K /\ (ls = <<>> <=> K = 0)
      BY Lines, Zenon DEF K
    <3> HIDE DEF ls
    <3> QED
      BY <1>5, <2>1, <3>1
  <2>4. o <= c /\ (o = c => o = Len(text) /\ ~EndsLine(text, o))
    BY <1>2, <1>6
  <2>5. o = c => L + 1 = K
    <3>1. ASSUME L + 1 # K PROVE c < Len(text)
      <4>1. L + 1 \in 0 .. K /\ K \in 0 .. K /\ L + 1 < K
        BY <1>5, <2>1, <3>1
      <4>2. Cut(text, L + 1) < Cut(text, K) /\ Cut(text, K) = Len(text)
        BY <4>1, Cuts, Zenon DEF K
      <4> QED
        BY <4>2
    <3> HIDE DEF c
    <3> QED
      BY <1>1, <2>2, <2>4, <3>1
  <2> DEFINE k == o - m
  <2> HIDE DEF c, line
  <2>6. k \in 0 .. Len(line) /\ k \in Nat /\ k <= c - m /\ m + k = o
    BY <1>1, <2>1, <2>2, <2>4
  <2>7. SubSeq(text, m + 1, o) = SubSeq(line, 1, k)
    <3>1. SubSeq(SubSeq(text, m + 1, c), 0 + 1, k) = SubSeq(text, m + 0 + 1, m + k)
      <4>1. m <= c /\ 0 <= k /\ 0 \in Nat
        BY <2>1, <2>2, <2>6
      <4> HIDE DEF k
      <4> QED
        BY <2>1, <2>2, <2>6, <4>1, PieceOfPiece
    <3>2. 0 + 1 = 1 /\ m + 0 + 1 = m + 1
      BY <2>1
    <3> HIDE DEF k
    <3> QED
      BY <2>2, <2>6, <3>1, <3>2
  <2>8. line \in Seq(Chars)
    <3>1. Plain \subseteq Chars
      BY DEF Plain
    <3> QED
      BY <2>2, <3>1, SeqMonotonic
  <2>9. IsSuffix(<<"cr", "lf">>, line) => k <= Len(line) - 2
    <3> SUFFICES ASSUME IsSuffix(<<"cr", "lf">>, line) PROVE k <= Len(line) - 2
      OBVIOUS
    <3>1. Len(line) >= 2 /\ line[Len(line) - 1] = "cr" /\ line[Len(line)] = "lf"
      BY <2>8, SuffixMeans, Zenon
    <3>2. \A i \in 1 .. c - m : line[i] = text[m + i]
      <4>1. m <= c
        BY <2>1, <2>2
      <4>2. \A i \in 1 .. c - m : SubSeq(text, m + 1, c)[i] = text[m + i]
        BY <2>1, <2>2, <4>1, Piece
      <4> QED
        BY <2>2, <4>2
    <3>3. /\ Len(line) \in 1 .. c - m /\ Len(line) - 1 \in 1 .. c - m
          /\ m + Len(line) = c /\ m + (Len(line) - 1) = c - 1
      BY <2>1, <2>2, <3>1
    <3>4. text[c - 1] = "cr" /\ text[c] = "lf"
      BY <3>1, <3>2, <3>3
    <3>5. o # c
      <4>1. EndsLine(text, c)
        BY <3>4 DEF EndsLine
      <4> QED
        BY <2>4, <4>1
    <3>6. o # c - 1
      <4>1. c - 1 \in 1 .. Len(text) - 1 /\ (c - 1) + 1 = c
        BY <1>1, <2>1, <2>2, <3>1
      <4> QED
        BY <3>4, <4>1 DEF Offsets
    <3> QED
      BY <1>1, <2>1, <2>2, <2>4, <3>5, <3>6
  <2>10. position_from_client_units(encoding, ls,
           Position(L, client_num_units(encoding, SubSeq(line, 1, k)))) = Position(L, k)
    <3>1. ~(L >= Len(ls))
      BY <1>5, <1>6, <2>1, <2>3
    <3>2. line = ls[L + 1]
      BY DEF line
    <3> HIDE DEF k, ls
    <3>3. FindsPlace(encoding, ls, L, k)
      BY <2>3, <2>6, <2>8, <2>9, <3>1, <3>2, PlaceFromUnits
    <3> QED
      BY <3>2, <3>3 DEF FindsPlace
  <2> QED
    BY <2>1, <2>5, <2>7, <2>10 DEF line, c
<1> HIDE DEF u, ls
<1>7. PositionOf(o).line = L
  BY <1>3, <1>4
<1>8. ASSUME L < K
      PROVE  /\ Cut(text, L) <= o /\ o <= Cut(text, L + 1)
             /\ o = Cut(text, L + 1) => L + 1 = K /\ o = Len(text) /\ ~EndsLine(text, o)
             /\ PositionOf(o) = Position(L, client_num_units(encoding,
                                  SubSeq(ls[L + 1], 1, o - Cut(text, L))))
             /\ position_from_client_units(encoding, ls, PositionOf(o)) = Position(L, o - Cut(text, L))
  BY <1>2, <1>3, <1>6, <1>8
<1> QED
  BY <1>1, <1>2, <1>7, <1>8 DEF K, ls

\* A piece of a text is split at a place in it, or beyond its end.
SplitsAt(s, a, b, o, u) ==
  /\ Upto(SubSeq(s, a + 1, b), u) = SubSeq(s, a + 1, o)
  /\ After(SubSeq(s, a + 1, b), u) = SubSeq(s, o + 1, b)

LEMMA SplitPiece ==
  ASSUME NEW S, NEW s \in Seq(S), NEW a \in Nat, NEW b \in Nat, a <= b, b <= Len(s),
         NEW o \in Nat, a <= o, o <= b, NEW u \in Nat, u = o - a \/ (u >= b - a /\ o = b)
  PROVE  SplitsAt(s, a, b, o, u)
<1> DEFINE line == SubSeq(s, a + 1, b)
           i == o - a
<1>1. line \in Seq(S) /\ Len(line) = b - a
  BY Piece
<1>2. i \in Nat /\ 0 <= i /\ i <= b - a /\ b - a \in Nat /\ 0 \in Nat /\ b - a <= b - a
  OBVIOUS
<1>3. /\ SubSeq(line, 0 + 1, i) = SubSeq(s, a + 0 + 1, a + i)
      /\ SubSeq(line, i + 1, b - a) = SubSeq(s, a + i + 1, a + (b - a))
  <2> HIDE DEF i
  <2> QED
    BY <1>2, PieceOfPiece
<1>4. 0 + 1 = 1 /\ a + 0 + 1 = a + 1 /\ a + i = o /\ a + i + 1 = o + 1 /\ a + (b - a) = b
  OBVIOUS
<1>5. SubSeq(line, 1, i) = SubSeq(s, a + 1, o) /\ SubSeq(line, i + 1, b - a) = SubSeq(s, o + 1, b)
  <2> HIDE DEF line, i
  <2> QED
    BY <1>3, <1>4
<1> HIDE DEF line
<1>6. CASE u = i
  <2>1. Upto(line, u) = SubSeq(line, 1, i)
    BY <1>1, <1>2, <1>6 DEF Upto
  <2>2. After(line, u) = SubSeq(line, i + 1, b - a)
    BY <1>1, <1>6 DEF After
  <2> QED
    BY <1>5, <2>1, <2>2 DEF line, SplitsAt
<1>7. CASE u >= b - a /\ o = b
  <2>1. Upto(line, u) = SubSeq(line, 1, i)
    BY <1>1, <1>2, <1>7 DEF Upto
  <2>2. After(line, u) = <<>> /\ SubSeq(line, i + 1, b - a) = <<>>
    <3>1. u + 1 > b - a /\ i + 1 > b - a
      BY <1>2, <1>7
    <3>2. After(line, u) = SubSeq(line, u + 1, b - a)
      BY <1>1 DEF After
    <3> HIDE DEF i
    <3> QED
      BY <1>1, <1>2, <3>1, <3>2
  <2> QED
    BY <1>5, <2>1, <2>2 DEF line, SplitsAt
<1> QED
  BY <1>6, <1>7

\* The line of the server's that a position is converted to, and what lies before
\* and after it on that line.
LEMMA Halves ==
  ASSUME text \in Seq(Plain), text # <<>>, NEW o \in Offsets
  PROVE  LET K == Cardinality(LineEnds(text))
             ls == splitlines(text)
             c == position_from_client_units(encoding, ls, PositionOf(o))
         IN  /\ c.line \in 0 .. K - 1
             /\ Cut(text, c.line) <= o /\ o <= Cut(text, c.line + 1)
             /\ o = Cut(text, c.line + 1) => c.line + 1 = K
             /\ Upto(ls[c.line + 1], c.character) = SubSeq(text, Cut(text, c.line) + 1, o)
             /\ After(ls[c.line + 1], c.character) = SubSeq(text, o + 1, Cut(text, c.line + 1))
<1> DEFINE K == Cardinality(LineEnds(text))
           ls == splitlines(text)
           p == PositionOf(o)
           c == position_from_client_units(encoding, ls, p)
<1>1. /\ p.line \in 0 .. K /\ o \in Nat /\ o <= Len(text)
      /\ p.line = K => o = Len(text)
      /\ p.line < K =>
           /\ Cut(text, p.line) <= o /\ o <= Cut(text, p.line + 1)
           /\ o = Cut(text, p.line + 1) => p.line + 1 = K
           /\ c = Position(p.line, o - Cut(text, p.line))
  BY Converted, Zenon
<1>2. /\ K \in Nat /\ Len(ls) = K /\ K # 0 /\ ls # <<>>
      /\ \A k \in 1 .. K :
           /\ Cut(text, k - 1) \in Nat /\ Cut(text, k) \in Nat
           /\ Cut(text, k - 1) < Cut(text, k) /\ Cut(text, k) <= Len(text)
           /\ ls[k] = SubSeq(text, Cut(text, k - 1) + 1, Cut(text, k))
           /\ ls[k] \in Seq(Plain)
           /\ Len(ls[k]) = Cut(text, k) - Cut(text, k - 1)
  <2>1. K \in Nat /\ Len(ls) = K /\ (ls = <<>> <=> K = 0)
    BY Lines, Zenon
  <2>2. K = 0 => text = <<>>
    BY Lines, Zenon
  <2>3. \A k \in 1 .. K :
             /\ Cut(text, k - 1) \in Nat /\ Cut(text, k) \in Nat
             /\ Cut(text, k - 1) < Cut(text, k) /\ Cut(text, k) <= Len(text)
             /\ ls[k] = SubSeq(text, Cut(text, k - 1) + 1, Cut(text, k))
             /\ ls[k] \in Seq(Plain)
             /\ Len(ls[k]) = Cut(text, k) - Cut(text, k - 1)
    BY Lines, Zenon
  <2> HIDE DEF K, ls
  <2> QED
    BY <2>1, <2>2, <2>3, Zenon
<1>3. PICK l \in 0 .. K - 1, u \in Nat :
        /\ c = Position(l, u)
        /\ Cut(text, l) <= o /\ o <= Cut(text, l + 1)
        /\ o = Cut(text, l + 1) => l + 1 = K
        /\ u = o - Cut(text, l) \/ (u >= Cut(text, l + 1) - Cut(text, l) /\ o = Cut(text, l + 1))
  <2>1. CASE p.line < K
    <3> DEFINE l == p.line
               u == o - Cut(text, l)
    <3>1. l \in 0 .. K - 1 /\ l + 1 \in 1 .. K /\ (l + 1) - 1 = l
      <4>1. p.line \in 0 .. K /\ p.line < K /\ K \in Nat
        BY <1>1, <1>2, <2>1, Zenon
      <4> HIDE DEF p, K
      <4> QED
        BY <4>1
    <3>2. Cut(text, l) \in Nat
      <4> HIDE DEF l, K, ls
      <4> QED
        BY <1>2, <3>1
    <3>3. u \in Nat
      <4> HIDE DEF l
      <4> QED
        BY <1>1, <2>1, <3>2 DEF l
    <3>4. /\ c = Position(l, u)
          /\ Cut(text, l) <= o /\ o <= Cut(text, l + 1)
          /\ o = Cut(text, l + 1) => l + 1 = K
          /\ u = o - Cut(text, l)
      BY <1>1, <2>1, Zenon
    <3> HIDE DEF l, u, c, K
    <3> QED
      BY <3>1, <3>3, <3>4
  <2>2. CASE p.line = K
    <3> DEFINE l == K - 1
               u == client_num_units(encoding, Last(ls))
    <3>1. l \in 0 .. K - 1 /\ l + 1 = K /\ K \in 1 .. K
      BY <1>2
    <3>2. Last(ls) = ls[K] /\ ls[K] \in Seq(Plain)
      BY <1>2, <3>1 DEF Last
    <3>3. u \in Nat /\ Len(ls[K]) <= u
      BY <3>2, UnitsNumber
    <3>4. c = Position(l, u)
      <4>1. p.line >= Len(ls)
        BY <1>2, <2>2
      <4> HIDE DEF p, ls, K
      <4> QED
        BY <1>2, <4>1 DEF position_from_client_units
    <3>5. Cut(text, K) = Len(text) /\ o = Len(text)
      BY <1>1, <2>2, Cuts, Zenon
    <3>6. Cut(text, K - 1) \in Nat /\ Cut(text, K) \in Nat /\ Cut(text, K - 1) < Cut(text, K)
          /\ Len(ls[K]) = Cut(text, K) - Cut(text, K - 1)
      <4> HIDE DEF K, ls
      <4> QED
        BY <1>2, <3>1
    <3>7. /\ Cut(text, l) <= o /\ o <= Cut(text, l + 1) /\ l + 1 = K
          /\ u >= Cut(text, l + 1) - Cut(text, l) /\ o = Cut(text, l + 1)
      <4> HIDE DEF u, K, ls
      <4> QED
        BY <1>1, <1>2, <3>1, <3>3, <3>5, <3>6
    <3> HIDE DEF l, u, c, K
    <3> QED
      BY <3>1, <3>3, <3>4, <3>7
  <2> QED
    BY <1>1, <1>2, <2>1, <2>2
<1> HIDE DEF K, ls, c
<1>4. l + 1 \in 1 .. K /\ (l + 1) - 1 = l
  BY <1>2, <1>3
<1>5. /\ Cut(text, l) \in Nat /\ Cut(text, l + 1) \in Nat
      /\ Cut(text, l) <= Cut(text, l + 1) /\ Cut(text, l + 1) <= Len(text)
      /\ ls[l + 1] = SubSeq(text, Cut(text, l) + 1, Cut(text, l + 1))
  <2>1. /\ Cut(text, (l + 1) - 1) \in Nat /\ Cut(text, l + 1) \in Nat
        /\ Cut(text, (l + 1) - 1) < Cut(text, l + 1) /\ Cut(text, l + 1) <= Len(text)
        /\ ls[l + 1] = SubSeq(text, Cut(text, (l + 1) - 1) + 1, Cut(text, l + 1))
    BY <1>2, <1>4, Zenon
  <2> QED
    BY <1>4, <2>1
<1>6. /\ Upto(ls[l + 1], u) = SubSeq(text, Cut(text, l) + 1, o)
      /\ After(ls[l + 1], u) = SubSeq(text, o + 1, Cut(text, l + 1))
  <2> DEFINE a == Cut(text, l)
             b == Cut(text, l + 1)
  <2>1. /\ a \in Nat /\ b \in Nat /\ a <= b /\ b <= Len(text) /\ o \in Nat
        /\ a <= o /\ o <= b /\ u \in Nat /\ (u = o - a \/ (u >= b - a /\ o = b))
    BY <1>1, <1>3, <1>5
  <2> HIDE DEF a, b
  <2>2. SplitsAt(text, a, b, o, u)
    BY <2>1, SplitPiece
  <2> QED
    BY <1>5, <2>2 DEF a, b, SplitsAt
<1>7. c.line = l /\ c.character = u
  BY <1>3 DEF Position
<1> QED
  BY <1>3, <1>6, <1>7 DEF K, ls, c

-----------------------------------------------------------------------------
(* Changes.                                                                 *)

\* Where the lines of a text end, in order.
CutsOf(s, K, C) ==
  /\ C \in [0 .. K -> Nat] /\ C[0] = 0
  /\ \A j, k \in 0 .. K : j < k => C[j] < C[k]
  /\ \A k \in 0 .. K : C[k] <= Len(s)

\* What _apply_incremental_change writes for line i, of which `head` and `tail`
\* lie before and after the range.
LineWritten(i, a, b, line, head, new, tail) ==
  IF i < a \/ i > b THEN line
  ELSE (IF i = a THEN head \o new ELSE <<>>) \o (IF i = b THEN tail ELSE <<>>)

\* What it has written before line k.
WrittenBefore(k, a, b, copied, edited, rest) ==
  IF k <= a THEN copied ELSE IF k <= b THEN edited ELSE edited \o rest

\* One follows from the other by writing the line.
Continues(k, a, b, line, head, new, tail, q, q1, e, r, r1) ==
  WrittenBefore(k, a, b, q1, e, r1)
    = WrittenBefore(k - 1, a, b, q, e, r) \o LineWritten(k - 1, a, b, line, head, new, tail)

\* Two pieces that follow each other make one.
Joins(s, a, b, c) == SubSeq(s, a + 1, b) \o SubSeq(s, b + 1, c) = SubSeq(s, a + 1, c)

LEMMA JoinsAt ==
  ASSUME NEW s \in Seq(Plain), NEW a \in Nat, NEW b \in Nat, NEW c \in Nat,
         a <= b, b <= c, c <= Len(s)
  PROVE  Joins(s, a, b, c)
  BY PiecesJoin DEF Joins

LEMMA Regroup ==
  ASSUME NEW x \in Seq(Plain), NEW y \in Seq(Plain), NEW z \in Seq(Plain)
  PROVE  (x \o y) \o z = x \o (y \o z) /\ x \o y \in Seq(Plain)
<1>1. (x \o y) \o z = x \o (y \o z)
  BY ConcatAssociative
<1>2. x \o y \in Seq(Plain)
  BY ConcatProperties, Zenon
<1> QED
  BY <1>1, <1>2

LEMMA WithNothing ==
  ASSUME NEW x \in Seq(Plain)
  PROVE  x \o <<>> = x /\ <<>> \o x = x
  BY ConcatEmptySeq, Zenon

\* Before the edit the line is copied.
LEMMA CopiedBefore ==
  ASSUME NEW a \in Nat, NEW b \in Nat, a <= b, NEW k \in Nat, k # 0, k <= a,
         NEW line, NEW head, NEW new, NEW tail, NEW q, NEW q1, NEW e, NEW r, NEW r1,
         q \o line = q1
  PROVE  Continues(k, a, b, line, head, new, tail, q, q1, e, r, r1)
<1>1. k - 1 <= a /\ k - 1 < a
  OBVIOUS
<1>2. LineWritten(k - 1, a, b, line, head, new, tail) = line
  BY <1>1, Zenon DEF LineWritten
<1>3. WrittenBefore(k, a, b, q1, e, r1) = q1 /\ WrittenBefore(k - 1, a, b, q, e, r) = q
  BY <1>1, Zenon DEF WrittenBefore
<1> QED
  BY <1>2, <1>3, Zenon DEF Continues

\* After the edit it is copied too.
LEMMA CopiedAfter ==
  ASSUME NEW a \in Nat, NEW b \in Nat, a <= b, NEW k \in Nat, k > b + 1,
         NEW line \in Seq(Plain), NEW head, NEW new, NEW tail, NEW q, NEW q1,
         NEW e \in Seq(Plain), NEW r \in Seq(Plain), NEW r1,
         r \o line = r1
  PROVE  Continues(k, a, b, line, head, new, tail, q, q1, e, r, r1)
<1>1. ~(k - 1 <= a) /\ ~(k - 1 <= b) /\ k - 1 > b /\ ~(k <= a) /\ ~(k <= b)
  OBVIOUS
<1>2. LineWritten(k - 1, a, b, line, head, new, tail) = line
  BY <1>1, Zenon DEF LineWritten
<1>3. WrittenBefore(k, a, b, q1, e, r1) = e \o r1 /\ WrittenBefore(k - 1, a, b, q, e, r) = e \o r
  BY <1>1, Zenon DEF WrittenBefore
<1>4. (e \o r) \o line = e \o (r \o line)
  BY Regroup, Zenon
<1> QED
  BY <1>2, <1>3, <1>4, Zenon DEF Continues

\* The line of the start, when the range ends on a later one.
LEMMA StartWritten ==
  ASSUME NEW a \in Nat, NEW b \in Nat, a < b, NEW k \in Nat, k = a + 1,
         NEW line, NEW head \in Seq(Plain), NEW new \in Seq(Plain), NEW tail,
         NEW q \in Seq(Plain), NEW q1, NEW e, NEW r, NEW r1,
         e = (q \o head) \o new
  PROVE  Continues(k, a, b, line, head, new, tail, q, q1, e, r, r1)
<1>1. k - 1 = a /\ k - 1 <= a /\ k - 1 # b /\ ~(k - 1 < a) /\ ~(k - 1 > b) /\ ~(k <= a) /\ k <= b
  OBVIOUS
<1>2. LineWritten(k - 1, a, b, line, head, new, tail) = (head \o new) \o <<>>
  BY <1>1, Zenon DEF LineWritten
<1>3. WrittenBefore(k, a, b, q1, e, r1) = e /\ WrittenBefore(k - 1, a, b, q, e, r) = q
  BY <1>1, Zenon DEF WrittenBefore
<1>4. head \o new \in Seq(Plain) /\ (q \o head) \o new = q \o (head \o new)
  BY Regroup, Zenon
<1>5. (head \o new) \o <<>> = head \o new
  BY <1>4, WithNothing, Zenon
<1> QED
  BY <1>2, <1>3, <1>4, <1>5, Zenon DEF Continues

\* The line of the start and of the end.
LEMMA EditWritten ==
  ASSUME NEW a \in Nat, NEW b \in Nat, a = b, NEW k \in Nat, k = a + 1,
         NEW line, NEW head \in Seq(Plain), NEW new \in Seq(Plain), NEW tail \in Seq(Plain),
         NEW q \in Seq(Plain), NEW q1, NEW e, NEW r, NEW r1,
         e = (q \o head) \o new, r1 = tail
  PROVE  Continues(k, a, b, line, head, new, tail, q, q1, e, r, r1)
<1>1. /\ k - 1 = a /\ k - 1 <= a /\ k - 1 = b /\ ~(k - 1 < a) /\ ~(k - 1 > b)
      /\ ~(k <= a) /\ ~(k <= b)
  OBVIOUS
<1>2. LineWritten(k - 1, a, b, line, head, new, tail) = (head \o new) \o tail
  BY <1>1, Zenon DEF LineWritten
<1>3. WrittenBefore(k, a, b, q1, e, r1) = e \o r1 /\ WrittenBefore(k - 1, a, b, q, e, r) = q
  BY <1>1, Zenon DEF WrittenBefore
<1>4. head \o new \in Seq(Plain) /\ (q \o head) \o new = q \o (head \o new)
  BY Regroup, Zenon
<1>5. (q \o (head \o new)) \o tail = q \o ((head \o new) \o tail)
  BY <1>4, Regroup, Zenon
<1> QED
  BY <1>2, <1>3, <1>4, <1>5, Zenon DEF Continues

\* Lines that the edit replaces, up to the line of the end.
LEMMA RestWritten ==
  ASSUME NEW a \in Nat, NEW b \in Nat, a <= b, NEW k \in Nat, k > a + 1, k <= b + 1,
         NEW line, NEW head, NEW new, NEW tail \in Seq(Plain),
         NEW q, NEW q1, NEW e \in Seq(Plain), NEW r, NEW r1,
         k = b + 1 => r1 = tail
  PROVE  Continues(k, a, b, line, head, new, tail, q, q1, e, r, r1)
<1>1. k - 1 # a /\ ~(k - 1 <= a) /\ k - 1 <= b /\ ~(k - 1 < a) /\ ~(k - 1 > b) /\ ~(k <= a)
  OBVIOUS
<1>2. <<>> \o <<>> = <<>> /\ <<>> \in Seq(Plain)
  OBVIOUS
<1>3. WrittenBefore(k - 1, a, b, q, e, r) = e
  BY <1>1, Zenon DEF WrittenBefore
<1>4. CASE k = b + 1
  <2>1. ~(k <= b) /\ k - 1 = b
    BY <1>4
  <2>2. LineWritten(k - 1, a, b, line, head, new, tail) = <<>> \o tail
    BY <1>1, <2>1, Zenon DEF LineWritten
  <2>3. WrittenBefore(k, a, b, q1, e, r1) = e \o tail
    BY <1>1, <1>4, <2>1, Zenon DEF WrittenBefore
  <2> QED
    BY <1>3, <2>2, <2>3, WithNothing, Zenon DEF Continues
<1>5. CASE k # b + 1
  <2>1. k <= b /\ k - 1 # b
    BY <1>5
  <2>2. LineWritten(k - 1, a, b, line, head, new, tail) = <<>> \o <<>>
    BY <1>1, <2>1, Zenon DEF LineWritten
  <2>3. WrittenBefore(k, a, b, q1, e, r1) = e
    BY <1>1, <2>1, Zenon DEF WrittenBefore
  <2>4. e \o <<>> = e
    BY WithNothing, Zenon
  <2> QED
    BY <1>2, <1>3, <2>2, <2>3, <2>4, Zenon DEF Continues
<1> QED
  BY <1>4, <1>5

\* All the lines it writes.
LinesWritten(f, s, K, C, a, b, from, to, new) ==
  /\ f \in Seq(Seq(Plain)) /\ Len(f) = K
  /\ \A k \in 1 .. K :
       f[k] = LineWritten(k - 1, a, b, SubSeq(s, C[k - 1] + 1, C[k]),
                SubSeq(s, C[a] + 1, from), new, SubSeq(s, to + 1, C[b + 1]))

MakesEdit(f, s, from, to, new, n) ==
  FlattenSeq(f) = (SubSeq(s, 1, from) \o new) \o SubSeq(s, to + 1, n)

\* They make the text with the range replaced.
LEMMA WrittenLineByLine ==
  ASSUME NEW s \in Seq(Plain), NEW new \in Seq(Plain), NEW K \in Nat, NEW C,
         NEW a \in Nat, NEW b \in Nat, a <= b, b < K,
         NEW from \in Nat, NEW to \in Nat, from <= Len(s), to <= Len(s),
         CutsOf(s, K, C), C[a] <= from, to <= C[b + 1],
         NEW f, LinesWritten(f, s, K, C, a, b, from, to, new)
  PROVE  MakesEdit(f, s, from, to, new, C[K])
<1> DEFINE line(k) == SubSeq(s, C[k - 1] + 1, C[k])
           head == SubSeq(s, C[a] + 1, from)
           tail == SubSeq(s, to + 1, C[b + 1])
           copied(k) == SubSeq(s, 1, C[k])
           e == SubSeq(s, 1, from) \o new
           rest(k) == SubSeq(s, to + 1, C[k])
           G == [k \in 0 .. K |-> WrittenBefore(k, a, b, copied(k), e, rest(k))]
<1>1. Len(s) \in Nat /\ a + 1 \in 0 .. K /\ b + 1 \in 0 .. K /\ a \in 0 .. K /\ b \in 0 .. K
  OBVIOUS
<1>2. /\ \A k \in 0 .. K : C[k] \in Nat /\ C[k] <= Len(s)
      /\ \A j, k \in 0 .. K : j < k => C[j] < C[k]
      /\ C[0] = 0
  BY DEF CutsOf
<1>3. /\ f \in Seq(Seq(Plain)) /\ Len(f) = K
      /\ \A k \in 1 .. K : f[k] = LineWritten(k - 1, a, b, line(k), head, new, tail)
  BY DEF LinesWritten
<1>4. head \in Seq(Plain) /\ e \in Seq(Plain) /\ e = (copied(a) \o head) \o new
  <2>1. C[a] \in Nat /\ C[a] <= Len(s)
    BY <1>1, <1>2
  <2>2. head \in Seq(Plain)
    BY <1>1, <2>1, Piece
  <2>3. SubSeq(s, 1, from) \in Seq(Plain)
    BY <1>1, Prefix
  <2>4. Joins(s, 0, C[a], from)
    BY <1>1, <2>1, JoinsAt
  <2>5. 0 + 1 = 1
    OBVIOUS
  <2>6. copied(a) \o head = SubSeq(s, 1, from)
    BY <2>4, <2>5, Zenon DEF Joins
  <2>7. e \in Seq(Plain)
    BY <2>3, Regroup, Zenon
  <2> QED
    BY <2>2, <2>6, <2>7, Zenon
<1>5. ASSUME NEW k \in 0 .. K PROVE copied(k) \in Seq(Plain)
  <2>1. C[k] \in 0 .. Len(s)
    BY <1>1, <1>2
  <2> QED
    BY <2>1, Prefix
<1>6. ASSUME NEW k \in 0 .. K, k > b PROVE to <= C[k] /\ rest(k) \in Seq(Plain)
  <2>1. C[b + 1] \in Nat /\ C[k] \in Nat /\ C[k] <= Len(s)
    BY <1>1, <1>2
  <2>2. k = b + 1 \/ C[b + 1] < C[k]
    <3>1. k = b + 1 \/ b + 1 < k
      BY <1>6
    <3> QED
      BY <1>1, <1>2, <3>1, Zenon
  <2>3. to <= C[k]
    BY <2>1, <2>2
  <2> QED
    BY <1>1, <2>1, <2>3, Piece
<1>7. tail \in Seq(Plain) /\ tail = rest(b + 1)
  <2>1. b + 1 > b
    OBVIOUS
  <2> QED
    BY <1>1, <1>6, <2>1, Zenon
<1>8. ASSUME NEW k \in 1 .. K PROVE line(k) \in Seq(Plain) /\ copied(k - 1) \o line(k) = copied(k)
  <2>1. k - 1 \in 0 .. K /\ k \in 0 .. K /\ k - 1 < k
    OBVIOUS
  <2>2. C[k - 1] \in Nat /\ C[k] \in Nat /\ C[k - 1] < C[k] /\ C[k] <= Len(s)
    BY <1>2, <2>1, Zenon
  <2>3. C[k - 1] <= C[k] /\ 0 + 1 = 1 /\ 0 <= C[k - 1] /\ 0 \in Nat
    BY <2>2
  <2>4. line(k) \in Seq(Plain)
    BY <2>2, <2>3, Piece
  <2>5. Joins(s, 0, C[k - 1], C[k])
    BY <2>2, <2>3, JoinsAt, Zenon
  <2> QED
    BY <2>3, <2>4, <2>5, Zenon DEF Joins
<1>9. ASSUME NEW k \in 1 .. K, k > b + 1 PROVE rest(k - 1) \o line(k) = rest(k)
  <2>1. k - 1 \in 0 .. K /\ k \in 0 .. K /\ k - 1 < k /\ k - 1 > b
    BY <1>9
  <2>2. C[k - 1] \in Nat /\ C[k] \in Nat /\ C[k - 1] < C[k] /\ C[k] <= Len(s) /\ to <= C[k - 1]
    BY <1>2, <1>6, <2>1, Zenon
  <2>3. C[k - 1] <= C[k]
    BY <2>2
  <2>4. Joins(s, to, C[k - 1], C[k])
    BY <2>2, <2>3, JoinsAt, Zenon
  <2> QED
    BY <2>4, Zenon DEF Joins
<1> HIDE DEF line, head, tail, copied, e, rest
<1>10. G \in [0 .. K -> Seq(Plain)]
  <2>1. ASSUME NEW k \in 0 .. K PROVE WrittenBefore(k, a, b, copied(k), e, rest(k)) \in Seq(Plain)
    <3>1. k <= a \/ k <= b \/ k > b
      OBVIOUS
    <3>2. k > b => e \o rest(k) \in Seq(Plain)
      BY <1>4, <1>6, Regroup, Zenon
    <3>3. k > b => ~(k <= b)
      OBVIOUS
    <3> QED
      BY <1>4, <1>5, <3>1, <3>2, <3>3, Zenon DEF WrittenBefore
  <2> QED
    BY <2>1, Zenon
<1>11. G[0] = <<>>
  <2>1. 0 \in 0 .. K /\ 0 <= a
    OBVIOUS
  <2>2. G[0] = WrittenBefore(0, a, b, copied(0), e, rest(0))
    BY <2>1, Zenon
  <2>3. G[0] = copied(0)
    BY <2>1, <2>2, Zenon DEF WrittenBefore
  <2>4. copied(0) = SubSeq(s, 1, 0)
    BY <1>2, Zenon DEF copied
  <2>5. SubSeq(s, 1, 0) = <<>>
    OBVIOUS
  <2> QED
    BY <2>3, <2>4, <2>5, Zenon
<1>12. ASSUME NEW k \in 1 .. K PROVE G[k] = G[k - 1] \o f[k]
  <2>1. k - 1 \in 0 .. K /\ k \in 0 .. K /\ k \in Nat /\ k # 0
    OBVIOUS
  <2>2. SUFFICES Continues(k, a, b, line(k), head, new, tail, copied(k - 1), copied(k),
                           e, rest(k - 1), rest(k))
    BY <1>3, <2>1, Zenon DEF Continues
  <2>3. CASE k <= a
    BY <1>8, <2>1, <2>3, CopiedBefore
  <2>4. CASE k = a + 1 /\ a < b
    <3>1. copied(k - 1) = copied(a) /\ copied(k - 1) \in Seq(Plain)
      <4>1. k - 1 = a
        BY <2>4
      <4> QED
        BY <1>5, <2>1, <4>1
    <3> QED
      BY <1>4, <2>1, <2>4, <3>1, StartWritten
  <2>5. CASE k = a + 1 /\ a = b
    <3>1. copied(k - 1) = copied(a) /\ copied(k - 1) \in Seq(Plain)
      <4>1. k - 1 = a
        BY <2>5
      <4> QED
        BY <1>5, <2>1, <4>1
    <3>2. rest(k) = tail
      BY <1>7, <2>5
    <3> QED
      BY <1>4, <1>7, <2>1, <2>5, <3>1, <3>2, EditWritten
  <2>6. CASE k > a + 1 /\ k <= b + 1
    BY <1>4, <1>7, <2>1, <2>6, RestWritten
  <2>7. CASE k > b + 1
    <3>1. k - 1 > b
      BY <2>7
    <3>2. rest(k - 1) \in Seq(Plain)
      BY <1>6, <2>1, <3>1
    <3> QED
      BY <1>4, <1>8, <1>9, <2>1, <2>7, <3>2, CopiedAfter
  <2>8. k <= a \/ (k = a + 1 /\ a < b) \/ (k = a + 1 /\ a = b) \/ (k > a + 1 /\ k <= b + 1) \/ k > b + 1
    OBVIOUS
  <2> QED
    BY <2>3, <2>4, <2>5, <2>6, <2>7, <2>8
<1>13. G[K] = e \o rest(K)
  <2>1. K \in 0 .. K /\ ~(K <= a) /\ ~(K <= b)
    OBVIOUS
  <2> QED
    BY <2>1, Zenon DEF WrittenBefore
<1> HIDE DEF G
<1>14. FlattenSeq(f) = G[K]
  <2>1. K # 0
    OBVIOUS
  <2>2. G \in [0 .. Len(f) -> Seq(Plain)] /\ \A k \in 1 .. Len(f) : G[k] = G[k - 1] \o f[k]
    BY <1>3, <1>10, <1>12
  <2> QED
    BY <1>3, <1>11, <2>1, <2>2, Flattened, Zenon
<1> QED
  BY <1>13, <1>14, Zenon DEF e, rest, MakesEdit

LEMMA WrittenTyped ==
  ASSUME NEW i, NEW a, NEW b, NEW line \in Seq(Plain), NEW head \in Seq(Plain),
         NEW new \in Seq(Plain), NEW tail \in Seq(Plain)
  PROVE  LineWritten(i, a, b, line, head, new, tail) \in Seq(Plain)
<1>1. <<>> \in Seq(Plain)
  OBVIOUS
<1> DEFINE x == IF i = a THEN head \o new ELSE <<>>
           y == IF i = b THEN tail ELSE <<>>
<1>2. x \in Seq(Plain) /\ y \in Seq(Plain)
  BY <1>1, Regroup, Zenon
<1>3. LineWritten(i, a, b, line, head, new, tail) = IF i < a \/ i > b THEN line ELSE x \o y
  BY DEF LineWritten
<1> HIDE DEF x, y
<1>4. x \o y \in Seq(Plain)
  BY <1>2, Regroup, Zenon
<1> QED
  BY <1>3, <1>4, Zenon

\* A later place is not on an earlier line.
LEMMA LinesInOrder ==
  ASSUME NEW K \in Nat, NEW C, NEW s, CutsOf(s, K, C),
         NEW a \in 0 .. K - 1, NEW b \in 0 .. K - 1, NEW from \in Nat, NEW to \in Nat, from <= to,
         C[a] <= from, to <= C[b + 1], to = C[b + 1] => b + 1 = K
  PROVE  a <= b
<1> SUFFICES ASSUME b < a PROVE FALSE
  OBVIOUS
<1>1. b + 1 <= a /\ b + 1 # K /\ b + 1 \in 0 .. K /\ a \in 0 .. K
  OBVIOUS
<1>2. C[b + 1] \in Nat /\ C[a] \in Nat /\ (b + 1 < a => C[b + 1] < C[a])
  BY <1>1 DEF CutsOf
<1>3. b + 1 = a \/ b + 1 < a
  BY <1>1
<1>4. C[b + 1] <= C[a]
  BY <1>2, <1>3
<1> QED
  BY <1>1, <1>2, <1>4

\* A range of the client's, applied to the same text, gives the client's result.
LEMMA Applied ==
  ASSUME text \in Seq(Plain), source = text, NEW from \in Offsets, NEW to \in Offsets, from <= to,
         NEW new \in Seq(Plain)
  PROVE  _apply_incremental_change([start |-> PositionOf(from), end |-> PositionOf(to)], new)
           = Splice(text, from, to, new)
<1> DEFINE K == Cardinality(LineEnds(text))
           ls == splitlines(text)
           cs == position_from_client_units(encoding, ls, PositionOf(from))
           ct == position_from_client_units(encoding, ls, PositionOf(to))
           r == [start |-> PositionOf(from), end |-> PositionOf(to)]
           g == [k \in 1 .. Len(ls) |->
                  LineWritten(k - 1, cs.line, ct.line, ls[k], Upto(ls[k], cs.character),
                              new, After(ls[k], ct.character))]
<1>1. _apply_incremental_change(r, new)
        = IF cs.line = Len(ls) THEN text \o new ELSE FlattenSeq(g)
  <2>1. /\ range_from_client_units(encoding, ls, r).start = cs
        /\ range_from_client_units(encoding, ls, r).end = ct
    BY DEF range_from_client_units
  <2> HIDE DEF cs, ct, r
  <2> QED
    BY <2>1, Zenon DEF _apply_incremental_change, LineWritten
<1>2. from \in Nat /\ to \in Nat /\ from <= Len(text) /\ to <= Len(text) /\ Len(text) \in Nat
  BY DEF Offsets
<1>3. CASE text = <<>>
  <2>1. Len(ls) = 0 /\ ls = <<>>
    <3>1. LineEnds(text) = {}
      BY <1>3 DEF LineEnds
    <3>2. K = 0
      BY <3>1, FS_EmptySet
    <3>3. Len(ls) = K /\ (ls = <<>> <=> K = 0)
      BY Lines, Zenon
    <3> QED
      BY <3>2, <3>3
  <2>2. cs = Position(0, 0)
    <3> HIDE DEF ls
    <3> QED
      BY <2>1, Zenon DEF position_from_client_units
  <2>3. cs.line = 0
    BY <2>2 DEF Position
  <2>4. from = 0 /\ to = 0
    BY <1>2, <1>3
  <2>5. Upto(text, from) = <<>> /\ After(text, to) = <<>>
    BY <1>3, <2>4 DEF Upto, After
  <2>6. (<<>> \o new) \o <<>> = <<>> \o new
    BY WithNothing, Zenon
  <2> HIDE DEF ls, cs, g
  <2> QED
    BY <1>1, <1>3, <2>1, <2>3, <2>5, <2>6 DEF Splice
<1>4. CASE text # <<>>
  <2> DEFINE a == cs.line
             b == ct.line
             C == [k \in 0 .. K |-> Cut(text, k)]
             line(k) == SubSeq(text, C[k - 1] + 1, C[k])
             head == SubSeq(text, C[a] + 1, from)
             tail == SubSeq(text, to + 1, C[b + 1])
  <2>1. /\ K \in Nat /\ Len(ls) = K
        /\ \A k \in 1 .. K :
             /\ ls[k] = SubSeq(text, Cut(text, k - 1) + 1, Cut(text, k))
             /\ ls[k] \in Seq(Plain)
    BY Lines, Zenon
  <2>2. /\ \A k \in 0 .. K : Cut(text, k) \in 0 .. Len(text)
        /\ \A j, k \in 0 .. K : j < k => Cut(text, j) < Cut(text, k)
        /\ Cut(text, 0) = 0 /\ Cut(text, K) = Len(text)
    BY Cuts, Zenon
  <2>3. /\ a \in 0 .. K - 1 /\ Cut(text, a) <= from
        /\ Upto(ls[a + 1], cs.character) = SubSeq(text, Cut(text, a) + 1, from)
    BY <1>4, Halves, Zenon
  <2>4. /\ b \in 0 .. K - 1 /\ to <= Cut(text, b + 1)
        /\ to = Cut(text, b + 1) => b + 1 = K
        /\ After(ls[b + 1], ct.character) = SubSeq(text, to + 1, Cut(text, b + 1))
    BY <1>4, Halves, Zenon
  <2> HIDE DEF K, cs, ct, ls, a, b
  <2>5. /\ a \in Nat /\ b \in Nat /\ b < K /\ a \in 0 .. K /\ b \in 0 .. K /\ b + 1 \in 0 .. K
        /\ K \in 0 .. K /\ 0 \in 0 .. K /\ a # K
    BY <2>1, <2>3, <2>4
  <2>6. \A k \in 0 .. K : C[k] = Cut(text, k)
    OBVIOUS
  <2>7. CutsOf(text, K, C)
    <3>1. C \in [0 .. K -> Nat]
      BY <1>2, <2>2
    <3>2. \A k \in 0 .. K : C[k] <= Len(text)
      BY <1>2, <2>2
    <3> HIDE DEF C
    <3> QED
      BY <2>2, <2>5, <2>6, <3>1, <3>2 DEF CutsOf
  <2> HIDE DEF C
  <2>8. C[a] <= from /\ to <= C[b + 1] /\ (to = C[b + 1] => b + 1 = K)
    BY <2>3, <2>4, <2>5, <2>6
  <2>9. a <= b
    BY <1>2, <2>1, <2>3, <2>4, <2>7, <2>8, LinesInOrder
  <2>10. ASSUME NEW k \in 1 .. K PROVE ls[k] = line(k) /\ line(k) \in Seq(Plain)
    <3>1. k - 1 \in 0 .. K /\ k \in 0 .. K
      BY <2>1
    <3> QED
      BY <2>1, <2>6, <3>1, Zenon
  <2>11. head \in Seq(Plain) /\ tail \in Seq(Plain)
    <3>1. C[a] \in Nat /\ C[b + 1] \in Nat /\ C[b + 1] <= Len(text)
      BY <2>5, <2>7 DEF CutsOf
    <3> QED
      BY <1>2, <2>8, <3>1, Piece
  <2>12. Upto(ls[a + 1], cs.character) = head /\ After(ls[b + 1], ct.character) = tail
    BY <2>3, <2>4, <2>5, <2>6, Zenon
  <2> HIDE DEF line, head, tail
  <2>13. ASSUME NEW k \in 1 .. K
         PROVE  /\ g[k] = LineWritten(k - 1, a, b, line(k), head, new, tail)
                /\ g[k] \in Seq(Plain)
    <3> DEFINE h == Upto(ls[k], cs.character)
               t == After(ls[k], ct.character)
    <3>1. g[k] = LineWritten(k - 1, a, b, ls[k], h, new, t)
      BY <2>1, Zenon DEF a, b
    <3>2. k - 1 = a => k = a + 1
      BY <2>5
    <3>3. k - 1 = b => k = b + 1
      BY <2>5
    <3>4. (k - 1 = a => h = head) /\ (k - 1 = b => t = tail)
      BY <2>12, <3>2, <3>3, Zenon
    <3> HIDE DEF h, t, g
    <3>5. g[k] = LineWritten(k - 1, a, b, line(k), head, new, tail)
      BY <2>10, <3>1, <3>4, Zenon DEF LineWritten
    <3>6. LineWritten(k - 1, a, b, line(k), head, new, tail) \in Seq(Plain)
      BY <2>10, <2>11, WrittenTyped, Zenon
    <3> QED
      BY <3>5, <3>6, Zenon
  <2>14. g \in Seq(Seq(Plain)) /\ Len(g) = K
    <3>1. g = [k \in 1 .. K |-> g[k]]
      BY <2>1
    <3> HIDE DEF g
    <3> QED
      BY <2>1, <2>13, <3>1
  <2> HIDE DEF g
  <2>15. FlattenSeq(g) = (SubSeq(text, 1, from) \o new) \o SubSeq(text, to + 1, C[K])
    <3>1. LinesWritten(g, text, K, C, a, b, from, to, new)
      BY <2>13, <2>14, Zenon DEF LinesWritten, line, head, tail
    <3>2. MakesEdit(g, text, from, to, new, C[K])
      BY <1>2, <2>1, <2>5, <2>7, <2>8, <2>9, <3>1, WrittenLineByLine
    <3> QED
      BY <3>2, Zenon DEF MakesEdit
  <2>16. C[K] = Len(text)
    BY <2>2, <2>5, <2>6
  <2>17. Upto(text, from) = SubSeq(text, 1, from)
    BY <1>2 DEF Upto
  <2>18. cs.line # Len(ls)
    BY <2>1, <2>5 DEF a
  <2> QED
    BY <1>1, <2>15, <2>16, <2>17, <2>18, Zenon DEF Splice, After
<1> QED
  BY <1>3, <1>4

-----------------------------------------------------------------------------
(* Synchronisation.                                                         *)

LEMMA TextsAreSequences ==
  ASSUME NEW n \in Nat
  PROVE  SeqOf(Alphabet, n) \subseteq Seq(Alphabet)
<1> SUFFICES ASSUME NEW s \in SeqOf(Alphabet, n) PROVE s \in Seq(Alphabet)
  OBVIOUS
<1>1. PICK m \in 0 .. n : s \in [1 .. m -> Alphabet]
  BY DEF SeqOf
<1>2. m \in Nat
  BY <1>1
<1> QED
  BY <1>1, <1>2

LEMMA TextsArePlain ==
  ASSUME "separator" \notin Alphabet, NEW s \in Seq(Alphabet)
  PROVE  s \in Seq(Plain)
<1>1. Alphabet \subseteq Plain
  BY TextAssumption DEF Plain
<1>2. Len(s) \in Nat /\ s \in [1 .. Len(s) -> Alphabet]
  OBVIOUS
<1>3. s \in [1 .. Len(s) -> Plain]
  BY <1>1, <1>2
<1> QED
  BY <1>2, <1>3

LEMMA SpliceTyped ==
  ASSUME NEW S, NEW s \in Seq(S), NEW new \in Seq(S), NEW from \in 0 .. Len(s), NEW to \in 0 .. Len(s)
  PROVE  Splice(s, from, to, new) \in Seq(S)
<1>1. Upto(s, from) \in Seq(S)
  BY Prefix DEF Upto
<1>2. After(s, to) \in Seq(S)
  <2>1. to \in Nat /\ to <= Len(s) /\ Len(s) \in Nat /\ Len(s) <= Len(s)
    OBVIOUS
  <2> QED
    BY <2>1, Piece DEF After
<1>3. Upto(s, from) \o new \in Seq(S)
  BY <1>1, ConcatProperties, Zenon
<1>4. (Upto(s, from) \o new) \o After(s, to) \in Seq(S)
  BY <1>2, <1>3, ConcatProperties, Zenon
<1> QED
  BY <1>4 DEF Splice

\* No character ends a line for Python only, or the server does not ask for
\* ranges.
SplitsAlike == "separator" \notin Alphabet \/ "Incremental" \notin SyncKinds

\* A change with a range, applied to the client's text.
LEMMA ChangePartialKeeps ==
  ASSUME SplitsAlike, TypeOK, Synchronised,
         NEW from \in Offsets, NEW to \in Offsets, NEW new \in Seq(Alphabet),
         ChangePartial(from, to, new)
  PROVE  TypeOK' /\ Synchronised'
<1>1. /\ from <= to /\ (sync = "Incremental" \/ (from = 0 /\ to = Len(text)))
      /\ text' = Splice(text, from, to, new)
      /\ source' = apply_change([partial |-> TRUE, text |-> new,
                     range |-> [start |-> PositionOf(from), end |-> PositionOf(to)]])
      /\ encoding' = encoding /\ sync' = sync
  BY DEF ChangePartial
<1>2. /\ text \in Seq(Alphabet) /\ source \in Seq(Alphabet)
      /\ encoding' \in Encodings /\ sync' \in SyncKinds
  BY <1>1 DEF TypeOK
<1>3. from \in 0 .. Len(text) /\ to \in 0 .. Len(text)
  BY DEF Offsets
<1>4. text' \in Seq(Alphabet)
  BY <1>1, <1>2, <1>3, SpliceTyped
<1>5. source' = IF sync = "Incremental"
                THEN _apply_incremental_change([start |-> PositionOf(from), end |-> PositionOf(to)], new)
                ELSE IF sync = "None" THEN source ELSE new
  BY <1>1, Zenon DEF apply_change, _apply_full_change
<1>6. CASE sync = "Incremental"
  <2>1. source = text
    BY <1>6 DEF Synchronised
  <2>2. "separator" \notin Alphabet
    BY <1>6 DEF TypeOK, SplitsAlike
  <2>3. text \in Seq(Plain) /\ new \in Seq(Plain)
    BY <1>2, <2>2, TextsArePlain
  <2>4. _apply_incremental_change([start |-> PositionOf(from), end |-> PositionOf(to)], new)
          = Splice(text, from, to, new)
    BY <1>1, <2>1, <2>3, Applied, Zenon
  <2>5. source' = text'
    BY <1>1, <1>5, <1>6, <2>4, Zenon
  <2> QED
    BY <1>2, <1>4, <2>5 DEF TypeOK, Synchronised
<1>7. CASE sync = "None"
  <2>1. source' = source
    BY <1>5, <1>7
  <2> QED
    BY <1>1, <1>2, <1>4, <1>7, <2>1 DEF TypeOK, Synchronised
<1>8. CASE sync # "Incremental" /\ sync # "None"
  <2>1. from = 0 /\ to = Len(text) /\ source' = new
    BY <1>1, <1>5, <1>8
  <2>2. Upto(text, 0) = <<>> /\ After(text, Len(text)) = <<>>
    BY <1>2 DEF Upto, After
  <2>3. (<<>> \o new) \o <<>> = new
    BY ConcatEmptySeq
  <2>4. text' = new
    BY <1>1, <2>1, <2>2, <2>3, Zenon DEF Splice
  <2> QED
    BY <1>2, <1>4, <2>1, <2>4 DEF TypeOK, Synchronised
<1> QED
  BY <1>6, <1>7, <1>8

\* A change of the whole text.
LEMMA ChangeWholeKeeps ==
  ASSUME TypeOK, Synchronised, NEW new \in Seq(Alphabet), ChangeWhole(new)
  PROVE  TypeOK' /\ Synchronised'
<1>1. /\ text' = new /\ source' = (IF sync = "None" THEN source ELSE new)
      /\ encoding' = encoding /\ sync' = sync
  BY Zenon DEF ChangeWhole, apply_change, _apply_full_change
<1> QED
  BY <1>1 DEF TypeOK, Synchronised

\* One step of the client and the server.
LEMMA TextStep ==
  ASSUME SplitsAlike, TypeOK, Synchronised, [Next]_vars
  PROVE  TypeOK' /\ Synchronised'
<1>1. SeqOf(Alphabet, MaxInsert) \subseteq Seq(Alphabet)
  BY TextAssumption, TextsAreSequences
<1>2. CASE \E from, to \in Offsets, new \in SeqOf(Alphabet, MaxInsert) : ChangePartial(from, to, new)
  <2>1. PICK from \in Offsets, to \in Offsets, new \in SeqOf(Alphabet, MaxInsert) :
          ChangePartial(from, to, new)
    BY <1>2
  <2>2. new \in Seq(Alphabet)
    BY <1>1
  <2> QED
    BY <2>1, <2>2, ChangePartialKeeps, Zenon
<1>3. CASE \E new \in SeqOf(Alphabet, MaxInsert) : ChangeWhole(new)
  <2>1. PICK new \in SeqOf(Alphabet, MaxInsert) : ChangeWhole(new)
    BY <1>3
  <2>2. new \in Seq(Alphabet)
    BY <1>1
  <2> QED
    BY <2>1, <2>2, ChangeWholeKeeps, Zenon
<1>4. CASE UNCHANGED vars
  BY <1>4 DEF vars, TypeOK, Synchronised
<1> QED
  BY <1>2, <1>3, <1>4, Zenon DEF Next

LEMMA TextInit ==
  ASSUME Init
  PROVE  TypeOK /\ Synchronised
<1>1. SeqOf(Alphabet, MaxLen) \subseteq Seq(Alphabet)
  BY TextAssumption, TextsAreSequences
<1> QED
  BY <1>1 DEF Init, TypeOK, Synchronised

-----------------------------------------------------------------------------
(* Positions.                                                               *)

\* The lines before one make the text up to it.
LEMMA LinesBefore ==
  ASSUME NEW s \in Seq(Plain), NEW L \in 0 .. Cardinality(LineEnds(s))
  PROVE  Len(FlattenSeq(<<<<>>>> \o Upto(splitlines(s), L))) = Cut(s, L)
<1> DEFINE K == Cardinality(LineEnds(s))
           ls == splitlines(s)
           first == <<<<>>>>
           u == Upto(ls, L)
           f == first \o u
           G == [i \in 0 .. L + 1 |-> IF i = 0 THEN <<>> ELSE SubSeq(s, 1, Cut(s, i - 1))]
<1>1. /\ K \in Nat /\ Len(ls) = K /\ ls \in Seq(Seq(Plain))
      /\ \A k \in 1 .. K : ls[k] = SubSeq(s, Cut(s, k - 1) + 1, Cut(s, k))
  BY Lines, Zenon
<1>2. /\ \A k \in 0 .. K : Cut(s, k) \in 0 .. Len(s)
      /\ \A j, k \in 0 .. K : j < k => Cut(s, j) < Cut(s, k)
      /\ Cut(s, 0) = 0
  BY Cuts, Zenon
<1>3. L \in 0 .. K
  OBVIOUS
<1> HIDE DEF K, ls
<1>4. L \in Nat /\ L <= K /\ L + 1 # 0 /\ L + 1 \in 0 .. L + 1 /\ L + 1 - 1 = L
  BY <1>1, <1>3
<1>5. u \in Seq(Seq(Plain)) /\ Len(u) = L /\ \A i \in 1 .. L : u[i] = ls[i]
  <2>1. u = SubSeq(ls, 1, L)
    BY <1>1, <1>4 DEF Upto
  <2>2. L \in 0 .. Len(ls)
    BY <1>1, <1>3
  <2> HIDE DEF u
  <2> QED
    BY <1>1, <2>1, <2>2, Prefix
<1>6. first \in Seq(Seq(Plain)) /\ Len(first) = 1 /\ first[1] = <<>>
  OBVIOUS
<1> HIDE DEF first, u
<1>7. /\ f \in Seq(Seq(Plain)) /\ Len(f) = L + 1 /\ f[1] = <<>>
      /\ \A i \in 2 .. L + 1 : f[i] = ls[i - 1]
  <2>1. /\ f \in Seq(Seq(Plain)) /\ Len(f) = Len(first) + Len(u)
        /\ \A i \in 1 .. Len(first) + Len(u) :
             f[i] = IF i <= Len(first) THEN first[i] ELSE u[i - Len(first)]
    BY <1>5, <1>6, ConcatProperties, Zenon
  <2>2. Len(first) + Len(u) = L + 1 /\ 1 \in 1 .. L + 1
    BY <1>4, <1>5, <1>6
  <2>3. f[1] = <<>>
    BY <1>6, <2>1, <2>2
  <2>4. ASSUME NEW i \in 2 .. L + 1 PROVE f[i] = ls[i - 1]
    <3>1. i \in 1 .. L + 1 /\ ~(i <= 1) /\ i - 1 \in 1 .. L
      BY <1>4
    <3> HIDE DEF f
    <3> QED
      BY <1>5, <1>6, <2>1, <2>2, <3>1
  <2> HIDE DEF f
  <2> QED
    BY <2>1, <2>2, <2>3, <2>4
<1> HIDE DEF f
<1>8. ASSUME NEW k \in 0 .. L
      PROVE Cut(s, k) \in 0 .. Len(s) /\ SubSeq(s, 1, Cut(s, k)) \in Seq(Plain)
            /\ Len(SubSeq(s, 1, Cut(s, k))) = Cut(s, k)
  <2>1. k \in 0 .. K
    BY <1>1, <1>4
  <2>2. Cut(s, k) \in 0 .. Len(s)
    BY <1>2, <2>1
  <2> QED
    BY <2>2, Prefix
<1>9. G \in [0 .. L + 1 -> Seq(Plain)] /\ G[0] = <<>>
  <2>1. ASSUME NEW i \in 0 .. L + 1
        PROVE  (IF i = 0 THEN <<>> ELSE SubSeq(s, 1, Cut(s, i - 1))) \in Seq(Plain)
    <3>1. i # 0 => i - 1 \in 0 .. L
      BY <1>4
    <3>2. <<>> \in Seq(Plain)
      OBVIOUS
    <3> QED
      BY <1>8, <3>1, <3>2, Zenon
  <2>2. 0 \in 0 .. L + 1
    BY <1>4
  <2> QED
    BY <2>1, <2>2, Zenon
<1>10. \A i \in 1 .. L + 1 : G[i] = SubSeq(s, 1, Cut(s, i - 1))
  <2>1. \A i \in 1 .. L + 1 : i \in 0 .. L + 1 /\ i # 0
    OBVIOUS
  <2> QED
    BY <2>1, Zenon
<1> HIDE DEF G
<1>11. ASSUME NEW i \in 1 .. L + 1 PROVE G[i] = G[i - 1] \o f[i]
  <2>1. CASE i = 1
    <3>1. G[1] = SubSeq(s, 1, Cut(s, 1 - 1)) /\ 1 - 1 = 0
      BY <1>10, <2>1
    <3>2. SubSeq(s, 1, 0) = <<>> /\ <<>> \o <<>> = <<>>
      OBVIOUS
    <3> QED
      BY <1>2, <1>7, <1>9, <2>1, <3>1, <3>2
  <2>2. CASE i # 1
    <3>1. /\ i \in 2 .. L + 1 /\ i - 1 \in 1 .. L + 1 /\ i - 1 \in 1 .. K /\ i - 1 \in 0 .. L
          /\ (i - 1) - 1 \in 0 .. L /\ i - 1 \in 0 .. K /\ (i - 1) - 1 \in 0 .. K /\ (i - 1) - 1 < i - 1
      BY <1>1, <1>4, <2>2
    <3> DEFINE x == Cut(s, (i - 1) - 1)
               y == Cut(s, i - 1)
    <3>2. f[i] = SubSeq(s, x + 1, y)
      BY <1>1, <1>7, <3>1, Zenon
    <3>3. G[i] = SubSeq(s, 1, y) /\ G[i - 1] = SubSeq(s, 1, x)
      BY <1>10, <3>1, Zenon
    <3>4. x \in 0 .. Len(s) /\ y \in 0 .. Len(s) /\ x < y
      BY <1>2, <3>1, Zenon
    <3> HIDE DEF x, y
    <3>5. x \in Nat /\ y \in Nat /\ x <= y /\ y <= Len(s) /\ 0 \in Nat /\ 0 <= x /\ 0 + 1 = 1
      BY <3>4
    <3>6. Joins(s, 0, x, y)
      BY <3>5, JoinsAt, Zenon
    <3> QED
      BY <3>2, <3>3, <3>5, <3>6, Zenon DEF Joins
  <2> QED
    BY <2>1, <2>2
<1>12. FlattenSeq(f) = G[L + 1]
  <2>1. Len(f) # 0 /\ G \in [0 .. Len(f) -> Seq(Plain)]
        /\ \A i \in 1 .. Len(f) : G[i] = G[i - 1] \o f[i]
    BY <1>4, <1>7, <1>9, <1>11
  <2>2. FlattenSeq(f) = G[Len(f)]
    BY <1>7, <1>9, <2>1, Flattened, Zenon
  <2> QED
    BY <1>7, <2>2
<1>13. G[L + 1] = SubSeq(s, 1, Cut(s, L))
  BY <1>4, <1>10
<1>14. Len(SubSeq(s, 1, Cut(s, L))) = Cut(s, L)
  BY <1>4, <1>8
<1> QED
  BY <1>12, <1>13, <1>14, Zenon DEF f, first, u, ls

\* A position that the client can send means the same place to the server.
LEMMA PlaceKept ==
  ASSUME text \in Seq(Plain), NEW o \in Offsets,
         PositionOf(o).line < Cardinality(LineEnds(text))
  PROVE  /\ source = text => offset_at_position(PositionOf(o)) = o
         /\ position_to_client_units(encoding, splitlines(text),
              position_from_client_units(encoding, splitlines(text), PositionOf(o)))
              = PositionOf(o)
<1> DEFINE K == Cardinality(LineEnds(text))
           ls == splitlines(text)
           p == PositionOf(o)
           i == o - Cut(text, p.line)
           c == position_from_client_units(encoding, ls, p)
<1>1. p.line \in 0 .. K /\ o \in Nat /\ p.line < K
  BY Converted, Zenon
<1>2. Cut(text, p.line) <= o /\ o <= Cut(text, p.line + 1)
  BY <1>1, Converted, Zenon
<1>3. c = Position(p.line, i) /\ p = Position(p.line, client_num_units(encoding, SubSeq(ls[p.line + 1], 1, i)))
  BY <1>1, Converted, Zenon
<1>4. /\ K \in Nat /\ Len(ls) = K
      /\ \A k \in 1 .. K :
           /\ Cut(text, k - 1) \in Nat /\ Cut(text, k) \in Nat
           /\ Len(ls[k]) = Cut(text, k) - Cut(text, k - 1)
  BY Lines, Zenon
<1> HIDE DEF p, K, ls, c
<1>5. p.line \in Nat /\ p.line + 1 \in 1 .. K /\ (p.line + 1) - 1 = p.line
  <2>1. p.line \in 0 .. K /\ p.line < K /\ K \in Nat
    BY <1>1, <1>4, Zenon
  <2> DEFINE l == p.line
  <2>2. l \in 0 .. K /\ l < K
    BY <2>1
  <2> HIDE DEF l
  <2>3. l \in Nat /\ l + 1 \in 1 .. K /\ (l + 1) - 1 = l
    BY <2>1, <2>2
  <2> QED
    BY <2>3 DEF l
<1>6. /\ Cut(text, p.line) \in Nat /\ Cut(text, p.line + 1) \in Nat
      /\ Len(ls[p.line + 1]) = Cut(text, p.line + 1) - Cut(text, p.line)
  <2>1. /\ Cut(text, (p.line + 1) - 1) \in Nat /\ Cut(text, p.line + 1) \in Nat
        /\ Len(ls[p.line + 1]) = Cut(text, p.line + 1) - Cut(text, (p.line + 1) - 1)
    BY <1>4, <1>5, Zenon
  <2> QED
    BY <1>5, <2>1, Zenon
<1>7. i \in Nat /\ i <= Len(ls[p.line + 1]) /\ Len(ls[p.line + 1]) \in Nat
      /\ i + Cut(text, p.line) = o
  BY <1>1, <1>2, <1>6
<1> HIDE DEF i
<1>8. c.line = p.line /\ c.character = i
  BY <1>3 DEF Position
<1>9. ASSUME source = text PROVE offset_at_position(p) = o
  <2>1. offset_at_position(p) = c.character + Len(FlattenSeq(<<<<>>>> \o Upto(ls, c.line)))
    BY <1>9, Zenon DEF offset_at_position, c, ls
  <2>2. Len(FlattenSeq(<<<<>>>> \o Upto(ls, p.line))) = Cut(text, p.line)
    BY <1>1, LinesBefore DEF ls, K
  <2> QED
    BY <1>7, <1>8, <2>1, <2>2, Zenon
<1>10. position_to_client_units(encoding, ls, c) = p
  <2>1. Upto(ls[p.line + 1], i) = SubSeq(ls[p.line + 1], 1, i)
    BY <1>7 DEF Upto
  <2>2. position_to_client_units(encoding, ls, c)
          = Position(p.line, client_num_units(encoding, Upto(ls[p.line + 1], i)))
    <3>1. c.line < Len(ls)
      BY <1>1, <1>4, <1>8
    <3> QED
      BY <1>8, <3>1, Zenon DEF position_to_client_units
  <2> QED
    BY <1>3, <2>1, <2>2, Zenon
<1> QED
  BY <1>9, <1>10, Zenon DEF p, ls, c

LEMMA PositionsAgree ==
  ASSUME "separator" \notin Alphabet, TypeOK, Synchronised
  PROVE  PositionsMatch
<1>1. text \in Seq(Plain)
  BY TextsArePlain DEF TypeOK
<1>2. sync # "None" => source = text
  BY DEF Synchronised
<1>3. Len(splitlines(text)) = Cardinality(LineEnds(text))
  BY <1>1, Lines, Zenon
<1> QED
  BY <1>1, <1>2, <1>3, PlaceKept, Zenon DEF PositionsMatch

-----------------------------------------------------------------------------
(* Words.                                                                   *)

LEMMA Smallest ==
  ASSUME NEW S, S \subseteq Nat, S # {}
  PROVE  Min(S) \in S /\ \A y \in S : Min(S) <= y
<1>1. PICK k \in S : \A j \in S : ~(j < k)
  BY Least
<1>2. \A j \in S : k <= j
  BY <1>1
<1>3. Min(S) = k
  BY <1>2, ExtremeIs
<1> QED
  BY <1>2, <1>3

\* A piece of a text is a word when all its characters are letters.
LEMMA WordPiece ==
  ASSUME NEW S, NEW s \in Seq(S), NEW m \in Nat, NEW n \in Nat, m <= n, n <= Len(s)
  PROVE  IsWord(SubSeq(s, m + 1, n)) <=> \A j \in m + 1 .. n : s[j] = "letter"
<1> DEFINE x == SubSeq(s, m + 1, n)
<1>1. Len(x) = n - m /\ \A i \in 1 .. n - m : x[i] = s[m + i]
  BY Piece
<1> HIDE DEF x
<1>2. IsWord(x) <=> \A i \in 1 .. n - m : s[m + i] = "letter"
  BY <1>1 DEF IsWord
<1>3. ASSUME \A i \in 1 .. n - m : s[m + i] = "letter", NEW j \in m + 1 .. n
      PROVE  s[j] = "letter"
  <2>1. j - m \in 1 .. n - m /\ m + (j - m) = j
    OBVIOUS
  <2> QED
    BY <1>3, <2>1
<1>4. ASSUME \A j \in m + 1 .. n : s[j] = "letter", NEW i \in 1 .. n - m
      PROVE  s[m + i] = "letter"
  <2>1. m + i \in m + 1 .. n
    OBVIOUS
  <2> QED
    BY <1>4, <2>1
<1> QED
  BY <1>2, <1>3, <1>4 DEF x

\* Where the letters before a place begin and those after it end.
LettersFrom(s, o) == Min({n \in 0 .. o : IsWord(SubSeq(s, n + 1, o))})
LettersTo(s, o)   == Max({n \in o .. Len(s) : IsWord(SubSeq(s, o + 1, n))})

\* What the letters before a place are, and that they do not reach over a
\* character that is none.
LEMMA LettersBefore ==
  ASSUME NEW S, NEW s \in Seq(S), NEW o \in Nat, o <= Len(s)
  PROVE  /\ LettersFrom(s, o) \in 0 .. o
         /\ \A j \in LettersFrom(s, o) + 1 .. o : s[j] = "letter"
         /\ \A n \in 0 .. o : (\A j \in n + 1 .. o : s[j] = "letter") => LettersFrom(s, o) <= n
         /\ \A a \in 1 .. o : s[a] # "letter" => a <= LettersFrom(s, o)
<1> DEFINE N == {n \in 0 .. o : IsWord(SubSeq(s, n + 1, o))}
           f == Min(N)
<1>1. ASSUME NEW n \in 0 .. o PROVE n \in N <=> \A j \in n + 1 .. o : s[j] = "letter"
  <2>1. n \in Nat /\ n <= o
    OBVIOUS
  <2>2. IsWord(SubSeq(s, n + 1, o)) <=> \A j \in n + 1 .. o : s[j] = "letter"
    BY <2>1, WordPiece, Zenon
  <2> QED
    BY <2>2, Zenon
<1>2. N \subseteq 0 .. o
  BY Zenon
<1> HIDE DEF N
<1>3. o \in N
  <2>1. o \in 0 .. o /\ \A j \in o + 1 .. o : FALSE
    OBVIOUS
  <2> QED
    BY <1>1, <2>1
<1>4. N \subseteq Nat /\ N # {}
  BY <1>2, <1>3
<1>5. f \in N /\ \A y \in N : f <= y
  BY <1>4, Smallest
<1>6. f \in 0 .. o /\ \A j \in f + 1 .. o : s[j] = "letter"
  BY <1>1, <1>2, <1>5
<1>7. \A n \in 0 .. o : (\A j \in n + 1 .. o : s[j] = "letter") => f <= n
  BY <1>1, <1>5, Zenon
<1> HIDE DEF f
<1>8. ASSUME NEW a \in 1 .. o, s[a] # "letter" PROVE a <= f
  <2> SUFFICES ASSUME ~(a <= f) PROVE FALSE
    OBVIOUS
  <2>1. a \in f + 1 .. o
    BY <1>6
  <2> QED
    BY <1>6, <1>8, <2>1
<1>9. LettersFrom(s, o) = f
  BY DEF LettersFrom, N, f
<1> QED
  BY <1>6, <1>7, <1>8, <1>9

LEMMA LettersAfter ==
  ASSUME NEW S, NEW s \in Seq(S), NEW o \in Nat, o <= Len(s)
  PROVE  /\ LettersTo(s, o) \in o .. Len(s)
         /\ \A j \in o + 1 .. LettersTo(s, o) : s[j] = "letter"
         /\ \A n \in o .. Len(s) : (\A j \in o + 1 .. n : s[j] = "letter") => n <= LettersTo(s, o)
         /\ \A b \in o + 1 .. Len(s) : s[b] # "letter" => LettersTo(s, o) < b
<1> DEFINE N == {n \in o .. Len(s) : IsWord(SubSeq(s, o + 1, n))}
           t == Max(N)
<1>0. Len(s) \in Nat
  OBVIOUS
<1>1. ASSUME NEW n \in o .. Len(s) PROVE n \in N <=> \A j \in o + 1 .. n : s[j] = "letter"
  <2>1. n \in Nat /\ o <= n /\ n <= Len(s)
    BY <1>0
  <2>2. IsWord(SubSeq(s, o + 1, n)) <=> \A j \in o + 1 .. n : s[j] = "letter"
    BY <2>1, WordPiece, Zenon
  <2> QED
    BY <2>2, Zenon
<1>2. N \subseteq o .. Len(s)
  BY Zenon
<1> HIDE DEF N
<1>3. o \in N
  <2>1. o \in o .. Len(s) /\ \A j \in o + 1 .. o : FALSE
    BY <1>0
  <2> QED
    BY <1>1, <2>1
<1>4. N \subseteq 0 .. Len(s) /\ N # {}
  BY <1>0, <1>2, <1>3
<1>5. t \in N /\ \A y \in N : y <= t
  BY <1>0, <1>4, Greatest
<1>6. t \in o .. Len(s) /\ \A j \in o + 1 .. t : s[j] = "letter"
  BY <1>1, <1>2, <1>5
<1>7. \A n \in o .. Len(s) : (\A j \in o + 1 .. n : s[j] = "letter") => n <= t
  BY <1>1, <1>5, Zenon
<1> HIDE DEF t
<1>8. ASSUME NEW b \in o + 1 .. Len(s), s[b] # "letter" PROVE t < b
  <2> SUFFICES ASSUME ~(t < b) PROVE FALSE
    OBVIOUS
  <2>1. b \in o + 1 .. t
    BY <1>0, <1>6
  <2> QED
    BY <1>6, <1>8, <2>1
<1>9. LettersTo(s, o) = t
  BY DEF LettersTo, N, t
<1> QED
  BY <1>6, <1>7, <1>8, <1>9

\* The word at the end of a piece, and at the start of one.
EndsInWord(s, a, o)   == WordEnd(SubSeq(s, a + 1, o)) = SubSeq(s, LettersFrom(s, o) + 1, o)
StartsInWord(s, o, b) == WordStart(SubSeq(s, o + 1, b)) = SubSeq(s, o + 1, LettersTo(s, o))

LEMMA WordBefore ==
  ASSUME NEW S, NEW s \in Seq(S), NEW a \in Nat, NEW o \in Nat, a <= o, o <= Len(s),
         a # 0 => s[a] # "letter", a # o => s[o] # "lf"
  PROVE  EndsInWord(s, a, o)
<1> DEFINE H == SubSeq(s, a + 1, o)
           f == LettersFrom(s, o)
           N == {n \in 0 .. Len(H) : IsWord(After(H, n))}
<1>1. H \in Seq(S) /\ Len(H) = o - a /\ \A i \in 1 .. o - a : H[i] = s[a + i]
  BY Piece
<1>2. /\ f \in 0 .. o
      /\ \A j \in f + 1 .. o : s[j] = "letter"
      /\ \A n \in 0 .. o : (\A j \in n + 1 .. o : s[j] = "letter") => f <= n
      /\ \A x \in 1 .. o : s[x] # "letter" => x <= f
  BY LettersBefore, Zenon
<1>3. ASSUME NEW n \in 0 .. o - a PROVE After(H, n) = SubSeq(s, a + n + 1, o)
  <2>1. n \in Nat /\ o - a \in Nat /\ n <= o - a /\ o - a <= o - a /\ a + (o - a) = o
    OBVIOUS
  <2>2. SubSeq(H, n + 1, o - a) = SubSeq(s, a + n + 1, a + (o - a))
    BY <2>1, PieceOfPiece
  <2> HIDE DEF H
  <2> QED
    BY <1>1, <2>1, <2>2, Zenon DEF After
<1> HIDE DEF H, f
<1>4. f \in Nat /\ a <= f /\ f <= o
  <2>1. a = 0 \/ a \in 1 .. o
    OBVIOUS
  <2> QED
    BY <1>2, <2>1
<1>5. f - a \in 0 .. o - a /\ a + (f - a) = f
  BY <1>4
<1>6. ASSUME NEW n \in 0 .. o - a PROVE n \in N <=> \A j \in a + n + 1 .. o : s[j] = "letter"
  <2>1. a + n \in Nat /\ a + n <= o
    OBVIOUS
  <2>2. IsWord(SubSeq(s, a + n + 1, o)) <=> \A j \in a + n + 1 .. o : s[j] = "letter"
    <3> DEFINE m == a + n
    <3>1. m \in Nat /\ m <= o
      BY <2>1
    <3> HIDE DEF m
    <3>2. IsWord(SubSeq(s, m + 1, o)) <=> \A j \in m + 1 .. o : s[j] = "letter"
      BY <3>1, WordPiece, Zenon
    <3> QED
      BY <3>2 DEF m
  <2>3. n \in 0 .. Len(H)
    BY <1>1
  <2> QED
    BY <1>3, <2>2, <2>3, Zenon
<1>7. N \subseteq 0 .. o - a
  BY <1>1
<1> HIDE DEF N
<1>8. f - a \in N
  <2>1. f - a \in N <=> \A j \in a + (f - a) + 1 .. o : s[j] = "letter"
    BY <1>5, <1>6, Zenon
  <2> QED
    BY <1>2, <1>5, <2>1
<1>9. ASSUME NEW n \in N PROVE f - a <= n
  <2>1. n \in 0 .. o - a
    BY <1>7
  <2>2. \A j \in a + n + 1 .. o : s[j] = "letter"
    BY <1>6, <2>1
  <2>3. a + n \in 0 .. o
    BY <2>1
  <2>4. f <= a + n
    BY <1>2, <2>2, <2>3
  <2> QED
    BY <1>4, <2>1, <2>4
<1>10. Min(N) = f - a
  <2>1. N \subseteq Nat /\ \A n \in N : f - a <= n
    BY <1>7, <1>9
  <2> QED
    BY <1>8, <2>1, ExtremeIs
<1>11. ~IsSuffix(<<"lf">>, H)
  <2> SUFFICES ASSUME IsSuffix(<<"lf">>, H) PROVE FALSE
    OBVIOUS
  <2>1. Len(H) >= 1 /\ H[Len(H)] = "lf"
    BY <1>1, SuffixMeans, Zenon
  <2>2. o - a \in 1 .. o - a /\ a + (o - a) = o /\ a # o
    BY <1>1, <2>1
  <2> QED
    BY <1>1, <2>1, <2>2
<1>12. WordEnd(H) = After(H, Min(N))
  BY <1>11, Zenon DEF WordEnd, N
<1>13. After(H, f - a) = SubSeq(s, a + (f - a) + 1, o)
  BY <1>3, <1>5, Zenon
<1>14. WordEnd(H) = SubSeq(s, f + 1, o)
  BY <1>5, <1>10, <1>12, <1>13
<1> QED
  BY <1>14, Zenon DEF EndsInWord, H, f

LEMMA WordAfter ==
  ASSUME NEW S, NEW s \in Seq(S), NEW o \in Nat, NEW b \in Nat, o <= b, b <= Len(s),
         b # Len(s) => o < b /\ s[b] # "letter"
  PROVE  StartsInWord(s, o, b)
<1> DEFINE T == SubSeq(s, o + 1, b)
           t == LettersTo(s, o)
           N == {n \in 0 .. Len(T) : IsWord(Upto(T, n))}
<1>0. Len(s) \in Nat /\ o <= Len(s)
  OBVIOUS
<1>1. T \in Seq(S) /\ Len(T) = b - o
  BY Piece
<1>2. /\ t \in o .. Len(s)
      /\ \A j \in o + 1 .. t : s[j] = "letter"
      /\ \A n \in o .. Len(s) : (\A j \in o + 1 .. n : s[j] = "letter") => n <= t
      /\ \A x \in o + 1 .. Len(s) : s[x] # "letter" => t < x
  BY <1>0, LettersAfter, Zenon
<1>3. ASSUME NEW n \in 0 .. b - o PROVE Upto(T, n) = SubSeq(s, o + 1, o + n)
  <2>1. n \in Nat /\ n <= b - o /\ 0 \in Nat /\ 0 <= n /\ 0 + 1 = 1 /\ o + 0 + 1 = o + 1
    OBVIOUS
  <2>2. SubSeq(T, 0 + 1, n) = SubSeq(s, o + 0 + 1, o + n)
    BY <2>1, PieceOfPiece
  <2> HIDE DEF T
  <2>3. (IF n < Len(T) THEN n ELSE Len(T)) = n
    BY <1>1, <2>1
  <2> QED
    BY <2>1, <2>2, <2>3, Zenon DEF Upto
<1> HIDE DEF T, t
<1>4. t \in Nat /\ o <= t /\ t <= b
  <2>1. b = Len(s) \/ b \in o + 1 .. Len(s)
    BY <1>0
  <2> QED
    BY <1>0, <1>2, <2>1
<1>5. t - o \in 0 .. b - o /\ o + (t - o) = t
  BY <1>4
<1>6. ASSUME NEW n \in 0 .. b - o PROVE n \in N <=> \A j \in o + 1 .. o + n : s[j] = "letter"
  <2>1. o + n \in Nat /\ o <= o + n /\ o + n <= Len(s)
    BY <1>0
  <2>2. IsWord(SubSeq(s, o + 1, o + n)) <=> \A j \in o + 1 .. o + n : s[j] = "letter"
    <3> DEFINE m == o + n
    <3>1. m \in Nat /\ o <= m /\ m <= Len(s)
      BY <2>1
    <3> HIDE DEF m
    <3>2. IsWord(SubSeq(s, o + 1, m)) <=> \A j \in o + 1 .. m : s[j] = "letter"
      BY <3>1, WordPiece, Zenon
    <3> QED
      BY <3>2 DEF m
  <2>3. n \in 0 .. Len(T)
    BY <1>1
  <2> QED
    BY <1>3, <2>2, <2>3, Zenon
<1>7. N \subseteq 0 .. b - o
  BY <1>1
<1> HIDE DEF N
<1>8. t - o \in N
  <2>1. t - o \in N <=> \A j \in o + 1 .. o + (t - o) : s[j] = "letter"
    BY <1>5, <1>6, Zenon
  <2> QED
    BY <1>2, <1>5, <2>1
<1>9. ASSUME NEW n \in N PROVE n <= t - o
  <2>1. n \in 0 .. b - o
    BY <1>7
  <2>2. \A j \in o + 1 .. o + n : s[j] = "letter"
    BY <1>6, <2>1
  <2>3. o + n \in o .. Len(s)
    BY <1>0, <2>1
  <2>4. o + n <= t
    BY <1>2, <2>2, <2>3
  <2> QED
    BY <1>4, <2>1, <2>4
<1>10. Max(N) = t - o
  <2>1. N \subseteq Nat /\ \A n \in N : n <= t - o
    BY <1>7, <1>9
  <2> QED
    BY <1>8, <2>1, ExtremeIs
<1>11. WordStart(T) = Upto(T, Max(N))
  BY Zenon DEF WordStart, N
<1>12. Upto(T, t - o) = SubSeq(s, o + 1, o + (t - o))
  BY <1>3, <1>5, Zenon
<1>13. WordStart(T) = SubSeq(s, o + 1, t)
  BY <1>5, <1>10, <1>11, <1>12
<1> QED
  BY <1>13, Zenon DEF StartsInWord, T, t

\* Between the start of the line and an offset no line ends, and lines end at
\* no letter.
LEMMA LineAround ==
  ASSUME text \in Seq(Plain), NEW o \in Offsets
  PROVE  LET K == Cardinality(LineEnds(text))
             L == PositionOf(o).line
         IN  /\ Cut(text, L) # 0 => text[Cut(text, L)] # "letter"
             /\ Cut(text, L) # o => text[o] # "lf"
             /\ L < K /\ Cut(text, L + 1) # Len(text) => text[Cut(text, L + 1)] # "letter"
<1> DEFINE K == Cardinality(LineEnds(text))
           ends == {n \in 1 .. o : EndsLine(text, n)}
           L == Cardinality(ends)
           m == Max(ends \cup {0})
<1>0. o \in 0 .. Len(text) /\ o \in Nat /\ Len(text) \in Nat
  BY DEF Offsets
<1>1. L \in 0 .. K /\ m \in 0 .. o /\ Cut(text, L) = m
  BY <1>0, OffsetLine, Zenon
<1>2. PositionOf(o).line = L
  BY DEF PositionOf, Position
<1>3. m \in ends \cup {0} /\ \A y \in ends \cup {0} : y <= m
  <2>1. ends \cup {0} \subseteq 0 .. o /\ ends \cup {0} # {}
    BY <1>0
  <2> HIDE DEF ends
  <2> QED
    BY <1>0, <2>1, Greatest
<1>4. \A n \in ends : EndsLine(text, n) /\ n \in 1 .. o
  BY Zenon
<1>5. \A n : EndsLine(text, n) => text[n] # "letter"
  BY DEF EndsLine
<1>6. m # 0 => text[m] # "letter"
  BY <1>3, <1>4, <1>5
<1>7. m # o => text[o] # "lf"
  <2> SUFFICES ASSUME m # o, text[o] = "lf" PROVE FALSE
    OBVIOUS
  <2>1. o # 0
    BY <1>0, <1>1
  <2>2. o \in 1 .. o /\ EndsLine(text, o)
    BY <1>0, <2>1 DEF EndsLine
  <2>3. o \in ends
    BY <2>2
  <2>4. o <= m
    BY <1>3, <2>3
  <2> HIDE DEF m
  <2> QED
    BY <1>0, <1>1, <2>4
<1>8. L < K /\ Cut(text, L + 1) # Len(text) => text[Cut(text, L + 1)] # "letter"
  <2> SUFFICES ASSUME L < K, Cut(text, L + 1) # Len(text) PROVE text[Cut(text, L + 1)] # "letter"
    OBVIOUS
  <2>1. /\ \A k \in 0 .. K : Cut(text, k) \in LineEnds(text) \cup {0}
        /\ \A j, k \in 0 .. K : j < k => Cut(text, j) < Cut(text, k)
        /\ \A k \in 0 .. K : Cut(text, k) \in 0 .. Len(text)
    BY Cuts, Zenon
  <2>2. K \in Nat
    BY EndsFinite
  <2> HIDE DEF K, L
  <2>3. L + 1 \in 0 .. K /\ L < L + 1
    BY <1>1, <2>2
  <2> DEFINE b == Cut(text, L + 1)
  <2>4. b \in LineEnds(text) \cup {0} /\ Cut(text, L) < b /\ Cut(text, L) \in 0 .. Len(text) /\ b \in 0 .. Len(text)
    BY <1>1, <2>1, <2>3, Zenon
  <2> HIDE DEF b
  <2>5. b # 0
    BY <1>0, <2>4
  <2>6. b \in LineEnds(text) /\ b # Len(text)
    BY <2>4, <2>5 DEF b
  <2>7. b \in 1 .. Len(text) /\ (EndsLine(text, b) \/ text[b] = "separator")
    BY <2>6 DEF LineEnds
  <2>8. text[b] # "letter"
    BY <1>5, <2>7
  <2> QED
    BY <2>8 DEF b
<1> HIDE DEF L, m
<1> QED
  BY <1>1, <1>2, <1>6, <1>7, <1>8, Zenon DEF K

\* The word at a position is the letters around the place the client means.
LEMMA WordFound ==
  ASSUME text \in Seq(Plain), source = text, NEW o \in Offsets
  PROVE  word_at_position(PositionOf(o))
           = SubSeq(text, LettersFrom(text, o) + 1, LettersTo(text, o))
<1> DEFINE K == Cardinality(LineEnds(text))
           ls == splitlines(text)
           p == PositionOf(o)
           c == position_from_client_units(encoding, ls, p)
           L == p.line
           f == LettersFrom(text, o)
           t == LettersTo(text, o)
<1>1. L \in 0 .. K /\ o \in Nat /\ o <= Len(text) /\ Len(text) \in Nat
  <2>1. L \in 0 .. K /\ o \in Nat /\ o <= Len(text)
    BY Converted, Zenon
  <2>2. Len(text) \in Nat
    OBVIOUS
  <2> QED
    BY <2>1, <2>2
<1>2. K \in Nat /\ Len(ls) = K /\ (K = 0 => text = <<>>)
  BY Lines, Zenon
<1>3. /\ Cut(text, L) # 0 => text[Cut(text, L)] # "letter"
      /\ Cut(text, L) # o => text[o] # "lf"
      /\ L < K /\ Cut(text, L + 1) # Len(text) => text[Cut(text, L + 1)] # "letter"
  BY LineAround, Zenon
<1>4. f \in 0 .. o /\ \A x \in 1 .. o : text[x] # "letter" => x <= f
  BY <1>1, LettersBefore, Zenon
<1>5. t \in o .. Len(text)
  BY <1>1, LettersAfter, Zenon
<1>6. word_at_position(p) = IF L >= Len(ls) THEN <<>>
                            ELSE WordEnd(Upto(ls[c.line + 1], c.character))
                                 \o WordStart(After(ls[c.line + 1], c.character))
  BY Zenon DEF word_at_position
\* After the last line end.
<1>7. CASE L = K
  <2>1. o = Len(text) /\ (o # 0 => EndsLine(text, o))
    BY <1>7, Converted, Zenon
  <2>2. o # 0 => text[o] # "letter"
    BY <2>1 DEF EndsLine
  <2> HIDE DEF f, t, L, K, ls, p, c
  <2>3. f = o /\ t = o
    BY <1>1, <1>4, <1>5, <2>1, <2>2
  <2>4. SubSeq(text, o + 1, o) = <<>>
    BY <1>1
  <2>5. L >= Len(ls)
    BY <1>1, <1>2, <1>7
  <2>6. word_at_position(p) = <<>>
    BY <1>6, <2>5, Zenon
  <2> QED
    BY <2>3, <2>4, <2>6, Zenon DEF p, f, t
\* On a line.
<1>8. CASE L < K
  <2> DEFINE a == Cut(text, L)
             b == Cut(text, L + 1)
  <2>1. a <= o /\ o <= b /\ (o = b => o = Len(text)) /\ c = Position(L, o - Cut(text, L))
    BY <1>8, Converted, Zenon
  <2>2. c.line = L
    BY <2>1 DEF Position
  <2>3. text # <<>>
    <3>1. K # 0
      <4> HIDE DEF K, L
      <4> QED
        BY <1>1, <1>2, <1>8
    <3>2. text = <<>> => LineEnds(text) = {}
      BY DEF LineEnds
    <3>3. Cardinality({}) = 0
      BY FS_EmptySet
    <3> QED
      BY <3>1, <3>2, <3>3, Zenon
  <2>4. /\ Upto(ls[c.line + 1], c.character) = SubSeq(text, Cut(text, c.line) + 1, o)
        /\ After(ls[c.line + 1], c.character) = SubSeq(text, o + 1, Cut(text, c.line + 1))
    BY <2>3, Halves, Zenon
  <2>5. \A k \in 0 .. K : Cut(text, k) \in 0 .. Len(text)
    BY Cuts, Zenon
  <2> HIDE DEF f, t, L, K, ls, p, c
  <2>6. L \in 0 .. K /\ L + 1 \in 0 .. K /\ ~(L >= K)
    BY <1>1, <1>2, <1>8
  <2>7. a \in 0 .. Len(text) /\ b \in 0 .. Len(text)
    BY <2>5, <2>6, Zenon
  <2>8. /\ a # 0 => text[a] # "letter"
        /\ a # o => text[o] # "lf"
        /\ b # Len(text) => text[b] # "letter"
    BY <1>3, <1>8, Zenon
  <2>9. word_at_position(p) = WordEnd(SubSeq(text, a + 1, o)) \o WordStart(SubSeq(text, o + 1, b))
    BY <1>2, <1>6, <2>2, <2>4, <2>6, Zenon
  <2> HIDE DEF a, b
  <2>10. a \in Nat /\ b \in Nat /\ a <= o /\ o <= b /\ b <= Len(text) /\ (b # Len(text) => o < b)
    BY <1>1, <2>1, <2>7
  <2>11. EndsInWord(text, a, o)
    BY <1>1, <2>8, <2>10, WordBefore, Zenon
  <2>12. StartsInWord(text, o, b)
    BY <1>1, <2>8, <2>10, WordAfter, Zenon
  <2>13. f \in Nat /\ t \in Nat /\ f <= o /\ o <= t /\ t <= Len(text)
    BY <1>1, <1>4, <1>5
  <2>14. Joins(text, f, o, t)
    BY <1>1, <2>13, JoinsAt, Zenon
  <2> QED
    BY <2>9, <2>11, <2>12, <2>14, Zenon DEF EndsInWord, StartsInWord, Joins, f, t, p
<1> HIDE DEF L, K
<1> QED
  BY <1>1, <1>2, <1>7, <1>8

LEMMA WordsAtPlaces ==
  ASSUME "separator" \notin Alphabet, TypeOK, Synchronised
  PROVE  WordAtPlace
<1>1. text \in Seq(Plain)
  BY TextsArePlain DEF TypeOK
<1> SUFFICES ASSUME sync # "None", NEW o \in Offsets
             PROVE  word_at_position(PositionOf(o))
                      = SubSeq(text, LettersFrom(text, o) + 1, LettersTo(text, o))
  BY Zenon DEF WordAtPlace, LettersFrom, LettersTo
<1>2. source = text
  BY DEF Synchronised
<1> QED
  BY <1>1, <1>2, WordFound, Zenon

-----------------------------------------------------------------------------
(* Past the end of a line.                                                  *)

\* Between the ends of two lines that follow each other no line ends.
LEMMA NothingEndsBetween ==
  ASSUME NEW S, NEW s \in Seq(S), NEW k \in 1 .. Cardinality(LineEnds(s)), NEW n \in LineEnds(s)
  PROVE  ~(Cut(s, k - 1) < n /\ n < Cut(s, k))
<1> DEFINE K == Cardinality(LineEnds(s))
           r == Rank(s, n)
<1>1. K \in Nat /\ k \in Nat /\ k - 1 \in 0 .. K /\ k \in 0 .. K
  BY EndsFinite
<1>2. r \in 0 .. K
  BY RankOrder
<1>3. Cut(s, r) = n
  BY Cuts
<1>4. \A x, y \in 0 .. K : x < y => Cut(s, x) < Cut(s, y)
  BY Cuts
<1>5. \A x \in 0 .. K : Cut(s, x) \in Nat
  <2>1. \A x \in 0 .. K : Cut(s, x) \in 0 .. Len(s)
    BY Cuts
  <2> QED
    BY <2>1
<1> HIDE DEF K, r
<1>6. r < k - 1 \/ r = k - 1 \/ r = k \/ k < r
  BY <1>1, <1>2
<1>7. /\ r < k - 1 => n < Cut(s, k - 1)
      /\ r = k - 1 => n = Cut(s, k - 1)
      /\ r = k => n = Cut(s, k)
      /\ k < r => Cut(s, k) < n
  BY <1>1, <1>2, <1>3, <1>4
<1>8. n \in Nat /\ Cut(s, k - 1) \in Nat /\ Cut(s, k) \in Nat
  BY <1>1, <1>2, <1>3, <1>5
<1> QED
  BY <1>6, <1>7, <1>8

\* A line whose content ends with the i-th character, and then has a line end, has
\* one unit more than its content once its end is joined.
LEMMA LineEndIsAUnit ==
  ASSUME NEW enc, NEW line \in Seq(Chars), NEW i \in Nat,
         \/ /\ Len(line) = i + 1 /\ line[i + 1] \in {"lf", "cr"}
            /\ ~IsSuffix(<<"cr", "lf">>, line)
         \/ Len(line) = i + 2 /\ IsSuffix(<<"cr", "lf">>, line)
  PROVE  /\ client_num_units(enc, SubSeq(line, 1, i)) \in Nat
         /\ client_num_units(enc, JoinCrlf(line)) = client_num_units(enc, SubSeq(line, 1, i)) + 1
<1> DEFINE j == JoinCrlf(line)
<1>1. j \in Seq(Chars) /\ Len(j) = i + 1 /\ SubSeq(j, 1, i) = SubSeq(line, 1, i)
  <2>1. CASE IsSuffix(<<"cr", "lf">>, line)
    <3>1. Len(line) = i + 2 /\ Len(line) - 1 = i + 1 /\ i \in 0 .. Len(line) - 2
      BY <2>1
    <3> QED
      BY <2>1, <3>1, Joined
  <2>2. CASE ~IsSuffix(<<"cr", "lf">>, line)
    <3>1. Len(line) = i + 1 /\ i \in 0 .. Len(line)
      BY <2>2
    <3> QED
      BY <2>2, <3>1, Joined
  <2> QED
    BY <2>1, <2>2
<1>2. j[i + 1] \in {"lf", "cr"}
  <2>1. CASE IsSuffix(<<"cr", "lf">>, line)
    <3>1. Len(line) = i + 2 /\ Len(line) - 2 = i
      BY <2>1
    <3>2. Upto(line, i) = SubSeq(line, 1, i)
      BY <3>1 DEF Upto
    <3>3. j = SubSeq(line, 1, i) \o <<"lf">>
      BY <2>1, <3>1, <3>2 DEF JoinCrlf
    <3>4. SubSeq(line, 1, i) \in Seq(Chars) /\ Len(SubSeq(line, 1, i)) = i
      BY <3>1, Prefix
    <3> DEFINE p == SubSeq(line, 1, i)
    <3> HIDE DEF p, j
    <3>5. (p \o <<"lf">>)[i + 1] = "lf"
      BY <3>4 DEF p
    <3> QED
      BY <3>3, <3>5 DEF p
  <2>2. CASE ~IsSuffix(<<"cr", "lf">>, line)
    BY <2>2 DEF JoinCrlf
  <2> QED
    BY <2>1, <2>2
<1> HIDE DEF j
<1>3. CharUnits(enc, j[i + 1]) = 1
  BY <1>2 DEF CharUnits, utf8_bytes, is_char_beyond_multilingual_plane
<1>4. PICK U : UnitsOf(enc, j, U)
  BY <1>1, UnitsExist
<1>5. i \in 0 .. Len(j) /\ i + 1 \in 1 .. Len(j) /\ (i + 1) - 1 = i
  BY <1>1
<1>6. client_num_units(enc, SubSeq(j, 1, i)) = U[i]
  BY <1>1, <1>4, <1>5, UnitsOfPrefix
<1>7. client_num_units(enc, j) = U[i + 1]
  BY <1>1, <1>4, UnitsAre
<1>8. U[i + 1] = U[i] + 1 /\ U[i] \in Nat
  BY <1>3, <1>4, <1>5 DEF UnitsOf
<1> QED
  BY <1>1, <1>6, <1>7, <1>8 DEF j

\* What lies further behind is clamped to the end of the content.
LEMMA Clamped ==
  ASSUME NEW enc, NEW lines, NEW p, NEW q, NEW u \in Nat, NEW n \in Nat,
         lines # <<>>, q.line = p.line, ~(p.line >= Len(lines)),
         client_num_units(enc, JoinCrlf(lines[p.line + 1])) = u + 1,
         p.character = u, q.character = u + n, n >= 2
  PROVE  position_from_client_units(enc, lines, q)
           = position_from_client_units(enc, lines, p)
<1> DEFINE Char(r) == IF r.character > u + 1 THEN (u + 1) - 1 ELSE r.character
           line == JoinCrlf(lines[p.line + 1])
           First(char) == Min({k \in 0 .. Len(line) :
                            k = Len(line) \/ client_num_units(enc, Upto(line, k)) >= char})
<1>1. ASSUME NEW r, r.line = p.line
      PROVE  position_from_client_units(enc, lines, r) = Position(p.line, First(Char(r)))
  BY <1>1 DEF position_from_client_units
<1>2. Char(q) = u /\ Char(p) = u
  OBVIOUS
<1> HIDE DEF Char, First
<1> QED
  BY <1>1, <1>2

\* The line of a place before a line end has nothing but the line end behind it.
LEMMA StopIsLast ==
  ASSUME text \in Seq(Plain), NEW o \in LineStops
  PROVE  LET K == Cardinality(LineEnds(text))
             l == PositionOf(o).line
         IN  /\ l \in 0 .. K /\ l < K
             /\ \/ Cut(text, l + 1) = o + 1
                \/ /\ Cut(text, l + 1) = o + 2
                   /\ text[o + 1] = "cr" /\ text[o + 2] = "lf"
<1> DEFINE K == Cardinality(LineEnds(text))
           l == PositionOf(o).line
           a == Cut(text, l)
           b == Cut(text, l + 1)
<1>1. /\ o \in Offsets /\ Len(text) \in Nat /\ o \in Nat /\ o < Len(text)
      /\ text[o + 1] \in {"lf", "cr"} /\ o + 1 \in 1 .. Len(text)
  BY DEF LineStops, Offsets
<1>2. /\ l \in 0 .. K
      /\ l = K => o = Len(text)
      /\ l < K => a <= o /\ o <= b /\ (o = b => o = Len(text))
  BY <1>1, Converted, Zenon
<1>3. K \in Nat
  BY EndsFinite
<1> HIDE DEF K, l
<1>4. l < K /\ l \in Nat /\ l + 1 \in 1 .. K /\ (l + 1) - 1 = l /\ l + 1 \in 0 .. K
  BY <1>1, <1>2, <1>3
<1>5. a \in Nat /\ b \in Nat /\ b <= Len(text) /\ b \in LineEnds(text) \cup {0}
  <2>1. a \in 0 .. Len(text) /\ b \in 0 .. Len(text) /\ b \in LineEnds(text) \cup {0}
    BY <1>2, <1>4, Cuts DEF K
  <2> QED
    BY <1>1, <2>1
<1>6. \A n \in LineEnds(text) : ~(a < n /\ n < b)
  <2>1. \A n \in LineEnds(text) : ~(Cut(text, (l + 1) - 1) < n /\ n < Cut(text, l + 1))
    BY <1>4, NothingEndsBetween DEF K
  <2> QED
    BY <1>4, <2>1
<1> HIDE DEF a, b
<1>7. a <= o /\ o < b
  BY <1>1, <1>2, <1>4, <1>5
<1>8. CASE o + 1 \in LineEnds(text)
  <2>1. ~(a < o + 1 /\ o + 1 < b)
    BY <1>6, <1>8
  <2>2. b = o + 1
    BY <1>1, <1>5, <1>7, <2>1
  <2> QED
    BY <1>2, <1>4, <2>2, Zenon DEF b, K, l
<1>9. CASE o + 1 \notin LineEnds(text)
  <2>1. ~EndsLine(text, o + 1) /\ o + 1 # Len(text)
    BY <1>1, <1>9 DEF LineEnds
  <2>2. text[o + 1] = "cr" /\ text[(o + 1) + 1] = "lf"
    BY <1>1, <2>1 DEF EndsLine
  <2>3. (o + 1) + 1 = o + 2 /\ o + 2 \in 1 .. Len(text)
    BY <1>1, <2>1
  <2>4. o + 2 \in LineEnds(text)
    BY <2>2, <2>3 DEF LineEnds, EndsLine
  <2>5. ~(a < o + 2 /\ o + 2 < b)
    BY <1>6, <2>4
  <2>6. b # o + 1
    BY <1>1, <1>5, <1>7, <1>9
  <2>7. b = o + 2
    BY <1>1, <1>5, <1>7, <2>5, <2>6
  <2> QED
    BY <1>2, <1>4, <2>2, <2>3, <2>7, Zenon DEF b, K, l
<1> QED
  BY <1>8, <1>9

LEMMA PastIsPlace ==
  ASSUME text \in Seq(Plain), NEW o \in LineStops, NEW n \in Nat, n >= 2
  PROVE  /\ Past(o, n).line = PositionOf(o).line
         /\ position_from_client_units(encoding, splitlines(text), Past(o, n))
              = position_from_client_units(encoding, splitlines(text), PositionOf(o))
<1> DEFINE K == Cardinality(LineEnds(text))
           ls == splitlines(text)
           p == PositionOf(o)
           l == p.line
           a == Cut(text, l)
           b == Cut(text, l + 1)
           i == o - a
           line == ls[l + 1]
           u == client_num_units(encoding, SubSeq(line, 1, i))
<1>1. /\ o \in Offsets /\ Len(text) \in Nat /\ o \in Nat /\ o < Len(text)
      /\ text[o + 1] \in {"lf", "cr"}
  BY DEF LineStops, Offsets
<1>2. /\ l \in 0 .. K /\ l < K
      /\ b = o + 1 \/ (b = o + 2 /\ text[o + 1] = "cr" /\ text[o + 2] = "lf")
  BY StopIsLast, Zenon
<1>3. p = Position(l, u) /\ a <= o
  BY <1>1, <1>2, Converted, Zenon
<1>4. /\ K \in Nat /\ Len(ls) = K /\ ((ls = <<>>) <=> (K = 0))
      /\ \A k \in 1 .. K :
           /\ Cut(text, k - 1) \in Nat /\ Cut(text, k) \in Nat /\ Cut(text, k) <= Len(text)
           /\ ls[k] = SubSeq(text, Cut(text, k - 1) + 1, Cut(text, k))
           /\ ls[k] \in Seq(Plain)
  BY Lines, Zenon
<1> HIDE DEF K, ls, p, l
<1>5. l \in Nat /\ l + 1 \in 1 .. K /\ (l + 1) - 1 = l /\ ls # <<>> /\ ~(l >= Len(ls))
  BY <1>2, <1>4
<1>6. /\ a \in Nat /\ b \in Nat /\ b <= Len(text)
      /\ line = SubSeq(text, a + 1, b) /\ line \in Seq(Plain)
  <2>1. /\ Cut(text, (l + 1) - 1) \in Nat /\ Cut(text, l + 1) \in Nat
        /\ Cut(text, l + 1) <= Len(text)
        /\ ls[l + 1] = SubSeq(text, Cut(text, (l + 1) - 1) + 1, Cut(text, l + 1))
        /\ ls[l + 1] \in Seq(Plain)
    BY <1>4, <1>5, Zenon
  <2> QED
    BY <1>5, <2>1, Zenon
<1> HIDE DEF a, b, line
<1>7. i \in Nat /\ a + i = o /\ a <= b
  BY <1>1, <1>2, <1>3, <1>6
<1>8. Len(line) = b - a /\ \A x \in 1 .. b - a : line[x] = text[a + x]
  BY <1>6, <1>7, Piece
<1>9. line \in Seq(Chars)
  BY <1>6 DEF Plain
<1> HIDE DEF i
<1>10. \/ /\ Len(line) = i + 1 /\ line[i + 1] \in {"lf", "cr"}
          /\ ~IsSuffix(<<"cr", "lf">>, line)
       \/ Len(line) = i + 2 /\ IsSuffix(<<"cr", "lf">>, line)
  <2>1. CASE b = o + 1
    <3>1. b - a = i + 1 /\ i + 1 \in 1 .. b - a /\ a + (i + 1) = o + 1
      BY <1>1, <1>6, <1>7, <2>1
    <3>2. Len(line) = i + 1 /\ line[i + 1] = text[o + 1]
      <4>1. Len(line) = i + 1
        BY <1>8, <3>1
      <4>2. line[i + 1] = text[a + (i + 1)]
        BY <1>8, <3>1
      <4> QED
        BY <3>1, <4>1, <4>2
    <3>3. ASSUME IsSuffix(<<"cr", "lf">>, line) PROVE FALSE
      <4>1. Len(line) >= 2 /\ line[Len(line) - 1] = "cr" /\ line[Len(line)] = "lf"
        BY <1>9, <3>3, SuffixMeans, Zenon
      <4>2. Len(line) - 1 = i /\ i >= 1 /\ i \in 1 .. b - a
        BY <1>7, <3>1, <3>2, <4>1
      <4>3. text[o] = "cr" /\ text[o + 1] = "lf"
        BY <1>7, <1>8, <3>2, <4>1, <4>2
      <4>4. o \in 1 .. Len(text) - 1
        BY <1>1, <1>6, <1>7, <4>2
      <4> QED
        BY <1>1, <4>3, <4>4 DEF Offsets
    <3> QED
      BY <1>1, <3>2, <3>3
  <2>2. CASE b = o + 2 /\ text[o + 1] = "cr" /\ text[o + 2] = "lf"
    <3>1. /\ b - a = i + 2 /\ i + 1 \in 1 .. b - a /\ i + 2 \in 1 .. b - a
          /\ a + (i + 1) = o + 1 /\ a + (i + 2) = o + 2
      BY <1>1, <1>6, <1>7, <2>2
    <3>2. Len(line) = i + 2 /\ line[i + 1] = "cr" /\ line[i + 2] = "lf"
      BY <1>8, <2>2, <3>1, Zenon
    <3>3. Len(line) >= 2 /\ Len(line) - 1 = i + 1
      BY <1>7, <3>2
    <3>4. Len(line) >= 2 /\ line[Len(line) - 1] = "cr" /\ line[Len(line)] = "lf"
      BY <3>2, <3>3
    <3>5. IsSuffix(<<"cr", "lf">>, line)
      BY <1>9, <3>4, SuffixMeans, Zenon
    <3> QED
      BY <3>2, <3>5
  <2> QED
    BY <1>2, <2>1, <2>2
<1>11. u \in Nat /\ client_num_units(encoding, JoinCrlf(line)) = u + 1
  BY <1>7, <1>9, <1>10, LineEndIsAUnit
<1> HIDE DEF u
<1>12. Past(o, n) = Position(l, u + n)
  BY <1>3 DEF Past, p, Position
<1> DEFINE q == Past(o, n)
<1>13. p.line = l /\ p.character = u /\ q.line = l /\ q.character = u + n
  BY <1>3, <1>12 DEF Position
<1>14. client_num_units(encoding, JoinCrlf(ls[p.line + 1])) = u + 1
  BY <1>11, <1>13 DEF line
<1> HIDE DEF q
<1>15. ls # <<>> /\ q.line = p.line /\ ~(p.line >= Len(ls))
  BY <1>5, <1>13
<1>16. position_from_client_units(encoding, ls, q)
         = position_from_client_units(encoding, ls, p)
  BY <1>11, <1>13, <1>14, <1>15, Clamped, Zenon
<1> QED
  BY <1>15, <1>16, Zenon DEF p, q, ls

LEMMA PastEnds ==
  ASSUME "separator" \notin Alphabet, TypeOK, Synchronised
  PROVE  PastEndIsEnd
<1>1. text \in Seq(Plain)
  BY TextsArePlain DEF TypeOK
<1> SUFFICES ASSUME sync # "None", NEW o \in LineStops, NEW n \in 2 .. MaxLen
             PROVE  /\ offset_at_position(Past(o, n)) = o
                    /\ word_at_position(Past(o, n)) = word_at_position(PositionOf(o))
  BY DEF PastEndIsEnd
<1>2. source = text
  BY DEF Synchronised
<1>3. n \in Nat /\ n >= 2 /\ o \in Offsets
  BY TextAssumption DEF LineStops
<1>4. /\ Past(o, n).line = PositionOf(o).line
      /\ position_from_client_units(encoding, splitlines(source), Past(o, n))
           = position_from_client_units(encoding, splitlines(source), PositionOf(o))
  BY <1>1, <1>2, <1>3, PastIsPlace, Zenon
<1>5. offset_at_position(Past(o, n)) = offset_at_position(PositionOf(o))
  BY <1>4, Zenon DEF offset_at_position
<1>6. word_at_position(Past(o, n)) = word_at_position(PositionOf(o))
  BY <1>4, Zenon DEF word_at_position
<1>7. PositionOf(o).line < Cardinality(LineEnds(text))
  BY <1>1, StopIsLast, Zenon
<1>8. offset_at_position(PositionOf(o)) = o
  BY <1>1, <1>2, <1>3, <1>7, PlaceKept, Zenon
<1> QED
  BY <1>5, <1>6, <1>8, Zenon

-----------------------------------------------------------------------------
(* What holds of every document, if its characters split lines for Python   *)
(* only where they do for the client.                                       *)

\* The client's text and the server's copy stay texts: no change, whatever its
\* range, makes apply_change write anything else.
THEOREM TypeCorrect ==
  ASSUME SplitsAlike PROVE Spec => []TypeOK
<1>1. Init => TypeOK /\ Synchronised
  BY TextInit
<1>2. TypeOK /\ Synchronised /\ [Next]_vars => TypeOK' /\ Synchronised'
  BY TextStep
<1> QED
  BY <1>1, <1>2, PTL DEF Spec

\* The server's source is the client's text after any sequence of edits, in every
\* encoding and for texts of any length (_apply_incremental_change); with full
\* synchronisation for texts of any characters (_apply_full_change).
THEOREM SourceIsText ==
  ASSUME SplitsAlike PROVE Spec => []Synchronised
<1>1. Init => TypeOK /\ Synchronised
  BY TextInit
<1>2. TypeOK /\ Synchronised /\ [Next]_vars => TypeOK' /\ Synchronised'
  BY TextStep
<1> QED
  BY <1>1, <1>2, PTL DEF Spec

\* Every position the client can send means the client's place to the server,
\* and goes back to the same position (offset_at_position,
\* position_from_client_units, position_to_client_units).
THEOREM PlacesAgree ==
  ASSUME "separator" \notin Alphabet PROVE Spec => []PositionsMatch
<1>1. Init => TypeOK /\ Synchronised
  BY TextInit
<1>2. TypeOK /\ Synchronised /\ [Next]_vars => TypeOK' /\ Synchronised'
  BY TextStep DEF SplitsAlike
<1>3. TypeOK /\ Synchronised => PositionsMatch
  BY PositionsAgree
<1> QED
  BY <1>1, <1>2, <1>3, PTL DEF Spec

\* word_at_position finds the letters around the client's place, on every line of
\* every text.
THEOREM WordsAreFound ==
  ASSUME "separator" \notin Alphabet PROVE Spec => []WordAtPlace
<1>1. Init => TypeOK /\ Synchronised
  BY TextInit
<1>2. TypeOK /\ Synchronised /\ [Next]_vars => TypeOK' /\ Synchronised'
  BY TextStep DEF SplitsAlike
<1>3. TypeOK /\ Synchronised => WordAtPlace
  BY WordsAtPlaces
<1> QED
  BY <1>1, <1>2, <1>3, PTL DEF Spec

\* A position far past the end of a line means the end of its content, on every
\* line of every text that has a line end (position_from_client_units).
THEOREM PastEndsAreEnds ==
  ASSUME "separator" \notin Alphabet PROVE Spec => []PastEndIsEnd
<1>1. Init => TypeOK /\ Synchronised
  BY TextInit
<1>2. TypeOK /\ Synchronised /\ [Next]_vars => TypeOK' /\ Synchronised'
  BY TextStep DEF SplitsAlike
<1>3. TypeOK /\ Synchronised => PastEndIsEnd
  BY PastEnds
<1> QED
  BY <1>1, <1>2, <1>3, PTL DEF Spec

\* A place in a line comes back from the client's units, whatever the line.
LEMMA PlaceReturns ==
  ASSUME NEW enc, NEW lines \in Seq(Seq(Chars)), NEW l \in 0 .. Len(lines) - 1,
         NEW k \in 0 .. Len(lines[l + 1]),
         IsSuffix(<<"cr", "lf">>, lines[l + 1]) => k <= Len(lines[l + 1]) - 2
  PROVE  position_from_client_units(enc, lines,
           position_to_client_units(enc, lines, Position(l, k))) = Position(l, k)
<1> DEFINE line == lines[l + 1]
<1>1. l \in Nat /\ l < Len(lines) /\ ~(l >= Len(lines)) /\ l + 1 \in 1 .. Len(lines) /\ lines # <<>>
  OBVIOUS
<1>2. line \in Seq(Chars)
  BY <1>1, ElementOfSeq, Zenon
<1>3. FindsPlace(enc, lines, l, k)
  BY <1>1, <1>2, PlaceFromUnits, Zenon
<1>4. Upto(line, k) = SubSeq(line, 1, k)
  <2>1. Len(line) \in Nat /\ k \in Nat /\ k <= Len(line)
    BY <1>2
  <2> HIDE DEF line
  <2> QED
    BY <2>1 DEF Upto
<1>5. Position(l, k).line = l /\ Position(l, k).character = k
  BY DEF Position
<1>6. position_to_client_units(enc, lines, Position(l, k))
        = Position(l, client_num_units(enc, SubSeq(line, 1, k)))
  BY <1>1, <1>4, <1>5, Zenon DEF position_to_client_units
<1> QED
  BY <1>3, <1>6, Zenon DEF FindsPlace

\* Only the end of a line is a "\n", and so only its end a "\r\n": to join the end
\* is all that line.replace("\r\n", "\n") does.
LEMMA OnlyTheEndIsLf ==
  ASSUME NEW s \in Seq(Chars), NEW k \in 1 .. Len(splitlines(s)),
         NEW i \in 1 .. Len(splitlines(s)[k]) - 1
  PROVE  splitlines(s)[k][i] # "lf"
<1> DEFINE K == Cardinality(LineEnds(s))
           a == Cut(s, k - 1)
           b == Cut(s, k)
           n == a + i
<1>1. /\ K \in Nat /\ k \in 1 .. K
      /\ a \in Nat /\ b \in Nat /\ a < b /\ b <= Len(s)
      /\ splitlines(s)[k] = SubSeq(s, a + 1, b) /\ Len(splitlines(s)[k]) = b - a
  BY Lines, Zenon
<1>2. i \in Nat /\ i >= 1 /\ i <= b - a - 1 /\ Len(s) \in Nat
  BY <1>1
<1> HIDE DEF K, a, b
<1>3. n \in 1 .. Len(s) /\ a < n /\ n < b /\ i \in 1 .. b - a
  BY <1>1, <1>2
<1>4. SubSeq(s, a + 1, b)[i] = s[n]
  <2>1. a <= b
    BY <1>1
  <2> QED
    BY <1>1, <1>3, <2>1, Piece
<1> HIDE DEF n
<1>5. SUFFICES ASSUME s[n] = "lf" PROVE FALSE
  BY <1>1, <1>4
<1>6. n \in LineEnds(s)
  BY <1>3, <1>5 DEF LineEnds, EndsLine
<1> DEFINE r == Rank(s, n)
<1>7. r \in 0 .. K /\ Cut(s, r) = n
  <2>1. Rank(s, n) \in 0 .. K
    BY <1>6, RankOrder DEF K
  <2>2. Cut(s, Rank(s, n)) = n
    BY <1>6, Cuts
  <2> QED
    BY <2>1, <2>2
<1> HIDE DEF r
<1>8. \A x, y \in 0 .. K : x < y => Cut(s, x) < Cut(s, y)
  BY Cuts DEF K
<1>9. k - 1 \in 0 .. K /\ k \in 0 .. K /\ (r < k - 1 \/ r = k - 1 \/ r = k \/ k < r)
  BY <1>1, <1>7
<1>10. /\ r < k - 1 => n < a
       /\ r = k - 1 => n = a
       /\ r = k => n = b
       /\ k < r => b < n
  BY <1>7, <1>8, <1>9 DEF a, b
<1>11. n \in Nat
  BY <1>3
<1> QED
  BY <1>1, <1>3, <1>9, <1>10, <1>11

\* A place in a line of a text that the server tells the client comes back as the
\* same place, for any text and in every encoding, but for those in and behind the
\* "\r\n" that ends a line (position_to_client_units, position_from_client_units,
\* on TextDocument.lines).
THEOREM ServerPlacesReturn ==
  ASSUME NEW enc, NEW s \in Seq(Chars), NEW l \in 0 .. Len(splitlines(s)) - 1,
         NEW k \in 0 .. Len(splitlines(s)[l + 1]),
         IsSuffix(<<"cr", "lf">>, splitlines(s)[l + 1])
           => k <= Len(splitlines(s)[l + 1]) - 2
  PROVE  /\ \A i \in 1 .. Len(splitlines(s)[l + 1]) - 1 : splitlines(s)[l + 1][i] # "lf"
         /\ position_from_client_units(enc, splitlines(s),
              position_to_client_units(enc, splitlines(s), Position(l, k))) = Position(l, k)
<1>1. splitlines(s) \in Seq(Seq(Chars))
  BY Lines, Zenon
<1>2. l + 1 \in 1 .. Len(splitlines(s))
  BY <1>1
<1>3. \A i \in 1 .. Len(splitlines(s)[l + 1]) - 1 : splitlines(s)[l + 1][i] # "lf"
  BY <1>2, OnlyTheEndIsLf, Zenon
<1>4. position_from_client_units(enc, splitlines(s),
        position_to_client_units(enc, splitlines(s), Position(l, k))) = Position(l, k)
  BY <1>1, PlaceReturns, Zenon
<1> QED
  BY <1>3, <1>4

=============================================================================
