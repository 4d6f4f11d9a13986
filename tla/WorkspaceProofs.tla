-------------------------- MODULE WorkspaceProofs ---------------------------
(* Proofs about Workspace, for any documents, notebooks, cells and folders. *)
EXTENDS Workspace, SequenceTheorems, FiniteSetTheorems, WellFoundedInduction, TLAPS

-----------------------------------------------------------------------------
(* Numbers and dictionaries.                                                *)

\* A set of natural numbers that is not empty has a least one.
LEMMA Least ==
  ASSUME NEW T, T \subseteq Nat, T # {}
  PROVE  \E k \in T : \A j \in T : ~(j < k)
<1>1. PICK k \in T : \A j \in T : <<j, k>> \notin OpToRel(<, Nat)
  BY NatLessThanWellFounded, WFMin, Zenon
<1> QED
  BY <1>1 DEF OpToRel

\* Numbers below a bound have a greatest one.
LEMMA Greatest ==
  ASSUME NEW n \in Nat, NEW S, S \subseteq 0 .. n, S # {}
  PROVE  Max(S) \in S
<1> DEFINE T == {k \in 0 .. n : n - k \in S}
<1>1. T \subseteq Nat /\ T # {}
  <2>1. PICK x \in S : TRUE
    OBVIOUS
  <2>2. n - x \in 0 .. n /\ n - (n - x) = x
    BY <2>1
  <2>3. n - x \in T
    BY <2>1, <2>2
  <2>4. T \subseteq Nat
    OBVIOUS
  <2> HIDE DEF T
  <2> QED
    BY <2>3, <2>4
<1>2. PICK k \in T : \A j \in T : ~(j < k)
  BY <1>1, Least
<1>3. n - k \in S /\ k \in 0 .. n
  BY <1>2
<1>4. ASSUME NEW y \in S PROVE n - k >= y
  <2>1. y \in 0 .. n /\ n - y \in 0 .. n /\ n - (n - y) = y
    OBVIOUS
  <2>2. n - y \in T
    BY <2>1
  <2>3. ~(n - y < k)
    BY <1>2, <2>2
  <2> QED
    BY <1>3, <2>1, <2>3
<1>5. \E x \in S : \A y \in S : x >= y
  BY <1>3, <1>4
<1> QED
  BY <1>5 DEF Max

\* The lesser of two numbers.
LEMMA LesserOfTwo ==
  ASSUME NEW a \in Nat, NEW b \in Nat
  PROVE  Min({a, b}) \in Nat /\ Min({a, b}) <= a /\ Min({a, b}) <= b
<1>1. \E x \in {a, b} : \A y \in {a, b} : x <= y
  OBVIOUS
<1>2. Min({a, b}) \in {a, b} /\ \A y \in {a, b} : Min({a, b}) <= y
  BY <1>1 DEF Min
<1> QED
  BY <1>2

\* The greater of two numbers.
LEMMA GreaterOfTwo ==
  ASSUME NEW a \in Nat, NEW b \in Nat
  PROVE  Max({a, b}) \in Nat /\ Max({a, b}) >= a /\ Max({a, b}) >= b
<1>1. \E x \in {a, b} : \A y \in {a, b} : x >= y
  OBVIOUS
<1>2. Max({a, b}) \in {a, b} /\ \A y \in {a, b} : Max({a, b}) >= y
  BY <1>1 DEF Max
<1> QED
  BY <1>2

-----------------------------------------------------------------------------
(* Folders.                                                                 *)

\* Applying the pairs of an event one after the other comes to adding all and
\* removing all, if no folder is in both.
LEMMA PairsApplied ==
  ASSUME NEW added, NEW removed, NEW n \in Nat,
         \A i \in DOMAIN added, j \in DOMAIN removed : added[i] # removed[j]
  PROVE  ApplyPairs(added, removed, n) =
           (folders \cup {added[i] : i \in 1 .. n \cap DOMAIN added})
             \ {removed[i] : i \in 1 .. n \cap DOMAIN removed}
<1> DEFINE A(k) == {added[i] : i \in 1 .. k \cap DOMAIN added}
           R(k) == {removed[i] : i \in 1 .. k \cap DOMAIN removed}
           Step(f, k) == IF k = 0 THEN folders
                         ELSE (f[k - 1] \cup Nth(added, k)) \ Nth(removed, k)
           h == [k \in 0 .. n |-> (folders \cup A(k)) \ R(k)]
           g == CHOOSE f : f = [k \in 0 .. n |-> Step(f, k)]
<1>1. ASSUME NEW k \in 1 .. n
      PROVE  A(k) = A(k - 1) \cup Nth(added, k) /\ R(k) = R(k - 1) \cup Nth(removed, k)
  <2>1. 1 .. k = (1 .. k - 1) \cup {k}
    OBVIOUS
  <2> QED
    BY <2>1 DEF Nth
<1>2. ASSUME NEW k \in 0 .. n PROVE h[k] = Step(h, k)
  <2>1. CASE k = 0
    <3>1. 1 .. k = {}
      BY <2>1
    <3> QED
      BY <2>1, <3>1
  <2>2. CASE k # 0
    <3>1. k \in 1 .. n /\ k - 1 \in 0 .. n
      BY <2>2
    <3>2. Nth(added, k) \cap R(k - 1) = {}
      BY DEF Nth
    <3>3. h[k - 1] = (folders \cup A(k - 1)) \ R(k - 1)
      BY <3>1
    <3>4. h[k] = (folders \cup A(k)) \ R(k)
      OBVIOUS
    <3>5. A(k) = A(k - 1) \cup Nth(added, k) /\ R(k) = R(k - 1) \cup Nth(removed, k)
      BY <1>1, <3>1
    <3> HIDE DEF A, R, h
    <3> QED
      BY <2>2, <3>2, <3>3, <3>4, <3>5
  <2> QED
    BY <2>1, <2>2
<1>3. h = [k \in 0 .. n |-> Step(h, k)]
  BY <1>2
<1>4. g = [k \in 0 .. n |-> Step(g, k)]
  <2> HIDE DEF h, Step
  <2> QED
    BY <1>3
<1>5. \A k \in 0 .. n : g[k] = h[k]
  <2> DEFINE T == {k \in 0 .. n : g[k] # h[k]}
  <2> SUFFICES ASSUME T # {} PROVE FALSE
    OBVIOUS
  <2>1. PICK k \in T : \A j \in T : ~(j < k)
    <3>1. T \subseteq Nat
      OBVIOUS
    <3> HIDE DEF T
    <3> QED
      BY <3>1, Least
  <2>2. k \in 0 .. n /\ g[k] # h[k] /\ g[k] = Step(g, k) /\ h[k] = Step(h, k)
    <3>1. k \in 0 .. n /\ g[k] # h[k]
      BY <2>1
    <3> HIDE DEF g, h, Step
    <3> QED
      BY <1>2, <1>4, <3>1
  <2>3. k # 0 => k - 1 \in 0 .. n /\ g[k - 1] = h[k - 1]
    <3>1. k # 0 => k - 1 \in 0 .. n /\ k - 1 < k
      BY <2>2
    <3> HIDE DEF g, h
    <3> QED
      BY <2>1, <3>1
  <2> HIDE DEF g, h, T
  <2> QED
    BY <2>2, <2>3
<1>6. ApplyPairs(added, removed, n) = g[n]
  BY DEF ApplyPairs
<1>7. n \in 0 .. n
  OBVIOUS
<1>8. h[n] = (folders \cup A(n)) \ R(n)
  BY <1>7
<1> QED
  BY <1>5, <1>6, <1>7, <1>8

\* The whole event.
LEMMA FoldersApplied ==
  ASSUME NEW added, NEW removed, NEW S, added \in Seq(S), removed \in Seq(S),
         ToSet(added) \cap ToSet(removed) = {}
  PROVE  ApplyFolders(added, removed) = (folders \cup ToSet(added)) \ ToSet(removed)
<1> DEFINE n == Max({Len(added), Len(removed)})
<1>1. Len(added) \in Nat /\ Len(removed) \in Nat
  OBVIOUS
<1>2. n \in Nat /\ n >= Len(added) /\ n >= Len(removed)
  BY <1>1, GreaterOfTwo
<1> HIDE DEF n
<1>3. 1 .. n \cap DOMAIN added = DOMAIN added /\ 1 .. n \cap DOMAIN removed = DOMAIN removed
  <2>1. DOMAIN added = 1 .. Len(added) /\ DOMAIN removed = 1 .. Len(removed)
    OBVIOUS
  <2>2. \A k \in Nat : k <= n => 1 .. n \cap 1 .. k = 1 .. k
    BY <1>2
  <2> QED
    BY <1>1, <1>2, <2>1, <2>2
<1>4. \A i \in DOMAIN added, j \in DOMAIN removed : added[i] # removed[j]
  BY DEF ToSet
<1>5. ApplyPairs(added, removed, n) =
           (folders \cup {added[i] : i \in 1 .. n \cap DOMAIN added})
             \ {removed[i] : i \in 1 .. n \cap DOMAIN removed}
  BY <1>2, <1>4, PairsApplied
<1> QED
  BY <1>3, <1>5 DEF ApplyFolders, ToSet, n

-----------------------------------------------------------------------------
(* The slice of cells a notebook change replaces.                           *)

\* Cells that are sequences without repetition.
Distinct(cells) ==
  /\ cells \in Seq(Cells)
  /\ \A i, j \in DOMAIN cells : cells[i].document = cells[j].document => i = j

\* A change is the slice between what A and B have in common in front and at the
\* end.
Fits(c, A, B, front, back) ==
  /\ front + back <= Len(A) /\ front + back <= Len(B)
  /\ c.start = front
  /\ c.delete_count = Len(A) - front - back
  /\ c.cells = SubSeq(B, front + 1, Len(B) - back)
  /\ \A i \in 1 .. front : A[i].document = B[i].document
  /\ \A i \in 1 .. back : A[Len(A) + 1 - i].document = B[Len(B) + 1 - i].document

\* The client's message is such a change: the two parts do not overlap.
LEMMA Common ==
  ASSUME NEW old, NEW new, NEW texts, old.cells \in Seq(Cells), new.cells \in Seq(Cells),
         NEW c, c = Difference(old, new, texts)
  PROVE  \E front \in Nat, back \in Nat : Fits(c, old.cells, new.cells, front, back)
<1> DEFINE a     == [k \in DOMAIN old.cells |-> old.cells[k].document]
           b     == [k \in DOMAIN new.cells |-> new.cells[k].document]
           short == Min({Len(a), Len(b)})
           Fronts == {k \in 0 .. short : \A i \in 1 .. k : a[i] = b[i]}
           front == Max(Fronts)
           rest  == short - front
           Backs == {k \in 0 .. rest :
                       \A i \in 1 .. k : a[Len(a) + 1 - i] = b[Len(b) + 1 - i]}
           back  == Max(Backs)
<1>1. /\ Len(a) = Len(old.cells) /\ Len(a) \in Nat /\ DOMAIN old.cells = 1 .. Len(a)
      /\ Len(b) = Len(new.cells) /\ Len(b) \in Nat /\ DOMAIN new.cells = 1 .. Len(b)
  OBVIOUS
<1>2. /\ \A i \in 1 .. Len(a) : a[i] = old.cells[i].document
      /\ \A i \in 1 .. Len(b) : b[i] = new.cells[i].document
  BY <1>1
<1>3. /\ c.start = front
      /\ c.delete_count = Len(a) - front - back
      /\ c.cells = SubSeq(new.cells, front + 1, Len(b) - back)
  BY DEF Difference
<1> HIDE DEF a, b
<1>4. short \in Nat /\ short <= Len(a) /\ short <= Len(b)
  BY <1>1, LesserOfTwo
<1> HIDE DEF short
<1>5. front \in Fronts
  <2>1. 0 \in Fronts /\ Fronts \subseteq 0 .. short
    BY <1>4
  <2> HIDE DEF Fronts
  <2> QED
    BY <1>4, <2>1, Greatest
<1>6. front \in 0 .. short /\ \A i \in 1 .. front : a[i] = b[i]
  BY <1>5
<1> HIDE DEF front
<1>7. rest \in Nat
  BY <1>4, <1>6
<1> HIDE DEF rest
<1>8. back \in Backs
  <2>1. 0 \in Backs /\ Backs \subseteq 0 .. rest
    BY <1>7
  <2> HIDE DEF Backs
  <2> QED
    BY <1>7, <2>1, Greatest
<1>9. /\ back \in 0 .. rest
      /\ \A i \in 1 .. back : a[Len(a) + 1 - i] = b[Len(b) + 1 - i]
  BY <1>8
<1> HIDE DEF back
<1>10. front \in Nat /\ back \in Nat /\ front + back <= Len(a) /\ front + back <= Len(b)
  BY <1>1, <1>4, <1>6, <1>9 DEF rest
<1>11. \A i \in 1 .. front : i \in 1 .. Len(a) /\ i \in 1 .. Len(b)
  BY <1>1, <1>10
<1>12. \A i \in 1 .. back : Len(a) + 1 - i \in 1 .. Len(a) /\ Len(b) + 1 - i \in 1 .. Len(b)
  BY <1>1, <1>10
<1>13. \A i \in 1 .. front : old.cells[i].document = new.cells[i].document
  BY <1>2, <1>6, <1>11
<1>14. \A i \in 1 .. back : old.cells[Len(a) + 1 - i].document
                              = new.cells[Len(b) + 1 - i].document
  BY <1>2, <1>9, <1>12
<1>15. Fits(c, old.cells, new.cells, front, back)
  BY <1>1, <1>3, <1>10, <1>13, <1>14 DEF Fits
<1> QED
  BY <1>10, <1>15

\* A cell that stays gets its new data, or keeps what it has.
LEMMA DataOfKept ==
  ASSUME NEW A, NEW B, Distinct(A), Distinct(B),
         NEW i \in DOMAIN A, NEW j \in DOMAIN B, A[i].document = B[j].document,
         NEW data, data = {c \in ToSet(B) : c.document \in Documents(A)} \ ToSet(A)
  PROVE  WithData(A, data)[i] = B[j]
<1> DEFINE d == A[i].document
<1>1. \A c \in ToSet(B) : c.document = d => c = B[j]
  BY DEF ToSet, Distinct
<1>2. \A c \in data : c.document = d => c = B[j]
  BY <1>1
<1>3. WithData(A, data)[i] = IF \E c \in data : c.document = d
                               THEN CHOOSE c \in data : c.document = d
                               ELSE A[i]
  BY DEF WithData
<1>4. CASE B[j] \in ToSet(A)
  <2>1. A[i] = B[j]
    BY <1>4 DEF ToSet, Distinct
  <2>2. ~ \E c \in data : c.document = d
    BY <1>2, <1>4
  <2> QED
    BY <1>3, <2>1, <2>2
<1>5. CASE B[j] \notin ToSet(A)
  <2>1. B[j] \in ToSet(B) /\ d \in Documents(A)
    BY DEF ToSet, Documents
  <2>2. B[j] \in data /\ B[j].document = d
    BY <1>5, <2>1
  <2>3. (CHOOSE c \in data : c.document = d) = B[j]
    BY <1>2, <2>2
  <2> QED
    BY <1>3, <2>2, <2>3
<1> QED
  BY <1>4, <1>5

\* The server's cells after a change are the client's: the slice is cut out
\* where it belongs, and the cells around it have their new data
\* (update_notebook_document).
LEMMA SliceReplaced ==
  ASSUME NEW old, NEW new, NEW texts, Distinct(old.cells), Distinct(new.cells),
         NEW c, c = Difference(old, new, texts)
  PROVE  ReplaceCells(WithData(old.cells, c.data), c) = new.cells
<1> DEFINE A == old.cells
           B == new.cells
           W == WithData(A, c.data)
<1>1. A \in Seq(Cells) /\ B \in Seq(Cells) /\ Len(A) \in Nat /\ Len(B) \in Nat
  BY DEF Distinct
<1>2. c.data = {x \in ToSet(B) : x.document \in Documents(A)} \ ToSet(A)
  BY DEF Difference
<1>3. PICK front \in Nat, back \in Nat : Fits(c, A, B, front, back)
  BY <1>1, Common
<1> HIDE DEF A, B
<1>3a. /\ front + back <= Len(A) /\ front + back <= Len(B)
       /\ c.start = front
       /\ c.delete_count = Len(A) - front - back
       /\ c.cells = SubSeq(B, front + 1, Len(B) - back)
       /\ \A i \in 1 .. front : A[i].document = B[i].document
       /\ \A i \in 1 .. back : A[Len(A) + 1 - i].document = B[Len(B) + 1 - i].document
  BY <1>3 DEF Fits
<1>4. W \in Seq(Cells) /\ Len(W) = Len(A)
  <2>1. c.data \subseteq Cells
    BY <1>1, <1>2 DEF ToSet
  <2>2. W \in [1 .. Len(A) -> Cells]
    BY <1>1, <2>1 DEF WithData
  <2> HIDE DEF W
  <2> QED
    BY <1>1, <2>2
<1>5. ASSUME NEW i \in 1 .. Len(A), NEW j \in 1 .. Len(B), A[i].document = B[j].document
      PROVE  W[i] = B[j]
  <2>1. i \in DOMAIN A /\ j \in DOMAIN B
    BY <1>1
  <2>2. Distinct(A) /\ Distinct(B)
    BY DEF A, B
  <2> QED
    BY <1>2, <1>5, <2>1, <2>2, DataOfKept
<1> HIDE DEF W
<1> DEFINE P == SubSeq(W, 1, front)
           M == SubSeq(B, front + 1, Len(B) - back)
           Q == SubSeq(W, Len(A) - back + 1, Len(A))
<1>6. /\ P \in Seq(Cells) /\ Len(P) = front
      /\ \A i \in 1 .. front : P[i] = W[i]
  <2>1. 1 \in 1 .. Len(W) + 1 /\ front \in 1 - 1 .. Len(W)
    BY <1>1, <1>3a, <1>4
  <2> QED
    BY <1>4, <2>1, SubSeqProperties
<1>7. /\ M \in Seq(Cells) /\ Len(M) = Len(B) - back - front
      /\ \A i \in 1 .. Len(B) - back - front : M[i] = B[front + i]
  <2>1. front + 1 \in 1 .. Len(B) + 1 /\ Len(B) - back \in (front + 1) - 1 .. Len(B)
    BY <1>1, <1>3a
  <2>2. /\ M \in Seq(Cells)
        /\ Len(M) = IF front + 1 <= Len(B) - back
                      THEN (Len(B) - back) - (front + 1) + 1 ELSE 0
        /\ \A i \in 1 .. (Len(B) - back) - (front + 1) + 1 : M[i] = B[(front + 1) + i - 1]
    BY <1>1, <2>1, SubSeqProperties
  <2>3. (Len(B) - back) - (front + 1) + 1 = Len(B) - back - front
    BY <1>1, <1>3a
  <2>4. \A i \in Int : (front + 1) + i - 1 = front + i
    OBVIOUS
  <2> HIDE DEF M
  <2>5. Len(M) = Len(B) - back - front
    <3>1. Len(B) - back \in Nat /\ front <= Len(B) - back
      BY <1>1, <1>3a
    <3>2. front + 1 <= Len(B) - back \/ Len(B) - back - front = 0
      BY <3>1
    <3>3. CASE front + 1 <= Len(B) - back
      BY <2>2, <2>3, <3>3
    <3>4. CASE ~(front + 1 <= Len(B) - back)
      BY <2>2, <3>2, <3>4
    <3> QED
      BY <3>3, <3>4
  <2>6. ASSUME NEW i \in 1 .. Len(B) - back - front PROVE M[i] = B[front + i]
    <3>1. i \in 1 .. (Len(B) - back) - (front + 1) + 1 /\ i \in Int
      BY <1>1, <2>3
    <3> QED
      BY <2>2, <2>4, <3>1
  <2> QED
    BY <2>2, <2>5, <2>6
<1>8. /\ Q \in Seq(Cells) /\ Len(Q) = back
      /\ \A i \in 1 .. back : Q[i] = W[Len(A) - back + i]
  <2>1. Len(A) - back + 1 \in 1 .. Len(W) + 1 /\ Len(A) \in (Len(A) - back + 1) - 1 .. Len(W)
    BY <1>1, <1>3a, <1>4
  <2>2. /\ Q \in Seq(Cells)
        /\ Len(Q) = IF Len(A) - back + 1 <= Len(A)
                      THEN Len(A) - (Len(A) - back + 1) + 1 ELSE 0
        /\ \A i \in 1 .. Len(A) - (Len(A) - back + 1) + 1 :
             Q[i] = W[(Len(A) - back + 1) + i - 1]
    BY <1>4, <2>1, SubSeqProperties
  <2>3. Len(A) - (Len(A) - back + 1) + 1 = back
    BY <1>1
  <2>4. \A i \in Int : (Len(A) - back + 1) + i - 1 = Len(A) - back + i
    BY <1>1
  <2> HIDE DEF Q
  <2>5. Len(Q) = back
    <3>1. Len(A) - back + 1 <= Len(A) \/ back = 0
      BY <1>1, <1>3a
    <3>2. CASE Len(A) - back + 1 <= Len(A)
      BY <2>2, <2>3, <3>2
    <3>3. CASE ~(Len(A) - back + 1 <= Len(A))
      BY <2>2, <3>1, <3>3
    <3> QED
      BY <3>2, <3>3
  <2>6. ASSUME NEW i \in 1 .. back PROVE Q[i] = W[Len(A) - back + i]
    <3>1. i \in 1 .. Len(A) - (Len(A) - back + 1) + 1 /\ i \in Int
      BY <2>3
    <3> QED
      BY <2>2, <2>4, <3>1
  <2> QED
    BY <2>2, <2>5, <2>6
<1>9. c.start + c.delete_count + 1 = Len(A) - back + 1
  BY <1>1, <1>3a
<1>10. ReplaceCells(W, c) = (P \o M) \o Q
  BY <1>3a, <1>4, <1>9 DEF ReplaceCells
<1> HIDE DEF P, M, Q
<1> DEFINE PM == P \o M
           R  == PM \o Q
<1>11. /\ PM \in Seq(Cells) /\ Len(PM) = Len(B) - back
       /\ \A i \in 1 .. Len(PM) : PM[i] = IF i <= front THEN P[i] ELSE M[i - front]
  BY <1>1, <1>3a, <1>6, <1>7, ConcatProperties
<1> HIDE DEF PM
<1>12. /\ R \in Seq(Cells) /\ Len(R) = Len(B)
       /\ \A i \in 1 .. Len(B) : R[i] = IF i <= Len(B) - back THEN PM[i]
                                         ELSE Q[i - (Len(B) - back)]
  <2>1. /\ R \in Seq(Cells) /\ Len(R) = Len(PM) + Len(Q)
        /\ \A i \in 1 .. Len(PM) + Len(Q) : R[i] = IF i <= Len(PM) THEN PM[i]
                                                   ELSE Q[i - Len(PM)]
    BY <1>8, <1>11, ConcatProperties
  <2>2. Len(PM) + Len(Q) = Len(B)
    BY <1>1, <1>3a, <1>8, <1>11
  <2> HIDE DEF R
  <2> QED
    BY <1>11, <2>1, <2>2
<1> HIDE DEF R
<1>13. ASSUME NEW i \in 1 .. Len(B) PROVE R[i] = B[i]
  <2>1. CASE i <= front
    <3>1. i \in 1 .. front /\ i \in 1 .. Len(A) /\ i \in 1 .. Len(PM) /\ i <= Len(B) - back
      BY <1>1, <1>3a, <1>11, <2>1
    <3>2. R[i] = W[i]
      BY <1>6, <1>11, <1>12, <2>1, <3>1
    <3> QED
      BY <1>3a, <1>5, <3>1, <3>2
  <2>2. CASE front < i /\ i <= Len(B) - back
    <3>1. /\ i \in 1 .. Len(PM) /\ ~(i <= front) /\ i - front \in 1 .. Len(B) - back - front
          /\ front + (i - front) = i
      BY <1>1, <1>3a, <1>11, <2>2
    <3>2. R[i] = M[i - front]
      BY <1>11, <1>12, <2>2, <3>1
    <3> QED
      BY <1>7, <3>1, <3>2
  <2>3. CASE Len(B) - back < i
    <3> DEFINE m == Len(B) + 1 - i
               k == Len(A) + 1 - m
    <3>1. /\ ~(i <= Len(B) - back) /\ i - (Len(B) - back) \in 1 .. back
          /\ Len(A) - back + (i - (Len(B) - back)) = k
          /\ m \in 1 .. back /\ Len(B) + 1 - m = i /\ k \in 1 .. Len(A)
      BY <1>1, <1>3a, <2>3
    <3> HIDE DEF k, m
    <3>2. R[i] = W[k]
      BY <1>8, <1>12, <3>1
    <3>3. A[k].document = B[i].document
      BY <1>3a, <3>1 DEF k
    <3> QED
      BY <1>5, <3>1, <3>2, <3>3
  <2> QED
    BY <1>1, <1>3a, <2>1, <2>2, <2>3
<1>14. R = B
  BY <1>1, <1>12, <1>13, SeqEqual
<1> QED
  BY <1>10, <1>14 DEF R, PM, W, A, B

-----------------------------------------------------------------------------
(* The messages.                                                            *)

\* The notebooks the client may have hold each of their cells once.
LEMMA BookCells ==
  ASSUME NEW v, NEW docs, docs \subseteq CellUris, NEW book \in Books(v, docs)
  PROVE  book.version = v /\ Distinct(book.cells) /\ Documents(book.cells) \subseteq docs
<1>1. PICK s \in SetToAllKPermutations(docs) :
        book \in {[version |-> v, metadata |-> m,
                   cells |-> [k \in DOMAIN s |-> [document |-> s[k], data |-> d[s[k]]]]] :
                     m \in Metadata, d \in [ToSet(s) -> Data]}
  BY DEF Books
<1>2. PICK m \in Metadata, d \in [ToSet(s) -> Data] :
        book = [version |-> v, metadata |-> m,
                cells |-> [k \in DOMAIN s |-> [document |-> s[k], data |-> d[s[k]]]]]
  BY <1>1
<1>3. PICK S \in SUBSET docs : s \in SetToSeqs(S)
  BY <1>1 DEF SetToAllKPermutations
<1>4. PICK n \in Nat : n = Cardinality(S)
  BY <1>3, WorkspaceAssumption, FS_Subset, FS_CardinalityType
<1>5. /\ s \in [1 .. n -> S] /\ DOMAIN s = 1 .. n
      /\ \A i, j \in 1 .. n : i # j => s[i] # s[j]
  BY <1>3, <1>4 DEF SetToSeqs
<1> DEFINE cells == [k \in 1 .. n |-> [document |-> s[k], data |-> d[s[k]]]]
<1>6. book.cells = cells /\ book.version = v
  BY <1>2, <1>5
<1>7. \A k \in 1 .. n : cells[k] \in Cells /\ cells[k].document = s[k] /\ s[k] \in docs
  BY <1>3, <1>5 DEF Cells, ToSet
<1>8. cells \in Seq(Cells) /\ DOMAIN cells = 1 .. n
  BY <1>7
<1>9. Distinct(cells)
  <2> HIDE DEF cells
  <2> QED
    BY <1>5, <1>7, <1>8 DEF Distinct
<1>10. Documents(cells) \subseteq docs
  <2> HIDE DEF cells
  <2> QED
    BY <1>7, <1>8 DEF Documents, ToSet
<1> QED
  BY <1>6, <1>9, <1>10

\* A file is opened.
LEMMA OpenDocumentStep ==
  ASSUME MirrorInv, NEW u \in Files, NEW v \in Versions, OpenDocument(u, v)
  PROVE  MirrorInv'
<1>1. /\ u \notin DOMAIN opened
      /\ opened' = Updated(opened, Entry(u, v))
      /\ text_documents' = PutDocuments(text_documents, Entry(u, v))
      /\ UNCHANGED <<books, roots, notebook_documents, cell_in_notebook, folders>>
  BY DEF OpenDocument
<1>2. /\ DocumentsMirrored /\ NotebooksMirrored /\ FoldersMirrored
      /\ CellsAreOpen /\ CellsAreFiled /\ VersionsCount
  BY DEF MirrorInv, Mirrored
<1>3. DocumentsMirrored'
  BY <1>1, <1>2 DEF DocumentsMirrored, Updated, Entry, PutDocuments, _create_text_document
<1>4. NotebooksMirrored' /\ FoldersMirrored' /\ CellsAreFiled'
  BY <1>1, <1>2 DEF NotebooksMirrored, FoldersMirrored, CellsAreFiled, Documents, ToSet
<1>5. CellsAreOpen'
  BY <1>1, <1>2 DEF CellsAreOpen, Documents, ToSet, Updated, Entry
<1>6. VersionsCount'
  BY <1>1, <1>2 DEF VersionsCount, Updated, Entry
<1> QED
  BY <1>3, <1>4, <1>5, <1>6 DEF MirrorInv, Mirrored

\* A document that is updated has the new text and version.
LEMMA DocumentUpdated ==
  ASSUME NEW doc, NEW a, NEW b, doc = [source |-> a, version |-> b], NEW v
  PROVE  update_text_document(doc, v) = [source |-> v, version |-> v]
<1> DEFINE r == [x \in {"source", "version"} |-> IF x = "source" THEN a ELSE b]
<1>1. r = [source |-> a, version |-> b]
  OBVIOUS
<1>2. [r EXCEPT !["source"] = v, !["version"] = v] = [x \in {"source", "version"} |-> v]
  OBVIOUS
<1>3. [source |-> v, version |-> v] = [x \in {"source", "version"} |-> v]
  OBVIOUS
<1> QED
  BY <1>1, <1>2, <1>3 DEF update_text_document

\* A file is changed.
LEMMA ChangeDocumentStep ==
  ASSUME MirrorInv, NEW u \in Files, NEW v \in Versions, ChangeDocument(u, v)
  PROVE  MirrorInv'
<1>1. /\ u \in DOMAIN opened
      /\ opened' = [opened EXCEPT ![u] = v]
      /\ text_documents' =
           [text_documents EXCEPT ![u] = update_text_document(text_documents[u], v)]
      /\ UNCHANGED <<books, roots, notebook_documents, cell_in_notebook, folders>>
  BY DEF ChangeDocument
<1>2. /\ DocumentsMirrored /\ NotebooksMirrored /\ FoldersMirrored
      /\ CellsAreOpen /\ CellsAreFiled /\ VersionsCount
  BY DEF MirrorInv, Mirrored
<1>3. DocumentsMirrored'
  <2>1. /\ DOMAIN text_documents = DOMAIN opened
        /\ \A x \in DOMAIN opened :
             text_documents[x] = [source |-> opened[x], version |-> opened[x]]
    BY <1>2 DEF DocumentsMirrored
  <2>2. update_text_document(text_documents[u], v) = [source |-> v, version |-> v]
    <3>1. text_documents[u] = [source |-> opened[u], version |-> opened[u]]
      BY <1>1, <2>1
    <3> QED
      BY <3>1, DocumentUpdated
  <2> QED
    BY <1>1, <1>2, <2>2 DEF DocumentsMirrored
<1>4. NotebooksMirrored' /\ FoldersMirrored' /\ CellsAreFiled'
  BY <1>1, <1>2 DEF NotebooksMirrored, FoldersMirrored, CellsAreFiled, Documents, ToSet
<1>5. CellsAreOpen'
  BY <1>1, <1>2 DEF CellsAreOpen, Documents, ToSet
<1>6. VersionsCount'
  BY <1>1, <1>2 DEF VersionsCount
<1> QED
  BY <1>3, <1>4, <1>5, <1>6 DEF MirrorInv, Mirrored

\* A file is closed.  It is no cell, so that no notebook loses one.
LEMMA CloseDocumentStep ==
  ASSUME MirrorInv, NEW u \in Files, CloseDocument(u)
  PROVE  MirrorInv'
<1>1. /\ opened' = Without(opened, {u})
      /\ text_documents' = Without(text_documents, {u})
      /\ cell_in_notebook' = Without(cell_in_notebook, {u})
      /\ UNCHANGED <<books, roots, notebook_documents, folders>>
  BY DEF CloseDocument
<1>2. /\ DocumentsMirrored /\ NotebooksMirrored /\ FoldersMirrored
      /\ CellsAreOpen /\ CellsAreFiled /\ VersionsCount
  BY DEF MirrorInv, Mirrored
<1>3. DocumentsMirrored'
  BY <1>1, <1>2 DEF DocumentsMirrored, Without, Restrict
<1>4. NotebooksMirrored' /\ FoldersMirrored'
  BY <1>1, <1>2 DEF NotebooksMirrored, FoldersMirrored
<1>5. \A n \in DOMAIN books : u \notin Documents(books[n].cells)
  BY <1>2, WorkspaceAssumption DEF CellsAreOpen
<1>6. CellsAreFiled'
  BY <1>1, <1>2, <1>5 DEF CellsAreFiled, Without, Restrict
<1>7. CellsAreOpen'
  BY <1>1, <1>2, <1>5 DEF CellsAreOpen, Without, Restrict
<1>8. VersionsCount'
  BY <1>1, <1>2 DEF VersionsCount, Without, Restrict
<1> QED
  BY <1>3, <1>4, <1>6, <1>7, <1>8 DEF MirrorInv, Mirrored

\* The folders change.
LEMMA ChangeFoldersStep ==
  ASSUME MirrorInv, NEW added \in SetToAllKPermutations(Folders),
         NEW removed \in SetToAllKPermutations(Folders), ChangeFolders(added, removed)
  PROVE  MirrorInv'
<1>1. /\ ToSet(added) \subseteq Folders \ roots /\ ToSet(removed) \subseteq roots
      /\ roots' = (roots \cup ToSet(added)) \ ToSet(removed)
      /\ folders' = ApplyFolders(added, removed)
      /\ UNCHANGED <<opened, books, text_documents, notebook_documents, cell_in_notebook>>
  BY DEF ChangeFolders
<1>2. /\ DocumentsMirrored /\ NotebooksMirrored /\ FoldersMirrored
      /\ CellsAreOpen /\ CellsAreFiled /\ VersionsCount
  BY DEF MirrorInv, Mirrored
<1>3. ASSUME NEW s \in SetToAllKPermutations(Folders) PROVE s \in Seq(Folders)
  <2>1. PICK S \in SUBSET Folders : s \in SetToSeqs(S)
    BY <1>3 DEF SetToAllKPermutations
  <2>2. PICK n \in Nat : n = Cardinality(S)
    BY <2>1, WorkspaceAssumption, FS_Subset, FS_CardinalityType
  <2>3. s \in [1 .. n -> Folders]
    BY <2>1, <2>2 DEF SetToSeqs
  <2> QED
    BY <2>3
<1>4. FoldersMirrored'
  <2>1. added \in Seq(Folders) /\ removed \in Seq(Folders)
    BY <1>3
  <2>2. ToSet(added) \cap ToSet(removed) = {}
    BY <1>1
  <2>3. ApplyFolders(added, removed) = (folders \cup ToSet(added)) \ ToSet(removed)
    BY <2>1, <2>2, FoldersApplied
  <2> QED
    BY <1>1, <1>2, <2>3 DEF FoldersMirrored
<1>5. DocumentsMirrored' /\ NotebooksMirrored' /\ CellsAreOpen' /\ CellsAreFiled'
  BY <1>1, <1>2 DEF DocumentsMirrored, NotebooksMirrored, CellsAreOpen, CellsAreFiled,
    Documents, ToSet
<1>6. VersionsCount'
  BY <1>1, <1>2 DEF VersionsCount
<1> QED
  BY <1>4, <1>5, <1>6 DEF MirrorInv, Mirrored

\* A notebook is opened with cells that were closed.
LEMMA OpenNotebookStep ==
  ASSUME MirrorInv, NEW n \in Notebooks, NEW book \in Books(0, CellUris \ DOMAIN opened),
         OpenNotebook(n, book)
  PROVE  MirrorInv'
<1> DEFINE docs == Documents(book.cells)
           texts == [u \in docs |-> 0]
<1>1. /\ n \notin DOMAIN books
      /\ books' = Updated(books, Entry(n, book))
      /\ opened' = Updated(opened, texts)
      /\ notebook_documents' = Updated(notebook_documents, Entry(n, book))
      /\ text_documents' = PutDocuments(text_documents, texts)
      /\ cell_in_notebook' = Updated(cell_in_notebook, [u \in DOMAIN texts |-> n])
      /\ UNCHANGED <<roots, folders>>
  BY DEF OpenNotebook
<1>2. /\ DocumentsMirrored /\ NotebooksMirrored /\ FoldersMirrored
      /\ CellsAreOpen /\ CellsAreFiled /\ VersionsCount
  BY DEF MirrorInv, Mirrored
<1>3. Distinct(book.cells) /\ docs \subseteq CellUris \ DOMAIN opened
  BY BookCells
<1>4. /\ DOMAIN books' = DOMAIN books \cup {n} /\ books'[n] = book
      /\ \A m \in DOMAIN books : books'[m] = books[m]
  BY <1>1 DEF Updated, Entry
<1>5. DocumentsMirrored'
  BY <1>1, <1>2 DEF DocumentsMirrored, Updated, PutDocuments, _create_text_document
<1>6. NotebooksMirrored'
  <2>1. /\ DOMAIN notebook_documents' = DOMAIN notebook_documents \cup {n}
        /\ notebook_documents'[n] = book
        /\ \A m \in DOMAIN books : notebook_documents'[m] = notebook_documents[m]
    BY <1>1, <1>2 DEF Updated, Entry, NotebooksMirrored
  <2> QED
    BY <1>2, <1>4, <2>1 DEF NotebooksMirrored
<1>7. FoldersMirrored'
  BY <1>1, <1>2 DEF FoldersMirrored
<1>8. DOMAIN opened' = DOMAIN opened \cup docs
  BY <1>1 DEF Updated
<1>9. CellsAreOpen'
  BY <1>2, <1>3, <1>4, <1>8 DEF CellsAreOpen, Distinct
<1>10. /\ DOMAIN cell_in_notebook' = DOMAIN cell_in_notebook \cup docs
       /\ \A u \in docs : cell_in_notebook'[u] = n
       /\ \A u \in DOMAIN cell_in_notebook \ docs : cell_in_notebook'[u] = cell_in_notebook[u]
  BY <1>1 DEF Updated
<1>11. \A m \in DOMAIN books : Documents(books[m].cells) \cap docs = {}
  BY <1>2, <1>3 DEF CellsAreOpen
<1> HIDE DEF docs
<1>12. CellsAreFiled'
  <2>1. ASSUME NEW u \in DOMAIN cell_in_notebook'
        PROVE  /\ cell_in_notebook'[u] \in DOMAIN books'
               /\ u \in Documents(books'[cell_in_notebook'[u]].cells)
    <3>1. CASE u \in docs
      BY <1>4, <1>10, <3>1 DEF docs
    <3>2. CASE u \notin docs
      BY <1>2, <1>4, <1>10, <3>2 DEF CellsAreFiled
    <3> QED
      BY <3>1, <3>2
  <2>2. ASSUME NEW m \in DOMAIN books', NEW u \in Documents(books'[m].cells)
        PROVE  u \in DOMAIN cell_in_notebook' /\ cell_in_notebook'[u] = m
    <3>1. CASE m = n
      BY <1>4, <1>10, <3>1 DEF docs
    <3>2. CASE m # n
      BY <1>2, <1>4, <1>10, <1>11, <3>2 DEF CellsAreFiled
    <3> QED
      BY <3>1, <3>2
  <2> QED
    BY <2>1, <2>2 DEF CellsAreFiled
<1>13. VersionsCount'
  BY <1>1, <1>2, WorkspaceAssumption DEF VersionsCount, Versions, Updated
<1> QED
  BY <1>5, <1>6, <1>7, <1>9, <1>12, <1>13 DEF MirrorInv, Mirrored

\* A notebook is closed with its cells.
LEMMA CloseNotebookStep ==
  ASSUME MirrorInv, NEW n \in Notebooks, CloseNotebook(n)
  PROVE  MirrorInv'
<1> DEFINE docs == Documents(books[n].cells)
<1>1. /\ n \in DOMAIN books
      /\ books' = Without(books, {n})
      /\ opened' = Without(opened, docs)
      /\ notebook_documents' = Without(notebook_documents, {n})
      /\ text_documents' = Without(text_documents, docs)
      /\ cell_in_notebook' = Without(cell_in_notebook, docs)
      /\ UNCHANGED <<roots, folders>>
  BY DEF CloseNotebook
<1>2. /\ DocumentsMirrored /\ NotebooksMirrored /\ FoldersMirrored
      /\ CellsAreOpen /\ CellsAreFiled /\ VersionsCount
  BY DEF MirrorInv, Mirrored
<1>3. /\ DOMAIN books' = DOMAIN books \ {n}
      /\ \A m \in DOMAIN books \ {n} : books'[m] = books[m]
  BY <1>1 DEF Without, Restrict
<1>4. DocumentsMirrored'
  BY <1>1, <1>2 DEF DocumentsMirrored, Without, Restrict
<1>5. NotebooksMirrored'
  <2>1. /\ DOMAIN notebook_documents' = DOMAIN notebook_documents \ {n}
        /\ \A m \in DOMAIN notebook_documents \ {n} :
             notebook_documents'[m] = notebook_documents[m]
    BY <1>1 DEF Without, Restrict
  <2> QED
    BY <1>2, <1>3, <2>1 DEF NotebooksMirrored
<1>6. FoldersMirrored'
  BY <1>1, <1>2 DEF FoldersMirrored
<1>7. \A m \in DOMAIN books \ {n} : Documents(books[m].cells) \cap docs = {}
  BY <1>1, <1>2 DEF CellsAreFiled
<1> HIDE DEF docs
<1>8. DOMAIN opened' = DOMAIN opened \ docs
  BY <1>1 DEF Without, Restrict
<1>9. CellsAreOpen'
  BY <1>2, <1>3, <1>7, <1>8 DEF CellsAreOpen
<1>10. /\ DOMAIN cell_in_notebook' = DOMAIN cell_in_notebook \ docs
       /\ \A u \in DOMAIN cell_in_notebook \ docs : cell_in_notebook'[u] = cell_in_notebook[u]
  BY <1>1 DEF Without, Restrict
<1>11. CellsAreFiled'
  <2>1. ASSUME NEW u \in DOMAIN cell_in_notebook'
        PROVE  /\ cell_in_notebook'[u] \in DOMAIN books'
               /\ u \in Documents(books'[cell_in_notebook'[u]].cells)
    BY <1>2, <1>3, <1>10 DEF CellsAreFiled, docs
  <2>2. ASSUME NEW m \in DOMAIN books', NEW u \in Documents(books'[m].cells)
        PROVE  u \in DOMAIN cell_in_notebook' /\ cell_in_notebook'[u] = m
    BY <1>2, <1>3, <1>7, <1>10 DEF CellsAreFiled
  <2> QED
    BY <2>1, <2>2 DEF CellsAreFiled
<1>12. VersionsCount'
  BY <1>1, <1>2 DEF VersionsCount, Without, Restrict
<1> QED
  BY <1>4, <1>5, <1>6, <1>9, <1>11, <1>12 DEF MirrorInv, Mirrored

\* A notebook is changed: its cells, their data and their texts, in one message.
LEMMA ChangeNotebookStep ==
  ASSUME MirrorInv, NEW n \in Notebooks, n \in DOMAIN books,
         NEW book \in Books(books[n].version + 1, Available(n)),
         NEW edited, edited \subseteq Documents(book.cells),
         ChangeNotebook(n, book, edited)
  PROVE  MirrorInv'
<1> DEFINE old == Documents(books[n].cells)
           new == Documents(book.cells)
           Then(u) == (IF u \in old THEN opened[u] ELSE 0) + (IF u \in edited THEN 1 ELSE 0)
           texts == [u \in new |-> Then(u)]
           change == Difference(books[n], book, Restrict(texts, edited))
<1>1. /\ books' = [books EXCEPT ![n] = book]
      /\ opened' = Updated(Without(opened, old), texts)
      /\ update_notebook_document(n, change)
      /\ \A u \in new : Then(u) \in Versions
      /\ UNCHANGED <<roots, folders>>
  BY DEF ChangeNotebook
<1>2. /\ DocumentsMirrored /\ NotebooksMirrored /\ FoldersMirrored
      /\ CellsAreOpen /\ CellsAreFiled /\ VersionsCount
  BY DEF MirrorInv, Mirrored
<1>3. /\ Distinct(books[n].cells) /\ old \subseteq CellUris \cap DOMAIN opened
      /\ Available(n) \subseteq CellUris
  BY <1>2 DEF CellsAreOpen, Distinct, Available
<1>4. Distinct(book.cells) /\ new \subseteq Available(n)
  BY <1>3, BookCells
<1>5. /\ change.version = book.version /\ change.metadata = book.metadata
      /\ change.did_open = new \ old /\ change.did_close = old \ new
      /\ change.text_content = Restrict(texts, edited)
  <2>1. ASSUME NEW s, s \in Seq(Cells)
        PROVE  ToSet([k \in DOMAIN s |-> s[k].document]) = Documents(s)
    BY DEF ToSet, Documents
  <2>2. books[n].cells \in Seq(Cells) /\ book.cells \in Seq(Cells)
    BY <1>3, <1>4 DEF Distinct
  <2>3. /\ ToSet([k \in DOMAIN books[n].cells |-> books[n].cells[k].document]) = old
        /\ ToSet([k \in DOMAIN book.cells |-> book.cells[k].document]) = new
    BY <2>1, <2>2
  <2> QED
    BY <2>3 DEF Difference
<1>6. \A u \in new : u \in old \/ u \notin DOMAIN opened
  BY <1>4 DEF Available
<1>7. ReplaceCells(WithData(books[n].cells, change.data), change) = book.cells
  BY <1>3, <1>4, SliceReplaced
<1>8. /\ DOMAIN books' = DOMAIN books /\ books'[n] = book
      /\ \A m \in DOMAIN books \ {n} : books'[m] = books[m]
  BY <1>1
<1>9. \A m \in DOMAIN books \ {n} :
        Documents(books[m].cells) \cap old = {} /\ Documents(books[m].cells) \cap new = {}
  <2>1. ASSUME NEW m \in DOMAIN books \ {n}, NEW u \in Documents(books[m].cells)
        PROVE  u \notin old /\ u \in DOMAIN opened
    <3>1. u \in DOMAIN opened
      BY <1>2 DEF CellsAreOpen
    <3>2. cell_in_notebook[u] = m
      BY <1>2 DEF CellsAreFiled
    <3>3. u \in old => cell_in_notebook[u] = n
      BY <1>2 DEF CellsAreFiled
    <3> QED
      BY <3>1, <3>2, <3>3
  <2> HIDE DEF old, new
  <2> QED
    BY <1>6, <2>1
<1> HIDE DEF change, old, new
<1>10. NotebooksMirrored'
  <2>1. /\ DOMAIN notebook_documents = DOMAIN books
        /\ notebook_documents[n].cells = books[n].cells
    BY <1>2 DEF NotebooksMirrored
  <2>2. /\ DOMAIN notebook_documents' = DOMAIN notebook_documents
        /\ \A m \in DOMAIN books \ {n} : notebook_documents'[m] = notebook_documents[m]
        /\ notebook_documents'[n] =
             [version  |-> change.version,
              metadata |-> IF change.metadata # "empty" THEN change.metadata
                           ELSE notebook_documents[n].metadata,
              cells    |-> ReplaceCells(WithData(notebook_documents[n].cells, change.data),
                                        change)]
    BY <1>1, <2>1 DEF update_notebook_document
  <2>3. /\ notebook_documents'[n].version = book.version
        /\ notebook_documents'[n].cells = book.cells
        /\ notebook_documents'[n].metadata = book.metadata \/ book.metadata = "empty"
    BY <1>5, <1>7, <2>1, <2>2
  <2> QED
    BY <1>2, <1>8, <2>1, <2>2, <2>3 DEF NotebooksMirrored
<1>11. FoldersMirrored'
  BY <1>1, <1>2 DEF FoldersMirrored
<1>12. /\ DOMAIN opened' = (DOMAIN opened \ old) \cup new
       /\ \A u \in new : opened'[u] = Then(u)
       /\ \A u \in DOMAIN opened \ old : u \notin new /\ opened'[u] = opened[u]
  BY <1>1, <1>6 DEF Updated, Without, Restrict
<1>13. DocumentsMirrored'
  <2> DEFINE docs == CellDocuments(change)
             Doc(v) == [source |-> v, version |-> v]
  <2>1. /\ DOMAIN text_documents = DOMAIN opened
        /\ \A u \in DOMAIN opened : text_documents[u] = Doc(opened[u])
    BY <1>2 DEF DocumentsMirrored
  <2>2. /\ DOMAIN docs = (DOMAIN opened \cup (new \ old)) \ (old \ new)
        /\ \A u \in DOMAIN docs : docs[u] = IF u \in new \ old THEN Doc(0) ELSE text_documents[u]
    BY <1>5, <2>1 DEF CellDocuments, Without, Restrict, PutDocuments, Updated,
      _create_text_document
  <2>3. DOMAIN docs = DOMAIN opened'
    BY <1>3, <1>6, <1>12, <2>2
  <2>4. text_documents' = [u \in DOMAIN docs |->
                             IF u \in edited THEN update_text_document(docs[u], texts[u])
                             ELSE docs[u]]
    <3>1. DOMAIN change.text_content = edited
      BY <1>5 DEF Restrict
    <3>2. \A u \in edited : change.text_content[u] = texts[u]
      BY <1>5 DEF Restrict
    <3>3. text_documents' = [u \in DOMAIN docs |->
             IF u \in DOMAIN change.text_content
               THEN update_text_document(docs[u], change.text_content[u])
               ELSE docs[u]]
      BY <1>1 DEF update_notebook_document
    <3> HIDE DEF docs, texts
    <3> QED
      BY <3>1, <3>2, <3>3
  <2>5. ASSUME NEW u \in DOMAIN docs PROVE text_documents'[u] = Doc(opened'[u])
    <3>1. \E v : docs[u] = Doc(v)
      BY <2>1, <2>2
    <3>2. CASE u \in edited
      <4>1. u \in new
        BY <3>2 DEF new
      <4>2. texts[u] = opened'[u]
        BY <1>12, <4>1
      <4>3. \A v : update_text_document(docs[u], v) = Doc(v)
        BY <3>1, DocumentUpdated
      <4>4. text_documents'[u] = update_text_document(docs[u], texts[u])
        BY <2>4, <3>2
      <4> HIDE DEF docs, texts, Doc
      <4> QED
        BY <4>2, <4>3, <4>4
    <3>3. CASE u \notin edited
      <4>1. text_documents'[u] = docs[u]
        BY <2>4, <3>3
      <4>2. docs[u] = IF u \in new \ old THEN Doc(0) ELSE text_documents[u]
        BY <2>2
      <4>3. CASE u \in new \ old
        <5>1. opened'[u] = 0
          BY <1>12, <3>3, <4>3
        <5> QED
          BY <4>1, <4>2, <4>3, <5>1
      <4>4. CASE u \in new \cap old
        <5>1. u \in DOMAIN opened /\ opened'[u] = opened[u]
          <6>1. u \in DOMAIN opened /\ opened'[u] = opened[u] + 0
            BY <1>3, <1>12, <3>3, <4>4
          <6>2. opened[u] \in Nat
            BY <1>2, <6>1 DEF VersionsCount, Versions
          <6> QED
            BY <6>1, <6>2
        <5> QED
          BY <2>1, <4>1, <4>2, <4>4, <5>1
      <4>5. CASE u \notin new
        <5>1. u \in DOMAIN opened \ old
          BY <2>2, <4>5
        <5> QED
          BY <1>12, <2>1, <4>1, <4>2, <4>5, <5>1
      <4> QED
        BY <4>3, <4>4, <4>5
    <3> QED
      BY <3>2, <3>3
  <2> HIDE DEF docs, texts
  <2> QED
    BY <2>3, <2>4, <2>5 DEF DocumentsMirrored
<1>14. CellsAreOpen'
  <2>1. ASSUME NEW m \in DOMAIN books \ {n}
        PROVE  Documents(books[m].cells) \subseteq DOMAIN opened'
    BY <1>2, <1>9, <1>12 DEF CellsAreOpen
  <2>2. new \subseteq CellUris \cap DOMAIN opened'
    BY <1>3, <1>4, <1>12
  <2> QED
    BY <1>2, <1>4, <1>8, <2>1, <2>2 DEF CellsAreOpen, Distinct, new
<1>15. /\ DOMAIN cell_in_notebook' = (DOMAIN cell_in_notebook \cup (new \ old)) \ (old \ new)
       /\ \A u \in DOMAIN cell_in_notebook' :
            cell_in_notebook'[u] = IF u \in new \ old THEN n ELSE cell_in_notebook[u]
  BY <1>1, <1>5 DEF update_notebook_document, CellNotebooks, Updated, Without, Restrict
<1>16. \A u \in old : u \in DOMAIN cell_in_notebook /\ cell_in_notebook[u] = n
  BY <1>2 DEF CellsAreFiled, old
<1>17. \A u \in DOMAIN cell_in_notebook : cell_in_notebook[u] = n => u \in old
  BY <1>2 DEF CellsAreFiled, old
<1>18. CellsAreFiled'
  <2>1. ASSUME NEW u \in DOMAIN cell_in_notebook'
        PROVE  /\ cell_in_notebook'[u] \in DOMAIN books'
               /\ u \in Documents(books'[cell_in_notebook'[u]].cells)
    <3>1. CASE u \in new
      BY <1>8, <1>15, <1>16, <3>1 DEF new
    <3>2. CASE u \notin new
      <4>1. /\ u \in DOMAIN cell_in_notebook /\ u \notin old
            /\ cell_in_notebook'[u] = cell_in_notebook[u]
        BY <1>15, <3>2
      <4>2. cell_in_notebook[u] \in DOMAIN books \ {n}
        BY <1>2, <1>17, <4>1 DEF CellsAreFiled
      <4> QED
        BY <1>2, <1>8, <4>1, <4>2 DEF CellsAreFiled
    <3> QED
      BY <3>1, <3>2
  <2>2. ASSUME NEW m \in DOMAIN books', NEW u \in Documents(books'[m].cells)
        PROVE  u \in DOMAIN cell_in_notebook' /\ cell_in_notebook'[u] = m
    <3>1. CASE m = n
      BY <1>8, <1>15, <1>16, <3>1 DEF new
    <3>2. CASE m # n
      BY <1>2, <1>8, <1>9, <1>15, <3>2 DEF CellsAreFiled
    <3> QED
      BY <3>1, <3>2
  <2> QED
    BY <2>1, <2>2 DEF CellsAreFiled
<1>19. VersionsCount'
  BY <1>1, <1>2, <1>12 DEF VersionsCount
<1> QED
  BY <1>10, <1>11, <1>13, <1>14, <1>18, <1>19 DEF MirrorInv, Mirrored

-----------------------------------------------------------------------------
(* The theorems.                                                            *)

\* Every message keeps the server in step with the client.
LEMMA MirrorStep ==
  MirrorInv /\ [Next]_vars => MirrorInv'
<1> SUFFICES ASSUME MirrorInv, [Next]_vars PROVE MirrorInv'
  OBVIOUS
<1>1. ASSUME NEW u \in Files, NEW v \in Versions, OpenDocument(u, v) PROVE MirrorInv'
  BY <1>1, OpenDocumentStep
<1>2. ASSUME NEW u \in Files, NEW v \in Versions, ChangeDocument(u, v) PROVE MirrorInv'
  BY <1>2, ChangeDocumentStep
<1>3. ASSUME NEW u \in Files, CloseDocument(u) PROVE MirrorInv'
  BY <1>3, CloseDocumentStep
<1>4. ASSUME NEW n \in Notebooks, NEW book \in Books(0, CellUris \ DOMAIN opened),
             OpenNotebook(n, book)
      PROVE  MirrorInv'
  BY <1>4, OpenNotebookStep
<1>5. ASSUME NEW n \in Notebooks, CloseNotebook(n) PROVE MirrorInv'
  BY <1>5, CloseNotebookStep
<1>6. ASSUME NEW n \in Notebooks, n \in DOMAIN books,
             NEW book \in Books(books[n].version + 1, Available(n)),
             NEW edited \in SUBSET Documents(book.cells), ChangeNotebook(n, book, edited)
      PROVE  MirrorInv'
  BY <1>6, ChangeNotebookStep
<1>7. ASSUME NEW added \in SetToAllKPermutations(Folders),
             NEW removed \in SetToAllKPermutations(Folders), ChangeFolders(added, removed)
      PROVE  MirrorInv'
  BY <1>7, ChangeFoldersStep
<1>8. CASE UNCHANGED vars
  BY <1>8 DEF vars, client, server, MirrorInv, Mirrored, DocumentsMirrored, NotebooksMirrored,
    FoldersMirrored, CellsAreOpen, CellsAreFiled, VersionsCount, Documents, ToSet
<1> QED
  BY <1>1, <1>2, <1>3, <1>4, <1>5, <1>6, <1>7, <1>8 DEF Next

\* The inductive invariant of the workspace.
LEMMA MirrorInvariant == Spec => []MirrorInv
<1>1. Init => MirrorInv
  <2> SUFFICES ASSUME Init PROVE MirrorInv
    OBVIOUS
  <2>1. \A f : f = <<>> => DOMAIN f = {}
    OBVIOUS
  <2>2. /\ DOMAIN opened = {} /\ DOMAIN books = {} /\ DOMAIN notebook_documents = {}
        /\ DOMAIN cell_in_notebook = {} /\ folders = roots /\ text_documents = <<>>
    BY <2>1 DEF Init
  <2>3. DocumentsMirrored
    BY <2>2 DEF DocumentsMirrored
  <2> QED
    BY <2>2, <2>3 DEF MirrorInv, Mirrored, NotebooksMirrored, FoldersMirrored, CellsAreOpen,
      CellsAreFiled, VersionsCount
<1> QED
  BY <1>1, MirrorStep, PTL DEF Spec

\* After every message the server's documents, notebooks and folders are the
\* client's, for any number of them, however many cells a change moves, opens,
\* closes and edits at once (update_notebook_document), and however the added
\* and removed folders of an event are paired.
THEOREM ServerMirrorsClient == Spec => []Mirrored
<1>1. MirrorInv => Mirrored
  BY DEF MirrorInv
<1> QED
  BY <1>1, MirrorInvariant, PTL

\* A cell leads to the notebook that holds it and to no other, after any moves
\* (get_notebook_document).
THEOREM CellsAreFound == Spec => []CellLookup
<1>1. MirrorInv => CellLookup
  <2> SUFFICES ASSUME MirrorInv, NEW u \in CellUris
               PROVE  get_notebook_document(u) =
                        {n \in DOMAIN books : u \in Documents(books[n].cells)}
    BY DEF CellLookup
  <2>1. CellsAreFiled /\ DOMAIN notebook_documents = DOMAIN books
    BY DEF MirrorInv, Mirrored, NotebooksMirrored
  <2> QED
    BY <2>1 DEF CellsAreFiled, get_notebook_document
<1> QED
  BY <1>1, MirrorInvariant, PTL

=============================================================================
