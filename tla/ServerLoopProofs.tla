-------------------------- MODULE ServerLoopProofs --------------------------
(* Proofs about ServerLoop, for any number of messages and any mix of       *)
(* transports and exit handlers.                                            *)
EXTENDS ServerLoop, SequenceTheorems, TLAPS

Token == {"length", "body", "other", "blank", "cut"} \X (0 .. MaxMessages)

\* Tokens of different kinds or messages differ.
LEMMA Tokens ==
  /\ \A m, n : /\ Length(m) = Length(n) => m = n
               /\ Body(m) = Body(n) => m = n
               /\ Length(m) # Body(n)
               /\ Length(m) \notin {Blank, Other, Cut}
               /\ Body(m) \notin {Blank, Other, Cut}
               /\ Length(m)[1] = "length" /\ Length(m)[2] = m /\ Body(m)[2] = m
               /\ Body(m)[1] # "length" /\ Body(m)[1] = "body"
  /\ Blank # Other /\ Blank # Cut /\ Other # Cut
  /\ Blank[1] # "length" /\ Other[1] # "length" /\ Cut[1] # "length"
  /\ \A x \in Token : x[1] = "body" => x = Body(x[2])
BY DEF Length, Body, Blank, Other, Cut, Token

\* Every token of a frame is one.
LEMMA TokenTypes ==
  /\ Blank \in Token /\ Other \in Token /\ Cut \in Token
  /\ \A m \in Ids : Length(m) \in Token /\ Body(m) \in Token
BY LoopAssumption DEF Length, Body, Blank, Other, Cut, Token, Ids

-----------------------------------------------------------------------------
(* The first token is taken.                                                *)

\* What was in place k + 1 is in place k.
LEMMA Taken ==
  ASSUME TypeOK, Take
  PROVE  /\ stream' \in Seq(Token) /\ Len(stream) >= 1 /\ Len(stream') = Len(stream) - 1
         /\ Head(stream) = stream[1] /\ stream[1] \in Token
         /\ \A k \in 1 .. Len(stream') : stream'[k] = stream[k + 1]
<1>1. stream \in Seq(Token) /\ stream # <<>> /\ stream' = Tail(stream)
  BY DEF TypeOK, Token, Take
<1> QED
  BY <1>1

\* The same for what the stream is known to have.
LEMMA Shifted ==
  ASSUME TypeOK, Take, UNCHANGED transport, NEW k \in Nat \ {0}
  PROVE  /\ \A T : OneOf(k + 1, T) => OneOf(k, T)'
         /\ \A m : HeaderAt(k + 1, m) => HeaderAt(k, m)'
         /\ \A m : MessageAt(k + 1, m) => MessageAt(k, m)'
<1>1. \A T : \A i \in Nat \ {0} : OneOf(i + 1, T) => OneOf(i, T)'
  BY Taken DEF OneOf
<1>2. (k + 1) + 1 = (k + 1) + 1 /\ (k + 1) + 2 = (k + 2) + 1
  OBVIOUS
<1> QED
  BY <1>1, <1>2 DEF HeaderAt, MessageAt

\* Taking the first token leaves message after message.
LEMMA FramedAfterTake ==
  ASSUME TypeOK, Framed, Take, UNCHANGED transport
  PROVE  Framed'
<1> SUFFICES ASSUME NEW k \in 1 .. Len(stream'), NEW m \in Ids
             PROVE  /\ stream'[k] = Length(m) => HeaderAt(k + 1, m)'
                    /\ stream'[k] = Body(m) => MessageAt(k + 1, m + 1)'
  BY DEF Framed
<1>1. k + 1 \in 1 .. Len(stream) /\ stream'[k] = stream[k + 1] /\ k + 1 \in Nat \ {0}
  <2>1. stream \in Seq(Token) /\ Len(stream') = Len(stream) - 1 /\ stream'[k] = stream[k + 1]
    BY Taken DEF TypeOK, Token
  <2> QED
    BY <2>1
<1>2. /\ stream[k + 1] = Length(m) => HeaderAt((k + 1) + 1, m)
      /\ stream[k + 1] = Body(m) => MessageAt((k + 1) + 1, m + 1)
  BY <1>1 DEF Framed
<1> QED
  BY <1>1, <1>2, Shifted

-----------------------------------------------------------------------------
(* The connection is closed.                                                *)

\* What is left is as it was, but for a body that is cut.
LEMMA CutShort ==
  ASSUME TypeOK, Close
  PROVE  /\ stream' \in Seq(Token) /\ Len(stream') <= Len(stream)
         /\ \A k \in 1 .. Len(stream') :
              \/ stream'[k] = stream[k]
              \/ transport # "ws" /\ stream'[k] = Cut /\ stream[k][1] = "body"
<1>1. stream \in Seq(Token) /\ Len(stream) \in Nat
  BY DEF TypeOK, Token
<1>2. PICK n \in 0 .. Len(stream) :
        \/ stream' = SubSeq(stream, 1, n)
        \/ /\ transport # "ws" /\ n < Len(stream) /\ stream[n + 1][1] = "body"
           /\ stream' = Append(SubSeq(stream, 1, n), Cut)
  BY DEF Close
<1> DEFINE t == SubSeq(stream, 1, n)
<1>3. t \in Seq(Token) /\ Len(t) = n /\ \A k \in 1 .. n : t[k] = stream[k]
  BY <1>1, SubSeqProperties
<1>4. CASE stream' = t
  BY <1>1, <1>3, <1>4
<1>5. CASE /\ transport # "ws" /\ n < Len(stream) /\ stream[n + 1][1] = "body"
           /\ stream' = Append(t, Cut)
  <2> HIDE DEF t
  <2>1. /\ stream' \in Seq(Token) /\ Len(stream') = n + 1 /\ stream'[n + 1] = Cut
        /\ \A k \in 1 .. n : stream'[k] = t[k]
    BY <1>3, <1>5, TokenTypes, AppendProperties
  <2> QED
    BY <1>1, <1>3, <1>5, <2>1
<1> QED
  BY <1>2, <1>4, <1>5

\* What the stream is known to have it still has, as far as it goes.
LEMMA KeptByClose ==
  ASSUME TypeOK, Close, UNCHANGED transport, NEW k \in Nat \ {0}
  PROVE  /\ \A m : OneOf(k, {Body(m), Cut}) => OneOf(k, {Body(m), Cut})'
         /\ \A m : HeaderAt(k, m) => HeaderAt(k, m)'
         /\ \A m : MessageAt(k, m) => MessageAt(k, m)'
<1>1. ASSUME NEW i \in Nat \ {0}, NEW T, OneOf(i, T),
             Cut \in T \/ transport = "ws" \/ \A x \in T : x[1] # "body"
      PROVE  OneOf(i, T)'
  <2> SUFFICES ASSUME i <= Len(stream') PROVE stream'[i] \in T
    BY DEF OneOf
  <2>1. i \in 1 .. Len(stream') /\ i <= Len(stream)
    BY CutShort DEF TypeOK
  <2>2. stream[i] \in T
    BY <1>1, <2>1 DEF OneOf
  <2>3. \/ stream'[i] = stream[i]
        \/ transport # "ws" /\ stream'[i] = Cut /\ stream[i][1] = "body"
    BY <2>1, CutShort
  <2> QED
    BY <1>1, <2>2, <2>3
<1>2. k + 1 \in Nat \ {0} /\ k + 2 \in Nat \ {0}
  OBVIOUS
<1>3. Blank[1] # "body" /\ Other[1] # "body" /\ \A m : Length(m)[1] # "body"
  BY DEF Blank, Other, Length
<1>4. ASSUME NEW m, NEW i \in Nat \ {0}
      PROVE  /\ OneOf(i, {Body(m), Cut}) => OneOf(i, {Body(m), Cut})'
             /\ OneOf(i, {Blank}) => OneOf(i, {Blank})'
             /\ OneOf(i, {Other}) => OneOf(i, {Other})'
             /\ OneOf(i, {Other, Blank}) => OneOf(i, {Other, Blank})'
             /\ OneOf(i, {Length(m)}) => OneOf(i, {Length(m)})'
             /\ transport = "ws" /\ OneOf(i, {Body(m)}) => OneOf(i, {Body(m)})'
  BY <1>1, <1>3
<1> QED
  BY <1>2, <1>4 DEF HeaderAt, MessageAt

\* So does losing the rest: a cut body is followed by nothing.
LEMMA FramedAfterClose ==
  ASSUME TypeOK, Framed, Close, UNCHANGED transport
  PROVE  Framed'
<1> SUFFICES ASSUME NEW k \in 1 .. Len(stream'), NEW m \in Ids
             PROVE  /\ stream'[k] = Length(m) => HeaderAt(k + 1, m)'
                    /\ stream'[k] = Body(m) => MessageAt(k + 1, m + 1)'
  BY DEF Framed
<1>1. /\ k \in 1 .. Len(stream) /\ k + 1 \in Nat \ {0}
      /\ stream'[k] = stream[k] \/ stream'[k] = Cut
  BY CutShort DEF TypeOK
<1> QED
  BY <1>1, Tokens, KeptByClose DEF Framed

-----------------------------------------------------------------------------
(* A message is sent.                                                       *)

\* The stream goes on where it ended.
LEMMA Extended ==
  ASSUME NEW s \in Seq(Token), NEW f \in Seq(Token)
  PROVE  /\ s \o f \in Seq(Token) /\ Len(s \o f) = Len(s) + Len(f)
         /\ \A k \in 1 .. Len(s) : (s \o f)[k] = s[k]
         /\ \A k \in 1 .. Len(f) : (s \o f)[Len(s) + k] = f[k]
BY ConcatProperties

\* A frame begins with a message and ends with its body.
LEMMA FrameShape ==
  ASSUME NEW m \in Ids, NEW f \in Frames(m)
  PROVE  /\ f \in Seq(Token) /\ Len(f) \in 1 .. 4 /\ f[Len(f)] = Body(m)
         /\ IF transport = "ws" THEN Len(f) = 1
            ELSE \/ /\ Len(f) = 3 /\ f[1] = Length(m) /\ f[2] = Blank
                 \/ /\ Len(f) = 4 /\ f[1] = Other /\ f[2] = Length(m) /\ f[3] = Blank
                 \/ /\ Len(f) = 4 /\ f[1] = Length(m) /\ f[2] = Other /\ f[3] = Blank
                 \/ /\ Len(f) = 4 /\ f[1] = Blank /\ f[2] = Length(m) /\ f[3] = Blank
<1>1. CASE transport = "ws"
  <2>1. f = <<Body(m)>> /\ Body(m) \in Token
    BY <1>1, TokenTypes DEF Frames
  <2> QED
    BY <1>1, <2>1
<1>2. CASE transport # "ws"
  <2>1. \/ f = <<Length(m), Blank, Body(m)>>
        \/ f = <<Other, Length(m), Blank, Body(m)>>
        \/ f = <<Length(m), Other, Blank, Body(m)>>
        \/ f = <<Blank, Length(m), Blank, Body(m)>>
    BY <1>2 DEF Frames
  <2>2. /\ Length(m) \in Token /\ Body(m) \in Token
        /\ Other \in Token /\ Blank \in Token
    BY TokenTypes
  <2>3. CASE f = <<Length(m), Blank, Body(m)>>
    BY <1>2, <2>2, <2>3
  <2>4. CASE f = <<Other, Length(m), Blank, Body(m)>>
    BY <1>2, <2>2, <2>4
  <2>5. CASE f = <<Length(m), Other, Blank, Body(m)>>
    BY <1>2, <2>2, <2>5
  <2>6. CASE f = <<Blank, Length(m), Blank, Body(m)>>
    BY <1>2, <2>2, <2>6
  <2> QED
    BY <2>1, <2>3, <2>4, <2>5, <2>6
<1> QED
  BY <1>1, <1>2

\* A frame is the beginning of its message, and framed in itself.
LEMMA Appended ==
  ASSUME TypeOK, NEW L, L = Len(stream), NEW m \in Ids, NEW f \in Frames(m),
         stream' = stream \o f, UNCHANGED transport
  PROVE  /\ MessageAt(L + 1, m)'
         /\ \A k \in L + 1 .. Len(stream'), j \in Ids :
              /\ stream'[k] = Length(j) => HeaderAt(k + 1, j)'
              /\ stream'[k] = Body(j) => MessageAt(k + 1, j + 1)'
<1>1. stream \in Seq(Token) /\ L \in Nat
  BY DEF TypeOK, Token
<1>2. /\ Len(stream') = L + Len(f) /\ Len(f) \in 1 .. 4
      /\ \A i \in 1 .. Len(f) : stream'[L + i] = f[i]
  BY <1>1, Extended, FrameShape
<1>3. CASE transport = "ws"
  <2> Len(f) = 1 /\ f[Len(f)] = Body(m)
    BY <1>3, FrameShape
  <2>1. Len(stream') = L + 1 /\ stream'[L + 1] = Body(m)
    BY <1>1, <1>2
  <2>2. MessageAt(L + 1, m)'
    BY <1>3, <2>1 DEF MessageAt, OneOf
  <2>3. ASSUME NEW k \in L + 1 .. Len(stream'), NEW j
        PROVE  k = L + 1 /\ MessageAt(k + 1, j)'
    BY <1>1, <1>3, <2>1 DEF MessageAt, OneOf
  <2> QED
    BY <2>1, <2>2, <2>3, Tokens
<1>4. CASE transport # "ws"
  <2>1. ASSUME NEW a, NEW b,
               Len(stream') = L + 3, stream'[L + 1] = a, stream'[L + 2] = b,
               stream'[L + 3] = Body(m), a = Length(m), b = Blank
        PROVE  /\ MessageAt(L + 1, m)'
               /\ \A k \in L + 1 .. Len(stream'), j \in Ids :
                    /\ stream'[k] = Length(j) => HeaderAt(k + 1, j)'
                    /\ stream'[k] = Body(j) => MessageAt(k + 1, j + 1)'
    <3>1. MessageAt(L + 1, m)'
      BY <1>4, <2>1 DEF MessageAt, OneOf
    <3>2. HeaderAt(L + 2, m)'
      BY <1>1, <2>1 DEF HeaderAt, OneOf
    <3>3. \A j : MessageAt(L + 4, j)'
      BY <1>1, <1>4, <2>1 DEF MessageAt, OneOf
    <3>4. ASSUME NEW k \in L + 1 .. Len(stream')
          PROVE  \/ k + 1 = L + 2 /\ stream'[k] = Length(m)
                 \/ stream'[k] = Blank
                 \/ k + 1 = L + 4 /\ stream'[k] = Body(m)
      BY <1>1, <2>1
    <3> QED
      BY <3>1, <3>2, <3>3, <3>4, Tokens
  <2>2. ASSUME NEW p \in {2, 3},
               Len(stream') = L + 4, stream'[L + 4] = Body(m), stream'[L + 3] = Blank,
               \/ /\ p = 2 /\ stream'[L + 1] = Length(m) /\ stream'[L + 2] = Other
               \/ /\ p = 3 /\ stream'[L + 1] \in {Other, Blank}
                  /\ stream'[L + 2] = Length(m)
        PROVE  /\ MessageAt(L + 1, m)'
               /\ \A k \in L + 1 .. Len(stream'), j \in Ids :
                    /\ stream'[k] = Length(j) => HeaderAt(k + 1, j)'
                    /\ stream'[k] = Body(j) => MessageAt(k + 1, j + 1)'
    <3>1. MessageAt(L + 1, m)'
      BY <1>1, <1>4, <2>2 DEF MessageAt, OneOf
    <3>2. HeaderAt(L + p, m)'
      BY <1>1, <2>2 DEF HeaderAt, OneOf
    <3>3. \A j : MessageAt(L + 5, j)'
      BY <1>1, <1>4, <2>2 DEF MessageAt, OneOf
    <3>4. ASSUME NEW k \in L + 1 .. Len(stream')
          PROVE  \/ k + 1 = L + p /\ stream'[k] = Length(m)
                 \/ stream'[k] \in {Other, Blank}
                 \/ k + 1 = L + 5 /\ stream'[k] = Body(m)
      BY <1>1, <2>2, SMTT(30)
    <3> QED
      BY <3>1, <3>2, <3>3, <3>4, Tokens, SMTT(30)
  <2>3. /\ f[Len(f)] = Body(m)
        /\ \/ /\ Len(f) = 3 /\ f[1] = Length(m) /\ f[2] = Blank
           \/ /\ Len(f) = 4 /\ f[1] = Other /\ f[2] = Length(m) /\ f[3] = Blank
           \/ /\ Len(f) = 4 /\ f[1] = Length(m) /\ f[2] = Other /\ f[3] = Blank
           \/ /\ Len(f) = 4 /\ f[1] = Blank /\ f[2] = Length(m) /\ f[3] = Blank
    BY <1>4, FrameShape
  <2>4. CASE Len(f) = 3
    <3>1. /\ Len(stream') = L + 3 /\ stream'[L + 1] = Length(m) /\ stream'[L + 2] = Blank
          /\ stream'[L + 3] = Body(m)
      BY <1>2, <2>3, <2>4
    <3> QED
      BY <2>1, <3>1
  <2>5. CASE Len(f) = 4
    <3>1. /\ Len(stream') = L + 4 /\ stream'[L + 4] = Body(m) /\ stream'[L + 3] = Blank
          /\ stream'[L + 1] = f[1] /\ stream'[L + 2] = f[2]
      BY <1>2, <2>3, <2>5
    <3>2. CASE f[1] = Length(m) /\ f[2] = Other
      BY <2>2, <3>1, <3>2
    <3>3. CASE f[1] \in {Other, Blank} /\ f[2] = Length(m)
      BY <2>2, <3>1, <3>3
    <3> QED
      BY <2>3, <2>5, <3>2, <3>3
  <2> QED
    BY <2>3, <2>4, <2>5
<1> QED
  BY <1>3, <1>4

\* What is known of a stream that ends with a body stays true of a longer one.
LEMMA KeptBySend ==
  ASSUME NEW s \in Seq(Token), NEW f \in Seq(Token), stream = s, stream' = s \o f,
         UNCHANGED transport, NEW b, s # <<>>, s[Len(s)] = Body(b),
         NEW k \in 1 .. Len(s)
  PROVE  /\ \A T : OneOf(k, T) => OneOf(k, T)'
         /\ \A m : HeaderAt(k, m) => HeaderAt(k, m)'
         /\ \A m : MessageAt(k, m) => MessageAt(k, m)'
<1>1. /\ Len(s) \in Nat /\ Len(stream') >= Len(s)
      /\ \A i \in 1 .. Len(s) : stream'[i] = stream[i]
  BY Extended
<1>2. ASSUME NEW i \in 1 .. Len(s), NEW T, OneOf(i, T)
      PROVE  OneOf(i, T)' /\ stream[i] \in T
  BY <1>1, <1>2 DEF OneOf
<1>3. ASSUME NEW i \in 1 .. Len(s), stream[i] \in {Blank, Other}
      PROVE  i + 1 \in 1 .. Len(s)
  <2>1. stream[i] # Body(b)
    BY <1>3, Tokens
  <2>2. i # Len(s)
    BY <2>1
  <2> QED
    BY <1>1, <2>2
<1>4. (k + 1) + 1 = k + 2
  BY <1>1
<1>5. ASSUME NEW m, HeaderAt(k, m) PROVE HeaderAt(k, m)'
  <2>1. CASE OneOf(k, {Blank}) /\ OneOf(k + 1, {Body(m), Cut})
    <3>1. stream[k] = Blank /\ OneOf(k, {Blank})'
      BY <1>2, <2>1
    <3>2. OneOf(k + 1, {Body(m), Cut})'
      BY <1>2, <1>3, <2>1, <3>1
    <3> QED
      BY <3>1, <3>2 DEF HeaderAt
  <2>2. CASE OneOf(k, {Other}) /\ OneOf(k + 1, {Blank}) /\ OneOf(k + 2, {Body(m), Cut})
    <3>1. stream[k] = Other /\ OneOf(k, {Other})'
      BY <1>2, <2>2
    <3>2. k + 1 \in 1 .. Len(s)
      BY <1>3, <3>1
    <3>3. stream[k + 1] = Blank /\ OneOf(k + 1, {Blank})'
      BY <1>2, <2>2, <3>2
    <3>4. k + 2 \in 1 .. Len(s)
      BY <1>3, <1>4, <3>2, <3>3
    <3>5. OneOf(k + 2, {Body(m), Cut})'
      BY <1>2, <2>2, <3>4
    <3> QED
      BY <3>1, <3>3, <3>5 DEF HeaderAt
  <2> QED
    BY <1>5, <2>1, <2>2 DEF HeaderAt
<1>6. ASSUME NEW m, MessageAt(k, m) PROVE MessageAt(k, m)'
  <2>1. CASE OneOf(k, {Other, Blank}) /\ OneOf(k + 1, {Length(m)}) /\ transport # "ws"
    <3>1. stream[k] \in {Blank, Other} /\ OneOf(k, {Other, Blank})'
      BY <1>2, <2>1
    <3>2. OneOf(k + 1, {Length(m)})'
      BY <1>2, <1>3, <2>1, <3>1
    <3> QED
      BY <2>1, <3>1, <3>2 DEF MessageAt
  <2>2. CASE IF transport = "ws" THEN OneOf(k, {Body(m)}) ELSE OneOf(k, {Length(m)})
    BY <1>2, <2>2 DEF MessageAt
  <2> QED
    BY <1>6, <2>1, <2>2 DEF MessageAt
<1> QED
  BY <1>2, <1>5, <1>6

\* Sending a message keeps the stream framed, in step and complete.
LEMMA SendStep ==
  ASSUME StreamInv, NEW kind \in {"good", "bad", "exit"}, ClientSends(kind)
  PROVE  StreamInv'
<1> DEFINE M == Len(messages)
<1>1. /\ TypeOK /\ Framed /\ InStep /\ Complete /\ DecodedInOrder
      /\ stream \in Seq(Token) /\ Len(stream) \in Nat /\ Len(seen) \in Nat /\ M \in Nat
  BY DEF StreamInv, TypeOK, Token
<1>2. /\ ~eof /\ M + 1 \in Ids /\ messages' = Append(messages, kind)
      /\ UNCHANGED <<transport, exitKind, reporter, eof, loop, expected, seen, exiting,
                     reading, process>>
  BY DEF ClientSends
<1>3. PICK f \in Frames(M + 1) : stream' = stream \o f
  BY DEF ClientSends
<1>4. PICK m : m = M + 1
  OBVIOUS
<1>5. PICK L : L = Len(stream)
  OBVIOUS
<1>6. PICK s : s = stream
  OBVIOUS
<1>7. /\ f \in Seq(Token) /\ Len(f) \in 1 .. 4 /\ f[Len(f)] = Body(m)
      /\ m \in Ids /\ f \in Frames(m)
  BY <1>2, <1>4, FrameShape
<1>8. /\ stream' \in Seq(Token) /\ Len(stream') = L + Len(f)
      /\ \A k \in 1 .. L : stream'[k] = stream[k]
      /\ \A k \in 1 .. Len(f) : stream'[L + k] = f[k]
  BY <1>1, <1>3, <1>5, <1>7, Extended
<1>9. /\ MessageAt(L + 1, m)'
      /\ \A k \in L + 1 .. Len(stream'), j \in Ids :
           /\ stream'[k] = Length(j) => HeaderAt(k + 1, j)'
           /\ stream'[k] = Body(j) => MessageAt(k + 1, j + 1)'
  BY <1>1, <1>2, <1>3, <1>5, <1>7, Appended
<1>10. Len(messages') = m /\ messages' \in Seq({"good", "bad", "exit"})
  BY <1>1, <1>2, <1>4 DEF TypeOK
<1>11. TypeOK'
  BY <1>1, <1>2, <1>8, <1>10 DEF TypeOK, Token
<1>12. Complete'
  <2>1. Len(stream') \in Nat \ {0} /\ stream'[Len(stream')] = f[Len(f)]
    <3>1. L \in Nat /\ Len(f) \in 1 .. 4
      BY <1>1, <1>5, <1>7
    <3>2. \A i \in 1 .. 4 : i \in 1 .. i /\ L + i \in Nat \ {0}
      BY <3>1
    <3> QED
      BY <1>8, <3>1, <3>2
  <2>2. stream' # <<>> /\ stream'[Len(stream')] = Body(Len(messages'))
    BY <1>7, <1>10, <2>1
  <2> QED
    BY <2>2 DEF Complete
<1>13. CASE stream = <<>>
  <2>1. L = 0 /\ Len(seen) + 1 = m /\ expected = 0 /\ loop # "body"
    BY <1>1, <1>2, <1>4, <1>5, <1>13 DEF Complete
  <2>2. MessageAt(1, m)'
    BY <1>9, <2>1
  <2>3. InStep'
    BY <1>1, <1>2, <2>1, <2>2 DEF InStep
  <2>4. Framed'
    BY <1>9, <2>1 DEF Framed
  <2> QED
    BY <1>1, <1>2, <1>11, <1>12, <2>3, <2>4 DEF StreamInv, DecodedInOrder
<1>14. CASE stream # <<>>
  <2>1. L \in Nat \ {0} /\ stream[L] = Body(M)
    BY <1>1, <1>2, <1>5, <1>14 DEF Complete
  <2>2. ASSUME NEW k \in 1 .. L
        PROVE  /\ \A T : OneOf(k, T) => OneOf(k, T)'
               /\ \A j : HeaderAt(k, j) => HeaderAt(k, j)'
               /\ \A j : MessageAt(k, j) => MessageAt(k, j)'
    <3>1. s \in Seq(Token) /\ s # <<>> /\ s[Len(s)] = Body(M) /\ k \in 1 .. Len(s)
      BY <1>1, <1>5, <1>6, <1>14, <2>1
    <3> QED
      BY <1>2, <1>3, <1>6, <1>7, <3>1, KeptBySend
  <2>3. InStep'
    <3>1. 1 \in 1 .. L
      BY <2>1
    <3>2. PICK n : n = Len(seen) + 1
      OBVIOUS
    <3>3. /\ MessageAt(1, n) => MessageAt(1, n)'
          /\ HeaderAt(1, n) => HeaderAt(1, n)'
          /\ OneOf(1, {Body(n), Cut}) => OneOf(1, {Body(n), Cut})'
      BY <2>2, <3>1
    <3> QED
      BY <1>1, <1>2, <3>2, <3>3 DEF InStep
  <2>4. Framed'
    <3> SUFFICES ASSUME NEW k \in 1 .. Len(stream'), NEW j \in Ids
                 PROVE  /\ stream'[k] = Length(j) => HeaderAt(k + 1, j)'
                        /\ stream'[k] = Body(j) => MessageAt(k + 1, j + 1)'
      BY DEF Framed
    <3>1. CASE k \in 1 .. L - 1
      <4>1. /\ k \in 1 .. Len(stream) /\ k + 1 \in 1 .. L /\ stream'[k] = stream[k]
        BY <1>1, <1>5, <1>8, <2>1, <3>1
      <4> QED
        BY <1>1, <2>2, <4>1 DEF Framed
    <3>2. CASE k = L
      <4>1. stream'[k] = Body(M)
        BY <1>8, <2>1, <3>2
      <4>2. CASE stream'[k] = Body(j)
        <5>1. j + 1 = m /\ stream'[k] # Length(j)
          BY <1>4, <4>1, <4>2, Tokens
        <5> QED
          BY <1>9, <3>2, <5>1
      <4> QED
        BY <4>1, <4>2, Tokens
    <3>3. CASE k \in L + 1 .. Len(stream')
      BY <1>9, <3>3
    <3> QED
      BY <1>1, <1>5, <1>7, <1>8, <2>1, <3>1, <3>2, <3>3
  <2> QED
    BY <1>1, <1>2, <1>11, <1>12, <2>3, <2>4 DEF StreamInv, DecodedInOrder
<1> QED
  BY <1>13, <1>14

\* So does closing the connection, after which nothing need be complete.
LEMMA CloseStep ==
  ASSUME StreamInv, Close,
         UNCHANGED <<transport, exitKind, reporter, messages, loop, expected, seen,
                     reading, process>>,
         exiting' \in {exiting, "lost", "deaf"}
  PROVE  StreamInv'
<1>1. TypeOK /\ Framed /\ InStep /\ DecodedInOrder /\ Len(seen) \in Nat
  BY DEF StreamInv, TypeOK
<1>2. eof' = TRUE /\ stream' \in Seq(Token)
  BY <1>1, CutShort DEF Close
<1>3. TypeOK'
  BY <1>1, <1>2 DEF TypeOK, Token
<1>4. Framed'
  BY <1>1, FramedAfterClose
<1>5. PICK n : n = Len(seen) + 1
  OBVIOUS
<1>6. /\ MessageAt(1, n) => MessageAt(1, n)'
      /\ HeaderAt(1, n) => HeaderAt(1, n)'
      /\ OneOf(1, {Body(n), Cut}) => OneOf(1, {Body(n), Cut})'
  <2>1. 1 \in Nat \ {0}
    OBVIOUS
  <2> QED
    BY <1>1, <2>1, KeptByClose
<1>7. InStep'
  BY <1>1, <1>5, <1>6 DEF InStep
<1>8. Complete'
  BY <1>2 DEF Complete
<1>9. DecodedInOrder'
  BY <1>1 DEF DecodedInOrder
<1> QED
  BY <1>3, <1>4, <1>7, <1>8, <1>9 DEF StreamInv

-----------------------------------------------------------------------------
(* The main loop.                                                           *)

\* The last token goes only with the last message.
LEMMA CompleteAfterTake ==
  ASSUME TypeOK, Complete, Take, ~eof
  PROVE  /\ stream' = <<>> => stream[1] = Body(Len(messages))
         /\ stream' # <<>> => stream'[Len(stream')] = Body(Len(messages))
<1>1. /\ stream \in Seq(Token) /\ stream # <<>> /\ Len(stream) \in Nat
      /\ stream[Len(stream)] = Body(Len(messages))
  BY DEF TypeOK, Token, Complete, Take
<1>2. /\ stream' \in Seq(Token) /\ Len(stream) >= 1 /\ Len(stream') = Len(stream) - 1
      /\ \A k \in 1 .. Len(stream') : stream'[k] = stream[k + 1]
  BY Taken
<1>3. CASE stream' = <<>>
  <2>1. Len(stream) = 1
    BY <1>1, <1>2, <1>3
  <2> QED
    BY <1>1, <1>3, <2>1
<1>4. CASE stream' # <<>>
  <2>1. Len(stream') \in Nat /\ Len(stream') # 0
    BY <1>2, <1>4
  <2>2. Len(stream') \in 1 .. Len(stream') /\ Len(stream') + 1 = Len(stream)
    BY <1>1, <1>2, <2>1
  <2> QED
    BY <1>1, <1>2, <1>4, <2>2
<1> QED
  BY <1>3, <1>4

\* Whatever a decoded message does, the loop is not left inside a body.
LEMMA Handled ==
  ASSUME TypeOK, NEW m, Handle(m)
  PROVE  /\ loop' \in {"header", "broken", "crashed", "left"}
         /\ exiting' \in {"none", "handler", "failed", "closing", "exit", "lost", "deaf"}
BY DEF Handle, HandleExit, ExitOnMain, ReportError, TypeOK

\* The body of the next message is taken: the loop is in step with the rest.
LEMMA BodyTaken ==
  ASSUME StreamInv, Take, stream[1] = Body(Len(seen) + 1),
         seen' = Append(seen, Len(seen) + 1), expected' = 0,
         Handle(Len(seen) + 1),
         UNCHANGED <<transport, exitKind, reporter, messages, eof, reading, process>>
  PROVE  StreamInv'
<1>1. PICK n : n = Len(seen) + 1
  OBVIOUS
<1>2. /\ TypeOK /\ Framed /\ InStep /\ Complete /\ DecodedInOrder /\ Len(seen) \in Nat
      /\ seen \in Seq(0 .. MaxMessages) /\ MaxMessages \in Nat
  BY LoopAssumption DEF StreamInv, TypeOK
<1>3. stream' \in Seq(Token) /\ stream[1] \in Token /\ 1 \in 1 .. Len(stream)
  BY <1>2, Taken DEF TypeOK
<1>4. n \in Ids
  <2>1. n \in 0 .. MaxMessages
    BY <1>1, <1>3 DEF Body, Token
  <2> QED
    BY <1>1, <1>2, <2>1 DEF Ids
<1>5. MessageAt(1, n + 1)'
  <2>1. MessageAt(1 + 1, n + 1) /\ 1 \in Nat \ {0}
    BY <1>1, <1>2, <1>3, <1>4 DEF Framed
  <2> QED
    BY <1>2, <2>1, Shifted
<1>6. Len(seen') = n /\ seen' \in Seq(0 .. MaxMessages)
  BY <1>1, <1>2, <1>4 DEF Ids
<1>7. /\ loop' \in {"header", "broken", "crashed", "left"}
      /\ exiting' \in {"none", "handler", "failed", "closing", "exit", "lost", "deaf"}
  BY <1>2, Handled
<1>8. TypeOK'
  BY <1>2, <1>3, <1>6, <1>7 DEF TypeOK, Token
<1>9. Framed'
  BY <1>2, FramedAfterTake
<1>10. InStep'
  BY <1>5, <1>6, <1>7 DEF InStep
<1>11. Complete'
  <2> SUFFICES ASSUME ~eof PROVE Complete'
    BY DEF Complete
  <2>1. /\ stream' = <<>> => stream[1] = Body(Len(messages))
        /\ stream' # <<>> => stream'[Len(stream')] = Body(Len(messages))
    BY <1>2, CompleteAfterTake
  <2>2. stream' = <<>> => Len(messages) = n
    BY <1>1, <2>1, Tokens
  <2> QED
    BY <1>6, <1>7, <2>1, <2>2 DEF Complete
<1>12. DecodedInOrder'
  <2>1. \A k \in 1 .. Len(seen') : k \in 1 .. Len(seen) \/ k = n
    BY <1>1, <1>2, <1>6
  <2>2. seen'[n] = n /\ \A k \in 1 .. Len(seen) : seen'[k] = seen[k]
    BY <1>1, <1>2, AppendProperties
  <2> QED
    BY <1>2, <2>1, <2>2 DEF DecodedInOrder
<1> QED
  BY <1>8, <1>9, <1>10, <1>11, <1>12 DEF StreamInv

\* A header line is read.
LEMMA HeaderStep ==
  ASSUME StreamInv, ReadHeader
  PROVE  StreamInv'
<1>1. PICK n : n = Len(seen) + 1
  OBVIOUS
<1>2. PICK x : x = stream[1]
  OBVIOUS
<1>3. /\ TypeOK /\ Framed /\ InStep /\ Complete /\ DecodedInOrder /\ Len(seen) \in Nat
      /\ MaxMessages \in Nat
  BY LoopAssumption DEF StreamInv, TypeOK
<1>4. /\ loop = "header" /\ transport # "ws" /\ Take
      /\ UNCHANGED <<transport, exitKind, reporter, messages, eof, seen, exiting, reading,
                     process>>
  BY DEF ReadHeader, Reading
<1>5. /\ stream' \in Seq(Token) /\ x \in Token /\ 1 \in 1 .. Len(stream)
      /\ Head(stream) = x
  BY <1>2, <1>3, <1>4, Taken DEF TypeOK
<1>6. /\ expected' = IF expected = 0 /\ x[1] = "length" THEN x[2] ELSE expected
      /\ loop' = IF x = Blank /\ expected # 0 THEN "body" ELSE "header"
  BY <1>5 DEF ReadHeader
<1>7. TypeOK'
  <2>1. x[2] \in 0 .. MaxMessages
    BY <1>5 DEF Token
  <2>2. expected' \in 0 .. MaxMessages /\ loop' \in {"header", "body"}
    BY <1>3, <1>6, <2>1 DEF TypeOK
  <2> QED
    BY <1>3, <1>4, <1>5, <2>2 DEF TypeOK, Token
<1>8. Framed'
  BY <1>3, <1>4, FramedAfterTake
<1>9. /\ \A T : OneOf(1 + 1, T) => OneOf(1, T)'
      /\ \A m : HeaderAt(1 + 1, m) => HeaderAt(1, m)'
      /\ \A T : OneOf((1 + 1) + 1, T) => OneOf(1 + 1, T)'
  <2>1. 1 \in Nat \ {0} /\ 1 + 1 \in Nat \ {0}
    OBVIOUS
  <2> QED
    BY <1>3, <1>4, <2>1, Shifted
<1>10. \A T : OneOf(1, T) => x \in T
  BY <1>2, <1>3, <1>5 DEF OneOf, TypeOK
<1>11. n # 0 /\ n = Len(seen') + 1
  BY <1>1, <1>3, <1>4
<1>12. InStep' /\ x \in {Length(n), Other, Blank}
  <2>1. CASE expected = 0 /\ OneOf(1, {Length(n)})
    <3>1. x = Length(n) /\ x[1] = "length" /\ x[2] = n /\ x # Blank
      BY <1>10, <2>1, Tokens
    <3>2. n \in Ids
      BY <1>1, <1>3, <1>5, <3>1 DEF Length, Token, Ids
    <3>3. HeaderAt(1 + 1, n)
      BY <1>2, <1>3, <1>5, <3>1, <3>2 DEF Framed
    <3> QED
      BY <1>4, <1>6, <1>9, <1>11, <2>1, <3>1, <3>3 DEF InStep
  <2>2. CASE expected = 0 /\ OneOf(1, {Other, Blank}) /\ OneOf(1 + 1, {Length(n)})
    <3>1. x \in {Other, Blank} /\ x[1] # "length"
      BY <1>10, <2>2, Tokens
    <3>2. MessageAt(1, n)'
      BY <1>4, <1>9, <2>2 DEF MessageAt
    <3> QED
      BY <1>4, <1>6, <1>11, <2>2, <3>1, <3>2 DEF InStep
  <2>3. CASE expected = n /\ OneOf(1, {Blank}) /\ OneOf(1 + 1, {Body(n), Cut})
    <3>1. x = Blank
      BY <1>10, <2>3
    <3> QED
      BY <1>4, <1>6, <1>9, <1>11, <2>3, <3>1 DEF InStep
  <2>4. CASE /\ expected = n /\ OneOf(1, {Other}) /\ OneOf(1 + 1, {Blank})
             /\ OneOf((1 + 1) + 1, {Body(n), Cut})
    <3>1. x = Other /\ x # Blank
      BY <1>10, <2>4, Tokens
    <3>2. HeaderAt(1, n)'
      BY <1>9, <2>4 DEF HeaderAt
    <3> QED
      BY <1>4, <1>6, <1>11, <2>4, <3>1, <3>2 DEF InStep
  <2>5. (1 + 1) + 1 = 1 + 2
    OBVIOUS
  <2> QED
    BY <1>1, <1>3, <1>4, <2>1, <2>2, <2>3, <2>4, <2>5 DEF InStep, MessageAt, HeaderAt
<1>13. Complete'
  <2> SUFFICES ASSUME ~eof PROVE Complete'
    BY <1>4 DEF Complete
  <2>1. /\ stream' = <<>> => x = Body(Len(messages))
        /\ stream' # <<>> => stream'[Len(stream')] = Body(Len(messages))
    BY <1>2, <1>3, <1>4, CompleteAfterTake
  <2>2. stream' # <<>>
    BY <1>12, <2>1, Tokens
  <2> QED
    BY <1>4, <2>1, <2>2 DEF Complete
<1>14. DecodedInOrder'
  BY <1>3, <1>4 DEF DecodedInOrder
<1> QED
  BY <1>7, <1>8, <1>12, <1>13, <1>14 DEF StreamInv

\* A body is read: the loop waits for the body of the next message, so that it
\* is this message it decodes.
LEMMA BodyStep ==
  ASSUME StreamInv, ReadBody
  PROVE  StreamInv'
<1>1. TypeOK /\ InStep /\ loop = "body" /\ Take /\ Head(stream) # Cut
  BY DEF StreamInv, ReadBody, Reading
<1>2. Head(stream) = stream[1] /\ 1 <= Len(stream)
  BY <1>1, Taken DEF TypeOK
<1>3. expected = Len(seen) + 1 /\ stream[1] = Body(expected)
  BY <1>1, <1>2 DEF InStep, OneOf
<1>4. /\ seen' = Append(seen, expected) /\ expected' = 0 /\ Handle(expected)
      /\ UNCHANGED <<transport, exitKind, reporter, messages, eof, reading, process>>
  BY <1>2, <1>3 DEF ReadBody
<1> QED
  BY <1>1, <1>3, <1>4, BodyTaken

\* A websocket message is received.
LEMMA RecvStep ==
  ASSUME StreamInv, RecvMessage
  PROVE  StreamInv'
<1>1. TypeOK /\ InStep /\ loop = "header" /\ transport = "ws" /\ Take
  BY DEF StreamInv, RecvMessage, Reading
<1>2. Head(stream) = stream[1] /\ 1 <= Len(stream)
  BY <1>1, Taken DEF TypeOK
<1>3. stream[1] = Body(Len(seen) + 1) /\ stream[1][2] = Len(seen) + 1 /\ expected = 0
  BY <1>1, <1>2, Tokens DEF InStep, MessageAt, OneOf
<1> QED
  BY <1>1, <1>2, <1>3, BodyTaken DEF RecvMessage

\* The loop ends or is left, or lsp_exit goes on: nothing is read.
LEMMA NothingRead ==
  ASSUME StreamInv, TypeOK',
         UNCHANGED <<transport, messages, stream, eof, expected, seen>>,
         loop' # loop => loop' # "body" /\ (loop' = "header" => transport = "ws")
  PROVE  StreamInv'
<1>1. Framed' /\ Complete' /\ DecodedInOrder'
  BY DEF StreamInv, Framed, HeaderAt, MessageAt, OneOf, Complete, DecodedInOrder
<1>2. InStep'
  <2>1. PICK n : n = Len(seen) + 1
    OBVIOUS
  <2>2. /\ MessageAt(1, n) => MessageAt(1, n)'
        /\ HeaderAt(1, n) => HeaderAt(1, n)'
        /\ OneOf(1, {Body(n), Cut}) => OneOf(1, {Body(n), Cut})'
    BY DEF MessageAt, HeaderAt, OneOf
  <2> QED
    BY <2>1, <2>2 DEF StreamInv, InStep
<1> QED
  BY <1>1, <1>2 DEF StreamInv

\* The input ends within a body.
LEMMA BodyEofStep ==
  ASSUME StreamInv, BodyEof
  PROVE  StreamInv'
<1>1. TypeOK /\ InStep /\ DecodedInOrder /\ loop = "body" /\ eof /\ transport # "ws"
  BY DEF StreamInv, BodyEof, Reading, InStep
<1>2. /\ stream' = <<>> /\ Len(stream') = 0
      /\ UNCHANGED <<transport, exitKind, reporter, messages, eof, seen, exiting, reading,
                     process>>
  BY DEF BodyEof
<1>3. /\ loop' \in {"crashed", "ended", "broken", "header"}
      /\ loop' = "header" => expected' = 0
      /\ expected' \in {0, expected}
  BY DEF BodyEof, ReportError
<1>4. TypeOK'
  <2>1. expected' \in 0 .. MaxMessages /\ stream' \in Seq(Token)
    BY <1>1, <1>2, <1>3, LoopAssumption DEF TypeOK
  <2> QED
    BY <1>1, <1>2, <1>3, <2>1 DEF TypeOK, Token
<1>5. Framed' /\ Complete' /\ DecodedInOrder'
  BY <1>1, <1>2 DEF Framed, Complete, DecodedInOrder
<1>6. InStep'
  <2>1. \A n : MessageAt(1, n)'
    BY <1>2 DEF MessageAt, OneOf
  <2> QED
    BY <1>1, <1>2, <1>3, <2>1 DEF InStep
<1> QED
  BY <1>4, <1>5, <1>6 DEF StreamInv

\* Initially there is nothing to read.
LEMMA StreamInit ==
  Init => StreamInv
<1> SUFFICES ASSUME Init PROVE StreamInv
  OBVIOUS
<1>1. stream = <<>> /\ Len(stream) = 0 /\ Len(seen) = 0 /\ Len(messages) = 0
  BY DEF Init
<1>2. TypeOK
  <2>1. messages \in Seq({"good", "bad", "exit"}) /\ stream \in Seq(Token)
        /\ seen \in Seq(0 .. MaxMessages) /\ expected \in 0 .. MaxMessages
    BY LoopAssumption DEF Init
  <2> QED
    BY <2>1 DEF Init, TypeOK, Token
<1>3. Framed /\ Complete /\ DecodedInOrder
  BY <1>1 DEF Init, Framed, Complete, DecodedInOrder
<1>4. \A n : MessageAt(1, n)
  BY <1>1 DEF MessageAt, OneOf
<1>5. InStep
  BY <1>4 DEF Init, InStep
<1> QED
  BY <1>2, <1>3, <1>5 DEF StreamInv

\* Every step keeps the invariant.
LEMMA StreamStep ==
  StreamInv /\ [Next]_vars => StreamInv'
<1> SUFFICES ASSUME StreamInv, [Next]_vars PROVE StreamInv'
  OBVIOUS
<1>0. TypeOK
  BY DEF StreamInv
<1>1. ASSUME NEW kind \in {"good", "bad", "exit"}, ClientSends(kind) PROVE StreamInv'
  BY <1>1, SendStep
<1>2. CASE ClientCloses
  BY <1>2, CloseStep DEF ClientCloses
<1>3. CASE ReadHeader
  BY <1>3, HeaderStep
<1>4. CASE ReadBody
  BY <1>4, BodyStep
<1>5. CASE BodyEof
  BY <1>5, BodyEofStep
<1>6. CASE RecvMessage
  BY <1>6, RecvStep
<1>7. CASE HeaderEof
  <2>1. TypeOK'
    BY <1>0, <1>7 DEF HeaderEof, TypeOK
  <2> QED
    BY <1>7, <2>1, NothingRead DEF HeaderEof
<1>8. CASE RecvClosed
  <2>1. TypeOK'
    BY <1>0, <1>8 DEF RecvClosed, TypeOK
  <2> QED
    BY <1>8, <2>1, NothingRead DEF RecvClosed
<1>9. CASE ExitHandlerEnds
  <2>1. TypeOK'
    BY <1>0, <1>9 DEF ExitHandlerEnds, ExitOnMain, TypeOK
  <2> QED
    BY <1>9, <2>1, NothingRead DEF ExitHandlerEnds, ExitOnMain
<1>10. CASE ExitHandlerFails
  <2>1. TypeOK'
    BY <1>0, <1>10 DEF ExitHandlerFails, TypeOK
  <2> QED
    BY <1>10, <2>1, NothingRead DEF ExitHandlerFails
<1>11. CASE ExitOnWorker
  <2>1. CASE transport = "tcp"
    BY <1>11, <2>1, CloseStep DEF ExitOnWorker
  <2>2. CASE transport # "tcp"
    <3>1. TypeOK'
      BY <1>0, <1>11, <2>2 DEF ExitOnWorker, TypeOK
    <3> QED
      BY <1>11, <2>2, <3>1, NothingRead DEF ExitOnWorker
  <2> QED
    BY <2>1, <2>2
<1>12. CASE Wake
  <2>1. TypeOK'
    BY <1>0, <1>12 DEF Wake, TypeOK
  <2> QED
    BY <1>12, <2>1, NothingRead DEF Wake
<1>13. CASE LoopEnds
  <2>1. TypeOK'
    BY <1>0, <1>13 DEF LoopEnds, TypeOK
  <2> QED
    BY <1>13, <2>1, NothingRead DEF LoopEnds
<1>14. CASE SystemExit
  <2>1. TypeOK'
    BY <1>0, <1>14 DEF SystemExit, TypeOK
  <2> QED
    BY <1>14, <2>1, NothingRead DEF SystemExit
<1>15. CASE SystemExitOnClose
  <2>1. TypeOK'
    BY <1>0, <1>15 DEF SystemExitOnClose, TypeOK
  <2> QED
    BY <1>15, <2>1, NothingRead DEF SystemExitOnClose
<1>16. CASE UNCHANGED vars
  <2>1. TypeOK'
    BY <1>0, <1>16 DEF vars, TypeOK
  <2> QED
    BY <1>16, <2>1, NothingRead DEF vars
<1> QED
  BY <1>1, <1>2, <1>3, <1>4, <1>5, <1>6, <1>7, <1>8, <1>9, <1>10, <1>11, <1>12, <1>13,
     <1>14, <1>15, <1>16 DEF Next, MainLoop, ExitHandler, Ending

\* The state of the main loop is well formed, however long the connection lasts.
THEOREM TypeCorrect == Spec => []TypeOK
<1>1. StreamInv => TypeOK
  BY DEF StreamInv
<1> QED
  BY <1>1, StreamInit, StreamStep, PTL DEF Spec

\* The main loops (run_async, run, run_websocket) decode the messages of the
\* client one after the other, none left out, repeated or cut in the wrong
\* place, for any number of messages, whatever header lines come before a
\* length or after it, and wherever the connection is lost.
THEOREM InOrder == Spec => []DecodedInOrder
<1>1. StreamInv => DecodedInOrder
  BY DEF StreamInv
<1> QED
  BY <1>1, StreamInit, StreamStep, PTL DEF Spec

=============================================================================
