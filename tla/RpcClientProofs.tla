-------------------------- MODULE RpcClientProofs --------------------------
(* Proofs about RpcClient, for any calls, tasks and transports.             *)
EXTENDS RpcClient, SequenceTheorems, WellFoundedInduction, TLAPS

-----------------------------------------------------------------------------
(* Sequences without repetition: `_request_futures` and the wire.           *)

\* A key is inserted at the end.
LEMMA Inserted ==
  ASSUME NEW S, NEW s \in Seq(S), NEW e \in S
  PROVE  /\ Append(s, e) \in Seq(S)
         /\ ToSet(Append(s, e)) = ToSet(s) \cup {e}
         /\ IsInjective(s) /\ e \notin ToSet(s) => IsInjective(Append(s, e))
<1> DEFINE t == Append(s, e)
<1>1. /\ t \in Seq(S) /\ Len(t) = Len(s) + 1 /\ t[Len(s) + 1] = e
      /\ \A i \in 1 .. Len(s) : t[i] = s[i]
  OBVIOUS
<1>2. DOMAIN s = 1 .. Len(s) /\ DOMAIN t = 1 .. Len(s) + 1 /\ Len(s) \in Nat
  BY <1>1
<1>3. ToSet(t) = ToSet(s) \cup {e}
  BY <1>1, <1>2 DEF ToSet
<1>4. IsInjective(s) /\ e \notin ToSet(s) => IsInjective(t)
  BY <1>1, <1>2 DEF ToSet, IsInjective
<1> QED
  BY <1>1, <1>3, <1>4

\* The first message is read.
LEMMA FirstTaken ==
  ASSUME NEW S, NEW s \in Seq(S), s # <<>>
  PROVE  /\ Tail(s) \in Seq(S) /\ Head(s) \in S
         /\ ToSet(s) = ToSet(Tail(s)) \cup {Head(s)}
         /\ IsInjective(s) => IsInjective(Tail(s)) /\ Head(s) \notin ToSet(Tail(s))
<1> DEFINE t == Tail(s)
<1>1. /\ t \in Seq(S) /\ Head(s) \in S /\ Head(s) = s[1]
      /\ Len(s) \in Nat \ {0} /\ Len(t) = Len(s) - 1
      /\ \A i \in 1 .. Len(t) : t[i] = s[i + 1]
  OBVIOUS
<1> HIDE DEF t
<1>2. DOMAIN s = 1 .. Len(s) /\ DOMAIN t = 1 .. Len(s) - 1
  BY <1>1
<1>3. ToSet(s) = ToSet(t) \cup {Head(s)}
  <2>1. ASSUME NEW i \in 1 .. Len(s) PROVE s[i] = Head(s) \/ s[i] \in ToSet(t)
    <3>1. i = 1 \/ (i - 1 \in 1 .. Len(t) /\ s[i] = t[i - 1])
      BY <1>1
    <3> QED
      BY <1>1, <1>2, <3>1 DEF ToSet
  <2>2. ASSUME NEW i \in 1 .. Len(t) PROVE t[i] \in ToSet(s)
    <3>1. i + 1 \in 1 .. Len(s) /\ t[i] = s[i + 1]
      BY <1>1
    <3> QED
      BY <1>2, <3>1 DEF ToSet
  <2>3. Head(s) \in ToSet(s)
    BY <1>1, <1>2 DEF ToSet
  <2> QED
    BY <1>1, <1>2, <2>1, <2>2, <2>3 DEF ToSet
<1>4. ASSUME IsInjective(s) PROVE IsInjective(t) /\ Head(s) \notin ToSet(t)
  <2>1. ASSUME NEW i \in 1 .. Len(t), NEW j \in 1 .. Len(t), t[i] = t[j] PROVE i = j
    <3>1. /\ i + 1 \in 1 .. Len(s) /\ j + 1 \in 1 .. Len(s)
          /\ s[i + 1] = s[j + 1]
      BY <1>1, <2>1
    <3>2. i + 1 = j + 1
      BY <1>2, <1>4, <3>1 DEF IsInjective
    <3> QED
      BY <3>2
  <2>2. ASSUME NEW i \in 1 .. Len(t) PROVE t[i] # s[1]
    <3>1. i + 1 \in 1 .. Len(s) /\ 1 \in 1 .. Len(s) /\ t[i] = s[i + 1] /\ i + 1 # 1
      BY <1>1
    <3> QED
      BY <1>2, <1>4, <3>1 DEF IsInjective
  <2> QED
    BY <1>1, <1>2, <2>1, <2>2 DEF ToSet, IsInjective
<1> QED
  BY <1>1, <1>3, <1>4 DEF t

\* The rest of what was written is lost.
LEMMA PrefixKept ==
  ASSUME NEW S, NEW s \in Seq(S), NEW n \in 0 .. Len(s)
  PROVE  /\ SubSeq(s, 1, n) \in Seq(S)
         /\ ToSet(SubSeq(s, 1, n)) \subseteq ToSet(s)
         /\ IsInjective(s) => IsInjective(SubSeq(s, 1, n))
<1> DEFINE t == SubSeq(s, 1, n)
<1>1. /\ t \in Seq(S) /\ Len(t) = n
      /\ \A i \in 1 .. n : t[i] = s[i]
  BY SubSeqProperties
<1>2. DOMAIN s = 1 .. Len(s) /\ DOMAIN t = 1 .. n /\ 1 .. n \subseteq 1 .. Len(s)
  BY <1>1
<1> QED
  BY <1>1, <1>2 DEF ToSet, IsInjective

\* A key is taken out, wherever it is.
LEMMA TakenOut ==
  ASSUME NEW S, NEW s \in Seq(S), NEW k \in 1 .. Len(s), IsInjective(s)
  PROVE  /\ RemoveAt(s, k) \in Seq(S) /\ IsInjective(RemoveAt(s, k))
         /\ ToSet(RemoveAt(s, k)) = ToSet(s) \ {s[k]}
<1> DEFINE u == SubSeq(s, 1, k - 1)
           v == SubSeq(s, k + 1, Len(s))
           t == u \o v
<1>r. t = RemoveAt(s, k)
  BY DEF RemoveAt
<1>1. /\ u \in Seq(S) /\ Len(u) = k - 1
      /\ \A i \in 1 .. k - 1 : u[i] = s[i]
  BY SubSeqProperties
<1>2. /\ v \in Seq(S) /\ Len(v) = Len(s) - k
      /\ \A i \in 1 .. Len(s) - k : v[i] = s[i + k]
  BY SubSeqProperties
<1> HIDE DEF u, v
<1>3. /\ t \in Seq(S) /\ Len(t) = Len(s) - 1
      /\ \A i \in 1 .. k - 1 : t[i] = s[i]
      /\ \A i \in k .. Len(s) - 1 : t[i] = s[i + 1]
  <2>1. /\ t \in Seq(S) /\ Len(t) = Len(u) + Len(v)
        /\ \A i \in 1 .. Len(t) : t[i] = IF i <= Len(u) THEN u[i] ELSE v[i - Len(u)]
    <3>1. t \in Seq(S) /\ Len(t) = Len(u) + Len(v)
      BY <1>1, <1>2, ConcatProperties
    <3>2. ASSUME NEW i \in 1 .. Len(t)
          PROVE  t[i] = IF i <= Len(u) THEN u[i] ELSE v[i - Len(u)]
      BY <1>1, <1>2, <3>1, ConcatProperties
    <3> QED
      BY <3>1, <3>2
  <2> HIDE DEF t
  <2>2. \A i \in 1 .. k - 1 : t[i] = s[i]
    BY <1>1, <2>1
  <2>3. \A i \in k .. Len(s) - 1 : t[i] = s[i + 1]
    <3> SUFFICES ASSUME NEW i \in k .. Len(s) - 1 PROVE t[i] = s[i + 1]
      OBVIOUS
    <3>1. i \in 1 .. Len(t) /\ ~(i <= Len(u)) /\ i - Len(u) \in 1 .. Len(s) - k
      BY <1>1, <1>2, <2>1
    <3>2. t[i] = v[i - Len(u)] /\ v[i - Len(u)] = s[(i - Len(u)) + k]
      BY <1>2, <2>1, <3>1
    <3>3. (i - Len(u)) + k = i + 1
      BY <1>1
    <3> QED
      BY <3>2, <3>3
  <2> QED
    BY <1>1, <1>2, <2>1, <2>2, <2>3
<1> HIDE DEF t
<1>4. DOMAIN s = 1 .. Len(s) /\ DOMAIN t = 1 .. Len(s) - 1 /\ Len(s) \in Nat
  BY <1>3
<1> DEFINE from(i) == IF i < k THEN i ELSE i + 1
<1>5. /\ \A i \in 1 .. Len(s) - 1 : from(i) \in 1 .. Len(s) \ {k} /\ t[i] = s[from(i)]
      /\ \A i, j \in 1 .. Len(s) - 1 : from(i) = from(j) => i = j
  BY <1>3, <1>4
<1> HIDE DEF from
<1>6. IsInjective(t)
  BY <1>4, <1>5 DEF IsInjective
<1>7. ToSet(t) = ToSet(s) \ {s[k]}
  <2>1. ASSUME NEW i \in 1 .. Len(s) - 1 PROVE t[i] \in ToSet(s) /\ t[i] # s[k]
    BY <1>4, <1>5 DEF ToSet, IsInjective
  <2>2. ASSUME NEW i \in 1 .. Len(s), i # k PROVE s[i] \in ToSet(t)
    <3>1. CASE i < k
      BY <1>3, <1>4, <3>1 DEF ToSet
    <3>2. CASE i > k
      <4>1. i - 1 \in 1 .. Len(s) - 1 /\ t[i - 1] = s[i]
        BY <1>3, <3>2
      <4> QED
        BY <1>4, <4>1 DEF ToSet
    <3> QED
      BY <2>2, <3>1, <3>2
  <2> QED
    BY <1>4, <2>1, <2>2 DEF ToSet
<1> QED
  BY <1>r, <1>3, <1>6, <1>7

\* Popping a key takes it, and nothing else, out of `_request_futures`.
LEMMA Popped ==
  ASSUME TypeOK, NEW m \in Calls \cup Tasks, Pop(m)
  PROVE  /\ futures' \in Seq(Calls \cup Tasks) /\ IsInjective(futures')
         /\ ToSet(futures') = ToSet(futures) \ {m}
<1>1. futures \in Seq(Calls \cup Tasks) /\ IsInjective(futures) /\ DOMAIN futures = 1 .. Len(futures)
  BY DEF TypeOK
<1>2. CASE Contains(futures, m)
  <2> DEFINE k == CHOOSE k \in 1 .. Len(futures) : futures[k] = m
  <2>1. k \in 1 .. Len(futures) /\ futures[k] = m
    BY <1>2 DEF Contains
  <2>2. futures' = RemoveAt(futures, k)
    BY <1>2 DEF Pop
  <2> HIDE DEF k
  <2> QED
    BY <1>1, <2>1, <2>2, TakenOut
<1>3. CASE ~Contains(futures, m)
  <2>1. futures' = futures
    BY <1>3 DEF Pop
  <2>2. m \notin ToSet(futures)
    BY <1>1, <1>3 DEF Contains, ToSet
  <2> QED
    BY <1>1, <2>1, <2>2
<1> QED
  BY <1>2, <1>3

\* The first task in `_request_futures` has a place, if there is a task.
LEMMA FirstTaskPlace ==
  ASSUME TypeOK, \E k \in 1 .. Len(futures) : futures[k] \in Tasks
  PROVE  FirstTask \in 1 .. Len(futures)
<1> DEFINE First(k) == futures[k] \in Tasks /\ \A j \in 1 .. k - 1 : futures[j] \notin Tasks
           T == {k \in 1 .. Len(futures) : futures[k] \in Tasks}
<1>1. T \subseteq Nat /\ T # {} /\ Len(futures) \in Nat
  BY DEF TypeOK
<1>2. PICK k \in T : \A j \in T : <<j, k>> \notin OpToRel(<, Nat)
  BY <1>1, NatLessThanWellFounded, WFMin, Zenon
<1>3. \A j \in T : ~(j < k)
  BY <1>1, <1>2 DEF OpToRel
<1>4. First(k)
  BY <1>1, <1>3
<1> QED
  BY <1>4 DEF FirstTask

\* If no task is registered, the loop of _server_exit reaches every future.
LEMMA SweepReachesAll ==
  ASSUME TypeOK, ~(FirstTask <= Len(futures)), FailUpTo(FirstTask - 1)
  PROVE  \A c \in Calls : c \in ToSet(futures) => state'[c] = "failed"
<1>1. DOMAIN futures = 1 .. Len(futures) /\ Len(futures) \in Nat
  BY DEF TypeOK
<1>2. ~\E k \in 1 .. Len(futures) : futures[k] \in Tasks
  BY <1>1, FirstTaskPlace
<1>3. FirstTask - 1 = Len(futures)
  BY <1>1, <1>2 DEF FirstTask
<1> QED
  BY <1>1, <1>3 DEF FailUpTo, ToSet

-----------------------------------------------------------------------------
(* The invariant of the client.                                             *)

\* Every step of the client, its tasks and the server keeps the invariant.
LEMMA ClientStep == ClientInv /\ [Next]_vars => ClientInv'
<1> SUFFICES ASSUME ClientInv, [Next]_vars PROVE ClientInv'
  OBVIOUS
<1> USE ClientAssumption DEF ClientInv, Done
<1>t. TypeOK
  OBVIOUS
<1>1. CASE start_io \/ start_tcp \/ start_ws
  BY <1>1 DEF start_io, start_tcp, start_ws, Connect, TypeOK, OnTheWay, CallsRegistered,
    HookSeesNoPendingCall
<1>2. ASSUME NEW c \in Calls, Call(c) PROVE ClientInv'
  <2>1. futures' = Append(futures, c) /\ c \notin ToSet(futures)
    BY <1>2 DEF Call, CallsRegistered
  <2>2. /\ futures' \in Seq(Calls \cup Tasks) /\ IsInjective(futures')
        /\ ToSet(futures') = ToSet(futures) \cup {c}
    BY <2>1, Inserted DEF TypeOK
  <2>3. TypeOK'
    BY <1>2, <2>2 DEF Call, TypeOK
  <2>4. OnTheWay'
    BY <1>2, <2>2 DEF Call, OnTheWay, CallsRegistered
  <2>5. CallsRegistered'
    BY <1>2, <2>2 DEF Call, CallsRegistered, TypeOK
  <2>6. HookSeesNoPendingCall'
    BY <1>2 DEF Call, HookSeesNoPendingCall, TypeOK
  <2> QED
    BY <2>3, <2>4, <2>5, <2>6
<1>3. ASSUME NEW c \in Calls, ServerAnswers(c) PROVE ClientInv'
  <2>1. wire' = Append(wire, c) /\ c \notin ToSet(wire)
    BY <1>3 DEF ServerAnswers, OnTheWay
  <2>2. /\ wire' \in Seq(Calls \cup Tasks) /\ IsInjective(wire')
        /\ ToSet(wire') = ToSet(wire) \cup {c}
    BY <2>1, Inserted DEF TypeOK, OnTheWay
  <2> QED
    BY <1>3, <2>2
    DEF ServerAnswers, TypeOK, OnTheWay, CallsRegistered, HookSeesNoPendingCall
<1>4. ASSUME NEW t \in Tasks, ServerAsks(t) PROVE ClientInv'
  <2>1. wire' = Append(wire, t) /\ t \notin ToSet(wire) \cup ToSet(futures)
    BY <1>4 DEF ServerAsks, OnTheWay
  <2>2. /\ wire' \in Seq(Calls \cup Tasks) /\ IsInjective(wire')
        /\ ToSet(wire') = ToSet(wire) \cup {t}
    BY <2>1, Inserted DEF TypeOK, OnTheWay
  <2> QED
    BY <1>4, <2>1, <2>2
    DEF ServerAsks, TypeOK, OnTheWay, CallsRegistered, HookSeesNoPendingCall
<1>5. ASSUME NEW t \in Tasks, TaskEnds(t) PROVE ClientInv'
  <2>1. /\ futures' \in Seq(Calls \cup Tasks) /\ IsInjective(futures')
        /\ ToSet(futures') = ToSet(futures) \ {t}
    BY <1>5, Popped DEF TaskEnds
  <2> QED
    BY <1>5, <2>1
    DEF TaskEnds, TypeOK, OnTheWay, CallsRegistered, HookSeesNoPendingCall
<1>6. CASE ServerGoes
  <2>1. /\ wire' \in Seq(Calls \cup Tasks) /\ IsInjective(wire')
        /\ ToSet(wire') \subseteq ToSet(wire)
    BY <1>6, PrefixKept DEF ServerGoes, TypeOK, OnTheWay
  <2> QED
    BY <1>6, <2>1
    DEF ServerGoes, TypeOK, OnTheWay, CallsRegistered, HookSeesNoPendingCall
<1>7. CASE Read
  <2> DEFINE m == Head(wire)
  <2>1. /\ wire' \in Seq(Calls \cup Tasks) /\ IsInjective(wire') /\ m \in Calls \cup Tasks
        /\ ToSet(wire') = ToSet(wire) \ {m} /\ m \in ToSet(wire)
    BY <1>7, FirstTaken DEF Read, TypeOK, OnTheWay
  <2>2. \/ HandleMessage(m)
        \/ UNCHANGED <<state, futures>>
    BY <1>7 DEF Read
  <2>3. /\ UNCHANGED <<transport, server, asked, sent, late, stopEvent, exitTask, stopping>>
        /\ loop' \in {"ended", "waiting"}
    BY <1>7 DEF Read
  <2> HIDE DEF m
  <2>4. CASE m \in Tasks /\ HandleMessage(m)
    <3>1. futures' = Append(futures, m) /\ m \notin ToSet(futures) /\ UNCHANGED state
      BY <2>1, <2>4 DEF HandleMessage, OnTheWay
    <3>2. /\ futures' \in Seq(Calls \cup Tasks) /\ IsInjective(futures')
          /\ ToSet(futures') = ToSet(futures) \cup {m}
      BY <2>1, <3>1, Inserted DEF TypeOK
    <3>3. m \notin Calls /\ m \in asked
      BY <2>1, <2>4 DEF OnTheWay
    <3> QED
      BY <2>1, <2>3, <3>1, <3>2, <3>3
      DEF TypeOK, OnTheWay, CallsRegistered, HookSeesNoPendingCall
  <2>5. CASE m \notin Tasks /\ HandleMessage(m)
    <3>1. /\ futures' \in Seq(Calls \cup Tasks) /\ IsInjective(futures')
          /\ ToSet(futures') = ToSet(futures) \ {m}
      BY <2>1, <2>5, Popped DEF HandleMessage
    <3>2. /\ state' = IF state[m] = "pending" THEN [state EXCEPT ![m] = "result"] ELSE state
          /\ m \in Calls
      BY <2>1, <2>5 DEF HandleMessage
    <3>3. TypeOK'
      BY <2>1, <2>3, <3>1, <3>2 DEF TypeOK
    <3>4. OnTheWay'
      BY <2>1, <2>3, <3>1 DEF OnTheWay
    <3>5. CallsRegistered'
      BY <2>1, <2>3, <3>1, <3>2 DEF CallsRegistered, TypeOK
    <3>6. HookSeesNoPendingCall'
      BY <2>3, <3>2 DEF HookSeesNoPendingCall, TypeOK
    <3> QED
      BY <3>3, <3>4, <3>5, <3>6
  <2>6. CASE UNCHANGED <<state, futures>>
    BY <2>1, <2>3, <2>6 DEF TypeOK, OnTheWay, CallsRegistered, HookSeesNoPendingCall
  <2> QED
    BY <2>2, <2>4, <2>5, <2>6
<1>8. CASE ConnectionClosed
  BY <1>8 DEF ConnectionClosed, TypeOK, OnTheWay, CallsRegistered, HookSeesNoPendingCall
\* Before the hook runs every pending call is registered, so the loop fails it.
<1>9. CASE Sweep
  <2>1. /\ UNCHANGED <<asked, futures, wire, sent, late>> /\ FailUpTo(FirstTask - 1)
        /\ exitTask' = "hook" => ~(FirstTask <= Len(futures))
        /\ exitTask' \in {"hook", "aborted"}
    BY <1>9 DEF Sweep
  <2>2. \A c \in Calls : state'[c] = "failed" \/ state'[c] = state[c]
    BY <2>1 DEF FailUpTo
  <2>3. TypeOK' /\ OnTheWay'
    BY <1>9 DEF Sweep, FailUpTo, TypeOK, OnTheWay
  <2>4. CallsRegistered'
    BY <2>1, <2>2 DEF CallsRegistered
  <2>5. HookSeesNoPendingCall'
    BY <2>1, <2>2, SweepReachesAll DEF CallsRegistered, HookSeesNoPendingCall
  <2> QED
    BY <2>3, <2>4, <2>5
<1>10. CASE HookEnds
  BY <1>10 DEF HookEnds, TypeOK, OnTheWay, CallsRegistered, HookSeesNoPendingCall
<1>11. CASE stop \/ Stop
  BY <1>11 DEF stop, Stop, StopSeesProcess, StopReturns, TypeOK, OnTheWay, CallsRegistered,
    HookSeesNoPendingCall
<1>12. CASE UNCHANGED vars
  BY <1>12 DEF vars, TypeOK, OnTheWay, CallsRegistered, HookSeesNoPendingCall
<1> QED
  BY <1>1, <1>2, <1>3, <1>4, <1>5, <1>6, <1>7, <1>8, <1>9, <1>10, <1>11, <1>12
  DEF Next, MainLoop, ExitTask

\* The invariant holds initially, and so in every reachable state.
LEMMA ClientInvariant == Spec => []ClientInv
<1>1. Init => ClientInv
  <2> SUFFICES ASSUME Init PROVE ClientInv
    OBVIOUS
  <2>1. ToSet(<<>>) = {} /\ IsInjective(<<>>)
    BY DEF ToSet, IsInjective
  <2>2. TypeOK
    BY <2>1, Zenon, EmptySeq DEF Init, TypeOK
  <2> QED
    BY <2>1, <2>2 DEF Init, ClientInv, OnTheWay, CallsRegistered, HookSeesNoPendingCall
<1> QED
  BY <1>1, ClientStep, PTL DEF Spec

\* The client keeps its types; above all no id is twice in `_request_futures`.
THEOREM TypeCorrect == Spec => []TypeOK
<1>1. ClientInv => TypeOK
  BY DEF ClientInv
<1> QED
  BY <1>1, ClientInvariant, PTL

\* When the user's server_exit is called, every call made before has its
\* outcome, whatever was answered, lost or served in the meantime.
THEOREM NoCallLeftPending == Spec => []HookSeesNoPendingCall
<1>1. ClientInv => HookSeesNoPendingCall
  BY DEF ClientInv
<1> QED
  BY <1>1, ClientInvariant, PTL

=============================================================================
