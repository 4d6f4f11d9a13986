--------------------------- MODULE OutgoingProofs ---------------------------
(* Proofs about Outgoing, for any set of calls and any number of responses, *)
(* and about Progress, which announces its tokens with such a call, for any *)
(* set of tasks and tokens.                                                 *)
EXTENDS Outgoing, Progress, TLAPS

-----------------------------------------------------------------------------
(* Calls.                                                                   *)

\* Every step of the sending threads, the client, the main loop and a shutdown
\* keeps the invariant.
LEMMA CallStep == CallInv /\ [Next]_vars => CallInv'
<1> SUFFICES ASSUME CallInv, [Next]_vars PROVE CallInv'
  OBVIOUS
<1> USE CallsAssumption, AnswersAssumption DEF CallInv, TypeOK, Done
<1>1. ASSUME NEW c \in Calls, RegisterFuture(c) PROVE CallInv'
  BY <1>1 DEF RegisterFuture, Bookkept
<1>2. ASSUME NEW c \in Calls, RecordType(c) PROVE CallInv'
  BY <1>2 DEF RecordType, Bookkept
<1>3. ASSUME NEW c \in Calls, Send(c) PROVE CallInv'
  BY <1>3 DEF Send, Bookkept
<1>4. ASSUME NEW c \in Calls, CancelAwait(c) PROVE CallInv'
  BY <1>4 DEF CancelAwait, Bookkept
<1>5. ASSUME NEW c \in Calls, PropagateCancel(c) PROVE CallInv'
  BY <1>5 DEF PropagateCancel, Bookkept
<1>6. ASSUME NEW c \in Calls, PropagateResult(c) PROVE CallInv'
  BY <1>6 DEF PropagateResult, Bookkept
<1>7. ASSUME NEW c \in Calls, NEW a \in Answers, Respond(c, a) PROVE CallInv'
  <2>1. answers' \in [Calls -> 0 .. MaxAnswers]
    BY <1>7 DEF Respond
  <2> QED
    BY <1>7, <2>1 DEF Respond, Bookkept
<1>8. ASSUME NEW c \in Calls, NEW a \in Answers, Receive(c, a) PROVE CallInv'
  <2>1. handled' = handled \cup {<<c, a>>} /\ UNCHANGED <<pc, awaited, answers, stopping>>
    BY <1>8 DEF Receive
  <2>2. \/ /\ a \in {"result", "error"}
           /\ registered' = registered \ {c}
           /\ \/ future' = [future EXCEPT ![c] = a] /\ future[c] = "pending"
              \/ UNCHANGED future
        \/ UNCHANGED <<future, registered>>
    BY <1>8 DEF Receive, HandleResponse
  <2>3. TypeOK'
    BY <1>8 DEF Receive, StructureMessage, HandleResponse
  <2>4. Bookkept'
    BY <2>1, <2>2 DEF Bookkept
  <2> QED
    BY <2>3, <2>4
<1>9. CASE Shutdown
  <2>1. \A c \in Calls : future'[c] = future[c] \/ (future[c] = "pending" /\ future'[c] = "cancelled")
    BY <1>9 DEF Shutdown
  <2>2. TypeOK'
    BY <1>9 DEF Shutdown
  <2> QED
    BY <1>9, <2>1, <2>2 DEF Shutdown, Bookkept
<1>10. CASE UNCHANGED vars
  BY <1>10 DEF vars, Bookkept
<1> QED
  BY <1>1, <1>2, <1>3, <1>4, <1>5, <1>6, <1>7, <1>8, <1>9, <1>10
  DEF Next, SendRequest, EventLoop

\* The invariant holds initially, and so in every reachable state.
LEMMA CallInvariant == Spec => []CallInv
<1>1. Init => CallInv
  <2>1. Init => TypeOK
    <3>1. 0 \in 0 .. MaxAnswers
      BY AnswersAssumption
    <3> QED
      BY <3>1, Zenon DEF Init, TypeOK
  <2>2. Init => Bookkept
    BY DEF Init, Bookkept
  <2> QED
    BY <2>1, <2>2 DEF CallInv
<1> QED
  BY <1>1, CallStep, PTL DEF Spec

\* The calls, futures and responses keep their types; no future gets a state
\* that _handle_response, a cancellation or a shutdown could not give it.
THEOREM TypeCorrect == Spec => []TypeOK
<1>1. CallInv => TypeOK
  BY DEF CallInv
<1> QED
  BY <1>1, CallInvariant, PTL

\* However many threads send and however fast the client answers, a request
\* that is out is registered until a response has been handled: no response
\* overtakes send_request, none is matched with a forgotten call.
THEOREM ResponsesFindTheirCall == Spec => []OutstandingIsRegistered
<1>1. CallInv => OutstandingIsRegistered
  BY DEF CallInv, Bookkept, OutstandingIsRegistered
<1> QED
  BY <1>1, CallInvariant, PTL

-----------------------------------------------------------------------------
(* Work done progress.                                                      *)

\* Every step of the tasks and of the client keeps the invariant.
LEMMA ProgressStep == ProgressInv /\ [ProgressNext]_progressVars => ProgressInv'
<1> SUFFICES ASSUME ProgressInv, [ProgressNext]_progressVars PROVE ProgressInv'
  OBVIOUS
<1> USE TasksAssumption DEF ProgressInv, ProgressTypeOK, Go
\* The check has found the token absent; if another create of it is under way,
\* that is a race.
<1>1. ASSUME NEW t \in Tasks, Create(t) PROVE ProgressInv'
  <2>1. ProgressTypeOK' /\ CreatesOnly' /\ CancelSticks'
    BY <1>1 DEF Create, NoteRace, CreatesOnly, UnderWay, CancelSticks
  <2>2. \A u \in Tasks \ {t} : UnderWay(u)' = UnderWay(u)
    BY <1>1 DEF Create, UnderWay
  <2>3. CASE tokens[TokenOf[t]] = "absent"
    <3>1. tokens' = tokens /\ raced' = IF Overlaps(t) THEN raced \cup {TokenOf[t]} ELSE raced
      BY <1>1, <2>3 DEF Create, NoteRace
    <3>2. ASSUME NEW u \in Tasks, UnderWay(u)', TokenOf[u] \notin raced'
          PROVE  ~Overlaps(u)' /\ (tokens'[TokenOf[u]] = "absent"
                                   \/ (u \in calling' /\ tokens'[TokenOf[u]] = "live"))
      <4>1. calling' = calling /\ TokenOf[u] \notin raced
        BY <1>1, <3>1, <3>2 DEF Create
      <4>2. CASE u = t
        <5>1. ~Overlaps(t)
          BY <3>1, <3>2, <4>2
        <5> QED
          BY <2>2, <2>3, <3>1, <4>2, <5>1 DEF Overlaps
      <4>3. CASE u # t
        <5>1. UnderWay(u)
          BY <2>2, <3>2, <4>3
        <5>2. TokenOf[u] # TokenOf[t]
          BY <3>1, <3>2, <4>3, <5>1 DEF Overlaps
        <5>3. ~Overlaps(u) /\ (tokens[TokenOf[u]] = "absent"
                               \/ (u \in calling /\ tokens[TokenOf[u]] = "live"))
          BY <4>1, <5>1 DEF Unannounced
        <5> QED
          BY <2>2, <3>1, <4>1, <5>2, <5>3 DEF Overlaps
      <4> QED
        BY <4>2, <4>3
    <3> QED
      BY <2>1, <3>2 DEF Unannounced
  <2>4. CASE tokens[TokenOf[t]] # "absent"
    <3>1. /\ UNCHANGED <<tokens, raced, calling>>
          /\ \A u \in Tasks : UnderWay(u)' => UnderWay(u)
      BY <1>1, <2>2, <2>4 DEF Create, UnderWay
    <3> QED
      BY <2>1, <3>1 DEF Unannounced, Overlaps
  <2> QED
    BY <2>3, <2>4
<1>2. ASSUME NEW t \in Tasks, Created(t) PROVE ProgressInv'
  <2>1. ProgressTypeOK' /\ CreatesOnly' /\ CancelSticks'
    BY <1>2 DEF Created, CreatesOnly, UnderWay, CancelSticks
  <2>2. /\ UNCHANGED <<tokens, raced>> /\ calling = {}
        /\ \A u \in Tasks : UnderWay(u)' => UnderWay(u)
    BY <1>2 DEF Created, UnderWay
  <2> QED
    BY <2>1, <2>2 DEF Unannounced, Overlaps
\* Without a race the token is absent, or live since the task's own begin, so
\* nobody has cancelled it.
<1>3. ASSUME NEW t \in Tasks, OnCreated(t) \/ ResumeCreate(t) PROVE ProgressInv'
  <2>1. ProgressTypeOK'
    BY <1>3 DEF OnCreated, ResumeCreate, RegisterToken
  <2>2. CreatesOnly'
    BY <1>3 DEF OnCreated, ResumeCreate, CreatesOnly, UnderWay
  <2>3. /\ UnderWay(t) /\ ~UnderWay(t)'
        /\ \A u \in Tasks : UnderWay(u)' => UnderWay(u)
        /\ \A u \in Tasks \ {t} : u \in calling => u \in calling'
        /\ RegisterToken(t) /\ UNCHANGED <<heeded, raced>>
    BY <1>3 DEF OnCreated, ResumeCreate, UnderWay, CreatesOnly
  <2>4. TokenOf[t] \notin raced => tokens[TokenOf[t]] # "cancelled"
    BY <2>3 DEF Unannounced
  <2>5. CancelSticks'
    BY <2>3, <2>4 DEF CancelSticks, RegisterToken
  <2>6. ASSUME NEW u \in Tasks, UnderWay(u)', TokenOf[u] \notin raced'
        PROVE  ~Overlaps(u)' /\ (tokens'[TokenOf[u]] = "absent"
                                 \/ (u \in calling' /\ tokens'[TokenOf[u]] = "live"))
    <3>1. UnderWay(u) /\ u # t /\ ~Overlaps(u)
      BY <2>3, <2>6 DEF Unannounced
    <3>2. TokenOf[u] # TokenOf[t]
      BY <2>3, <3>1 DEF Overlaps
    <3>3. tokens'[TokenOf[u]] = tokens[TokenOf[u]]
      BY <2>3, <3>2 DEF RegisterToken
    <3> QED
      BY <2>3, <2>6, <3>1, <3>3 DEF Unannounced, Overlaps
  <2> QED
    BY <2>1, <2>2, <2>5, <2>6 DEF Unannounced
<1>4. ASSUME NEW t \in Tasks, NotCreated(t) PROVE ProgressInv'
  <2>1. ProgressTypeOK' /\ CreatesOnly' /\ CancelSticks'
    BY <1>4 DEF NotCreated, CreatesOnly, UnderWay, CancelSticks
  <2>2. /\ UNCHANGED <<tokens, raced, calling>>
        /\ \A u \in Tasks : UnderWay(u)' => UnderWay(u)
    BY <1>4 DEF NotCreated, UnderWay
  <2> QED
    BY <2>1, <2>2 DEF Unannounced, Overlaps
\* A token that is registered now was absent, so a create of another task that
\* is under way makes a race of it.
<1>5. ASSUME NEW t \in Tasks, Begin(t) PROVE ProgressInv'
  <2>1. ProgressTypeOK'
    BY <1>5 DEF Begin, RegisterToken, NoteRace
  <2>2. CreatesOnly'
    BY <1>5 DEF Begin, CreatesOnly, UnderWay
  <2>3. CancelSticks'
    BY <1>5 DEF Begin, RegisterToken, NoteRace, CancelSticks
  <2>4. calling' = calling /\ \A u \in Tasks : UnderWay(u)' = UnderWay(u)
    BY <1>5 DEF Begin, UnderWay
  <2>5. \A u \in Tasks : Overlaps(u)' = Overlaps(u)
    BY <2>4 DEF Overlaps
  <2>6. UnderWay(t) => t \in calling
    BY <1>5 DEF Begin, UnderWay
  <2>7. CASE tokens[TokenOf[t]] = "absent"
    <3>1. RegisterToken(t) /\ NoteRace(t)
      BY <1>5, <2>7 DEF Begin
    <3>2. ASSUME NEW u \in Tasks, UnderWay(u)', TokenOf[u] \notin raced'
          PROVE  ~Overlaps(u)' /\ (tokens'[TokenOf[u]] = "absent"
                                   \/ (u \in calling' /\ tokens'[TokenOf[u]] = "live"))
      <4>1. UnderWay(u) /\ TokenOf[u] \notin raced
        BY <2>4, <3>1, <3>2 DEF NoteRace
      <4>2. TokenOf[u] = TokenOf[t] => u = t
        BY <3>1, <3>2, <4>1 DEF NoteRace, Overlaps
      <4>3. CASE u = t
        BY <2>4, <2>5, <2>6, <3>1, <4>1, <4>3 DEF Unannounced, RegisterToken
      <4>4. CASE TokenOf[u] # TokenOf[t]
        BY <2>4, <2>5, <3>1, <4>1, <4>4 DEF Unannounced, RegisterToken
      <4> QED
        BY <4>2, <4>3, <4>4
    <3> QED
      BY <2>1, <2>2, <2>3, <3>2 DEF Unannounced
  <2>8. CASE tokens[TokenOf[t]] # "absent"
    <3>1. UNCHANGED <<tokens, raced>>
      BY <1>5, <2>8 DEF Begin
    <3> QED
      BY <2>1, <2>2, <2>3, <2>4, <2>5, <3>1 DEF Unannounced
  <2> QED
    BY <2>7, <2>8
<1>6. ASSUME NEW t \in Tasks, Stop(t) \/ Finish(t) PROVE ProgressInv'
  <2>1. ProgressTypeOK' /\ CreatesOnly' /\ CancelSticks'
    BY <1>6 DEF Stop, Finish, CreatesOnly, UnderWay, CancelSticks
  <2>2. /\ UNCHANGED <<tokens, raced, calling>>
        /\ \A u \in Tasks : UnderWay(u)' => UnderWay(u)
    BY <1>6 DEF Stop, Finish, UnderWay
  <2> QED
    BY <2>1, <2>2 DEF Unannounced, Overlaps
<1>7. ASSUME NEW k \in Tokens, ClientCancels(k) PROVE ProgressInv'
  BY <1>7 DEF ClientCancels, CreatesOnly, UnderWay, Overlaps, Unannounced, CancelSticks
\* The main thread handles the notification, so no on_created is to run; a
\* create that is under way without a race has left the token absent.
<1>8. ASSUME NEW k \in Tokens, HandleCancel(k) PROVE ProgressInv'
  <2>1. ProgressTypeOK' /\ CreatesOnly' /\ CancelSticks'
    BY <1>8 DEF HandleCancel, CreatesOnly, UnderWay, CancelSticks
  <2>2. /\ calling = {} /\ UNCHANGED <<raced, calling>>
        /\ \A u \in Tasks : UnderWay(u)' = UnderWay(u)
        /\ \A l \in Tokens : tokens[l] = "absent" => tokens'[l] = "absent"
    BY <1>8 DEF HandleCancel, UnderWay
  <2> QED
    BY <2>1, <2>2 DEF Unannounced, Overlaps
<1>9. CASE UNCHANGED progressVars
  BY <1>9 DEF progressVars, CreatesOnly, UnderWay, Overlaps, Unannounced, CancelSticks
<1> QED
  BY <1>1, <1>2, <1>3, <1>4, <1>5, <1>6, <1>7, <1>8, <1>9 DEF ProgressNext

LEMMA ProgressInvariant == ProgressSpec => []ProgressInv
<1>1. ProgressInit => ProgressInv
  BY TasksAssumption
  DEF ProgressInit, ProgressInv, ProgressTypeOK, CreatesOnly, UnderWay, Unannounced, CancelSticks
<1> QED
  BY <1>1, ProgressStep, PTL DEF ProgressSpec

\* Any tasks may use any tokens, also the same ones: the future of a token is
\* not replaced once the client has cancelled it, unless a create of that token
\* overlapped with another task's create or first begin.
THEOREM CancelledForGood == ProgressSpec => []CancelSticks
<1>1. ProgressInv => CancelSticks
  BY DEF ProgressInv
<1> QED
  BY <1>1, ProgressInvariant, PTL

=============================================================================
