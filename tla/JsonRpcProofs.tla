--------------------------- MODULE JsonRpcProofs ---------------------------
(* Proofs about JsonRpc, for any sets of requests and notifications.        *)
EXTENDS JsonRpc, FiniteSetTheorems, TLAPS

-----------------------------------------------------------------------------
(* Futures' keys, and the number of registered futures.                     *)

\* Every key is the "main" or the "sub" key of one job, and never both.
LEMMA Keys ==
  /\ \A j \in Jobs : Main(j) \in Id /\ Sub(j) \in Id
  /\ \A j, k \in Jobs : Main(j) # Sub(k)
  /\ \A j, k \in Jobs : Main(j) = Main(k) => j = k
  /\ \A j, k \in Jobs : Sub(j) = Sub(k) => j = k
  /\ \A i \in Id : i[1] \in Jobs /\ (i = Main(i[1]) \/ i = Sub(i[1]))
  /\ \A j \in Jobs : Main(j)[1] = j /\ Sub(j)[1] = j
BY DEF Id, Main, Sub

\* RequestJobs and Notifications partition the jobs.
LEMMA JobKinds ==
  /\ Shutdown \in Jobs /\ Shutdown \in RequestJobs /\ Shutdown \notin Notifications
  /\ Exit \in Jobs /\ Exit \in Notifications /\ Exit # Shutdown
  /\ RequestJobs \subseteq Jobs /\ Notifications \subseteq Jobs
  /\ \A j \in Jobs : j \in RequestJobs <=> j \notin Notifications
BY JobsAssumption DEF Jobs, RequestJobs

\* `_request_futures` is finite, so it has a size.
LEMMA RegisteredSize == Cardinality(Registered) \in Nat
<1>1. IsFiniteSet(Jobs)
  BY JobsAssumption, FS_Union, FS_Singleton DEF Jobs
<1>2. IsFiniteSet({"main", "sub"})
  <2>1. IsFiniteSet({"main"}) /\ IsFiniteSet({"sub"})
    BY FS_Singleton
  <2>2. {"main", "sub"} = {"main"} \cup {"sub"}
    OBVIOUS
  <2> QED
    BY <2>1, <2>2, FS_Union
<1>3. IsFiniteSet(Id)
  BY <1>1, <1>2, FS_Product DEF Id
<1>4. Registered \subseteq Id
  BY DEF Registered
<1> QED
  BY <1>3, <1>4, FS_Subset, FS_CardinalityType

-----------------------------------------------------------------------------
(* Type correctness.                                                        *)

\* Answering a job and settling its future keep the types of what they change.
LEMMA FinishJobType ==
  ASSUME TypeOK, NEW j \in Jobs, NEW out \in Done, FinishJob(j, out)
  PROVE  /\ rank' \in [Id -> Nat]
         /\ replies' \in [RequestJobs -> Nat]
         /\ verdict' \in [RequestJobs -> {"none"} \cup Done]
         /\ reported' \subseteq Jobs
<1>1. CASE j \in Notifications
  BY <1>1 DEF FinishJob, CheckHandlerResult, TypeOK
<1>2. CASE j \notin Notifications
  <2>1. j \in RequestJobs /\ Main(j) \in Id
    BY <1>2, JobKinds, Keys
  <2> QED
    BY <1>2, <2>1 DEF FinishJob, SendHandlerResult, SendResponse, TypeOK
<1> QED
  BY <1>1, <1>2

\* The types of everything a settled future, or an untouched one, leaves.
SettledType ==
  /\ future' \in [Id -> {"none", "pending", "running"} \cup Done]
  /\ called' \subseteq Id
  /\ rank' \in [Id -> Nat]
  /\ replies' \in [RequestJobs -> Nat]
  /\ verdict' \in [RequestJobs -> {"none"} \cup Done]
  /\ reported' \subseteq Jobs

LEMMA SettleType ==
  ASSUME TypeOK, NEW j \in Jobs, NEW out \in Done,
         NEW f \in [Id -> {"none", "pending", "running"} \cup Done],
         NEW c \in SUBSET Id
  PROVE  /\ Settle(f, c, j, out) => SettledType
         /\ SettleUnlessDone(f, c, j, out) => SettledType
<1>1. Main(j) \in Id
  BY Keys
<1>2. Settle(f, c, j, out) => SettledType
  BY <1>1, FinishJobType DEF Settle, SettledType
<1>3. SettleUnlessDone(f, c, j, out) => SettledType
  BY <1>2 DEF SettleUnlessDone, SettledType, TypeOK, outVars
<1> QED
  BY <1>2, <1>3

LEMMA ResumeType ==
  ASSUME TypeOK, NEW j \in Jobs, NEW out \in Done,
         NEW f \in [Id -> {"none", "pending", "running"} \cup Done],
         Resume(f, j, out)
  PROVE  SettledType /\ gen' \in [Jobs -> {"none", "running", "waiting", "closed"}]
<1>1. called \cup {Sub(j)} \in SUBSET Id
  BY Keys DEF TypeOK
<1>2. "error" \in Done
  BY DEF Done
<1>3. SettledType
  BY <1>1, <1>2, SettleType DEF Resume, ResumeWith, SettledType, TypeOK, outVars
<1>4. gen' \in [Jobs -> {"none", "running", "waiting", "closed"}]
  BY DEF Resume, TypeOK
<1> QED
  BY <1>3, <1>4

\* Every step keeps the types, one action at a time.
LEMMA TypeStep == TypeOK /\ [Next]_vars => TypeOK'
<1> SUFFICES ASSUME TypeOK, [Next]_vars PROVE TypeOK'
  OBVIOUS
<1> USE DEF Done
<1>1. ASSUME NEW j \in Jobs, HandleUnknownMethod(j) PROVE TypeOK'
  BY <1>1, JobKinds DEF HandleUnknownMethod, Accept, SendResponse, TypeOK
<1>2. ASSUME NEW j \in Jobs, HandleSync(j) PROVE TypeOK'
  <2>1. PICK out \in Done \ {"cancelled"} : FinishJob(j, out)
    BY <1>2 DEF HandleSync
  <2> QED
    BY <1>2, <2>1, FinishJobType DEF HandleSync, Accept, TypeOK
<1>3. ASSUME NEW j \in Jobs, HandleAsync(j) PROVE TypeOK'
  BY <1>3, Keys DEF HandleAsync, Accept, Register, TypeOK
<1>4. ASSUME NEW j \in Jobs, HandleThread(j) PROVE TypeOK'
  BY <1>4, Keys DEF HandleThread, Accept, TypeOK
<1>5. ASSUME NEW j \in Jobs, HandleGenerator(j) PROVE TypeOK'
  BY <1>5, Keys DEF HandleGenerator, Accept, Register, TypeOK
<1>6. ASSUME NEW r \in RequestJobs, Cancel(r) PROVE TypeOK'
  <2>1. r \in Jobs /\ Main(r) \in Id
    BY Keys, JobKinds
  <2>2. CASE Settle(future, called, r, "cancelled") /\ UNCHANGED cancelling
    <3>1. SettledType
      BY <2>1, <2>2, SettleType DEF TypeOK
    <3> QED
      BY <1>6, <2>2, <3>1 DEF Cancel, TypeOK, SettledType
  <2>3. CASE ~(Settle(future, called, r, "cancelled") /\ UNCHANGED cancelling)
    BY <1>6, <2>1, <2>3 DEF Cancel, TypeOK
  <2> QED
    BY <2>2, <2>3
<1>7. ASSUME NEW j \in Jobs, StartGenerator(j) PROVE TypeOK'
  <2>1. CASE future[Main(j)] = "cancelled"
    <3>1. FinishJob(j, "cancelled")
      BY <1>7, <2>1 DEF StartGenerator
    <3>2. main' \in [at : {"idle", "submitted", "registered", "generator", "exited"}, on : Id]
      BY <1>7, <2>1, Keys, JobKinds DEF StartGenerator, Idle
    <3> QED
      BY <1>7, <2>1, <3>1, <3>2, Keys, FinishJobType DEF StartGenerator, TypeOK
  <2>2. CASE future[Main(j)] # "cancelled"
    <3>1. main' \in [at : {"idle", "submitted", "registered", "generator", "exited"}, on : Id]
      BY <1>7, <2>2 DEF StartGenerator, TypeOK
    <3> QED
      BY <1>7, <2>2, <3>1 DEF StartGenerator, TypeOK, outVars
  <2> QED
    BY <2>1, <2>2
<1>8. ASSUME NEW j \in Jobs, YieldSync(j) PROVE TypeOK'
  <2>1. PICK out \in {"result", "error"} :
          ResumeOnMain([future EXCEPT ![Sub(j)] = out], j, out)
    BY <1>8 DEF YieldSync
  <2>2. [future EXCEPT ![Sub(j)] = out] \in [Id -> {"none", "pending", "running"} \cup Done]
    BY Keys DEF TypeOK
  <2>3. SettledType /\ gen' \in [Jobs -> {"none", "running", "waiting", "closed"}]
    BY <2>1, <2>2, ResumeType DEF ResumeOnMain
  <2> QED
    <3>1. main' \in [at : {"idle", "submitted", "registered", "generator", "exited"}, on : Id]
      BY <2>1, Keys, JobKinds DEF ResumeOnMain, Idle
    <3> QED
      BY <1>8, <2>3, <3>1, Keys DEF YieldSync, Yields, TypeOK, SettledType
<1>9. ASSUME NEW j \in Jobs, YieldAsync(j) PROVE TypeOK'
  BY <1>9, Keys, JobKinds DEF YieldAsync, Yields, Register, Idle, TypeOK
<1>10. ASSUME NEW j \in Jobs, YieldThread(j) PROVE TypeOK'
  BY <1>10, Keys DEF YieldThread, Yields, TypeOK
<1>11. ASSUME NEW j \in Jobs, GenReturn(j) PROVE TypeOK'
  <2>1. PICK out \in Done \ {"cancelled"} :
          IF kind[Sub(j)] = "none" /\ future[Main(j)] \in Done
            THEN DispatchError(j) /\ UNCHANGED <<future, called>>
            ELSE SettleUnlessDone(future, called, j, out)
    BY <1>11 DEF GenReturn
  <2>2. DispatchError(j) /\ UNCHANGED <<future, called>> => SettledType
    BY JobKinds DEF DispatchError, SendResponse, SettledType, TypeOK
  <2>3. SettledType
    BY <2>1, <2>2, SettleType DEF TypeOK
  <2> QED
    BY <1>11, <2>3, Keys, JobKinds
    DEF GenReturn, LeaveMain, Idle, TypeOK, SettledType
<1>12. CASE SweepBegin
  BY <1>12, RegisteredSize DEF SweepBegin, TypeOK
<1>13. ASSUME NEW i \in Id, SweepNext(i)
       PROVE  sweep' \in [phase : {"off", "on", "end", "over"}, cursor : Nat,
                          size : Nat, left : Nat]
  <2>1. sweep.left \in Nat /\ sweep.left # 0 /\ rank[i] \in Nat
    BY <1>13 DEF SweepNext, DictChanged, TypeOK
  <2>2. sweep.left - 1 \in Nat
    BY <2>1
  <2>3. sweep' = [sweep EXCEPT !.cursor = rank[i], !.left = sweep.left - 1]
    BY <1>13 DEF SweepNext
  <2> QED
    BY <2>1, <2>2, <2>3 DEF TypeOK
<1>14. ASSUME NEW i \in Id, SweepSkip(i) PROVE TypeOK'
  BY <1>13, <1>14 DEF SweepSkip, SweepNext, TypeOK, outVars
<1>15. ASSUME NEW i \in Id, SweepTask(i) PROVE TypeOK'
  BY <1>13, <1>15 DEF SweepTask, SweepNext, TypeOK, outVars
<1>16. ASSUME NEW i \in Id, SweepFuture(i) PROVE TypeOK'
  <2>1. i[1] \in Jobs
    BY Keys
  <2>2. [future EXCEPT ![i] = "cancelled"] \in [Id -> {"none", "pending", "running"} \cup Done]
    BY DEF TypeOK
  <2>3. SettledType /\ gen' \in [Jobs -> {"none", "running", "waiting", "closed"}]
    <3>1. CASE /\ future' = [future EXCEPT ![i] = "cancelled"]
               /\ UNCHANGED <<called, gen, outVars>>
      BY <2>2, <3>1 DEF TypeOK, SettledType, outVars
    <3>2. CASE Settle(future, called, i[1], "cancelled") /\ UNCHANGED gen
      BY <2>1, <3>2, SettleType DEF TypeOK
    <3>3. CASE Resume([future EXCEPT ![i] = "cancelled"], i[1], "cancelled")
      BY <2>1, <2>2, <3>3, ResumeType
    <3> QED
      BY <1>16, <3>1, <3>2, <3>3 DEF SweepFuture
  <2> QED
    BY <1>13, <1>16, <2>3 DEF SweepFuture, SweepNext, TypeOK, SettledType
<1>17. ASSUME NEW out \in Done, EndShutdown(out), shutdown' \in BOOLEAN PROVE TypeOK'
  <2>1. SettledType
    BY <1>17, JobKinds, SettleType DEF EndShutdown, TypeOK
  <2> QED
    BY <1>17, <2>1, Keys, JobKinds, SMTT(30)
    DEF EndShutdown, LeaveMain, Idle, NoSweep, TypeOK, SettledType
<1>18. CASE SweepError
  BY <1>17, <1>18 DEF SweepError, TypeOK
<1>19. CASE SweepEnd
  BY <1>19 DEF SweepEnd, TypeOK
<1>20. CASE ShutdownReturn
  BY <1>17, <1>20 DEF ShutdownReturn
<1>21. ASSUME NEW i \in Id, TaskStart(i) PROVE TypeOK'
  BY <1>21 DEF TaskStart, TypeOK, outVars
<1>22. ASSUME NEW i \in Id, TaskEnd(i) PROVE TypeOK'
  BY <1>22 DEF TaskEnd, Outcomes, TypeOK, outVars
<1>23. ASSUME NEW i \in Id, CallbackOnMain(i), future[i] \in Done
       PROVE  /\ SettledType
              /\ gen' \in [Jobs -> {"none", "running", "waiting", "closed"}]
              /\ main' \in [at : {"idle", "submitted", "registered", "generator", "exited"}, on
                : Id]
  <2>1. i[1] \in Jobs
    BY Keys
  <2>2. CASE /\ called' = called \cup {i}
             /\ FinishJob(i[1], future[i])
             /\ main' = Idle
             /\ UNCHANGED <<future, gen>>
    BY <1>23, <2>1, <2>2, FinishJobType, Keys, JobKinds DEF TypeOK, SettledType, Idle
  <2>3. CASE ResumeOnMain(future, i[1], future[i])
    BY <1>23, <2>1, <2>3, ResumeType, Keys, JobKinds DEF TypeOK, ResumeOnMain, Idle
  <2> QED
    BY <1>23, <2>2, <2>3 DEF CallbackOnMain
<1>24. ASSUME NEW i \in Id, TaskCallback(i) PROVE TypeOK'
  BY <1>23, <1>24 DEF TaskCallback, TypeOK, SettledType
<1>25. CASE RegisterThread
  BY <1>25 DEF RegisterThread, Register, TypeOK
<1>26. CASE AttachThread
  <2>1. CASE future[main.on] \in Done
    BY <1>23, <1>26, <2>1 DEF AttachThread, TypeOK, SettledType
  <2>2. CASE future[main.on] \notin Done
    BY <1>26, <2>2, Keys, JobKinds DEF AttachThread, TypeOK, outVars, Idle
  <2> QED
    BY <2>1, <2>2
<1>27. ASSUME NEW i \in Id, ThreadStart(i) PROVE TypeOK'
  BY <1>27 DEF ThreadStart, TypeOK, outVars
<1>28. ASSUME NEW i \in Id, ThreadEnd(i) PROVE TypeOK'
  BY <1>28 DEF ThreadEnd, Outcomes, TypeOK, outVars
<1>29. ASSUME NEW i \in Id, ThreadCallback(i) PROVE TypeOK'
  <2>1. i[1] \in Jobs
    BY Keys
  <2>2. SettledType /\ gen' \in [Jobs -> {"none", "running", "waiting", "closed"}]
    <3>1. CASE /\ called' = called \cup {i}
               /\ FinishJob(i[1], future[i])
               /\ UNCHANGED <<future, gen>>
      BY <1>29, <2>1, <3>1, FinishJobType DEF ThreadCallback, TypeOK, SettledType
    <3>2. CASE Resume(future, i[1], future[i])
      BY <1>29, <2>1, <3>2, ResumeType DEF ThreadCallback, TypeOK
    <3> QED
      BY <1>29, <3>1, <3>2 DEF ThreadCallback
  <2> QED
    BY <1>29, <2>2 DEF ThreadCallback, TypeOK, SettledType
<1>30. CASE SystemExit \/ WriterClosed
  <2>1. main' \in [at : {"idle", "submitted", "registered", "generator", "exited"}, on : Id]
    BY <1>30, Keys, JobKinds DEF SystemExit, WriterClosed, Exited, TypeOK
  <2> QED
    BY <1>30, <2>1, JobKinds DEF SystemExit, WriterClosed, outVars, TypeOK
<1>31. CASE UNCHANGED vars
  BY <1>31 DEF vars, TypeOK
<1> QED
  BY <1>1, <1>2, <1>3, <1>4, <1>5, <1>6, <1>7, <1>8, <1>9, <1>10, <1>11, <1>12,
     <1>14, <1>15, <1>16, <1>18, <1>19, <1>20, <1>21, <1>22, <1>24, <1>25, <1>26,
     <1>27, <1>28, <1>29, <1>30, <1>31
  DEF Next, Receive, Generator, Task, Worker, ShutdownStep, ExitStep

\* The initial state is well typed.
LEMMA TypeInit == Init => TypeOK
<1> SUFFICES ASSUME Init PROVE TypeOK
  OBVIOUS
<1>1. Idle \in [at : {"idle", "submitted", "registered", "generator", "exited"}, on : Id]
  BY Keys, JobKinds DEF Idle
<1>2. NoSweep \in [phase : {"off", "on", "end", "over"}, cursor : Nat, size : Nat, left : Nat]
  BY DEF NoSweep
<1>3. main = Idle /\ sweep = NoSweep
  BY DEF Init
<1>4. /\ kind \in [Id -> {"none", "sync", "async", "thread", "generator"}]
      /\ future \in [Id -> {"none", "pending", "running"} \cup Done]
      /\ rank \in [Id -> Nat] /\ inserted \in Nat
      /\ gen \in [Jobs -> {"none", "running", "waiting", "closed"}]
      /\ replies \in [RequestJobs -> Nat]
      /\ verdict \in [RequestJobs -> {"none"} \cup Done]
  BY DEF Init
<1>5. /\ received = {} /\ cancelling = {} /\ called = {} /\ asked = {} /\ reported = {}
      /\ shutdown \in BOOLEAN
  BY DEF Init
<1> QED
  BY <1>1, <1>2, <1>3, <1>4, <1>5 DEF TypeOK

\* Every reachable state of the protocol is well typed: in particular a
\* dictionary loop never counts below zero.
THEOREM TypeCorrect == Spec => []TypeOK
  BY TypeInit, TypeStep, PTL DEF Spec

-----------------------------------------------------------------------------
(* The invariant of the futures.                                            *)

\* What answering a job does to its request, and only to that one.
LEMMA FinishEffect ==
  ASSUME TypeOK, NEW j \in Jobs, NEW out, FinishJob(j, out)
  PROVE  /\ rank' = IF j \in RequestJobs THEN [rank EXCEPT ![Main(j)] = 0] ELSE rank
         /\ replies' = IF j \in RequestJobs THEN [replies EXCEPT ![j] = @ + 1] ELSE replies
         /\ verdict' = IF j \in RequestJobs THEN [verdict EXCEPT ![j] = out] ELSE verdict
BY JobKinds, Keys DEF FinishJob, CheckHandlerResult, SendHandlerResult, SendResponse

\* Taking futures out of `_request_futures` does not disturb their order.
LEMMA OrderKept ==
  ASSUME TypeOK, InsertionOrder, TypeOK', UNCHANGED inserted,
         sweep'.cursor <= inserted,
         \A i \in Id : rank'[i] = 0 \/ rank'[i] = rank[i]
  PROVE  InsertionOrder'
<1>1. \A i \in Id : rank[i] \in Nat /\ rank'[i] \in Nat
  BY DEF TypeOK
<1>2. inserted \in Nat
  BY DEF TypeOK
<1>3. \A i \in Id : rank'[i] <= inserted'
  BY <1>1, <1>2 DEF InsertionOrder
<1>4. \A i, k \in Id : rank'[i] = rank'[k] /\ rank'[i] > 0 => i = k
  BY <1>1 DEF InsertionOrder
<1>5. \A j \in Jobs : rank'[Sub(j)] > 0 => rank'[Main(j)] < rank'[Sub(j)]
  BY <1>1, Keys DEF InsertionOrder
<1> QED
  BY <1>3, <1>4, <1>5 DEF InsertionOrder

\* The loop of lsp_shutdown passes one key at a time.
LEMMA SweepPasses ==
  ASSUME TypeOK, InsertionOrder, NEW i \in Id, SweepNext(i)
  PROVE  /\ sweep.phase = "on" /\ sweep'.phase = "on" /\ sweep'.cursor = rank[i]
         /\ \A k \in Id : rank[k] <= rank[i] => rank[k] <= sweep.cursor \/ k = i
<1>1. sweep.cursor \in Nat /\ \A k \in Id : rank[k] \in Nat
  BY DEF TypeOK
<1>2. rank[i] > sweep.cursor /\ \A k \in Id : rank[k] > sweep.cursor => rank[i] <= rank[k]
  BY DEF SweepNext
<1>3. sweep.phase = "on" /\ sweep'.phase = "on" /\ sweep'.cursor = rank[i]
  BY DEF SweepNext, TypeOK
<1>4. ASSUME NEW k \in Id, rank[k] <= rank[i], ~(rank[k] <= sweep.cursor) PROVE k = i
  BY <1>1, <1>2, <1>4 DEF InsertionOrder
<1> QED
  BY <1>3, <1>4

\* Every step keeps FutureInv, wherever lsp_shutdown runs.
LEMMA FutureStep == FutureInv /\ [Next]_vars => FutureInv'
<1> SUFFICES ASSUME FutureInv, [Next]_vars PROVE FutureInv'
  OBVIOUS
<1> USE Keys, JobKinds DEF FutureInv, Done
<1>t. TypeOK'
  BY TypeStep
<1>1. ASSUME NEW j \in Jobs, HandleUnknownMethod(j) PROVE FutureInv'
  <2>1. /\ Fresh' /\ FutureLife' /\ GeneratorWaits' /\ Attaching'
       /\ UnregisteredIsOver' /\ InsertionOrder' /\ Sweeping' /\ CancelledInOrder'
       /\ CancelledForAReason' /\ NoOrphanedGenerator'
    BY <1>1
    DEF TypeOK, HandleUnknownMethod, Accept, SendResponse, Fresh, FutureLife,
      GeneratorWaits, Attaching, UnregisteredIsOver, InsertionOrder, Sweeping,
      CancelledInOrder, CancelledForAReason, NoOrphanedGenerator
  <2>2. AnsweredByCallback'
    BY <1>1
    DEF TypeOK, HandleUnknownMethod, Accept, SendResponse, AnsweredByCallback, Fresh,
      FutureLife, GeneratorWaits
  <2> QED
    BY <1>t, <2>1, <2>2
<1>2. ASSUME NEW j \in Jobs, HandleSync(j) PROVE FutureInv'
  <2>1. /\ Fresh' /\ FutureLife' /\ GeneratorWaits' /\ Attaching'
       /\ CancelledInOrder' /\ CancelledForAReason' /\ NoOrphanedGenerator'
    BY <1>2, FinishEffect
    DEF TypeOK, HandleSync, Accept, Fresh, FutureLife, GeneratorWaits, Attaching,
      CancelledInOrder, CancelledForAReason, NoOrphanedGenerator
  <2>2. AnsweredByCallback'
    BY <1>2, FinishEffect
    DEF TypeOK, HandleSync, Accept, AnsweredByCallback, Fresh, FutureLife, GeneratorWaits
  <2>3. UnregisteredIsOver'
    BY <1>2, FinishEffect
    DEF TypeOK, HandleSync, Accept, UnregisteredIsOver, Fresh, FutureLife, GeneratorWaits
  <2>4. InsertionOrder'
    <3>1. \A k \in Id : rank'[k] = 0 \/ rank'[k] = rank[k]
      BY <1>2, FinishEffect
      DEF TypeOK, HandleSync, Accept
    <3>2. inserted' = inserted /\ sweep'.cursor <= inserted
      BY <1>2
      DEF TypeOK, HandleSync, Accept, InsertionOrder
    <3> QED
      BY <1>t, <3>1, <3>2, OrderKept
  <2>5. Sweeping'
    BY <1>2, FinishEffect
    DEF TypeOK, HandleSync, Accept, Sweeping, Fresh, FutureLife, GeneratorWaits
  <2> QED
    BY <1>t, <2>1, <2>2, <2>3, <2>4, <2>5
<1>3. ASSUME NEW j \in Jobs, HandleAsync(j) PROVE FutureInv'
  <2>1. /\ Fresh' /\ Attaching' /\ UnregisteredIsOver' /\ Sweeping'
       /\ CancelledForAReason'
    BY <1>3
    DEF TypeOK, HandleAsync, Accept, Register, Fresh, Attaching, UnregisteredIsOver,
      Sweeping, CancelledForAReason
  <2>2. FutureLife'
    BY <1>3
    DEF TypeOK, HandleAsync, Accept, Register, FutureLife, Fresh, GeneratorWaits
  <2>3. GeneratorWaits'
    BY <1>3
    DEF TypeOK, HandleAsync, Accept, Register, GeneratorWaits, Fresh, FutureLife
  <2>4. AnsweredByCallback'
    BY <1>3
    DEF TypeOK, HandleAsync, Accept, Register, AnsweredByCallback, Fresh, FutureLife,
      GeneratorWaits
  <2>5. InsertionOrder'
    BY <1>3
    DEF TypeOK, HandleAsync, Accept, Register, InsertionOrder, Fresh, FutureLife,
      GeneratorWaits
  <2>6. CancelledInOrder'
    BY <1>3
    DEF TypeOK, HandleAsync, Accept, Register, CancelledInOrder, Fresh, FutureLife,
      GeneratorWaits
  <2>7. NoOrphanedGenerator'
    BY <1>3
    DEF TypeOK, HandleAsync, Accept, Register, NoOrphanedGenerator, Fresh, FutureLife,
      GeneratorWaits
  <2> QED
    BY <1>t, <2>1, <2>2, <2>3, <2>4, <2>5, <2>6, <2>7
<1>4. ASSUME NEW j \in Jobs, HandleThread(j) PROVE FutureInv'
  <2>1. /\ Fresh' /\ UnregisteredIsOver' /\ InsertionOrder' /\ Sweeping'
       /\ CancelledForAReason'
    BY <1>4
    DEF TypeOK, HandleThread, Accept, Fresh, UnregisteredIsOver, InsertionOrder, Sweeping,
      CancelledForAReason
  <2>2. FutureLife'
    BY <1>4
    DEF TypeOK, HandleThread, Accept, FutureLife, Fresh, GeneratorWaits
  <2>3. GeneratorWaits'
    BY <1>4
    DEF TypeOK, HandleThread, Accept, GeneratorWaits, Fresh, FutureLife
  <2>4. Attaching'
    BY <1>4
    DEF TypeOK, HandleThread, Accept, Attaching, Fresh, FutureLife, GeneratorWaits
  <2>5. AnsweredByCallback'
    BY <1>4
    DEF TypeOK, HandleThread, Accept, AnsweredByCallback, Fresh, FutureLife,
      GeneratorWaits
  <2>6. CancelledInOrder'
    BY <1>4
    DEF TypeOK, HandleThread, Accept, CancelledInOrder, Fresh, FutureLife, GeneratorWaits
  <2>7. NoOrphanedGenerator'
    BY <1>4
    DEF TypeOK, HandleThread, Accept, NoOrphanedGenerator, Fresh, FutureLife,
      GeneratorWaits
  <2> QED
    BY <1>t, <2>1, <2>2, <2>3, <2>4, <2>5, <2>6, <2>7
<1>5. ASSUME NEW j \in Jobs, HandleGenerator(j) PROVE FutureInv'
  <2>1. Fresh' /\ GeneratorWaits' /\ UnregisteredIsOver' /\ CancelledForAReason'
    BY <1>5
    DEF TypeOK, HandleGenerator, Accept, Register, Fresh, GeneratorWaits,
      UnregisteredIsOver, CancelledForAReason
  <2>2. FutureLife'
    BY <1>5
    DEF TypeOK, HandleGenerator, Accept, Register, FutureLife, Fresh, GeneratorWaits
  <2>3. Attaching'
    BY <1>5
    DEF TypeOK, HandleGenerator, Accept, Register, Attaching, Fresh, FutureLife,
      GeneratorWaits
  <2>4. AnsweredByCallback'
    BY <1>5
    DEF TypeOK, HandleGenerator, Accept, Register, AnsweredByCallback, Fresh, FutureLife,
      GeneratorWaits
  <2>5. InsertionOrder'
    BY <1>5
    DEF TypeOK, HandleGenerator, Accept, Register, InsertionOrder, Fresh, FutureLife,
      GeneratorWaits
  <2>6. Sweeping'
    BY <1>5
    DEF TypeOK, HandleGenerator, Accept, Register, Sweeping, InsertionOrder, Fresh
  <2>7. CancelledInOrder'
    BY <1>5
    DEF TypeOK, HandleGenerator, Accept, Register, CancelledInOrder, Fresh, FutureLife,
      GeneratorWaits
  <2>8. NoOrphanedGenerator'
    BY <1>5
    DEF TypeOK, HandleGenerator, Accept, Register, NoOrphanedGenerator, Fresh, FutureLife,
      GeneratorWaits
  <2> QED
    BY <1>t, <2>1, <2>2, <2>3, <2>4, <2>5, <2>6, <2>7, <2>8
<1>6. ASSUME NEW r \in RequestJobs, Cancel(r) PROVE FutureInv'
  <2>1. Fresh'
    BY <1>6, FinishEffect
    DEF TypeOK, Cancel, Settle, Registered, Fresh, FutureLife, GeneratorWaits, Attaching,
      Sweeping
  <2>2. FutureLife'
    BY <1>6, FinishEffect
    DEF TypeOK, Cancel, Settle, Registered, FutureLife
  <2>3. GeneratorWaits'
    BY <1>6, FinishEffect
    DEF TypeOK, Cancel, Settle, Registered, GeneratorWaits
  <2>4. Attaching'
    BY <1>6, FinishEffect
    DEF TypeOK, Cancel, Settle, Registered, Attaching
  <2>5. AnsweredByCallback'
    BY <1>6, FinishEffect
    DEF TypeOK, Cancel, Settle, Registered, AnsweredByCallback
  <2>6. UnregisteredIsOver'
    BY <1>6, FinishEffect
    DEF TypeOK, Cancel, Settle, Registered, UnregisteredIsOver, GeneratorWaits, FutureLife
  <2>7. InsertionOrder'
    <3>1. \A k \in Id : rank'[k] = 0 \/ rank'[k] = rank[k]
      BY <1>6, FinishEffect
      DEF TypeOK, Cancel, Settle, Registered
    <3>2. inserted' = inserted /\ sweep'.cursor <= inserted
      BY <1>6
      DEF TypeOK, Cancel, Settle, Registered, InsertionOrder
    <3> QED
      BY <1>t, <3>1, <3>2, OrderKept
  <2>8. Sweeping'
    BY <1>6, FinishEffect
    DEF TypeOK, Cancel, Settle, Registered, Sweeping, GeneratorWaits
  <2>9. CancelledInOrder'
    BY <1>6, FinishEffect
    DEF TypeOK, Cancel, Settle, Registered, CancelledInOrder
  <2>10. CancelledForAReason'
    BY <1>6, FinishEffect
    DEF TypeOK, Cancel, Settle, Registered, CancelledForAReason
  <2>11. NoOrphanedGenerator'
    BY <1>6, FinishEffect
    DEF TypeOK, Cancel, Settle, Registered, NoOrphanedGenerator, FutureLife,
      GeneratorWaits, Fresh, Attaching, Sweeping
  <2> QED
    BY <1>t, <2>1, <2>2, <2>3, <2>4, <2>5, <2>6, <2>7, <2>8, <2>9, <2>10, <2>11
<1>7. ASSUME NEW j \in Jobs, StartGenerator(j) PROVE FutureInv'
  <2>1. Fresh'
    BY <1>7, FinishEffect
    DEF TypeOK, StartGenerator, outVars, Idle, Fresh
  <2>2. FutureLife'
    BY <1>7, FinishEffect
    DEF TypeOK, StartGenerator, outVars, Idle, FutureLife
  <2>3. GeneratorWaits'
    BY <1>7, FinishEffect
    DEF TypeOK, StartGenerator, outVars, Idle, GeneratorWaits, FutureLife, Fresh,
      Attaching, Sweeping
  <2>4. Attaching'
    BY <1>7, FinishEffect
    DEF TypeOK, StartGenerator, outVars, Idle, Attaching
  <2>5. AnsweredByCallback'
    BY <1>7, FinishEffect
    DEF TypeOK, StartGenerator, outVars, Idle, AnsweredByCallback
  <2>6. UnregisteredIsOver'
    <3>1. CASE future[Main(j)] = "cancelled"
      <4>1. \A k \in Id : rank'[k] = rank[k] \/ k = Main(j)
        BY <1>7, <3>1, FinishEffect DEF StartGenerator, TypeOK
      <4> QED
        BY <1>7, <3>1, <4>1 DEF StartGenerator, UnregisteredIsOver
    <3>2. CASE future[Main(j)] # "cancelled"
      BY <1>7, <3>2 DEF StartGenerator, outVars, UnregisteredIsOver
    <3> QED
      BY <3>1, <3>2
  <2>7. InsertionOrder'
    <3>1. \A k \in Id : rank'[k] = 0 \/ rank'[k] = rank[k]
      BY <1>7, FinishEffect
      DEF TypeOK, StartGenerator, outVars, Idle
    <3>2. inserted' = inserted /\ sweep'.cursor <= inserted
      BY <1>7
      DEF TypeOK, StartGenerator, outVars, Idle, InsertionOrder
    <3> QED
      BY <1>t, <3>1, <3>2, OrderKept
  <2>8. Sweeping'
    <3>1. UNCHANGED <<kind, future, sweep>>
      BY <1>7 DEF StartGenerator
    <3>2. gen[j] # "running"
      BY <1>7 DEF StartGenerator, TypeOK, GeneratorWaits, Attaching, FutureLife, Fresh
    <3>3. sweep.phase \in {"on", "end"} => gen'[Shutdown] = "running"
      BY <1>7, <3>2 DEF StartGenerator, Sweeping, TypeOK
    <3>4. \A k \in Jobs : rank'[Main(k)] = rank[Main(k)] \/ future[Main(k)] \in Done
      BY <1>7, FinishEffect DEF StartGenerator, outVars, TypeOK
    <3> QED
      BY <3>1, <3>3, <3>4 DEF Sweeping
  <2>9. CancelledInOrder'
    BY <1>7, FinishEffect
    DEF TypeOK, StartGenerator, outVars, Idle, CancelledInOrder
  <2>10. CancelledForAReason'
    BY <1>7, FinishEffect
    DEF TypeOK, StartGenerator, outVars, Idle, CancelledForAReason
  <2>11. NoOrphanedGenerator'
    BY <1>7, FinishEffect
    DEF TypeOK, StartGenerator, outVars, Idle, NoOrphanedGenerator
  <2> QED
    BY <1>t, <2>1, <2>2, <2>3, <2>4, <2>5, <2>6, <2>7, <2>8, <2>9, <2>10, <2>11
<1>8. ASSUME NEW j \in Jobs, YieldSync(j) PROVE FutureInv'
  <2>1. Fresh'
    BY <1>8, FinishEffect
    DEF TypeOK, YieldSync, Yields, ResumeOnMain, OnMain, Idle, Resume, ResumeWith,
      Resumes, SettleUnlessDone, Settle, outVars, Fresh
  <2>2. FutureLife'
    BY <1>8, FinishEffect
    DEF TypeOK, YieldSync, Yields, ResumeOnMain, OnMain, Idle, Resume, ResumeWith,
      Resumes, SettleUnlessDone, Settle, outVars, FutureLife, GeneratorWaits, Fresh,
      Attaching, Sweeping
  <2>3. GeneratorWaits'
    BY <1>8, FinishEffect
    DEF TypeOK, YieldSync, Yields, ResumeOnMain, OnMain, Idle, Resume, ResumeWith,
      Resumes, SettleUnlessDone, Settle, outVars, GeneratorWaits
  <2>4. Attaching'
    BY <1>8, FinishEffect
    DEF TypeOK, YieldSync, Yields, ResumeOnMain, OnMain, Idle, Resume, ResumeWith,
      Resumes, SettleUnlessDone, Settle, outVars, Attaching
  <2>5. AnsweredByCallback'
    BY <1>8, FinishEffect
    DEF TypeOK, YieldSync, Yields, ResumeOnMain, OnMain, Idle, Resume, ResumeWith,
      Resumes, SettleUnlessDone, Settle, outVars, AnsweredByCallback
  <2>6. UnregisteredIsOver'
    BY <1>8, FinishEffect
    DEF TypeOK, YieldSync, Yields, ResumeOnMain, OnMain, Idle, Resume, ResumeWith,
      Resumes, SettleUnlessDone, Settle, outVars, UnregisteredIsOver
  <2>7. InsertionOrder'
    <3>1. \A k \in Id : rank'[k] = 0 \/ rank'[k] = rank[k]
      BY <1>8, FinishEffect
      DEF TypeOK, YieldSync, Yields, ResumeOnMain, OnMain, Idle, Resume, ResumeWith,
        Resumes, SettleUnlessDone, Settle, outVars
    <3>2. inserted' = inserted /\ sweep'.cursor <= inserted
      BY <1>8
      DEF TypeOK, YieldSync, Yields, ResumeOnMain, OnMain, Idle, Resume, ResumeWith,
        Resumes, SettleUnlessDone, Settle, outVars, InsertionOrder
    <3> QED
      BY <1>t, <3>1, <3>2, OrderKept
  <2>8. Sweeping'
    BY <1>8, FinishEffect
    DEF TypeOK, YieldSync, Yields, ResumeOnMain, OnMain, Idle, Resume, ResumeWith,
      Resumes, SettleUnlessDone, Settle, outVars, Sweeping, FutureLife, GeneratorWaits,
      Fresh, Attaching
  <2>9. CancelledInOrder'
    BY <1>8, FinishEffect
    DEF TypeOK, YieldSync, Yields, ResumeOnMain, OnMain, Idle, Resume, ResumeWith,
      Resumes, SettleUnlessDone, Settle, outVars, CancelledInOrder
  <2>10. CancelledForAReason'
    BY <1>8, FinishEffect
    DEF TypeOK, YieldSync, Yields, ResumeOnMain, OnMain, Idle, Resume, ResumeWith,
      Resumes, SettleUnlessDone, Settle, outVars, CancelledForAReason
  <2>11. NoOrphanedGenerator'
    BY <1>8, FinishEffect
    DEF TypeOK, YieldSync, Yields, ResumeOnMain, OnMain, Idle, Resume, ResumeWith,
      Resumes, SettleUnlessDone, Settle, outVars, NoOrphanedGenerator
  <2> QED
    BY <1>t, <2>1, <2>2, <2>3, <2>4, <2>5, <2>6, <2>7, <2>8, <2>9, <2>10, <2>11
<1>9. ASSUME NEW j \in Jobs, YieldAsync(j) PROVE FutureInv'
  <2>1. /\ Fresh' /\ FutureLife' /\ GeneratorWaits' /\ Attaching'
       /\ AnsweredByCallback' /\ UnregisteredIsOver' /\ InsertionOrder' /\ Sweeping'
       /\ CancelledInOrder' /\ CancelledForAReason' /\ NoOrphanedGenerator'
    BY <1>9
    DEF TypeOK, YieldAsync, Yields, Register, OnMain, Idle, Fresh, FutureLife,
      GeneratorWaits, Attaching, AnsweredByCallback, UnregisteredIsOver, InsertionOrder,
      Sweeping, CancelledInOrder, CancelledForAReason, NoOrphanedGenerator
  <2> QED
    BY <1>t, <2>1
<1>10. ASSUME NEW j \in Jobs, YieldThread(j) PROVE FutureInv'
  <2>1. /\ Fresh' /\ FutureLife' /\ GeneratorWaits' /\ AnsweredByCallback'
       /\ UnregisteredIsOver' /\ InsertionOrder' /\ Sweeping' /\ CancelledInOrder'
       /\ CancelledForAReason' /\ NoOrphanedGenerator'
    BY <1>10
    DEF TypeOK, YieldThread, Yields, OnMain, Fresh, FutureLife, GeneratorWaits,
      AnsweredByCallback, UnregisteredIsOver, InsertionOrder, Sweeping, CancelledInOrder,
      CancelledForAReason, NoOrphanedGenerator
  <2>2. Attaching'
    BY <1>10
    DEF TypeOK, YieldThread, Yields, OnMain, Attaching, FutureLife, GeneratorWaits, Fresh,
      Sweeping
  <2> QED
    BY <1>t, <2>1, <2>2
<1>11. ASSUME NEW j \in Jobs, GenReturn(j) PROVE FutureInv'
  <2>1. Fresh'
    BY <1>11, FinishEffect
    DEF TypeOK, GenReturn, DispatchError, SendResponse, LeaveMain, OnMain, Idle,
      SettleUnlessDone, Settle, outVars, Fresh
  <2>2. FutureLife'
    BY <1>11, FinishEffect
    DEF TypeOK, GenReturn, DispatchError, SendResponse, LeaveMain, OnMain, Idle,
      SettleUnlessDone, Settle, outVars, FutureLife, GeneratorWaits, Fresh, Attaching,
      Sweeping
  <2>3. GeneratorWaits'
    BY <1>11, FinishEffect
    DEF TypeOK, GenReturn, DispatchError, SendResponse, LeaveMain, OnMain, Idle,
      SettleUnlessDone, Settle, outVars, GeneratorWaits
  <2>4. Attaching'
    BY <1>11, FinishEffect
    DEF TypeOK, GenReturn, DispatchError, SendResponse, LeaveMain, OnMain, Idle,
      SettleUnlessDone, Settle, outVars, Attaching, FutureLife, GeneratorWaits, Fresh,
      Sweeping
  <2>5. AnsweredByCallback'
    BY <1>11, FinishEffect
    DEF TypeOK, GenReturn, DispatchError, SendResponse, LeaveMain, OnMain, Idle,
      SettleUnlessDone, Settle, outVars, AnsweredByCallback, FutureLife, GeneratorWaits,
      Fresh, Attaching, Sweeping
  <2>6. UnregisteredIsOver'
    BY <1>11, FinishEffect
    DEF TypeOK, GenReturn, DispatchError, SendResponse, LeaveMain, OnMain, Idle,
      SettleUnlessDone, Settle, outVars, UnregisteredIsOver
  <2>7. InsertionOrder'
    <3>1. \A k \in Id : rank'[k] = 0 \/ rank'[k] = rank[k]
      BY <1>11, FinishEffect
      DEF TypeOK, GenReturn, DispatchError, SendResponse, LeaveMain, OnMain, Idle,
        SettleUnlessDone, Settle, outVars
    <3>2. inserted' = inserted /\ sweep'.cursor <= inserted
      BY <1>11
      DEF TypeOK, GenReturn, DispatchError, SendResponse, LeaveMain, OnMain, Idle,
        SettleUnlessDone, Settle, outVars, InsertionOrder
    <3> QED
      BY <1>t, <3>1, <3>2, OrderKept
  <2>8. Sweeping'
    BY <1>11, FinishEffect
    DEF TypeOK, GenReturn, DispatchError, SendResponse, LeaveMain, OnMain, Idle,
      SettleUnlessDone, Settle, outVars, Sweeping
  <2>9. CancelledInOrder'
    BY <1>11, FinishEffect
    DEF TypeOK, GenReturn, DispatchError, SendResponse, LeaveMain, OnMain, Idle,
      SettleUnlessDone, Settle, outVars, CancelledInOrder
  <2>10. CancelledForAReason'
    BY <1>11, FinishEffect
    DEF TypeOK, GenReturn, DispatchError, SendResponse, LeaveMain, OnMain, Idle,
      SettleUnlessDone, Settle, outVars, CancelledForAReason
  <2>11. NoOrphanedGenerator'
    BY <1>11, FinishEffect
    DEF TypeOK, GenReturn, DispatchError, SendResponse, LeaveMain, OnMain, Idle,
      SettleUnlessDone, Settle, outVars, NoOrphanedGenerator
  <2> QED
    BY <1>t, <2>1, <2>2, <2>3, <2>4, <2>5, <2>6, <2>7, <2>8, <2>9, <2>10, <2>11
<1>12. ASSUME SweepBegin PROVE FutureInv'
  <2>1. /\ Fresh' /\ FutureLife' /\ GeneratorWaits' /\ Attaching'
       /\ AnsweredByCallback' /\ UnregisteredIsOver' /\ InsertionOrder' /\ CancelledInOrder'
       /\ CancelledForAReason' /\ NoOrphanedGenerator'
    BY <1>12
    DEF TypeOK, SweepBegin, LastPart, Fresh, FutureLife, GeneratorWaits, Attaching,
      AnsweredByCallback, UnregisteredIsOver, InsertionOrder, CancelledInOrder,
      CancelledForAReason, NoOrphanedGenerator
  <2>2. Sweeping'
    BY <1>12
    DEF TypeOK, SweepBegin, LastPart, Sweeping, UnregisteredIsOver
  <2> QED
    BY <1>t, <2>1, <2>2
<1>13. ASSUME NEW i \in Id, SweepSkip(i) PROVE FutureInv'
  <2>1. /\ Fresh' /\ FutureLife' /\ GeneratorWaits' /\ Attaching'
       /\ AnsweredByCallback' /\ UnregisteredIsOver' /\ InsertionOrder' /\ CancelledInOrder'
       /\ CancelledForAReason' /\ NoOrphanedGenerator'
    BY <1>13
    DEF TypeOK, SweepSkip, SweepNext, Spared, outVars, Fresh, FutureLife, GeneratorWaits,
      Attaching, AnsweredByCallback, UnregisteredIsOver, InsertionOrder, CancelledInOrder,
      CancelledForAReason, NoOrphanedGenerator
  <2>2. Sweeping'
    <3>1. UNCHANGED <<kind, future, gen, rank>>
      BY <1>13 DEF SweepSkip, SweepNext, outVars
    <3>2. i = Main(Shutdown) \/ future[i] \in Done \/ kind[i] = "thread"
      BY <1>13 DEF SweepSkip, Spared
    <3> QED
      BY <1>13, <3>1, <3>2, SweepPasses DEF SweepSkip, Sweeping
  <2> QED
    BY <1>t, <2>1, <2>2
<1>14. ASSUME NEW i \in Id, SweepTask(i) PROVE FutureInv'
  <2>1. /\ Fresh' /\ FutureLife' /\ GeneratorWaits' /\ Attaching'
       /\ AnsweredByCallback' /\ UnregisteredIsOver' /\ InsertionOrder' /\ CancelledForAReason'
       /\ NoOrphanedGenerator'
    BY <1>14
    DEF TypeOK, SweepTask, SweepNext, Spared, outVars, Fresh, FutureLife, GeneratorWaits,
      Attaching, AnsweredByCallback, UnregisteredIsOver, InsertionOrder,
      CancelledForAReason, NoOrphanedGenerator
  <2>2. Sweeping'
    BY <1>14, SweepPasses DEF SweepTask, SweepNext, outVars, Sweeping
  <2>3. CancelledInOrder'
    <3>1. UNCHANGED <<kind, future, gen>> /\ cancelling' = cancelling \cup {i}
      BY <1>14 DEF SweepTask, SweepNext
    <3>2. kind[i] = "async" /\ future[i] \notin Done /\ rank[i] > 0
      BY <1>14 DEF SweepTask, Spared, SweepNext, TypeOK
    <3>3. ASSUME i = Sub(i[1]) PROVE future[Main(i[1])] \in Done
      <4>1. rank[Main(i[1])] <= rank[i] /\ Main(i[1]) # i
        BY <3>2, <3>3 DEF InsertionOrder, TypeOK
      <4>2. rank[Main(i[1])] <= sweep.cursor /\ sweep.phase = "on"
        BY <1>14, <4>1, SweepPasses DEF SweepTask
      <4>3. i \notin called /\ gen[i[1]] = "waiting" /\ kind[Main(i[1])] = "generator"
        BY <3>2, <3>3 DEF FutureLife, GeneratorWaits
      <4> QED
        BY <4>2, <4>3 DEF Sweeping
    <3> QED
      BY <3>1, <3>2, <3>3 DEF CancelledInOrder
  <2> QED
    BY <1>t, <2>1, <2>2, <2>3
<1>15. ASSUME NEW i \in Id, SweepFuture(i) PROVE FutureInv'
  <2>1. AnsweredByCallback' /\ UnregisteredIsOver' /\ CancelledInOrder' /\ CancelledForAReason'
    <3>1. AnsweredByCallback'
      <4>1. CASE UNCHANGED outVars /\ called' \in {called, called \cup {Sub(i[1])}}
        <5>1. kind' = kind
          BY <1>15 DEF SweepFuture, SweepNext
        <5> QED
          BY <4>1, <5>1 DEF outVars, AnsweredByCallback
      <4>2. CASE \E out \in Done : FinishJob(i[1], out) /\ Main(i[1]) \in called'
        <5>1. /\ i[1] \in RequestJobs => rank'[Main(i[1])] = 0
              /\ \A k \in Id : rank'[k] = rank[k] \/ rank'[k] = 0
              /\ \A r \in RequestJobs \ {i[1]} : replies'[r] = replies[r]
          BY <4>2, FinishEffect DEF TypeOK
        <5>2. /\ kind' = kind
              /\ called' \in {called \cup {Main(i[1])}, called \cup {Sub(i[1]), Main(i[1])}}
          BY <1>15, <4>2
          DEF SweepFuture, SweepNext, Resume, ResumeWith, SettleUnlessDone, Settle
        <5> QED
          BY <4>2, <5>1, <5>2 DEF TypeOK, AnsweredByCallback
      <4> QED
        BY <1>15, <4>1, <4>2
        DEF SweepFuture, Resume, ResumeWith, SettleUnlessDone, Settle
    <3>2. UnregisteredIsOver'
      BY <1>15, FinishEffect
      DEF TypeOK, SweepFuture, SweepNext, Spared, Attached, Resume, ResumeWith, Resumes,
        SettleUnlessDone, Settle, outVars, UnregisteredIsOver
    <3>3. CancelledInOrder'
      BY <1>15, FinishEffect
      DEF TypeOK, SweepFuture, SweepNext, Spared, Attached, Resume, ResumeWith, Resumes,
        SettleUnlessDone, Settle, outVars, CancelledInOrder
    <3>4. CancelledForAReason'
      BY <1>15, FinishEffect
      DEF TypeOK, SweepFuture, SweepNext, Spared, Attached, Resume, ResumeWith, Resumes,
        SettleUnlessDone, Settle, outVars, CancelledForAReason
    <3> QED
      BY <3>1, <3>2, <3>3, <3>4
  <2>2. Fresh'
    BY <1>15, FinishEffect
    DEF TypeOK, SweepFuture, SweepNext, Spared, Attached, Resume, ResumeWith, Resumes,
      SettleUnlessDone, Settle, outVars, Fresh, FutureLife, GeneratorWaits, Attaching,
      Sweeping
  <2>3. FutureLife'
    <3>1. \A k \in Id : future'[k] = future[k] \/ future'[k] \in Done
      BY <1>15
      DEF SweepFuture, TypeOK, Resume, ResumeWith, Resumes, SettleUnlessDone, Settle,
        outVars
    <3>2. \A k \in Id : rank'[k] = rank[k] \/ rank'[k] = 0
      BY <1>15, FinishEffect
      DEF SweepFuture, TypeOK, Resume, ResumeWith, Resumes, SettleUnlessDone, Settle,
        outVars
    <3>3. kind[i] # "none" /\ kind[Main(i[1])] # "none"
      BY <1>15 DEF SweepFuture, SweepNext, TypeOK, FutureLife, GeneratorWaits
    <3>4. \A k \in called' : k \in Id /\ kind[k] # "none" /\ future'[k] \in Done
      BY <1>15, <3>1, <3>3
      DEF SweepFuture, FutureLife, TypeOK, Resume, ResumeWith, Resumes,
        SettleUnlessDone, Settle, outVars
    <3>5. \A k \in Id : kind[k] = "none" => future'[k] = "none"
      BY <1>15, <3>3
      DEF SweepFuture, FutureLife, TypeOK, Resume, ResumeWith, Resumes,
        SettleUnlessDone, Settle, outVars
    <3> QED
      BY <1>15, <3>2, <3>4, <3>5 DEF SweepFuture, SweepNext, FutureLife, TypeOK
  <2>4. GeneratorWaits'
    BY <1>15, FinishEffect
    DEF TypeOK, SweepFuture, SweepNext, Spared, Attached, Resume, ResumeWith, Resumes,
      SettleUnlessDone, Settle, outVars, GeneratorWaits, FutureLife, Fresh, Attaching,
      Sweeping
  <2>5. Attaching'
    BY <1>15, FinishEffect
    DEF TypeOK, SweepFuture, SweepNext, Spared, Attached, Resume, ResumeWith, Resumes,
      SettleUnlessDone, Settle, outVars, Attaching, FutureLife, GeneratorWaits, Fresh,
      Sweeping
  <2>6. InsertionOrder'
    <3>1. \A k \in Id : rank'[k] = 0 \/ rank'[k] = rank[k]
      BY <1>15, FinishEffect
      DEF TypeOK, SweepFuture, SweepNext, Spared, Attached, Resume, ResumeWith, Resumes,
        SettleUnlessDone, Settle, outVars
    <3>2. inserted' = inserted /\ sweep'.cursor <= inserted
      BY <1>15
      DEF TypeOK, SweepFuture, SweepNext, Spared, Attached, Resume, ResumeWith, Resumes,
        SettleUnlessDone, Settle, outVars, InsertionOrder
    <3> QED
      BY <1>t, <3>1, <3>2, OrderKept
  <2>7. Sweeping'
    <3>1. \A k \in Id : future[k] \in Done => future'[k] \in Done
      BY <1>15
      DEF SweepFuture, TypeOK, Resume, ResumeWith, Resumes, SettleUnlessDone, Settle,
        outVars
    <3>2. kind' = kind /\ (i = Main(i[1]) => future'[i] \in Done)
      BY <1>15 DEF SweepFuture, SweepNext, Settle, TypeOK
    <3>3. \A k \in Id : rank'[k] = rank[k] \/ future'[k] \in Done
      BY <1>15, FinishEffect
      DEF SweepFuture, TypeOK, Resume, ResumeWith, Resumes, SettleUnlessDone, Settle,
        outVars
    <3>4. gen' = gen \/ (i = Sub(i[1]) /\ gen' = [gen EXCEPT ![i[1]] = "closed"])
      BY <1>15 DEF SweepFuture, Resume, Resumes
    <3>5. i = Sub(i[1]) => gen[i[1]] = "waiting"
      BY <1>15 DEF SweepFuture, SweepNext, Spared, FutureLife, GeneratorWaits, TypeOK
    <3>6. gen[Shutdown] = "running" => gen'[Shutdown] = "running"
      BY <3>4, <3>5 DEF TypeOK
    <3> QED
      BY <1>15, <3>1, <3>2, <3>3, <3>6, SweepPasses DEF SweepFuture, Sweeping
  <2>8. NoOrphanedGenerator'
    BY <1>15, FinishEffect
    DEF TypeOK, SweepFuture, SweepNext, Spared, Attached, Resume, ResumeWith, Resumes,
      SettleUnlessDone, Settle, outVars, NoOrphanedGenerator, FutureLife, GeneratorWaits,
      Fresh, Attaching, Sweeping
  <2> QED
    BY <1>t, <2>1, <2>2, <2>3, <2>4, <2>5, <2>6, <2>7, <2>8
<1>16. ASSUME SweepError PROVE FutureInv'
  <2>1. Fresh'
    BY <1>16, FinishEffect
    DEF TypeOK, SweepError, EndShutdown, LeaveMain, OnMain, Idle, NoSweep,
      SettleUnlessDone, Settle, outVars, Fresh, FutureLife, GeneratorWaits, Attaching,
      Sweeping
  <2>2. FutureLife'
    BY <1>16, FinishEffect
    DEF TypeOK, SweepError, EndShutdown, LeaveMain, OnMain, Idle, NoSweep,
      SettleUnlessDone, Settle, outVars, FutureLife, GeneratorWaits, Fresh, Attaching,
      Sweeping
  <2>3. GeneratorWaits'
    BY <1>16, FinishEffect
    DEF TypeOK, SweepError, EndShutdown, LeaveMain, OnMain, Idle, NoSweep,
      SettleUnlessDone, Settle, outVars, GeneratorWaits, FutureLife, Fresh, Attaching,
      Sweeping
  <2>4. Attaching'
    BY <1>16, FinishEffect
    DEF TypeOK, SweepError, EndShutdown, LeaveMain, OnMain, Idle, NoSweep,
      SettleUnlessDone, Settle, outVars, Attaching, FutureLife, GeneratorWaits, Fresh,
      Sweeping
  <2>5. AnsweredByCallback'
    BY <1>16, FinishEffect
    DEF TypeOK, SweepError, EndShutdown, LeaveMain, OnMain, Idle, NoSweep,
      SettleUnlessDone, Settle, outVars, AnsweredByCallback
  <2>6. UnregisteredIsOver'
    BY <1>16, FinishEffect
    DEF TypeOK, SweepError, EndShutdown, LeaveMain, OnMain, Idle, NoSweep,
      SettleUnlessDone, Settle, outVars, UnregisteredIsOver
  <2>7. InsertionOrder'
    <3>1. \A k \in Id : rank'[k] = 0 \/ rank'[k] = rank[k]
      BY <1>16, FinishEffect
      DEF TypeOK, SweepError, EndShutdown, LeaveMain, OnMain, Idle, NoSweep,
        SettleUnlessDone, Settle, outVars
    <3>2. inserted' = inserted /\ sweep'.cursor <= inserted
      BY <1>16
      DEF TypeOK, SweepError, EndShutdown, LeaveMain, OnMain, Idle, NoSweep,
        SettleUnlessDone, Settle, outVars, InsertionOrder
    <3> QED
      BY <1>t, <3>1, <3>2, OrderKept
  <2>8. Sweeping'
    BY <1>16, FinishEffect
    DEF TypeOK, SweepError, EndShutdown, LeaveMain, OnMain, Idle, NoSweep,
      SettleUnlessDone, Settle, outVars, Sweeping
  <2>9. CancelledInOrder'
    BY <1>16, FinishEffect
    DEF TypeOK, SweepError, EndShutdown, LeaveMain, OnMain, Idle, NoSweep,
      SettleUnlessDone, Settle, outVars, CancelledInOrder
  <2>10. CancelledForAReason'
    BY <1>16, FinishEffect
    DEF TypeOK, SweepError, EndShutdown, LeaveMain, OnMain, Idle, NoSweep,
      SettleUnlessDone, Settle, outVars, CancelledForAReason
  <2>11. NoOrphanedGenerator'
    BY <1>16, FinishEffect
    DEF TypeOK, SweepError, EndShutdown, LeaveMain, OnMain, Idle, NoSweep,
      SettleUnlessDone, Settle, outVars, NoOrphanedGenerator
  <2> QED
    BY <1>t, <2>1, <2>2, <2>3, <2>4, <2>5, <2>6, <2>7, <2>8, <2>9, <2>10, <2>11
<1>17. ASSUME SweepEnd PROVE FutureInv'
  <2>1. /\ Fresh' /\ FutureLife' /\ GeneratorWaits' /\ Attaching'
       /\ AnsweredByCallback' /\ UnregisteredIsOver' /\ InsertionOrder' /\ Sweeping'
       /\ CancelledInOrder' /\ CancelledForAReason' /\ NoOrphanedGenerator'
    BY <1>17
    DEF TypeOK, SweepEnd, Fresh, FutureLife, GeneratorWaits, Attaching,
      AnsweredByCallback, UnregisteredIsOver, InsertionOrder, Sweeping, CancelledInOrder,
      CancelledForAReason, NoOrphanedGenerator
  <2> QED
    BY <1>t, <2>1
<1>18. ASSUME ShutdownReturn PROVE FutureInv'
  <2>1. Fresh'
    BY <1>18, FinishEffect
    DEF TypeOK, ShutdownReturn, EndShutdown, LeaveMain, OnMain, Idle, NoSweep,
      SettleUnlessDone, Settle, outVars, Fresh, FutureLife, GeneratorWaits, Attaching,
      Sweeping
  <2>2. FutureLife'
    BY <1>18, FinishEffect
    DEF TypeOK, ShutdownReturn, EndShutdown, LeaveMain, OnMain, Idle, NoSweep,
      SettleUnlessDone, Settle, outVars, FutureLife, GeneratorWaits, Fresh, Attaching,
      Sweeping
  <2>3. GeneratorWaits'
    BY <1>18, FinishEffect
    DEF TypeOK, ShutdownReturn, EndShutdown, LeaveMain, OnMain, Idle, NoSweep,
      SettleUnlessDone, Settle, outVars, GeneratorWaits, FutureLife, Fresh, Attaching,
      Sweeping
  <2>4. Attaching'
    BY <1>18, FinishEffect
    DEF TypeOK, ShutdownReturn, EndShutdown, LeaveMain, OnMain, Idle, NoSweep,
      SettleUnlessDone, Settle, outVars, Attaching, FutureLife, GeneratorWaits, Fresh,
      Sweeping
  <2>5. AnsweredByCallback'
    BY <1>18, FinishEffect
    DEF TypeOK, ShutdownReturn, EndShutdown, LeaveMain, OnMain, Idle, NoSweep,
      SettleUnlessDone, Settle, outVars, AnsweredByCallback
  <2>6. UnregisteredIsOver'
    BY <1>18, FinishEffect
    DEF TypeOK, ShutdownReturn, EndShutdown, LeaveMain, OnMain, Idle, NoSweep,
      SettleUnlessDone, Settle, outVars, UnregisteredIsOver
  <2>7. InsertionOrder'
    <3>1. \A k \in Id : rank'[k] = 0 \/ rank'[k] = rank[k]
      BY <1>18, FinishEffect
      DEF TypeOK, ShutdownReturn, EndShutdown, LeaveMain, OnMain, Idle, NoSweep,
        SettleUnlessDone, Settle, outVars
    <3>2. inserted' = inserted /\ sweep'.cursor <= inserted
      BY <1>18
      DEF TypeOK, ShutdownReturn, EndShutdown, LeaveMain, OnMain, Idle, NoSweep,
        SettleUnlessDone, Settle, outVars, InsertionOrder
    <3> QED
      BY <1>t, <3>1, <3>2, OrderKept
  <2>8. Sweeping'
    BY <1>18, FinishEffect
    DEF TypeOK, ShutdownReturn, EndShutdown, LeaveMain, OnMain, Idle, NoSweep,
      SettleUnlessDone, Settle, outVars, Sweeping
  <2>9. CancelledInOrder'
    BY <1>18, FinishEffect
    DEF TypeOK, ShutdownReturn, EndShutdown, LeaveMain, OnMain, Idle, NoSweep,
      SettleUnlessDone, Settle, outVars, CancelledInOrder
  <2>10. CancelledForAReason'
    BY <1>18, FinishEffect
    DEF TypeOK, ShutdownReturn, EndShutdown, LeaveMain, OnMain, Idle, NoSweep,
      SettleUnlessDone, Settle, outVars, CancelledForAReason
  <2>11. NoOrphanedGenerator'
    BY <1>18, FinishEffect
    DEF TypeOK, ShutdownReturn, EndShutdown, LeaveMain, OnMain, Idle, NoSweep,
      SettleUnlessDone, Settle, outVars, NoOrphanedGenerator
  <2> QED
    BY <1>t, <2>1, <2>2, <2>3, <2>4, <2>5, <2>6, <2>7, <2>8, <2>9, <2>10, <2>11
<1>19. ASSUME NEW i \in Id, TaskStart(i) PROVE FutureInv'
  <2>1. /\ Fresh' /\ FutureLife' /\ GeneratorWaits' /\ Attaching'
       /\ AnsweredByCallback' /\ UnregisteredIsOver' /\ InsertionOrder' /\ Sweeping'
       /\ CancelledInOrder' /\ CancelledForAReason' /\ NoOrphanedGenerator'
    BY <1>19
    DEF TypeOK, TaskStart, outVars, Fresh, FutureLife, GeneratorWaits, Attaching,
      AnsweredByCallback, UnregisteredIsOver, InsertionOrder, Sweeping, CancelledInOrder,
      CancelledForAReason, NoOrphanedGenerator
  <2> QED
    BY <1>t, <2>1
<1>20. ASSUME NEW i \in Id, TaskEnd(i) PROVE FutureInv'
  <2>1. /\ Fresh' /\ FutureLife' /\ GeneratorWaits' /\ Attaching'
       /\ AnsweredByCallback' /\ UnregisteredIsOver' /\ InsertionOrder' /\ Sweeping'
       /\ CancelledInOrder' /\ CancelledForAReason' /\ NoOrphanedGenerator'
    BY <1>20
    DEF TypeOK, TaskEnd, Outcomes, outVars, Fresh, FutureLife, GeneratorWaits, Attaching,
      AnsweredByCallback, UnregisteredIsOver, InsertionOrder, Sweeping, CancelledInOrder,
      CancelledForAReason, NoOrphanedGenerator
  <2> QED
    BY <1>t, <2>1
<1>21. ASSUME NEW i \in Id, TaskCallback(i) PROVE FutureInv'
  <2>a. Fresh' /\ Attaching'
    BY <1>21, FinishEffect
    DEF TypeOK, TaskCallback, CallbackOnMain, ResumeOnMain, Idle, Resume, ResumeWith,
      Resumes, SettleUnlessDone, Settle, outVars, Fresh, Attaching
  <2>b. GeneratorWaits'
    BY <1>21, FinishEffect
    DEF TypeOK, TaskCallback, CallbackOnMain, ResumeOnMain, Idle, Resume, ResumeWith,
      Resumes, SettleUnlessDone, Settle, outVars, GeneratorWaits
  <2>c. AnsweredByCallback'
    BY <1>21, FinishEffect
    DEF TypeOK, TaskCallback, CallbackOnMain, ResumeOnMain, Idle, Resume, ResumeWith,
      Resumes, SettleUnlessDone, Settle, outVars, AnsweredByCallback
  <2>d. UnregisteredIsOver'
    BY <1>21, FinishEffect
    DEF TypeOK, TaskCallback, CallbackOnMain, ResumeOnMain, Idle, Resume, ResumeWith,
      Resumes, SettleUnlessDone, Settle, outVars, UnregisteredIsOver
  <2>e. CancelledInOrder'
    BY <1>21, FinishEffect
    DEF TypeOK, TaskCallback, CallbackOnMain, ResumeOnMain, Idle, Resume, ResumeWith,
      Resumes, SettleUnlessDone, Settle, outVars, CancelledInOrder
  <2>f. CancelledForAReason'
    BY <1>21, FinishEffect
    DEF TypeOK, TaskCallback, CallbackOnMain, ResumeOnMain, Idle, Resume, ResumeWith,
      Resumes, SettleUnlessDone, Settle, outVars, CancelledForAReason
  <2>2. FutureLife'
    <3>1. \A k \in Id : future'[k] = future[k] \/ future'[k] \in Done
      BY <1>21
      DEF TaskCallback, CallbackOnMain, ResumeOnMain, TypeOK, Resume, ResumeWith,
        Resumes, SettleUnlessDone, Settle, outVars
    <3>2. \A k \in Id : rank'[k] = rank[k] \/ rank'[k] = 0
      BY <1>21, FinishEffect
      DEF TaskCallback, CallbackOnMain, ResumeOnMain, TypeOK, Resume, ResumeWith,
        Resumes, SettleUnlessDone, Settle, outVars
    <3>3. i[1] \in Jobs /\ kind[i] # "none" /\ (i = Sub(i[1]) => kind[Main(i[1])] # "none")
      BY <1>21 DEF TaskCallback, GeneratorWaits
    <3>4. \A k \in called' : k \in Id /\ kind[k] # "none" /\ future'[k] \in Done
      BY <1>21, <3>1, <3>3
      DEF FutureLife, TaskCallback, CallbackOnMain, ResumeOnMain, TypeOK, Resume, ResumeWith,
        Resumes, SettleUnlessDone, Settle, outVars
    <3>5. \A k \in Id : kind[k] = "none" => future'[k] = "none"
      BY <1>21, <3>3
      DEF FutureLife, TaskCallback, CallbackOnMain, ResumeOnMain, TypeOK, Resume, ResumeWith,
        Resumes, SettleUnlessDone, Settle, outVars
    <3> QED
      BY <1>21, <3>2, <3>4, <3>5 DEF TaskCallback, FutureLife, TypeOK
  <2>3. InsertionOrder'
    <3>1. \A k \in Id : rank'[k] = 0 \/ rank'[k] = rank[k]
      BY <1>21, FinishEffect
      DEF TypeOK, TaskCallback, CallbackOnMain, ResumeOnMain, Idle, Resume, ResumeWith,
        Resumes, SettleUnlessDone, Settle, outVars
    <3>2. inserted' = inserted /\ sweep'.cursor <= inserted
      BY <1>21
      DEF TypeOK, TaskCallback, CallbackOnMain, ResumeOnMain, Idle, Resume, ResumeWith,
        Resumes, SettleUnlessDone, Settle, outVars, InsertionOrder
    <3> QED
      BY <1>t, <3>1, <3>2, OrderKept
  <2>4. Sweeping'
    BY <1>21, FinishEffect
    DEF TypeOK, TaskCallback, CallbackOnMain, ResumeOnMain, Idle, Resume, ResumeWith,
      Resumes, SettleUnlessDone, Settle, outVars, Sweeping, FutureLife, GeneratorWaits,
      Fresh, Attaching
  <2>5. NoOrphanedGenerator'
    BY <1>21, FinishEffect
    DEF TypeOK, TaskCallback, CallbackOnMain, ResumeOnMain, Idle, Resume, ResumeWith,
      Resumes, SettleUnlessDone, Settle, outVars, NoOrphanedGenerator, GeneratorWaits,
      CancelledInOrder
  <2> QED
    BY <1>t, <2>a, <2>b, <2>c, <2>d, <2>e, <2>f, <2>2, <2>3, <2>4, <2>5
<1>22. ASSUME RegisterThread PROVE FutureInv'
  <2>1. /\ Fresh' /\ GeneratorWaits' /\ Attaching' /\ UnregisteredIsOver'
       /\ CancelledInOrder' /\ CancelledForAReason' /\ NoOrphanedGenerator'
    BY <1>22
    DEF TypeOK, RegisterThread, Register, Fresh, GeneratorWaits, Attaching,
      UnregisteredIsOver, CancelledInOrder, CancelledForAReason, NoOrphanedGenerator
  <2>2. FutureLife'
    BY <1>22
    DEF TypeOK, RegisterThread, Register, FutureLife, GeneratorWaits, Fresh, Attaching,
      Sweeping
  <2>3. AnsweredByCallback'
    BY <1>22
    DEF TypeOK, RegisterThread, Register, AnsweredByCallback, FutureLife, GeneratorWaits,
      Fresh, Attaching, Sweeping
  <2>4. InsertionOrder'
    BY <1>22
    DEF TypeOK, RegisterThread, Register, InsertionOrder, FutureLife, GeneratorWaits,
      Fresh, Attaching, Sweeping
  <2>5. Sweeping'
    BY <1>22
    DEF TypeOK, RegisterThread, Register, Sweeping, FutureLife, GeneratorWaits, Fresh,
      Attaching
  <2> QED
    BY <1>t, <2>1, <2>2, <2>3, <2>4, <2>5
<1>23. ASSUME AttachThread PROVE FutureInv'
  <2>1. Fresh'
    BY <1>23, FinishEffect
    DEF TypeOK, AttachThread, CallbackOnMain, ResumeOnMain, Idle, Resume, ResumeWith,
      Resumes, SettleUnlessDone, Settle, outVars, Fresh
  <2>2. FutureLife'
    <3>1. \A k \in Id : future'[k] = future[k] \/ future'[k] \in Done
      BY <1>23
      DEF AttachThread, CallbackOnMain, ResumeOnMain, TypeOK, Resume, ResumeWith,
        Resumes, SettleUnlessDone, Settle, outVars
    <3>2. \A k \in Id : rank'[k] = rank[k] \/ rank'[k] = 0
      BY <1>23, FinishEffect
      DEF AttachThread, CallbackOnMain, ResumeOnMain, TypeOK, Resume, ResumeWith,
        Resumes, SettleUnlessDone, Settle, outVars
    <3>3. main.on \in Id /\ kind[main.on] # "none"
      /\ (main.on = Sub(main.on[1]) => kind[Main(main.on[1])] # "none")
      BY <1>23 DEF AttachThread, GeneratorWaits, TypeOK
    <3>4. \A k \in called' : k \in Id /\ kind[k] # "none" /\ future'[k] \in Done
      BY <1>23, <3>1, <3>3
      DEF FutureLife, AttachThread, CallbackOnMain, ResumeOnMain, TypeOK, Resume, ResumeWith,
        Resumes, SettleUnlessDone, Settle, outVars
    <3>5. \A k \in Id : kind[k] = "none" => future'[k] = "none"
      BY <1>23, <3>3
      DEF FutureLife, AttachThread, CallbackOnMain, ResumeOnMain, TypeOK, Resume, ResumeWith,
        Resumes, SettleUnlessDone, Settle, outVars
    <3> QED
      BY <1>23, <3>2, <3>4, <3>5 DEF AttachThread, FutureLife, TypeOK
  <2>3. GeneratorWaits'
    BY <1>23, FinishEffect
    DEF TypeOK, AttachThread, CallbackOnMain, ResumeOnMain, Idle, Resume, ResumeWith,
      Resumes, SettleUnlessDone, Settle, outVars, GeneratorWaits
  <2>4. Attaching'
    BY <1>23, FinishEffect
    DEF TypeOK, AttachThread, CallbackOnMain, ResumeOnMain, Idle, Resume, ResumeWith,
      Resumes, SettleUnlessDone, Settle, outVars, Attaching
  <2>5. AnsweredByCallback'
    BY <1>23, FinishEffect
    DEF TypeOK, AttachThread, CallbackOnMain, ResumeOnMain, Idle, Resume, ResumeWith,
      Resumes, SettleUnlessDone, Settle, outVars, AnsweredByCallback
  <2>6. UnregisteredIsOver'
    BY <1>23, FinishEffect
    DEF TypeOK, AttachThread, CallbackOnMain, ResumeOnMain, Idle, Resume, ResumeWith,
      Resumes, SettleUnlessDone, Settle, outVars, UnregisteredIsOver
  <2>7. InsertionOrder'
    <3>1. \A k \in Id : rank'[k] = 0 \/ rank'[k] = rank[k]
      BY <1>23, FinishEffect
      DEF TypeOK, AttachThread, CallbackOnMain, ResumeOnMain, Idle, Resume, ResumeWith,
        Resumes, SettleUnlessDone, Settle, outVars
    <3>2. inserted' = inserted /\ sweep'.cursor <= inserted
      BY <1>23
      DEF TypeOK, AttachThread, CallbackOnMain, ResumeOnMain, Idle, Resume, ResumeWith,
        Resumes, SettleUnlessDone, Settle, outVars, InsertionOrder
    <3> QED
      BY <1>t, <3>1, <3>2, OrderKept
  <2>8. Sweeping'
    BY <1>23, FinishEffect
    DEF TypeOK, AttachThread, CallbackOnMain, ResumeOnMain, Idle, Resume, ResumeWith,
      Resumes, SettleUnlessDone, Settle, outVars, Sweeping, FutureLife, GeneratorWaits,
      Fresh, Attaching
  <2>9. CancelledInOrder'
    BY <1>23, FinishEffect
    DEF TypeOK, AttachThread, CallbackOnMain, ResumeOnMain, Idle, Resume, ResumeWith,
      Resumes, SettleUnlessDone, Settle, outVars, CancelledInOrder
  <2>10. CancelledForAReason'
    BY <1>23, FinishEffect
    DEF TypeOK, AttachThread, CallbackOnMain, ResumeOnMain, Idle, Resume, ResumeWith,
      Resumes, SettleUnlessDone, Settle, outVars, CancelledForAReason
  <2>11. NoOrphanedGenerator'
    BY <1>23, FinishEffect
    DEF TypeOK, AttachThread, CallbackOnMain, ResumeOnMain, Idle, Resume, ResumeWith,
      Resumes, SettleUnlessDone, Settle, outVars, NoOrphanedGenerator, GeneratorWaits,
      Attaching
  <2> QED
    BY <1>t, <2>1, <2>2, <2>3, <2>4, <2>5, <2>6, <2>7, <2>8, <2>9, <2>10, <2>11
<1>24. ASSUME NEW i \in Id, ThreadStart(i) PROVE FutureInv'
  <2>1. /\ Fresh' /\ FutureLife' /\ GeneratorWaits' /\ Attaching'
       /\ AnsweredByCallback' /\ UnregisteredIsOver' /\ InsertionOrder' /\ Sweeping'
       /\ CancelledInOrder' /\ CancelledForAReason' /\ NoOrphanedGenerator'
    BY <1>24
    DEF TypeOK, ThreadStart, outVars, Fresh, FutureLife, GeneratorWaits, Attaching,
      AnsweredByCallback, UnregisteredIsOver, InsertionOrder, Sweeping, CancelledInOrder,
      CancelledForAReason, NoOrphanedGenerator
  <2> QED
    BY <1>t, <2>1
<1>25. ASSUME NEW i \in Id, ThreadEnd(i) PROVE FutureInv'
  <2>1. /\ Fresh' /\ FutureLife' /\ GeneratorWaits' /\ Attaching'
       /\ AnsweredByCallback' /\ UnregisteredIsOver' /\ InsertionOrder' /\ Sweeping'
       /\ CancelledInOrder' /\ CancelledForAReason' /\ NoOrphanedGenerator'
    BY <1>25
    DEF TypeOK, ThreadEnd, Outcomes, outVars, Fresh, FutureLife, GeneratorWaits,
      Attaching, AnsweredByCallback, UnregisteredIsOver, InsertionOrder, Sweeping,
      CancelledInOrder, CancelledForAReason, NoOrphanedGenerator
  <2> QED
    BY <1>t, <2>1
<1>26. ASSUME NEW i \in Id, ThreadCallback(i) PROVE FutureInv'
  <2>1. Fresh'
    BY <1>26, FinishEffect
    DEF TypeOK, ThreadCallback, Attached, Resume, ResumeWith, Resumes, SettleUnlessDone,
      Settle, outVars, Fresh
  <2>2. FutureLife'
    <3>1. \A k \in Id : future'[k] = future[k] \/ future'[k] \in Done
      BY <1>26
      DEF ThreadCallback, TypeOK, Resume, ResumeWith,
        Resumes, SettleUnlessDone, Settle, outVars
    <3>2. \A k \in Id : rank'[k] = rank[k] \/ rank'[k] = 0
      BY <1>26, FinishEffect
      DEF ThreadCallback, TypeOK, Resume, ResumeWith,
        Resumes, SettleUnlessDone, Settle, outVars
    <3>3. i[1] \in Jobs /\ kind[i] # "none" /\ (i = Sub(i[1]) => kind[Main(i[1])] # "none")
      BY <1>26 DEF ThreadCallback, GeneratorWaits
    <3>4. \A k \in called' : k \in Id /\ kind[k] # "none" /\ future'[k] \in Done
      BY <1>26, <3>1, <3>3
      DEF FutureLife, ThreadCallback, TypeOK, Resume, ResumeWith,
        Resumes, SettleUnlessDone, Settle, outVars
    <3>5. \A k \in Id : kind[k] = "none" => future'[k] = "none"
      BY <1>26, <3>3
      DEF FutureLife, ThreadCallback, TypeOK, Resume, ResumeWith,
        Resumes, SettleUnlessDone, Settle, outVars
    <3> QED
      BY <1>26, <3>2, <3>4, <3>5 DEF ThreadCallback, FutureLife, TypeOK
  <2>3. GeneratorWaits'
    BY <1>26, FinishEffect
    DEF TypeOK, ThreadCallback, Attached, Resume, ResumeWith, Resumes, SettleUnlessDone,
      Settle, outVars, GeneratorWaits
  <2>4. Attaching'
    BY <1>26, FinishEffect
    DEF TypeOK, ThreadCallback, Attached, Resume, ResumeWith, Resumes, SettleUnlessDone,
      Settle, outVars, Attaching, FutureLife, GeneratorWaits, Fresh, Sweeping
  <2>5. AnsweredByCallback'
    BY <1>26, FinishEffect
    DEF TypeOK, ThreadCallback, Attached, Resume, ResumeWith, Resumes, SettleUnlessDone,
      Settle, outVars, AnsweredByCallback
  <2>6. UnregisteredIsOver'
    BY <1>26, FinishEffect
    DEF TypeOK, ThreadCallback, Attached, Resume, ResumeWith, Resumes, SettleUnlessDone,
      Settle, outVars, UnregisteredIsOver
  <2>7. InsertionOrder'
    <3>1. \A k \in Id : rank'[k] = 0 \/ rank'[k] = rank[k]
      BY <1>26, FinishEffect
      DEF TypeOK, ThreadCallback, Attached, Resume, ResumeWith, Resumes, SettleUnlessDone,
        Settle, outVars
    <3>2. inserted' = inserted /\ sweep'.cursor <= inserted
      BY <1>26
      DEF TypeOK, ThreadCallback, Attached, Resume, ResumeWith, Resumes, SettleUnlessDone,
        Settle, outVars, InsertionOrder
    <3> QED
      BY <1>t, <3>1, <3>2, OrderKept
  <2>8. Sweeping'
    BY <1>26, FinishEffect
    DEF TypeOK, ThreadCallback, Attached, Resume, ResumeWith, Resumes, SettleUnlessDone,
      Settle, outVars, Sweeping, FutureLife, GeneratorWaits, Fresh, Attaching
  <2>9. CancelledInOrder'
    BY <1>26, FinishEffect
    DEF TypeOK, ThreadCallback, Attached, Resume, ResumeWith, Resumes, SettleUnlessDone,
      Settle, outVars, CancelledInOrder
  <2>10. CancelledForAReason'
    BY <1>26, FinishEffect
    DEF TypeOK, ThreadCallback, Attached, Resume, ResumeWith, Resumes, SettleUnlessDone,
      Settle, outVars, CancelledForAReason
  <2>11. NoOrphanedGenerator'
    BY <1>26, FinishEffect
    DEF TypeOK, ThreadCallback, Attached, Resume, ResumeWith, Resumes, SettleUnlessDone,
      Settle, outVars, NoOrphanedGenerator, GeneratorWaits
  <2> QED
    BY <1>t, <2>1, <2>2, <2>3, <2>4, <2>5, <2>6, <2>7, <2>8, <2>9, <2>10, <2>11
<1>27. ASSUME SystemExit \/ WriterClosed PROVE FutureInv'
  <2>1. /\ UNCHANGED <<received, kind, future, cancelling, called, inserted, sweep,
                       shutdown, asked, rank, replies, verdict>>
        /\ main' = main \/ main' = Exited
        /\ gen' = gen \/ (gen[Exit] = "running" /\ gen' = [gen EXCEPT ![Exit] = "closed"])
    BY <1>27 DEF SystemExit, WriterClosed, LastPart, outVars
  <2>2. \A j \in Jobs : gen'[j] = gen[j] \/ (j = Exit /\ gen[j] = "running" /\ gen'[j] = "closed")
    BY <2>1 DEF TypeOK
  <2>3. main.at \in {"submitted", "registered"} => main' = main
    BY <1>27 DEF SystemExit, WriterClosed, OnMain
  <2>4. main'.at \in {"submitted", "registered"} => main' = main
    BY <2>1 DEF Exited
  <2>5. /\ Fresh' /\ FutureLife' /\ AnsweredByCallback' /\ InsertionOrder'
        /\ CancelledInOrder' /\ CancelledForAReason'
    BY <2>1, <2>2
    DEF Fresh, FutureLife, AnsweredByCallback, InsertionOrder, CancelledInOrder,
      CancelledForAReason
  <2>6. GeneratorWaits'
    BY <2>1, <2>2 DEF GeneratorWaits
  <2>7. Attaching'
    BY <2>1, <2>2, <2>4 DEF Attaching
  <2>8. UnregisteredIsOver'
    BY <2>1, <2>3 DEF UnregisteredIsOver
  <2>9. Sweeping' /\ NoOrphanedGenerator'
    BY <2>1, <2>2 DEF Sweeping, NoOrphanedGenerator
  <2> QED
    BY <1>t, <2>5, <2>6, <2>7, <2>8, <2>9
<1>28. ASSUME UNCHANGED vars PROVE FutureInv'
  BY <1>t, <1>28
  DEF vars, OnMain, Fresh, FutureLife, GeneratorWaits, Attaching, AnsweredByCallback,
    UnregisteredIsOver, InsertionOrder, Sweeping, CancelledInOrder, CancelledForAReason,
    NoOrphanedGenerator
<1> QED
  BY <1>1, <1>2, <1>3, <1>4, <1>5, <1>6, <1>7, <1>8, <1>9, <1>10, <1>11, <1>12, <1>13,
    <1>14, <1>15, <1>16, <1>17, <1>18, <1>19, <1>20, <1>21, <1>22, <1>23, <1>24, <1>25,
    <1>26, <1>27, <1>28
  DEF Next, Receive, Generator, Task, Worker, ShutdownStep, ExitStep

-----------------------------------------------------------------------------
(* The invariant while lsp_shutdown runs on the main thread.                *)

\* Futures that end or are deregistered do not undo what the loop of lsp_shutdown
\* has done.
LEMMA SweptKept ==
  ASSUME TypeOK, SweptIsStopped, UNCHANGED <<kind, cancelling, shutdown, sweep>>,
         \A k \in Id : future'[k] = future[k] \/ future'[k] \in Done,
         \A k \in Id : rank'[k] = rank[k] \/ rank'[k] = 0,
         shutdown => OnlyExit'
  PROVE  SweptIsStopped'
<1>1. \A k \in Id : Stopped(k) => Stopped(k)'
  BY DEF Stopped, Done
<1>2. \A k \in Id : rank[k] \in Nat /\ (k \in Registered' => k \in Registered /\ rank'[k] = rank[k])
  BY DEF Registered, TypeOK
<1>3. \A k \in Id : rank'[k] <= rank[k] /\ rank'[k] \in Nat
  BY DEF TypeOK
<1>4. Registered' \subseteq Id /\ sweep.cursor \in Nat
  BY DEF Registered, TypeOK
<1> QED
  BY <1>1, <1>2, <1>3, <1>4 DEF SweptIsStopped


\* The steps of an lsp_shutdown that runs on the main thread, and of everything
\* beside it, keep MainThreadInv.
LEMMA MainThreadStep ==
  ASSUME FutureInv, MainThreadInv, [Next]_vars, ~ThreadedShutdown'
  PROVE  MainThreadInv'
<1> USE Keys, JobKinds DEF FutureInv, MainThreadInv, Done
<1>t. TypeOK'
  BY TypeStep
<1>1. ASSUME NEW j \in Jobs, HandleUnknownMethod(j) PROVE MainThreadInv'
  <2>1. RunningIsOpen' /\ ShutdownOnMain' /\ SweptIsStopped'
    BY <1>1
    DEF TypeOK, HandleUnknownMethod, Accept, SendResponse, RunningIsOpen, OnMain,
      ShutdownOnMain, SweptIsStopped, OnlyExit, Stopped, Registered
  <2>2. RepliedOnce'
    BY <1>1
    DEF TypeOK, HandleUnknownMethod, Accept, SendResponse, RepliedOnce, Fresh
  <2> QED
    BY <2>1, <2>2
<1>2. ASSUME NEW j \in Jobs, HandleSync(j) PROVE MainThreadInv'
  <2>1. RunningIsOpen' /\ ShutdownOnMain'
    BY <1>2, FinishEffect
    DEF TypeOK, HandleSync, Accept, RunningIsOpen, OnMain, ShutdownOnMain
  <2>2. RepliedOnce'
    BY <1>2, FinishEffect
    DEF TypeOK, HandleSync, Accept, RepliedOnce, GeneratorWaits, Fresh
  <2>3. SweptIsStopped'
    BY <1>2, FinishEffect
    DEF TypeOK, HandleSync, Accept, SweptIsStopped, OnlyExit, Stopped, Registered, Sweeping,
      ShutdownOnMain, OnMain
  <2> QED
    BY <2>1, <2>2, <2>3
<1>3. ASSUME NEW j \in Jobs, HandleAsync(j) PROVE MainThreadInv'
  <2>1. RepliedOnce' /\ RunningIsOpen' /\ ShutdownOnMain'
    BY <1>3
    DEF TypeOK, HandleAsync, Accept, Register, RepliedOnce, RunningIsOpen, OnMain,
      ShutdownOnMain
  <2>2. SweptIsStopped'
    BY <1>3
    DEF TypeOK, HandleAsync, Accept, Register, SweptIsStopped, OnlyExit, Stopped, Registered,
      Sweeping, ShutdownOnMain, OnMain
  <2> QED
    BY <2>1, <2>2
<1>4. ASSUME NEW j \in Jobs, HandleThread(j) PROVE MainThreadInv'
  <2>1. RepliedOnce' /\ RunningIsOpen' /\ ShutdownOnMain'
    BY <1>4
    DEF TypeOK, HandleThread, Accept, RepliedOnce, RunningIsOpen, OnMain, ShutdownOnMain
  <2>2. SweptIsStopped'
    BY <1>4
    DEF TypeOK, HandleThread, Accept, SweptIsStopped, OnlyExit, Stopped, Registered, Sweeping,
      ShutdownOnMain, OnMain
  <2> QED
    BY <2>1, <2>2
<1>5. ASSUME NEW j \in Jobs, HandleGenerator(j) PROVE MainThreadInv'
  <2>1. RepliedOnce' /\ RunningIsOpen' /\ ShutdownOnMain'
    BY <1>5
    DEF TypeOK, HandleGenerator, Accept, Register, RepliedOnce, RunningIsOpen, OnMain,
      ShutdownOnMain
  <2>2. SweptIsStopped'
    BY <1>5
    DEF TypeOK, HandleGenerator, Accept, Register, SweptIsStopped, OnlyExit, Stopped, Registered,
      Sweeping, ShutdownOnMain, OnMain
  <2> QED
    BY <2>1, <2>2
<1>6. ASSUME NEW r \in RequestJobs, Cancel(r) PROVE MainThreadInv'
  <2>1. RunningIsOpen' /\ ShutdownOnMain'
    BY <1>6, FinishEffect
    DEF TypeOK, Cancel, Settle, Registered, RunningIsOpen, OnMain, ShutdownOnMain
  <2>2. RepliedOnce'
    BY <1>6, FinishEffect
    DEF TypeOK, Cancel, Settle, Registered, RepliedOnce, FutureLife, AnsweredByCallback
  <2>3. SweptIsStopped'
    BY <1>6, FinishEffect
    DEF TypeOK, Cancel, Settle, Registered, SweptIsStopped, OnlyExit, Stopped, Sweeping,
      ShutdownOnMain, OnMain
  <2> QED
    BY <2>1, <2>2, <2>3
<1>7. ASSUME NEW j \in Jobs, StartGenerator(j) PROVE MainThreadInv'
  <2>1. ShutdownOnMain'
    BY <1>7, FinishEffect
    DEF TypeOK, StartGenerator, outVars, Idle, ShutdownOnMain, OnMain
  <2>2. RepliedOnce'
    BY <1>7, FinishEffect
    DEF TypeOK, StartGenerator, outVars, Idle, RepliedOnce, RunningIsOpen
  <2>3. RunningIsOpen'
    <3>1. main = [at |-> "registered", on |-> Main(j)] /\ kind[Main(j)] = "generator"
      BY <1>7 DEF StartGenerator
    <3>2. future[Main(j)] \notin Done
      BY <3>1 DEF RunningIsOpen
    <3>3. /\ UNCHANGED <<kind, future>>
          /\ gen' = [gen EXCEPT ![j] = "running"]
          /\ main' = [at |-> "generator", on |-> Main(j)]
      BY <1>7, <3>1, <3>2 DEF StartGenerator, Idle
    <3>4. \A k \in Jobs \ {j} : ~(gen[k] = "running" /\ OnMain(k))
      BY <3>1 DEF OnMain
    <3> QED
      BY <3>2, <3>3, <3>4 DEF RunningIsOpen, OnMain, TypeOK
  <2>4. SweptIsStopped'
    BY <1>7, FinishEffect
    DEF TypeOK, StartGenerator, outVars, Idle, SweptIsStopped, OnlyExit, Stopped, Registered,
      RunningIsOpen
  <2> QED
    BY <2>1, <2>2, <2>3, <2>4
<1>8. ASSUME NEW j \in Jobs, YieldSync(j) PROVE MainThreadInv'
  <2>1. RunningIsOpen' /\ ShutdownOnMain'
    BY <1>8, FinishEffect
    DEF TypeOK, YieldSync, Yields, ResumeOnMain, OnMain, Idle, Resume, ResumeWith,
      Resumes, SettleUnlessDone, Settle, outVars, RunningIsOpen, ShutdownOnMain
  <2>2. RepliedOnce'
    BY <1>8, FinishEffect
    DEF TypeOK, YieldSync, Yields, ResumeOnMain, OnMain, Idle, Resume, ResumeWith,
      Resumes, SettleUnlessDone, Settle, outVars, RepliedOnce, FutureLife, GeneratorWaits,
      AnsweredByCallback, UnregisteredIsOver
  <2>3. SweptIsStopped'
    <3>1. PICK out \in {"result", "error"} :
            ResumeOnMain([future EXCEPT ![Sub(j)] = out], j, out)
      BY <1>8 DEF YieldSync
    <3>2. /\ OnMain(j) /\ gen[j] = "running" /\ kind[Sub(j)] = "none"
          /\ UNCHANGED <<cancelling, sweep, shutdown>>
          /\ kind' = [kind EXCEPT ![Sub(j)] = "sync"]
      BY <1>8 DEF YieldSync, Yields
    <3>3. \A k \in Id : future'[k] = future[k] \/ future'[k] \in Done
      BY <3>1 DEF ResumeOnMain, Resume, ResumeWith, SettleUnlessDone, Settle, TypeOK
    <3>4. \A k \in Id : rank'[k] = rank[k] \/ rank'[k] = 0
      BY <3>1, FinishEffect
      DEF ResumeOnMain, Resume, ResumeWith, SettleUnlessDone, Settle, outVars, TypeOK
    <3>5. \A k \in Id : Stopped(k) => Stopped(k)'
      BY <3>2, <3>3 DEF Stopped, FutureLife, TypeOK
    <3>6. \A k \in Id : rank[k] \in Nat /\ (k \in Registered' => k \in Registered /\ rank'[k] = rank[k])
      BY <3>4 DEF Registered, TypeOK
    <3>7. \A k \in Id : rank'[k] <= rank[k] /\ rank'[k] \in Nat
      BY <3>4, <1>t DEF TypeOK
    <3>8. shutdown => OnlyExit'
      BY <3>1, <3>2 DEF SweptIsStopped, OnlyExit, OnMain, ResumeOnMain, Idle
    <3>9. Registered' \subseteq Id /\ sweep.cursor \in Nat
      BY DEF Registered, TypeOK
    <3> QED
      BY <3>2, <3>5, <3>6, <3>7, <3>8, <3>9 DEF SweptIsStopped
  <2> QED
    BY <2>1, <2>2, <2>3
<1>9. ASSUME NEW j \in Jobs, YieldAsync(j) PROVE MainThreadInv'
  <2>1. RepliedOnce' /\ RunningIsOpen' /\ ShutdownOnMain'
    BY <1>9
    DEF TypeOK, YieldAsync, Yields, Register, OnMain, Idle, RepliedOnce, RunningIsOpen,
      ShutdownOnMain
  <2>2. SweptIsStopped'
    BY <1>9
    DEF TypeOK, YieldAsync, Yields, Register, OnMain, Idle, SweptIsStopped, OnlyExit, Stopped,
      Registered, Sweeping, ShutdownOnMain
  <2> QED
    BY <2>1, <2>2
<1>10. ASSUME NEW j \in Jobs, YieldThread(j) PROVE MainThreadInv'
  <2>1. RepliedOnce' /\ RunningIsOpen'
    BY <1>10
    DEF TypeOK, YieldThread, Yields, OnMain, RepliedOnce, RunningIsOpen
  <2>2. ShutdownOnMain'
    BY <1>10
    DEF TypeOK, YieldThread, Yields, OnMain, ShutdownOnMain, ThreadedShutdown
  <2>3. SweptIsStopped'
    BY <1>10
    DEF TypeOK, YieldThread, Yields, OnMain, SweptIsStopped, OnlyExit, Stopped, Registered,
      Sweeping, ShutdownOnMain
  <2> QED
    BY <2>1, <2>2, <2>3
<1>11. ASSUME NEW j \in Jobs, GenReturn(j) PROVE MainThreadInv'
  <2>1. ShutdownOnMain'
    BY <1>11, FinishEffect
    DEF TypeOK, GenReturn, DispatchError, SendResponse, LeaveMain, OnMain, Idle,
      SettleUnlessDone, Settle, outVars, ShutdownOnMain
  <2>2. RepliedOnce'
    BY <1>11, FinishEffect
    DEF TypeOK, GenReturn, DispatchError, SendResponse, LeaveMain, OnMain, Idle,
      SettleUnlessDone, Settle, outVars, RepliedOnce, GeneratorWaits, AnsweredByCallback,
      UnregisteredIsOver, RunningIsOpen
  <2>3. RunningIsOpen'
    BY <1>11, FinishEffect
    DEF TypeOK, GenReturn, DispatchError, SendResponse, LeaveMain, OnMain, Idle,
      SettleUnlessDone, Settle, outVars, RunningIsOpen, Attaching
  <2>4. SweptIsStopped'
    <3>1. \A k \in Id : future'[k] = future[k] \/ future'[k] \in Done
      BY <1>11 DEF GenReturn, TypeOK, SettleUnlessDone, Settle, DispatchError
    <3>2. \A k \in Id : rank'[k] = rank[k] \/ rank'[k] = 0
      BY <1>11, FinishEffect
      DEF GenReturn, TypeOK, SettleUnlessDone, Settle, DispatchError, outVars
    <3>3. shutdown => OnlyExit'
      BY <1>11 DEF GenReturn, LeaveMain, Idle, SweptIsStopped, OnlyExit
    <3> QED
      BY <1>11, <3>1, <3>2, <3>3, SweptKept DEF GenReturn
  <2> QED
    BY <2>1, <2>2, <2>3, <2>4
<1>12. ASSUME SweepBegin PROVE MainThreadInv'
  <2>1. RepliedOnce' /\ RunningIsOpen' /\ ShutdownOnMain' /\ SweptIsStopped'
    BY <1>12
    DEF TypeOK, SweepBegin, LastPart, RepliedOnce, RunningIsOpen, OnMain, ShutdownOnMain,
      SweptIsStopped, OnlyExit, Stopped, Registered
  <2> QED
    BY <2>1
<1>13. ASSUME NEW i \in Id, SweepSkip(i) PROVE MainThreadInv'
  <2>1. RepliedOnce' /\ RunningIsOpen' /\ ShutdownOnMain'
    BY <1>13
    DEF TypeOK, SweepSkip, SweepNext, Spared, outVars, RepliedOnce, RunningIsOpen, OnMain,
      ShutdownOnMain
  <2>2. SweptIsStopped'
    <3>1. UNCHANGED <<kind, future, cancelling, rank, main, shutdown>>
      BY <1>13 DEF SweepSkip, SweepNext, outVars
    <3>2. Stopped(i) \/ i = Main(Shutdown)
      BY <1>13 DEF SweepSkip, Spared, Stopped
    <3> QED
      BY <1>13, <3>1, <3>2, SweepPasses DEF SweepSkip, SweptIsStopped, OnlyExit, Stopped, Registered
  <2> QED
    BY <2>1, <2>2
<1>14. ASSUME NEW i \in Id, SweepTask(i) PROVE MainThreadInv'
  <2>1. RepliedOnce' /\ RunningIsOpen' /\ ShutdownOnMain'
    BY <1>14
    DEF TypeOK, SweepTask, SweepNext, Spared, outVars, RepliedOnce, RunningIsOpen, OnMain,
      ShutdownOnMain
  <2>2. SweptIsStopped'
    <3>1. /\ UNCHANGED <<kind, future, rank, main, shutdown>>
          /\ cancelling' = cancelling \cup {i}
      BY <1>14 DEF SweepTask, SweepNext, outVars
    <3> QED
      BY <1>14, <3>1, SweepPasses DEF SweepTask, SweptIsStopped, OnlyExit, Stopped, Registered
  <2> QED
    BY <2>1, <2>2
<1>15. ASSUME NEW i \in Id, SweepFuture(i) PROVE MainThreadInv'
  <2>1. ShutdownOnMain'
    BY <1>15, FinishEffect
    DEF TypeOK, SweepFuture, SweepNext, Spared, Attached, Resume, ResumeWith, Resumes,
      SettleUnlessDone, Settle, outVars, ShutdownOnMain, OnMain
  <2>2. RepliedOnce'
    <3>1. /\ i[1] \in Jobs /\ future[i] \notin Done /\ i \notin called
          /\ kind[i] # "none" /\ kind[Main(i[1])] # "none"
      BY <1>15 DEF SweepFuture, SweepNext, Spared, FutureLife, GeneratorWaits, TypeOK
    <3>2. \/ UNCHANGED replies
          \/ /\ Main(i[1]) \notin called
             /\ \E out \in Done : FinishJob(i[1], out)
      BY <1>15, <3>1
      DEF SweepFuture, Resume, ResumeWith, SettleUnlessDone, Settle, outVars, FutureLife,
        TypeOK
    <3>3. CASE /\ Main(i[1]) \notin called
               /\ \E out \in Done : FinishJob(i[1], out)
      BY <3>1, <3>3, FinishEffect DEF RepliedOnce, AnsweredByCallback, TypeOK
    <3> QED
      BY <3>2, <3>3 DEF RepliedOnce
  <2>3. RunningIsOpen'
    BY <1>15, FinishEffect
    DEF TypeOK, SweepFuture, SweepNext, Spared, Attached, Resume, ResumeWith, Resumes,
      SettleUnlessDone, Settle, outVars, RunningIsOpen, OnMain, Sweeping, ShutdownOnMain
  <2>4. SweptIsStopped'
    <3>1. UNCHANGED <<kind, cancelling, main, shutdown>>
      BY <1>15 DEF SweepFuture, SweepNext
    <3>2. /\ future'[i] \in Done
          /\ \A k \in Id : future'[k] = future[k] \/ future'[k] \in Done
      BY <1>15
      DEF SweepFuture, TypeOK, Resume, ResumeWith, Resumes, SettleUnlessDone, Settle,
        outVars
    <3>3. \A k \in Id : rank'[k] = rank[k] \/ rank'[k] = 0
      BY <1>15, FinishEffect
      DEF SweepFuture, TypeOK, Resume, ResumeWith, Resumes, SettleUnlessDone, Settle,
        outVars
    <3>4. \A k \in Id : Stopped(k) => Stopped(k)'
      BY <3>1, <3>2 DEF Stopped
    <3>5. \A k \in Id : rank[k] \in Nat /\ (k \in Registered' => k \in Registered /\ rank'[k] = rank[k])
      BY <3>3 DEF Registered, TypeOK
    <3>6. sweep.phase = "on" /\ sweep'.phase = "on" /\ sweep'.cursor = rank[i]
      BY <1>15, SweepPasses DEF SweepFuture
    <3>7. \A k \in Id : rank[k] <= rank[i] => rank[k] <= sweep.cursor \/ k = i
      BY <1>15, SweepPasses DEF SweepFuture
    <3>8. Stopped(i)'
      BY <3>2 DEF Stopped
    <3>9. Registered' \subseteq Id
      BY DEF Registered
    <3> QED
      BY <3>1, <3>4, <3>5, <3>6, <3>7, <3>8, <3>9 DEF SweptIsStopped, OnlyExit
  <2> QED
    BY <2>1, <2>2, <2>3, <2>4
<1>16. ASSUME SweepError PROVE MainThreadInv'
  <2>1. ShutdownOnMain' /\ SweptIsStopped'
    BY <1>16, FinishEffect
    DEF TypeOK, SweepError, EndShutdown, LeaveMain, OnMain, Idle, NoSweep,
      SettleUnlessDone, Settle, outVars, ShutdownOnMain, SweptIsStopped, OnlyExit, Stopped,
      Registered
  <2>2. RepliedOnce'
    BY <1>16, FinishEffect
    DEF TypeOK, SweepError, EndShutdown, LeaveMain, OnMain, Idle, NoSweep,
      SettleUnlessDone, Settle, outVars, RepliedOnce, GeneratorWaits, AnsweredByCallback,
      UnregisteredIsOver, Sweeping
  <2>3. RunningIsOpen'
    BY <1>16, FinishEffect
    DEF TypeOK, SweepError, EndShutdown, LeaveMain, OnMain, Idle, NoSweep,
      SettleUnlessDone, Settle, outVars, RunningIsOpen, Sweeping, ShutdownOnMain
  <2> QED
    BY <2>1, <2>2, <2>3
<1>17. ASSUME SweepEnd PROVE MainThreadInv'
  <2>1. RepliedOnce' /\ RunningIsOpen' /\ ShutdownOnMain' /\ SweptIsStopped'
    BY <1>17
    DEF TypeOK, SweepEnd, RepliedOnce, RunningIsOpen, OnMain, ShutdownOnMain,
      SweptIsStopped, OnlyExit, Stopped, Registered
  <2> QED
    BY <2>1
<1>18. ASSUME ShutdownReturn PROVE MainThreadInv'
  <2>1. ShutdownOnMain'
    BY <1>18, FinishEffect
    DEF TypeOK, ShutdownReturn, EndShutdown, LeaveMain, OnMain, Idle, NoSweep,
      SettleUnlessDone, Settle, outVars, ShutdownOnMain
  <2>2. RepliedOnce'
    <3>1. /\ gen[Shutdown] = "running" /\ OnMain(Shutdown)
          /\ future[Main(Shutdown)] \notin Done
      BY <1>18 DEF ShutdownReturn, Sweeping, ShutdownOnMain, RunningIsOpen
    <3>2. FinishJob(Shutdown, "result")
      BY <1>18, <3>1
      DEF ShutdownReturn, EndShutdown, SettleUnlessDone, Settle
    <3>3. kind[Main(Shutdown)] = "generator" /\ Main(Shutdown) \notin called
      BY <3>1 DEF GeneratorWaits, FutureLife
    <3>4. Shutdown \in RequestJobs => replies[Shutdown] = 0
      BY <3>3 DEF AnsweredByCallback, TypeOK
    <3>5. \A r \in RequestJobs : replies'[r] = replies[r] \/ (r = Shutdown /\ replies'[r] = replies[r] + 1)
      BY <3>2, FinishEffect DEF TypeOK
    <3>6. \A r \in RequestJobs : replies[r] \in Nat /\ replies[r] <= 1
      BY DEF TypeOK, RepliedOnce
    <3> QED
      BY <3>4, <3>5, <3>6 DEF RepliedOnce
  <2>3. RunningIsOpen'
    <3>1. gen[Shutdown] = "running" /\ OnMain(Shutdown)
      BY <1>18 DEF ShutdownReturn, Sweeping, ShutdownOnMain
    <3>2. /\ gen' = [gen EXCEPT ![Shutdown] = "closed"] /\ main' = Idle
          /\ UNCHANGED kind
      BY <1>18, <3>1 DEF ShutdownReturn, EndShutdown, LeaveMain
    <3>3. \A k \in Jobs : gen'[k] = "running" => k # Shutdown /\ gen[k] = "running"
      BY <3>2 DEF TypeOK
    <3>4. \A k \in Jobs : OnMain(k) => k = Shutdown
      BY <3>1 DEF OnMain
    <3>5. \A k \in Jobs : gen'[k] = "running" => kind[Sub(k)] # "none"
      BY <3>3, <3>4 DEF RunningIsOpen
    <3>6. main'.at = "idle" /\ \A k \in Jobs : ~OnMain(k)'
      BY <3>2 DEF Idle, OnMain
    <3> QED
      BY <3>2, <3>5, <3>6 DEF RunningIsOpen
  <2>4. SweptIsStopped'
    <3>1. /\ gen[Shutdown] = "running" /\ OnMain(Shutdown) /\ sweep.phase = "end"
          /\ future[Main(Shutdown)] \notin Done
      BY <1>18 DEF ShutdownReturn, Sweeping, ShutdownOnMain, RunningIsOpen
    <3>2. /\ main' = Idle /\ UNCHANGED <<kind, cancelling>> /\ sweep'.phase = "over"
          /\ future' = [future EXCEPT ![Main(Shutdown)] = "result"]
          /\ FinishJob(Shutdown, "result")
      BY <1>18, <3>1
      DEF ShutdownReturn, EndShutdown, LeaveMain, NoSweep, SettleUnlessDone, Settle, OnMain
    <3>3. \A k \in Id : rank'[k] = rank[k] \/ rank'[k] = 0
      BY <3>2, FinishEffect DEF TypeOK
    <3>4. \A k \in Registered' : k \in Id /\ k \in Registered
      BY <3>3 DEF Registered, TypeOK
    <3>5. \A k \in Registered : rank[k] <= sweep.cursor
      BY <3>1 DEF SweptIsStopped, Registered
    <3>6. \A k \in Registered : Stopped(k) \/ k = Main(Shutdown)
      BY <3>1, <3>5 DEF SweptIsStopped
    <3>7. \A k \in Registered' : Stopped(k)'
      BY <3>2, <3>4, <3>6 DEF Stopped, TypeOK
    <3>8. OnlyExit'
      BY <3>2 DEF OnlyExit, Idle
    <3> QED
      BY <3>2, <3>7, <3>8 DEF SweptIsStopped
  <2> QED
    BY <2>1, <2>2, <2>3, <2>4
<1>19. ASSUME NEW i \in Id, TaskStart(i) PROVE MainThreadInv'
  <2>1. RepliedOnce' /\ RunningIsOpen' /\ ShutdownOnMain' /\ SweptIsStopped'
    BY <1>19
    DEF TypeOK, TaskStart, outVars, RepliedOnce, RunningIsOpen, OnMain, ShutdownOnMain,
      SweptIsStopped, OnlyExit, Stopped, Registered
  <2> QED
    BY <2>1
<1>20. ASSUME NEW i \in Id, TaskEnd(i) PROVE MainThreadInv'
  <2>1. RepliedOnce' /\ RunningIsOpen' /\ ShutdownOnMain' /\ SweptIsStopped'
    BY <1>20
    DEF TypeOK, TaskEnd, Outcomes, outVars, RepliedOnce, RunningIsOpen, OnMain,
      ShutdownOnMain, SweptIsStopped, OnlyExit, Stopped, Registered
  <2> QED
    BY <2>1
<1>21. ASSUME NEW i \in Id, TaskCallback(i) PROVE MainThreadInv'
  <2>1. ShutdownOnMain'
    BY <1>21, FinishEffect
    DEF TypeOK, TaskCallback, CallbackOnMain, ResumeOnMain, Idle, Resume, ResumeWith,
      Resumes, SettleUnlessDone, Settle, outVars, ShutdownOnMain, OnMain
  <2>2. RepliedOnce'
    BY <1>21, FinishEffect, SMTT(30)
    DEF TypeOK, TaskCallback, CallbackOnMain, ResumeOnMain, Idle, Resume, ResumeWith,
      Resumes, SettleUnlessDone, Settle, outVars, RepliedOnce, GeneratorWaits,
      AnsweredByCallback, UnregisteredIsOver
  <2>3. RunningIsOpen'
    BY <1>21, FinishEffect
    DEF TypeOK, TaskCallback, CallbackOnMain, ResumeOnMain, Idle, Resume, ResumeWith,
      Resumes, SettleUnlessDone, Settle, outVars, RunningIsOpen, OnMain, GeneratorWaits
  <2>4. SweptIsStopped'
    <3>1. \A k \in Id : future'[k] = future[k] \/ future'[k] \in Done
      BY <1>21
      DEF TaskCallback, CallbackOnMain, ResumeOnMain, TypeOK, Resume, ResumeWith,
        Resumes, SettleUnlessDone, Settle, outVars
    <3>2. \A k \in Id : rank'[k] = rank[k] \/ rank'[k] = 0
      BY <1>21, FinishEffect
      DEF TaskCallback, CallbackOnMain, ResumeOnMain, TypeOK, Resume, ResumeWith,
        Resumes, SettleUnlessDone, Settle, outVars
    <3>3. ASSUME shutdown, i = Sub(i[1]), i[1] # Exit PROVE future[Main(i[1])] = "cancelled"
      <4>1. /\ kind[Main(i[1])] = "generator"
            /\ future[Main(i[1])] \in {"pending", "cancelled"}
        BY <1>21, <3>3 DEF TaskCallback, GeneratorWaits
      <4>2. Main(i[1]) \in Registered => Stopped(Main(i[1]))
        BY <3>3 DEF SweptIsStopped
      <4> QED
        BY <4>1, <4>2
        DEF Registered, Stopped, UnregisteredIsOver, CancelledInOrder, TypeOK
    <3>4. shutdown => OnlyExit'
      BY <1>21, <3>3 DEF TaskCallback, CallbackOnMain, ResumeOnMain, Resumes, Idle, OnlyExit
    <3> QED
      BY <1>21, <3>1, <3>2, <3>4, SweptKept DEF TaskCallback
  <2> QED
    BY <2>1, <2>2, <2>3, <2>4
<1>22. ASSUME RegisterThread PROVE MainThreadInv'
  <2>1. RepliedOnce' /\ ShutdownOnMain'
    BY <1>22
    DEF TypeOK, RegisterThread, Register, RepliedOnce, ShutdownOnMain, OnMain
  <2>2. RunningIsOpen'
    BY <1>22
    DEF TypeOK, RegisterThread, Register, RunningIsOpen, OnMain, Attaching
  <2>3. SweptIsStopped'
    BY <1>22
    DEF TypeOK, RegisterThread, Register, SweptIsStopped, OnlyExit, Stopped, Registered, Sweeping,
      ShutdownOnMain, OnMain
  <2> QED
    BY <2>1, <2>2, <2>3
<1>23. ASSUME AttachThread PROVE MainThreadInv'
  <2>1. ShutdownOnMain'
    BY <1>23, FinishEffect
    DEF TypeOK, AttachThread, CallbackOnMain, ResumeOnMain, Idle, Resume, ResumeWith,
      Resumes, SettleUnlessDone, Settle, outVars, ShutdownOnMain, OnMain
  <2>2. RepliedOnce'
    BY <1>23, FinishEffect
    DEF TypeOK, AttachThread, CallbackOnMain, ResumeOnMain, Idle, Resume, ResumeWith,
      Resumes, SettleUnlessDone, Settle, outVars, RepliedOnce, GeneratorWaits, Attaching,
      AnsweredByCallback, UnregisteredIsOver
  <2>3. RunningIsOpen'
    BY <1>23, FinishEffect
    DEF TypeOK, AttachThread, CallbackOnMain, ResumeOnMain, Idle, Resume, ResumeWith,
      Resumes, SettleUnlessDone, Settle, outVars, RunningIsOpen, OnMain, GeneratorWaits,
      Attaching
  <2>4. SweptIsStopped'
    <3>1. \A k \in Id : future'[k] = future[k] \/ future'[k] \in Done
      BY <1>23
      DEF AttachThread, CallbackOnMain, ResumeOnMain, TypeOK, Resume, ResumeWith,
        Resumes, SettleUnlessDone, Settle, outVars
    <3>2. \A k \in Id : rank'[k] = rank[k] \/ rank'[k] = 0
      BY <1>23, FinishEffect
      DEF AttachThread, CallbackOnMain, ResumeOnMain, TypeOK, Resume, ResumeWith,
        Resumes, SettleUnlessDone, Settle, outVars
    <3>3. shutdown => main.on[1] = Exit
      BY <1>23 DEF AttachThread, SweptIsStopped, OnlyExit
    <3>4. main' = Idle \/ main' = [at |-> "generator", on |-> Main(main.on[1])]
      BY <1>23 DEF AttachThread, CallbackOnMain, ResumeOnMain
    <3>5. shutdown => OnlyExit'
      BY <3>3, <3>4 DEF OnlyExit, Idle, Main
    <3> QED
      BY <1>23, <3>1, <3>2, <3>5, SweptKept DEF AttachThread
  <2> QED
    BY <2>1, <2>2, <2>3, <2>4
<1>24. ASSUME NEW i \in Id, ThreadStart(i) PROVE MainThreadInv'
  <2>1. RepliedOnce' /\ RunningIsOpen' /\ ShutdownOnMain' /\ SweptIsStopped'
    BY <1>24
    DEF TypeOK, ThreadStart, outVars, RepliedOnce, RunningIsOpen, OnMain, ShutdownOnMain,
      SweptIsStopped, OnlyExit, Stopped, Registered
  <2> QED
    BY <2>1
<1>25. ASSUME NEW i \in Id, ThreadEnd(i) PROVE MainThreadInv'
  <2>1. RepliedOnce' /\ ShutdownOnMain' /\ SweptIsStopped'
    BY <1>25
    DEF TypeOK, ThreadEnd, Outcomes, outVars, RepliedOnce, ShutdownOnMain, OnMain,
      SweptIsStopped, OnlyExit, Stopped, Registered
  <2>2. RunningIsOpen'
    BY <1>25
    DEF TypeOK, ThreadEnd, Outcomes, outVars, RunningIsOpen, OnMain, GeneratorWaits
  <2> QED
    BY <2>1, <2>2
<1>26. ASSUME NEW i \in Id, ThreadCallback(i) PROVE MainThreadInv'
  <2>1. ShutdownOnMain'
    BY <1>26, FinishEffect
    DEF TypeOK, ThreadCallback, Attached, Resume, ResumeWith, Resumes, SettleUnlessDone,
      Settle, outVars, ShutdownOnMain, OnMain
  <2>2. RepliedOnce'
    BY <1>26, FinishEffect
    DEF TypeOK, ThreadCallback, Attached, Resume, ResumeWith, Resumes, SettleUnlessDone,
      Settle, outVars, RepliedOnce, GeneratorWaits, AnsweredByCallback, UnregisteredIsOver
  <2>3. RunningIsOpen'
    BY <1>26, FinishEffect
    DEF TypeOK, ThreadCallback, Attached, Resume, ResumeWith, Resumes, SettleUnlessDone,
      Settle, outVars, RunningIsOpen, OnMain, GeneratorWaits, Attaching
  <2>4. SweptIsStopped'
    <3>1. \A k \in Id : future'[k] = future[k] \/ future'[k] \in Done
      BY <1>26
      DEF ThreadCallback, TypeOK, Resume, ResumeWith, Resumes, SettleUnlessDone, Settle,
        outVars
    <3>2. \A k \in Id : rank'[k] = rank[k] \/ rank'[k] = 0
      BY <1>26, FinishEffect
      DEF ThreadCallback, TypeOK, Resume, ResumeWith, Resumes, SettleUnlessDone, Settle,
        outVars
    <3> QED
      BY <1>26, <3>1, <3>2, SweptKept DEF ThreadCallback, SweptIsStopped, OnlyExit
  <2> QED
    BY <2>1, <2>2, <2>3, <2>4
<1>27. ASSUME SystemExit \/ WriterClosed PROVE MainThreadInv'
  <2>1. /\ UNCHANGED <<kind, future, cancelling, sweep, shutdown, rank, replies>>
        /\ main' = main \/ main' = Exited
        /\ gen' = gen \/ gen' = [gen EXCEPT ![Exit] = "closed"]
    BY <1>27 DEF SystemExit, WriterClosed, outVars
  <2>2. \A j \in Jobs : gen'[j] = "running" => gen[j] = "running"
    BY <2>1 DEF TypeOK
  <2>3. \A j \in Jobs : gen'[j] = "running" /\ OnMain(j) => OnMain(j)'
    BY <1>27, <2>1 DEF SystemExit, WriterClosed, OnMain, TypeOK
  <2>4. \A j \in Jobs : OnMain(j)' => OnMain(j)
    BY <2>1 DEF OnMain, Exited
  <2>5. main'.at = "registered" => main' = main
    BY <2>1 DEF Exited
  <2>6. RepliedOnce' /\ RunningIsOpen' /\ ShutdownOnMain'
    BY <2>1, <2>2, <2>3, <2>4, <2>5 DEF RepliedOnce, RunningIsOpen, ShutdownOnMain
  <2>7. SweptIsStopped'
    BY <2>1 DEF SweptIsStopped, OnlyExit, Stopped, Registered, OnlyExit, Exited
  <2> QED
    BY <2>6, <2>7
<1>28. ASSUME UNCHANGED vars PROVE MainThreadInv'
  BY <1>28
  DEF vars, OnMain, Registered, Stopped, OnlyExit, RepliedOnce, RunningIsOpen, ShutdownOnMain,
    SweptIsStopped
<1> QED
  BY <1>1, <1>2, <1>3, <1>4, <1>5, <1>6, <1>7, <1>8, <1>9, <1>10, <1>11, <1>12, <1>13,
    <1>14, <1>15, <1>16, <1>17, <1>18, <1>19, <1>20, <1>21, <1>22, <1>23, <1>24, <1>25,
    <1>26, <1>27, <1>28
  DEF Next, Receive, Generator, Task, Worker, ShutdownStep, ExitStep

\* A handler keeps its kind: a threaded shutdown stays threaded.
LEMMA ThreadedStays ==
  ASSUME TypeOK, ThreadedShutdown, [Next]_vars
  PROVE  ThreadedShutdown'
<1> USE Keys, JobKinds DEF ThreadedShutdown, TypeOK
<1>1. ASSUME NEW j \in Jobs, Receive(j) PROVE ThreadedShutdown'
  BY <1>1 DEF Receive, HandleUnknownMethod, HandleSync, HandleAsync, HandleThread,
    HandleGenerator
<1>2. ASSUME NEW j \in Jobs, Generator(j) PROVE ThreadedShutdown'
  BY <1>2 DEF Generator, StartGenerator, YieldSync, YieldAsync, YieldThread, Yields,
    GenReturn
<1>3. ASSUME NEW r \in RequestJobs, Cancel(r) PROVE ThreadedShutdown'
  BY <1>3 DEF Cancel
<1>4. ASSUME NEW i \in Id, Task(i) \/ Worker(i) PROVE ThreadedShutdown'
  BY <1>4 DEF Task, TaskStart, TaskEnd, TaskCallback, Worker, ThreadStart, ThreadEnd,
    ThreadCallback
<1>5. CASE RegisterThread \/ AttachThread
  BY <1>5 DEF RegisterThread, AttachThread
<1>6. CASE ShutdownStep
  BY <1>6 DEF ShutdownStep, SweepBegin, SweepSkip, SweepTask, SweepFuture, SweepNext,
    SweepError, SweepEnd, ShutdownReturn, EndShutdown
<1>7. CASE ExitStep
  BY <1>7 DEF ExitStep, SystemExit, WriterClosed
<1>8. CASE UNCHANGED vars
  BY <1>8 DEF vars
<1> QED
  BY <1>1, <1>2, <1>3, <1>4, <1>5, <1>6, <1>7, <1>8 DEF Next

\* The invariant holds initially, and so in every reachable state.
LEMMA ProtocolInvariant == Spec => []ProtocolInv
<1>1. Init => ProtocolInv
  <2> SUFFICES ASSUME Init PROVE ProtocolInv
    OBVIOUS
  <2> USE Keys, JobKinds DEF Init
  <2>1. TypeOK /\ Fresh /\ FutureLife /\ GeneratorWaits
    BY TypeInit DEF Fresh, FutureLife, GeneratorWaits
  <2>2. Attaching /\ AnsweredByCallback /\ UnregisteredIsOver
    BY DEF Idle, Attaching, AnsweredByCallback, UnregisteredIsOver
  <2>3. InsertionOrder /\ Sweeping
    BY DEF NoSweep, InsertionOrder, Sweeping
  <2>4. CancelledInOrder /\ CancelledForAReason /\ NoOrphanedGenerator
    BY DEF Done, CancelledInOrder, CancelledForAReason, NoOrphanedGenerator
  <2>5. RepliedOnce /\ RunningIsOpen /\ ShutdownOnMain
    BY DEF Idle, RepliedOnce, RunningIsOpen, ShutdownOnMain
  <2>6. SweptIsStopped
    BY DEF Idle, NoSweep, SweptIsStopped, Registered
  <2> QED
    BY <2>1, <2>2, <2>3, <2>4, <2>5, <2>6 DEF ProtocolInv, FutureInv, MainThreadInv
<1>2. ProtocolInv /\ [Next]_vars => ProtocolInv'
  <2> SUFFICES ASSUME ProtocolInv, [Next]_vars PROVE ProtocolInv'
    OBVIOUS
  <2>1. FutureInv /\ FutureInv'
    BY FutureStep DEF ProtocolInv
  <2>2. CASE ThreadedShutdown'
    BY <2>1, <2>2 DEF ProtocolInv
  <2>3. CASE ~ThreadedShutdown'
    <3>1. ~ThreadedShutdown
      BY <2>1, <2>3, ThreadedStays DEF FutureInv
    <3>2. MainThreadInv'
      BY <2>1, <2>3, <3>1, MainThreadStep DEF ProtocolInv
    <3> QED
      BY <2>1, <3>2 DEF ProtocolInv
  <2> QED
    BY <2>2, <2>3
<1> QED
  BY <1>1, <1>2, PTL DEF Spec

-----------------------------------------------------------------------------
(* The safety properties of JsonRpc.                                        *)

\* No request is answered twice, whatever its handler, the client's
\* cancellations and the shutdown do, in any order, as long as lsp_shutdown
\* runs on the main thread.
THEOREM OneReply == Spec => []AtMostOneReply
<1>1. ProtocolInv => AtMostOneReply
  BY DEF ProtocolInv, MainThreadInv, RepliedOnce, AtMostOneReply
<1> QED
  BY <1>1, ProtocolInvariant, PTL

\* The future of an answered request is never found in `_request_futures`
\* again: a callback that outruns _execute_handler cannot leave it behind.
THEOREM NothingLeaks == Spec => []AnsweredIsDeregistered
<1>1. ProtocolInv => AnsweredIsDeregistered
  BY Keys, JobKinds
  DEF ProtocolInv, FutureInv, FutureLife, AnsweredByCallback, AnsweredIsDeregistered,
    Registered
<1> QED
  BY <1>1, ProtocolInvariant, PTL

\* "Request cancelled" always has a reason: the client's $/cancelRequest for
\* this request, or a shutdown that is cancelling what is in flight.
THEOREM CancelledForCause == Spec => []CancelledOnlyIfAsked
<1>1. ProtocolInv => CancelledOnlyIfAsked
  BY DEF ProtocolInv, FutureInv, CancelledForAReason, CancelledOnlyIfAsked
<1> QED
  BY <1>1, ProtocolInvariant, PTL

\* _run_generator never drops a generator whose job nobody will answer, wherever
\* lsp_shutdown runs.
THEOREM GeneratorsAreFinished == Spec => []NoOrphanedGenerator
<1>1. ProtocolInv => NoOrphanedGenerator
  BY DEF ProtocolInv, FutureInv
<1> QED
  BY <1>1, ProtocolInvariant, PTL

\* When lsp_shutdown has run on the main thread, everything it leaves in
\* `_request_futures` is over, being cancelled, or too late to cancel.
THEOREM ShutdownCompletes == Spec => []ShutdownIsComplete
<1>1. ProtocolInv => ShutdownIsComplete
  BY DEF ProtocolInv, MainThreadInv, SweptIsStopped, Stopped, ShutdownIsComplete
<1> QED
  BY <1>1, ProtocolInvariant, PTL

\* Nothing that could still be started escapes lsp_shutdown: from the moment
\* `_shutdown` is set no handler and no generator begins to run but those of
\* `exit`, the one message handle_message still lets through.
THEOREM NothingStartsAfterShutdown == Spec => NoStartAfterShutdown
<1> DEFINE Starts ==
      shutdown /\ ~ThreadedShutdown =>
        /\ \A i \in Id : i[1] # Exit /\ future'[i] = "running" => future[i] = "running"
        /\ \A j \in Jobs \ {Exit} : gen'[j] = "running" => gen[j] = "running"
<1>1. ProtocolInv /\ Next => Starts
  <2> SUFFICES ASSUME ProtocolInv, Next, shutdown, ~ThreadedShutdown PROVE Starts
    OBVIOUS
  <2> USE Keys, JobKinds DEF Done
  <2>1. FutureInv /\ MainThreadInv
    BY DEF ProtocolInv
  <2>2. TypeOK /\ OnlyExit /\ sweep.phase \notin {"on", "end"}
    BY <2>1
    DEF FutureInv, MainThreadInv, SweptIsStopped, OnlyExit, Sweeping, ShutdownOnMain, OnMain
  \* What is registered is stopped, the rest is over.
  <2>3. \A i \in Id : future[i] = "pending" /\ i[1] # Exit =>
                       /\ kind[i] # "thread" /\ kind[i] # "generator"
                       /\ kind[i] = "async" => i \in cancelling
    <3> SUFFICES ASSUME NEW i \in Id, future[i] = "pending", i[1] # Exit
                 PROVE  /\ kind[i] # "thread" /\ kind[i] # "generator"
                        /\ kind[i] = "async" => i \in cancelling
      OBVIOUS
    <3>1. CASE rank[i] > 0
      BY <2>1, <3>1
      DEF FutureInv, MainThreadInv, SweptIsStopped, Stopped, Registered, CancelledInOrder
    <3>2. CASE rank[i] = 0
      BY <2>1, <2>2, <3>2 DEF FutureInv, UnregisteredIsOver, OnlyExit
    <3> QED
      BY <2>2, <3>1, <3>2 DEF TypeOK
  <2>4. \A j \in Jobs \ {Exit} : gen[j] = "waiting" => future[Main(j)] = "cancelled"
    BY <2>1, <2>3 DEF FutureInv, GeneratorWaits
  <2>5. ASSUME NEW j \in Jobs, Receive(j) PROVE Starts
    <3>1. j = Exit /\ HandleGenerator(j)
      BY <2>5 DEF Receive, HandleUnknownMethod, HandleSync, HandleAsync, HandleThread,
        HandleGenerator, Accept, Builtin
    <3> QED
      BY <2>2, <3>1 DEF HandleGenerator, TypeOK
  <2>6. ASSUME NEW r \in RequestJobs, Cancel(r) PROVE FALSE
    BY <2>6 DEF Cancel
  <2>7. ASSUME NEW j \in Jobs, Generator(j) PROVE Starts
    <3>1. CASE j = Exit
      <4>1. CASE StartGenerator(j)
        BY <2>2, <3>1, <4>1 DEF StartGenerator, TypeOK
      <4>2. CASE YieldSync(j)
        <5>1. PICK out \in {"result", "error"} : Resume([future EXCEPT ![Sub(j)] = out], j, out)
          BY <4>2 DEF YieldSync, ResumeOnMain
        <5> QED
          BY <2>2, <3>1, <5>1 DEF Resume, ResumeWith, SettleUnlessDone, Settle, TypeOK
      <4>3. CASE YieldAsync(j) \/ YieldThread(j)
        BY <2>2, <3>1, <4>3 DEF YieldAsync, YieldThread, TypeOK
      <4>4. CASE GenReturn(j)
        BY <2>2, <3>1, <4>4 DEF GenReturn, SettleUnlessDone, Settle, TypeOK
      <4> QED
        BY <2>7, <4>1, <4>2, <4>3, <4>4 DEF Generator
    <3>2. CASE j # Exit
      <4>1. ~OnMain(j) /\ main # [at |-> "registered", on |-> Main(j)]
        BY <2>2, <3>2 DEF OnMain, OnlyExit
      <4>2. ~StartGenerator(j)
        BY <4>1 DEF StartGenerator
      <4>3. ~YieldSync(j) /\ ~YieldAsync(j) /\ ~YieldThread(j)
        BY <4>1 DEF YieldSync, YieldAsync, YieldThread, Yields
      <4>4. GenReturn(j)
        BY <2>7, <4>2, <4>3 DEF Generator
      <4>5. gen' = [gen EXCEPT ![j] = "closed"]
        BY <4>4 DEF GenReturn
      <4>6. future' = future \/ \E out \in Done : future' = [future EXCEPT ![Main(j)] = out]
        BY <4>4 DEF GenReturn, SettleUnlessDone, Settle
      <4> QED
        BY <2>2, <4>5, <4>6 DEF TypeOK
    <3> QED
      BY <3>1, <3>2
  <2>8. ASSUME NEW i \in Id, TaskStart(i) PROVE Starts
    BY <2>2, <2>3, <2>8 DEF TaskStart, TypeOK
  <2>9. ASSUME NEW i \in Id, TaskEnd(i) PROVE Starts
    BY <2>2, <2>9 DEF TaskEnd, Outcomes, TypeOK
  <2>10. ASSUME NEW i \in Id, TaskCallback(i) \/ ThreadCallback(i) \/ (AttachThread /\ i = main.on)
         PROVE  Starts
    <3>1. i = Sub(i[1]) => future[Main(i[1])] = "cancelled" \/ i[1] = Exit
      <4>1. CASE TaskCallback(i) \/ ThreadCallback(i)
        <5>1. i[1] \in Jobs /\ kind[i] # "none" /\ i \notin called
          BY <4>1 DEF TaskCallback, ThreadCallback
        <5>2. i = Sub(i[1]) => gen[i[1]] = "waiting"
          BY <2>1, <5>1 DEF FutureInv, GeneratorWaits
        <5> QED
          BY <2>4, <5>1, <5>2
      <4>2. CASE AttachThread /\ i = main.on
        BY <2>2, <4>2 DEF AttachThread, OnlyExit
      <4> QED
        BY <2>10, <4>1, <4>2
    <3>2. \/ /\ i = Main(i[1])
             /\ UNCHANGED <<future, gen>>
          \/ /\ i = Sub(i[1])
             /\ Resume(future, i[1], future[i])
          \/ UNCHANGED <<future, gen>>
      BY <2>10 DEF TaskCallback, ThreadCallback, AttachThread, CallbackOnMain, ResumeOnMain
    <3>3. CASE i = Sub(i[1]) /\ Resume(future, i[1], future[i])
      <4>1. \A k \in Id : future'[k] = future[k] \/ future'[k] = "error"
        BY <2>2, <3>3 DEF Resume, ResumeWith, SettleUnlessDone, Settle, TypeOK
      <4>2. \A k \in Jobs \ {Exit} : gen'[k] = gen[k] \/ gen'[k] = "closed"
        BY <2>2, <3>1, <3>3 DEF Resume, Resumes, TypeOK
      <4> QED
        BY <4>1, <4>2
    <3> QED
      BY <3>2, <3>3
  <2>11. ASSUME NEW i \in Id, ThreadStart(i) PROVE Starts
    BY <2>2, <2>3, <2>11 DEF ThreadStart, TypeOK
  <2>12. ASSUME NEW i \in Id, ThreadEnd(i) PROVE Starts
    BY <2>2, <2>12 DEF ThreadEnd, Outcomes, TypeOK
  <2>13. ASSUME RegisterThread PROVE Starts
    BY <2>13 DEF RegisterThread
  <2>14. ASSUME AttachThread PROVE Starts
    <3>1. main.on \in Id
      BY <2>2 DEF TypeOK
    <3>2. PICK i \in Id : i = main.on
      BY <3>1
    <3> QED
      BY <2>10, <2>14, <3>2
  <2>15. ASSUME ShutdownStep PROVE Starts
    BY <2>2, <2>15
    DEF ShutdownStep, SweepBegin, SweepSkip, SweepTask, SweepFuture, SweepNext,
      SweepError, SweepEnd, ShutdownReturn
  <2>16. ASSUME ExitStep PROVE Starts
    <3>1. future' = future
      BY <2>16 DEF ExitStep, SystemExit, WriterClosed
    <3>2. gen' = gen \/ gen' = [gen EXCEPT ![Exit] = "closed"]
      BY <2>16 DEF ExitStep, SystemExit, WriterClosed
    <3>3. \A j \in Jobs \ {Exit} : gen'[j] = gen[j]
      BY <2>2, <3>2 DEF TypeOK
    <3> QED
      BY <3>1, <3>3
  <2> QED
    BY <2>5, <2>6, <2>7, <2>8, <2>9, <2>10, <2>11, <2>12, <2>13, <2>14, <2>15, <2>16
    DEF Next, Task, Worker
<1>2. ProtocolInv /\ [Next]_vars => [Starts]_vars
  BY <1>1
<1> QED
  BY <1>2, ProtocolInvariant, PTL DEF Spec, NoStartAfterShutdown

-----------------------------------------------------------------------------
(* JsonRpc implements the safety part of RequestContract.                   *)

\* Finishing a job whose callback has not run yet is the contract's Settle, or
\* nothing the contract can see if the job is a notification.
LEMMA FinishIsAnswer ==
  ASSUME FutureInv, NEW j \in Jobs, NEW out \in Done, FinishJob(j, out),
         kind[Main(j)] # "none", Main(j) \notin called,
         out = "cancelled" => j \in asked \/ sweep.phase # "off",
         UNCHANGED <<received, asked, Stage>>
  PROVE  [Contract!Next]_(Contract!vars)
<1> USE JobKinds, Keys DEF Contract!vars
<1>t. TypeOK
  BY DEF FutureInv
<1>1. CASE j \in Notifications
  <2>1. UNCHANGED <<replies, verdict>>
    BY <1>1 DEF FinishJob, CheckHandlerResult
  <2> QED
    BY <2>1 DEF Status
<1>2. CASE j \in RequestJobs
  <2>1. j \in received /\ replies[j] = 0
    BY <1>2, <1>t DEF FutureInv, Fresh, AnsweredByCallback, TypeOK
  <2>2. replies' = [replies EXCEPT ![j] = @ + 1] /\ verdict' = [verdict EXCEPT ![j] = out]
    BY <1>2, <1>t, FinishEffect
  <2> DEFINE end == IF out = "unsendable" THEN "dropped" ELSE out
  <2>3. Status(j) = "open" /\ Status(j)' = end
    BY <1>2, <1>t, <2>1, <2>2 DEF Status, TypeOK
  <2>4. \A r \in RequestJobs \ {j} : Status(r)' = Status(r)
    BY <1>2, <1>t, <2>2 DEF Status, TypeOK
  <2>5. Contract!Become(j, end)
    BY <2>3, <2>4 DEF Contract!Become
  <2>6. end = "cancelled" => j \in asked \/ Stage # "serving"
    BY DEF Stage
  <2>7. CASE out = "unsendable"
    BY <1>2, <2>3, <2>5, <2>7 DEF Contract!Drop, Contract!Settle, Contract!Next
  <2>8. CASE out # "unsendable"
    <3>1. end \in Contract!Answers \cup {"cancelled"}
      BY <2>8 DEF Contract!Answers, Done
    <3>2. Contract!Answer(j)
      BY <1>2, <2>3, <2>5, <2>6, <3>1 DEF Contract!Answer
    <3> QED
      BY <1>2, <3>2 DEF Contract!Settle, Contract!Next
  <2> QED
    BY <2>7, <2>8
<1> QED
  BY <1>1, <1>2

\* The contract sees nothing but requests, cancellations and the stage.
LEMMA Unseen ==
  ASSUME UNCHANGED <<received, replies, verdict, asked, shutdown>>,
         sweep'.phase = "off" <=> sweep.phase = "off",
         main'.at = "exited" <=> main.at = "exited"
  PROVE  UNCHANGED Contract!vars
BY DEF Status, Stage, Contract!vars

\* The same for a future that may be done already.
LEMMA SettleIsAnswer ==
  ASSUME FutureInv, NEW j \in Jobs, NEW out \in Done, NEW f, NEW c,
         SettleUnlessDone(f, c, j, out), f[Main(j)] = future[Main(j)],
         kind[Main(j)] # "none",
         out = "cancelled" => j \in asked \/ sweep.phase # "off",
         UNCHANGED <<received, asked, Stage>>
  PROVE  [Contract!Next]_(Contract!vars)
<1>1. CASE future[Main(j)] \in Done
  BY <1>1 DEF SettleUnlessDone, outVars, Status, Contract!vars
<1>2. CASE future[Main(j)] \notin Done
  <2>1. FinishJob(j, out)
    BY <1>2 DEF SettleUnlessDone, Settle
  <2>2. Main(j) \notin called
    BY <1>2 DEF FutureInv, FutureLife
  <2> QED
    BY <2>1, <2>2, FinishIsAnswer
<1> QED
  BY <1>1, <1>2

\* Resuming a generator answers its job if the handler it waited for failed.
LEMMA ResumeIsAnswer ==
  ASSUME FutureInv, NEW j \in Jobs, NEW f, NEW out, Resume(f, j, out),
         f[Main(j)] = future[Main(j)], gen[j] # "none",
         UNCHANGED <<received, asked, Stage>>
  PROVE  [Contract!Next]_(Contract!vars)
<1>1. kind[Main(j)] # "none"
  BY DEF FutureInv, GeneratorWaits
<1>2. CASE SettleUnlessDone(f, called \cup {Sub(j)}, j, "error")
  BY <1>1, <1>2, SettleIsAnswer DEF Done
<1>3. CASE UNCHANGED outVars
  BY <1>3 DEF outVars, Status, Contract!vars
<1> QED
  BY <1>2, <1>3 DEF Resume, ResumeWith

\* A message is accepted once, and only while the server is not stopped.
LEMMA ReceiveIsAccept ==
  ASSUME FutureInv, NEW j \in Jobs, Receive(j)
  PROVE  [Contract!Next]_(Contract!vars)
<1> USE JobKinds, Keys DEF Contract!vars
<1>t. TypeOK
  BY DEF FutureInv
<1>1. Accept(j)
  BY DEF Receive, HandleUnknownMethod, HandleSync, HandleAsync, HandleThread,
    HandleGenerator
<1>m. main.at = "idle" /\ main'.at # "exited"
  BY <1>1 DEF Accept, Receive, HandleUnknownMethod, HandleSync, HandleAsync, HandleThread,
    HandleGenerator
<1>2. /\ received' = received \cup {j} /\ j \notin received
      /\ j \in RequestJobs => ~shutdown
      /\ UNCHANGED <<asked, Stage>>
  BY <1>1, <1>m DEF Accept, Stage
<1>3. \/ UNCHANGED <<replies, verdict>>
      \/ /\ j \in RequestJobs
         /\ replies' = [replies EXCEPT ![j] = @ + 1]
         /\ \E out \in Contract!Answers \cup {"unsendable"} :
              verdict' = [verdict EXCEPT ![j] = out]
  BY <1>t, FinishEffect
  DEF Receive, HandleUnknownMethod, HandleSync, HandleAsync, HandleThread,
    HandleGenerator, SendResponse, Done, Contract!Answers
<1>4. CASE j \in Notifications
  <2>1. \A r \in RequestJobs : Status(r)' = Status(r)
    BY <1>2, <1>3, <1>4 DEF Status
  <2> QED
    BY <1>2, <2>1
<1>5. CASE j \in RequestJobs
  <2>1. Status(j) = "new" /\ replies[j] = 0
    BY <1>2, <1>5 DEF FutureInv, Fresh, Status
  <2>2. Status(j)' \in {"open", "dropped"} \cup Contract!Answers
    <3>1. CASE UNCHANGED <<replies, verdict>>
      BY <1>2, <2>1, <3>1 DEF Status
    <3>2. CASE /\ replies' = [replies EXCEPT ![j] = @ + 1]
               /\ \E out \in Contract!Answers \cup {"unsendable"} :
                    verdict' = [verdict EXCEPT ![j] = out]
      BY <1>2, <1>5, <1>t, <2>1, <3>2 DEF Status, TypeOK
    <3> QED
      BY <1>3, <3>1, <3>2
  <2>3. \A r \in RequestJobs \ {j} : Status(r)' = Status(r)
    <3> SUFFICES ASSUME NEW r \in RequestJobs \ {j} PROVE Status(r)' = Status(r)
      OBVIOUS
    <3>1. r \in received' <=> r \in received
      BY <1>2
    <3>2. replies'[r] = replies[r] /\ verdict'[r] = verdict[r]
      BY <1>3, <1>t DEF TypeOK
    <3> QED
      BY <3>1, <3>2 DEF Status
  <2>4. Contract!Become(j, Status(j)')
    BY <2>3 DEF Contract!Become
  <2>5. Stage \in {"serving", "draining"}
    BY <1>2, <1>5, <1>m DEF Stage
  <2>6. Contract!Accept(j)
    BY <1>2, <1>5, <2>1, <2>2, <2>4, <2>5 DEF Contract!Accept
  <2> QED
    BY <1>5, <2>6 DEF Contract!Next
<1> QED
  BY <1>4, <1>5

\* Every step of JsonRpc is a step of the contract, or one it cannot see.
LEMMA ContractStep ==
  ASSUME FutureInv, MainThreadInv, [Next]_vars
  PROVE  [Contract!Next]_(Contract!vars)
<1> USE JobKinds, Keys
<1>t. TypeOK
  BY DEF FutureInv
<1>1. ASSUME NEW j \in Jobs, Receive(j) PROVE [Contract!Next]_(Contract!vars)
  BY <1>1, ReceiveIsAccept
<1>2. ASSUME NEW r \in RequestJobs, Cancel(r) PROVE [Contract!Next]_(Contract!vars)
  <2>1. r \in received /\ replies[r] = 0
    BY <1>2, <1>t
    DEF Cancel, Registered, FutureInv, Fresh, FutureLife, AnsweredByCallback, TypeOK
  <2>2. /\ ~shutdown /\ asked' = asked \cup {r}
        /\ UNCHANGED <<received, Stage>>
    BY <1>2 DEF Cancel, Stage
  <2>3. \/ UNCHANGED <<replies, verdict>>
        \/ /\ replies' = [replies EXCEPT ![r] = @ + 1]
           /\ verdict' = [verdict EXCEPT ![r] = "cancelled"]
    BY <1>2, <1>t, FinishEffect DEF Cancel, Settle
  <2>4. Status(r) = "open" /\ Status(r)' \in {"open", "cancelled"}
    BY <1>t, <2>1, <2>2, <2>3 DEF Status, TypeOK
  <2>5. \A q \in RequestJobs \ {r} : Status(q)' = Status(q)
    <3> SUFFICES ASSUME NEW q \in RequestJobs, q # r PROVE Status(q)' = Status(q)
      OBVIOUS
    <3>1. replies'[q] = replies[q] /\ verdict'[q] = verdict[q]
      BY <1>t, <2>3 DEF TypeOK
    <3> QED
      BY <2>2, <3>1 DEF Status
  <2>6. \/ Contract!Become(r, "cancelled")
        \/ [q \in RequestJobs |-> Status(q)]' = [q \in RequestJobs |-> Status(q)]
    <3>1. CASE Status(r)' = "cancelled"
      <4>1. \A q \in RequestJobs : Status(q)' = IF q = r THEN "cancelled" ELSE Status(q)
        BY <2>5, <3>1
      <4>2. Contract!Become(r, "cancelled")
        BY <4>1 DEF Contract!Become
      <4> QED
        BY <4>2
    <3>2. CASE Status(r)' = "open"
      BY <2>4, <2>5, <3>2
    <3> QED
      BY <2>4, <3>1, <3>2
  <2>7. Stage \in {"serving", "draining"}
    BY <1>2, <2>2 DEF Cancel, Stage
  <2>8. Contract!CancelRequest(r)
    BY <2>2, <2>4, <2>6, <2>7 DEF Contract!CancelRequest
  <2> QED
    BY <2>8 DEF Contract!Next
<1>3. ASSUME NEW j \in Jobs, StartGenerator(j) PROVE [Contract!Next]_(Contract!vars)
  <2>1. UNCHANGED outVars /\ UNCHANGED <<received, asked, Stage>>
    BY <1>3, <1>t DEF StartGenerator, MainThreadInv, RunningIsOpen, Done, Stage, TypeOK
  <2> QED
    BY <2>1 DEF outVars, Status, Contract!vars
<1>4. ASSUME NEW j \in Jobs, YieldSync(j) PROVE [Contract!Next]_(Contract!vars)
  <2>1. PICK out \in {"result", "error"} :
          Resume([future EXCEPT ![Sub(j)] = out], j, out)
    BY <1>4 DEF YieldSync, ResumeOnMain
  <2>2. /\ [future EXCEPT ![Sub(j)] = out][Main(j)] = future[Main(j)]
        /\ gen[j] # "none"
        /\ UNCHANGED <<received, asked, Stage>>
    BY <1>4, <1>t
    DEF YieldSync, Yields, Stage, TypeOK, OnMain, ResumeOnMain, Idle
  <2> QED
    BY <2>1, <2>2, ResumeIsAnswer
<1>5. ASSUME NEW j \in Jobs, YieldAsync(j) \/ YieldThread(j)
      PROVE  [Contract!Next]_(Contract!vars)
  BY <1>5, Unseen DEF YieldAsync, YieldThread, Yields, OnMain, Idle
<1>6. ASSUME NEW j \in Jobs, GenReturn(j) PROVE [Contract!Next]_(Contract!vars)
  <2>1. ~(kind[Sub(j)] = "none" /\ future[Main(j)] \in Done)
    BY <1>6 DEF GenReturn, MainThreadInv, RunningIsOpen
  <2>2. PICK out \in Done \ {"cancelled"} : SettleUnlessDone(future, called, j, out)
    BY <1>6, <2>1 DEF GenReturn
  <2>3. kind[Main(j)] # "none" /\ UNCHANGED <<received, asked, Stage>>
    BY <1>6 DEF GenReturn, FutureInv, GeneratorWaits, Stage, LeaveMain, OnMain, Idle
  <2> QED
    BY <2>2, <2>3, SettleIsAnswer
<1>7. ASSUME NEW i \in Id, TaskCallback(i) \/ ThreadCallback(i)
      PROVE  [Contract!Next]_(Contract!vars)
  <2>1. /\ kind[i] # "none" /\ future[i] \in Done /\ i \notin called
        /\ UNCHANGED <<received, asked, Stage>>
    BY <1>7 DEF TaskCallback, ThreadCallback, CallbackOnMain, ResumeOnMain, Idle, Stage
  <2>2. ASSUME i = Main(i[1]), FinishJob(i[1], future[i])
        PROVE  [Contract!Next]_(Contract!vars)
    <3>1. future[i] = "cancelled" => i[1] \in asked \/ sweep.phase # "off" \/ i[1] \in Notifications
      BY <2>2 DEF FutureInv, CancelledForAReason
    <3>2. CASE i[1] \in Notifications
      BY <2>1, <2>2, <3>2
      DEF FinishJob, CheckHandlerResult, Status, Contract!vars
    <3> QED
      BY <2>1, <2>2, <3>1, <3>2, FinishIsAnswer
  <2>3. ASSUME i = Sub(i[1]), Resume(future, i[1], future[i])
        PROVE  [Contract!Next]_(Contract!vars)
    <3>1. gen[i[1]] # "none"
      BY <2>1, <2>3 DEF FutureInv, GeneratorWaits
    <3> QED
      BY <2>1, <2>3, <3>1, ResumeIsAnswer
  <2> QED
    BY <1>7, <2>2, <2>3 DEF TaskCallback, ThreadCallback, CallbackOnMain, ResumeOnMain
<1>8. ASSUME AttachThread PROVE [Contract!Next]_(Contract!vars)
  <2> DEFINE i == main.on
  <2>1. /\ i \in Id /\ kind[i] # "none" /\ i \notin called
        /\ UNCHANGED <<received, asked, Stage>>
    BY <1>8, <1>t DEF AttachThread, FutureInv, Attaching, CallbackOnMain, ResumeOnMain,
      Idle, Stage, TypeOK
  <2>2. ASSUME i = Main(i[1]), FinishJob(i[1], future[i]), future[i] \in Done
        PROVE  [Contract!Next]_(Contract!vars)
    <3>1. future[i] = "cancelled" => i[1] \in asked \/ sweep.phase # "off" \/ i[1] \in Notifications
      BY <2>1, <2>2 DEF FutureInv, CancelledForAReason
    <3>2. CASE i[1] \in Notifications
      BY <2>1, <2>2, <3>2
      DEF FinishJob, CheckHandlerResult, Status, Contract!vars
    <3> QED
      BY <2>1, <2>2, <3>1, <3>2, FinishIsAnswer
  <2>3. ASSUME i = Sub(i[1]), Resume(future, i[1], future[i])
        PROVE  [Contract!Next]_(Contract!vars)
    <3>1. gen[i[1]] # "none"
      BY <2>1, <2>3 DEF FutureInv, GeneratorWaits
    <3> QED
      BY <2>1, <2>3, <3>1, ResumeIsAnswer
  <2>4. ASSUME UNCHANGED outVars PROVE [Contract!Next]_(Contract!vars)
    BY <2>1, <2>4 DEF outVars, Status, Contract!vars
  <2> QED
    BY <1>8, <2>2, <2>3, <2>4 DEF AttachThread, CallbackOnMain, ResumeOnMain
<1>9. ASSUME \/ RegisterThread
             \/ \E i \in Id : TaskStart(i) \/ TaskEnd(i) \/ ThreadStart(i) \/ ThreadEnd(i)
      PROVE  [Contract!Next]_(Contract!vars)
  BY <1>9, <1>t, Unseen
  DEF RegisterThread, TaskStart, TaskEnd, ThreadStart, ThreadEnd, outVars, TypeOK
<1>10. ASSUME SweepBegin PROVE [Contract!Next]_(Contract!vars)
  BY <1>10 DEF SweepBegin, Stage, Status, Contract!vars, Contract!Next,
    Contract!BeginShutdown
<1>11. ASSUME NEW i \in Id, SweepSkip(i) \/ SweepTask(i) PROVE [Contract!Next]_(Contract!vars)
  BY <1>11, <1>t, Unseen DEF SweepSkip, SweepTask, SweepNext, outVars, TypeOK
<1>12. ASSUME NEW i \in Id, SweepFuture(i) PROVE [Contract!Next]_(Contract!vars)
  <2>1. /\ sweep.phase = "on" /\ sweep'.phase = "on"
        /\ UNCHANGED <<received, asked, shutdown, main>>
        /\ rank[i] > 0 /\ future[i] \notin Done
    BY <1>12, <1>t DEF SweepFuture, SweepNext, Spared, TypeOK
  <2>2. UNCHANGED Stage
    BY <2>1 DEF Stage
  <2>3. kind[i] # "none" /\ i \notin called
    BY <2>1 DEF FutureInv, FutureLife
  <2>4. ASSUME UNCHANGED outVars PROVE [Contract!Next]_(Contract!vars)
    BY <2>1, <2>2, <2>4 DEF outVars, Status, Contract!vars
  <2>5. ASSUME i = Main(i[1]), Settle(future, called, i[1], "cancelled")
        PROVE  [Contract!Next]_(Contract!vars)
    BY <2>1, <2>2, <2>3, <2>5, FinishIsAnswer DEF Settle, Done
  <2>6. ASSUME i = Sub(i[1]), Resume([future EXCEPT ![i] = "cancelled"], i[1], "cancelled")
        PROVE  [Contract!Next]_(Contract!vars)
    <3>1. gen[i[1]] # "none" /\ [future EXCEPT ![i] = "cancelled"][Main(i[1])] = future[Main(i[1])]
      BY <1>t, <2>3, <2>6 DEF FutureInv, GeneratorWaits, TypeOK
    <3> QED
      BY <2>1, <2>2, <2>6, <3>1, ResumeIsAnswer
  <2> QED
    BY <1>12, <2>4, <2>5, <2>6 DEF SweepFuture
<1>13. ASSUME SweepError PROVE [Contract!Next]_(Contract!vars)
  <2>1. /\ SettleUnlessDone(future, called, Shutdown, "error")
        /\ UNCHANGED <<received, asked, Stage>>
    BY <1>13, <1>t
    DEF SweepError, EndShutdown, NoSweep, Stage, TypeOK, LeaveMain, OnMain, Idle
  <2>2. kind[Main(Shutdown)] # "none"
    BY <1>13 DEF SweepError, FutureInv, Sweeping, GeneratorWaits
  <2> QED
    BY <2>1, <2>2, SettleIsAnswer DEF Done
<1>14. ASSUME SweepEnd PROVE [Contract!Next]_(Contract!vars)
  BY <1>14, <1>t, Unseen DEF SweepEnd, TypeOK
<1>15. ASSUME ShutdownReturn PROVE [Contract!Next]_(Contract!vars)
  <2>1. gen[Shutdown] = "running" /\ sweep.phase = "end" /\ shutdown' = TRUE
    BY <1>15 DEF ShutdownReturn, FutureInv, Sweeping
  <2>2. future[Main(Shutdown)] \notin Done /\ OnMain(Shutdown)
    BY <2>1 DEF MainThreadInv, ShutdownOnMain, RunningIsOpen
  <2>3. FinishJob(Shutdown, "result") /\ UNCHANGED <<received, asked>>
    BY <1>15, <2>2 DEF ShutdownReturn, EndShutdown, SettleUnlessDone, Settle
  <2>4. Main(Shutdown) \notin called /\ kind[Main(Shutdown)] # "none"
    BY <2>1, <2>2 DEF FutureInv, FutureLife, GeneratorWaits
  <2>5. Shutdown \in received /\ replies[Shutdown] = 0
    BY <1>t, <2>4 DEF FutureInv, Fresh, AnsweredByCallback, TypeOK
  <2>6. /\ replies' = [replies EXCEPT ![Shutdown] = @ + 1]
        /\ verdict' = [verdict EXCEPT ![Shutdown] = "result"]
    BY <1>t, <2>3, FinishEffect
  <2>7. Status(Shutdown) = "open" /\ Status(Shutdown)' = "result"
    BY <1>t, <2>3, <2>5, <2>6 DEF Status, TypeOK
  <2>8. \A r \in RequestJobs \ {Shutdown} : Status(r)' = Status(r)
    BY <1>t, <2>3, <2>6 DEF Status, TypeOK
  <2>9. Contract!Become(Shutdown, "result")
    BY <2>7, <2>8 DEF Contract!Become
  <2>10. Stage = "draining" /\ Stage' = "stopped"
    <3>1. main.at = "generator" /\ main'.at = "idle"
      BY <1>15, <2>2 DEF ShutdownReturn, EndShutdown, LeaveMain, OnMain, Idle
    <3>2. ~shutdown
      BY <2>2 DEF MainThreadInv, SweptIsStopped, OnlyExit, OnMain
    <3> QED
      BY <2>1, <3>1, <3>2 DEF Stage
  <2>11. Contract!Stop(Shutdown)
    BY <2>3, <2>7, <2>9, <2>10 DEF Contract!Stop
  <2> QED
    BY <2>11 DEF Contract!Next
<1>16. ASSUME ExitStep PROVE [Contract!Next]_(Contract!vars)
  <2>1. /\ UNCHANGED <<received, replies, verdict, asked, shutdown, sweep>>
        /\ main' = main \/ (main.at # "exited" /\ main'.at = "exited")
    BY <1>16 DEF ExitStep, SystemExit, WriterClosed, OnMain, Exited, outVars
  <2>2. CASE main' = main
    BY <2>1, <2>2, Unseen
  <2>3. CASE main.at # "exited" /\ main'.at = "exited"
    <3>1. Stage # "exited" /\ Stage' = "exited"
      BY <2>3 DEF Stage
    <3>2. \A r \in RequestJobs : Status(r)' = Status(r)
      BY <2>1 DEF Status
    <3>3. Contract!Quit
      BY <2>1, <3>1, <3>2 DEF Contract!Quit
    <3> QED
      BY <3>3 DEF Contract!Next
  <2> QED
    BY <2>1, <2>2, <2>3
<1>17. CASE UNCHANGED vars
  BY <1>17 DEF vars, Stage, Status, Contract!vars
<1> QED
  BY <1>1, <1>2, <1>3, <1>4, <1>5, <1>6, <1>7, <1>8, <1>9, <1>10, <1>11, <1>12, <1>13,
    <1>14, <1>15, <1>16, <1>17
  DEF Next, Generator, Task, Worker, ShutdownStep

\* As long as lsp_shutdown runs on the main thread, the threads, futures and
\* callbacks of the protocol implement what RequestContract promises of a
\* request: opened once, answered once or dropped because its result cannot be
\* encoded, "cancelled" only for a reason.
THEOREM RefinesContract == Spec /\ [](~ThreadedShutdown) => Contract!Spec
<1>1. Init => Contract!Init
  BY JobKinds DEF Init, NoSweep, Idle, Status, Stage, Contract!Init
<1>2. ProtocolInv /\ ~ThreadedShutdown /\ [Next]_vars => [Contract!Next]_(Contract!vars)
  BY ContractStep DEF ProtocolInv
<1> QED
  BY <1>1, <1>2, ProtocolInvariant, PTL DEF Spec, Contract!Spec

=============================================================================
