-------------------------- MODULE InputRecordProofs --------------------------
(***************************************************************************)
(* Proofs that every safety property of InputRecord holds for any number   *)
(* of records and any bounds.  None of the properties is inductive: they   *)
(* need what the threads own (Threads), that the result of a completed     *)
(* asynchronous read stays in newData until it is fetched (Results), that  *)
(* values only get younger on their way to newData (PollOrder), and how    *)
(* often a record can still be served by a poll group it has left          *)
(* (StaleBound).  There is one lemma for each part of the invariant, with  *)
(* one case for each action.                                               *)
(***************************************************************************)
EXTENDS InputRecord, TLAPS

USE DEF envVars, pollVars, portVars, dataVars, recordVars, procVars, history

\* What a thread works on and owns at each of its steps.
Threads ==
  /\ portPc = "idle" <=> portJob = NoRecord
  /\ portPc # "store" => portData = NoData
  /\ pollPc = "idle" => pollRequests = {}
  /\ pollPc = "scan" => pollRecord \in Records
  /\ \A r \in Records : pollData[r] # NoData => r \in pollRequests
  /\ \A r \in Records : procPc[r] = "idle" => procData[r] = NoData /\ ~procError[r]

\* processRecord would not start an asynchronous read now.
ResultWaiting(r) == newData[r] # NoData \/ processCallbackError[r]

\* From the moment the port thread has stored its result until the processing it
\* requests has taken it, a result is waiting.
Results ==
  /\ \A r \in Records :
       (portJob = r /\ portPc = "notify") \/ callbacks[r] > 0 => ResultWaiting(r)
  /\ CompletionHasResult

\* An asynchronous read that has not been stored yet is younger than what the poll
\* group has stored or is about to store.
PollOrder ==
  /\ \A r \in Records : polled[r] <= plc /\ (pollData[r] # NoData => pollData[r] <= plc)
  /\ portData # NoData =>
       /\ polled[portJob] <= portData
       /\ pollData[portJob] # NoData => pollData[portJob] <= portData
  /\ NewDataNotOlderThanPoll

\* The results of the poll group that a record that has left it may still be given: one
\* in newData, unless an asynchronous read will fetch it, and one under way.
Pending(r) ==
  Count(ResultWaiting(r) /\ (pact[r] => procPc[r] = "taken")) + Count(r \in pollRequests)

StaleBound ==
  \A r \in Records : IF r \in requesters THEN stale[r] = 0 ELSE stale[r] + Pending(r) <= 2

\* The inductive invariant.
IInv ==
  /\ Typed /\ Threads
  /\ OneContinuation /\ BuffersBalanced
  /\ Results /\ PollOrder /\ StaleBound

------------------------------------------------------------------------------


\* Every step keeps the types, but for the sign of live.
LEMMA TypedStep ==
  ASSUME Typed, Threads, [Next]_vars
  PROVE  Typed'
<1>1. CASE PlcChanges
  BY <1>1, RecordAssumption DEF PlcChanges, Typed, Data, Count
<1>2. ASSUME NEW r \in Records, ChangeScan(r) PROVE Typed'
  BY <1>2, RecordAssumption DEF ChangeScan, Typed, Data, Count
<1>3. CASE PollStart
  BY <1>3, RecordAssumption DEF PollStart, Typed, Data, Count
<1>4. CASE PollRead
  BY <1>4, RecordAssumption DEF PollRead, PortLock, MayFail, Typed, Data, Count
<1>5. ASSUME NEW r \in Records, PollStore(r) PROVE Typed'
  BY <1>5, RecordAssumption DEF PollStore, Store, Replaced, Typed, Data, Count
<1>6. CASE PollRequestScan
  <2>1. pollRecord \in Records BY <1>6 DEF PollRequestScan, Threads
  <2>2. QED BY <1>6, <2>1, RecordAssumption DEF PollRequestScan, Typed
<1>7. ASSUME NEW r \in Records, PortRead(r) PROVE Typed'
  BY <1>7, RecordAssumption DEF PortRead, MayFail, Typed, Data, Count
<1>8. CASE PortStore
  <2>1. portJob \in Records BY <1>8 DEF PortStore, Threads, Typed
  <2>2. QED BY <1>8, <2>1 DEF PortStore, Store, Replaced, Count, Typed
<1>9. CASE PortNotify
  <2>1. portJob \in Records BY <1>9 DEF PortNotify, Threads, Typed
  <2>2. QED BY <1>9, <2>1 DEF PortNotify, Count, Typed
<1>10. ASSUME NEW r \in Records, ProcessRecord(r) PROVE Typed'
  BY <1>10, RecordAssumption DEF ProcessRecord, Take, TakenFrom, Typed, Data, Count
<1>11. ASSUME NEW r \in Records, ProcessScan(r) PROVE Typed'
  BY <1>11, RecordAssumption DEF ProcessScan, Take, TakenFrom, Typed, Data, Count
<1>12. ASSUME NEW r \in Records, SkipScan(r) PROVE Typed'
  BY <1>12, RecordAssumption DEF SkipScan, Typed, Data, Count
<1>13. ASSUME NEW r \in Records, ProcessCallback(r) PROVE Typed'
  BY <1>13, RecordAssumption DEF ProcessCallback, Take, TakenFrom, Typed, Data, Count
<1>14. ASSUME NEW r \in Records, FinishWithError(r) PROVE Typed'
  BY <1>14, RecordAssumption DEF FinishWithError, Leave, Complete, Discarded, Typed, Data,
       Count
<1>15. ASSUME NEW r \in Records, StartRead(r) PROVE Typed'
  BY <1>15, RecordAssumption DEF StartRead, Leave, MustRead, Typed, Data, Count
<1>16. ASSUME NEW r \in Records, StartReadFails(r) PROVE Typed'
  BY <1>16, RecordAssumption DEF StartReadFails, Leave, MustRead, Complete, MayFail,
       Typed, Data, Count
<1>17. ASSUME NEW r \in Records, FinishWithoutError(r) PROVE Typed'
  <2>1. CASE procData[r] = NoData
    BY <1>17, <2>1 DEF FinishWithoutError, Leave, Complete, Typed, Data
  <2>2. CASE procData[r] # NoData
    <3>1. /\ val' = [val EXCEPT ![r] = procData[r]]
          /\ udf' = [udf EXCEPT ![r] = FALSE]
          /\ live' = [live EXCEPT ![r] = @ - 1]
      BY <1>17, <2>2 DEF FinishWithoutError
    <3>2. /\ val' \in [Records -> Data \union {NoData}]
          /\ udf' \in [Records -> BOOLEAN]
          /\ live' \in [Records -> Int]
      BY <3>1 DEF Typed
    <3>3. QED BY <1>17, <3>2 DEF FinishWithoutError, Leave, Complete, Typed, Data
  <2>3. QED BY <2>1, <2>2
<1>18. CASE UNCHANGED vars
  BY <1>18 DEF vars, Typed, Data, Count
<1>19. QED
  BY <1>1, <1>2, <1>3, <1>4, <1>5, <1>6, <1>7, <1>8, <1>9, <1>10, <1>11, <1>12, <1>13,
       <1>14, <1>15, <1>16, <1>17, <1>18 DEF Next, PollThread, PortThread, Process, Finish

\* Every step keeps what the threads own.
LEMMA ThreadsStep ==
  ASSUME Typed, Threads, [Next]_vars
  PROVE  Threads'
<1> USE RecordAssumption DEF Threads, Typed, Data
<1>1. CASE PlcChanges
  BY <1>1 DEF PlcChanges
<1>2. ASSUME NEW r \in Records, ChangeScan(r) PROVE Threads'
  BY <1>2 DEF ChangeScan
<1>3. CASE PollStart
  BY <1>3 DEF PollStart
<1>4. CASE PollRead
  BY <1>4 DEF PollRead, PortLock, MayFail
<1>5. ASSUME NEW r \in Records, PollStore(r) PROVE Threads'
  BY <1>5 DEF PollStore, Store, Replaced
<1>6. CASE PollRequestScan
  BY <1>6 DEF PollRequestScan
<1>7. ASSUME NEW r \in Records, PortRead(r) PROVE Threads'
  BY <1>7 DEF PortRead, MayFail
<1>8. CASE PortStore
  BY <1>8 DEF PortStore, Store, Replaced
<1>9. CASE PortNotify
  BY <1>9 DEF PortNotify
<1>10. ASSUME NEW r \in Records, ProcessRecord(r) PROVE Threads'
  BY <1>10 DEF ProcessRecord, Take, TakenFrom
<1>11. ASSUME NEW r \in Records, ProcessScan(r) PROVE Threads'
  BY <1>11 DEF ProcessScan, Take, TakenFrom
<1>12. ASSUME NEW r \in Records, SkipScan(r) PROVE Threads'
  BY <1>12 DEF SkipScan
<1>13. ASSUME NEW r \in Records, ProcessCallback(r) PROVE Threads'
  BY <1>13 DEF ProcessCallback, Take, TakenFrom
<1>14. ASSUME NEW r \in Records, FinishWithError(r) PROVE Threads'
  BY <1>14 DEF FinishWithError, Leave, Complete, Discarded
<1>15. ASSUME NEW r \in Records, StartRead(r) PROVE Threads'
  BY <1>15 DEF StartRead, Leave, MustRead
<1>16. ASSUME NEW r \in Records, StartReadFails(r) PROVE Threads'
  BY <1>16 DEF StartReadFails, Leave, MustRead, Complete, MayFail
<1>17. ASSUME NEW r \in Records, FinishWithoutError(r) PROVE Threads'
  BY <1>17 DEF FinishWithoutError, Leave, MustRead, Complete
<1>18. CASE UNCHANGED vars
  BY <1>18 DEF vars
<1>19. QED
  BY <1>1, <1>2, <1>3, <1>4, <1>5, <1>6, <1>7, <1>8, <1>9, <1>10, <1>11, <1>12, <1>13,
       <1>14, <1>15, <1>16, <1>17, <1>18 DEF Next, PollThread, PortThread, Process, Finish

\* Every step keeps the number of continuations of a record: one while it is active.
LEMMA OneContinuationStep ==
  ASSUME Typed, Threads, OneContinuation, [Next]_vars
  PROVE  OneContinuation'
<1>1. CASE PlcChanges
  BY <1>1, RecordAssumption DEF PlcChanges, OneContinuation, Continuations, Threads,
       Typed, Count
<1>2. ASSUME NEW r \in Records, ChangeScan(r) PROVE OneContinuation'
  BY <1>2, RecordAssumption DEF ChangeScan, OneContinuation, Continuations, Threads,
       Typed, Count
<1>3. CASE PollStart
  BY <1>3, RecordAssumption DEF PollStart, OneContinuation, Continuations, Threads, Typed,
       Count
<1>4. CASE PollRead
  BY <1>4, RecordAssumption DEF PollRead, PortLock, MayFail, OneContinuation,
       Continuations, Threads, Typed, Count
<1>5. ASSUME NEW r \in Records, PollStore(r) PROVE OneContinuation'
  BY <1>5, RecordAssumption DEF PollStore, Store, Replaced, OneContinuation,
       Continuations, Threads, Typed, Count
<1>6. CASE PollRequestScan
  BY <1>6, RecordAssumption DEF PollRequestScan, OneContinuation, Continuations, Threads,
       Typed, Count
<1>7. ASSUME NEW r \in Records, PortRead(r) PROVE OneContinuation'
  BY <1>7, RecordAssumption DEF PortRead, MayFail, OneContinuation, Continuations,
       Threads, Typed, Count
<1>8. CASE PortStore
  BY <1>8, RecordAssumption DEF PortStore, Store, Replaced, OneContinuation,
       Continuations, Threads, Typed, Count
<1>9. CASE PortNotify
  <2> SUFFICES ASSUME NEW q \in Records PROVE (Continuations(q) = Count(pact[q]))'
    BY DEF OneContinuation
  <2>a. Continuations(q) = Count(pact[q])
    BY DEF OneContinuation
  <2>1. CASE q = portJob
    BY <1>9, <2>a, <2>1 DEF PortNotify, Threads, Continuations, Typed, Count
  <2>2. CASE q # portJob
    BY <1>9, <2>a, <2>2, RecordAssumption DEF PortNotify, Threads, Continuations, Typed,
         Count
  <2>3. QED BY <2>1, <2>2
<1>10. ASSUME NEW r \in Records, ProcessRecord(r) PROVE OneContinuation'
  BY <1>10, RecordAssumption DEF ProcessRecord, Take, TakenFrom, OneContinuation,
       Continuations, Threads, Typed, Count
<1>11. ASSUME NEW r \in Records, ProcessScan(r) PROVE OneContinuation'
  BY <1>11, RecordAssumption DEF ProcessScan, Take, TakenFrom, OneContinuation,
       Continuations, Threads, Typed, Count
<1>12. ASSUME NEW r \in Records, SkipScan(r) PROVE OneContinuation'
  BY <1>12, RecordAssumption DEF SkipScan, OneContinuation, Continuations, Threads, Typed,
       Count
<1>13. ASSUME NEW r \in Records, ProcessCallback(r) PROVE OneContinuation'
  BY <1>13, RecordAssumption DEF ProcessCallback, Take, TakenFrom, OneContinuation,
       Continuations, Threads, Typed, Count
<1>14. ASSUME NEW r \in Records, FinishWithError(r) PROVE OneContinuation'
  <2> SUFFICES ASSUME NEW q \in Records PROVE (Continuations(q) = Count(pact[q]))'
    BY DEF OneContinuation
  <2>a. Continuations(q) = Count(pact[q])
    BY DEF OneContinuation
  <2>1. CASE q = r
    BY <1>14, <2>a, <2>1 DEF FinishWithError, Leave, Complete, Continuations, Typed, Count
  <2>2. CASE q # r
    BY <1>14, <2>a, <2>2 DEF FinishWithError, Leave, Complete, Continuations, Typed, Count
  <2>3. QED BY <2>1, <2>2
<1>15. ASSUME NEW r \in Records, StartRead(r) PROVE OneContinuation'
  <2> SUFFICES ASSUME NEW q \in Records PROVE (Continuations(q) = Count(pact[q]))'
    BY DEF OneContinuation
  <2>a. Continuations(q) = Count(pact[q])
    BY DEF OneContinuation
  <2>1. CASE q = r
    BY <1>15, <2>a, <2>1 DEF StartRead, Leave, MustRead, Continuations, Typed, Count
  <2>2. CASE q # r
    BY <1>15, <2>a, <2>2 DEF StartRead, Leave, MustRead, Continuations, Typed, Count
  <2>3. QED BY <2>1, <2>2
<1>16. ASSUME NEW r \in Records, StartReadFails(r) PROVE OneContinuation'
  BY <1>16, RecordAssumption DEF StartReadFails, Leave, MustRead, Complete, MayFail,
       OneContinuation, Continuations, Threads, Typed, Count
<1>17. ASSUME NEW r \in Records, FinishWithoutError(r) PROVE OneContinuation'
  <2> SUFFICES ASSUME NEW q \in Records PROVE (Continuations(q) = Count(pact[q]))'
    BY DEF OneContinuation
  <2>a. Continuations(q) = Count(pact[q])
    BY DEF OneContinuation
  <2>1. CASE q = r
    BY <1>17, <2>a, <2>1 DEF FinishWithoutError, Leave, Complete, Continuations, Typed,
         Count
  <2>2. CASE q # r
    BY <1>17, <2>a, <2>2 DEF FinishWithoutError, Leave, Complete, Continuations, Typed,
         Count
  <2>3. QED BY <2>1, <2>2
<1>18. CASE UNCHANGED vars
  BY <1>18 DEF vars, OneContinuation, Continuations, Threads, Typed, Count
<1>19. QED
  BY <1>1, <1>2, <1>3, <1>4, <1>5, <1>6, <1>7, <1>8, <1>9, <1>10, <1>11, <1>12, <1>13,
       <1>14, <1>15, <1>16, <1>17, <1>18 DEF Next, PollThread, PortThread, Process, Finish

\* Every step keeps the balance of allocated and freed buffers.
LEMMA BuffersStep ==
  ASSUME Typed, Threads, BuffersBalanced, [Next]_vars
  PROVE  BuffersBalanced'
<1> USE RecordAssumption DEF BuffersBalanced, Threads, Typed, Count, Data
<1>1. CASE PlcChanges
  BY <1>1 DEF PlcChanges
<1>2. ASSUME NEW r \in Records, ChangeScan(r) PROVE BuffersBalanced'
  BY <1>2 DEF ChangeScan
<1>3. CASE PollStart
  BY <1>3 DEF PollStart
<1>4. CASE PollRead
  BY <1>4 DEF PollRead, PortLock, MayFail
<1>5. ASSUME NEW r \in Records, PollStore(r) PROVE BuffersBalanced'
  BY <1>5 DEF PollStore, Store, Replaced
<1>6. CASE PollRequestScan
  BY <1>6 DEF PollRequestScan
<1>7. ASSUME NEW r \in Records, PortRead(r) PROVE BuffersBalanced'
  BY <1>7 DEF PortRead, MayFail
<1>8. CASE PortStore
  BY <1>8 DEF PortStore, Store, Replaced
<1>9. CASE PortNotify
  BY <1>9 DEF PortNotify
<1>10. ASSUME NEW r \in Records, ProcessRecord(r) PROVE BuffersBalanced'
  BY <1>10 DEF ProcessRecord, Take, TakenFrom
<1>11. ASSUME NEW r \in Records, ProcessScan(r) PROVE BuffersBalanced'
  BY <1>11 DEF ProcessScan, Take, TakenFrom
<1>12. ASSUME NEW r \in Records, SkipScan(r) PROVE BuffersBalanced'
  BY <1>12 DEF SkipScan
<1>13. ASSUME NEW r \in Records, ProcessCallback(r) PROVE BuffersBalanced'
  BY <1>13 DEF ProcessCallback, Take, TakenFrom
<1>14. ASSUME NEW r \in Records, FinishWithError(r) PROVE BuffersBalanced'
  BY <1>14 DEF FinishWithError, Leave, Complete, Discarded
<1>15. ASSUME NEW r \in Records, StartRead(r) PROVE BuffersBalanced'
  BY <1>15 DEF StartRead, Leave, MustRead
<1>16. ASSUME NEW r \in Records, StartReadFails(r) PROVE BuffersBalanced'
  BY <1>16 DEF StartReadFails, Leave, MustRead, Complete, MayFail
<1>17. ASSUME NEW r \in Records, FinishWithoutError(r) PROVE BuffersBalanced'
  BY <1>17 DEF FinishWithoutError, Leave, MustRead, Complete
<1>18. CASE UNCHANGED vars
  BY <1>18 DEF vars
<1>19. QED
  BY <1>1, <1>2, <1>3, <1>4, <1>5, <1>6, <1>7, <1>8, <1>9, <1>10, <1>11, <1>12, <1>13,
       <1>14, <1>15, <1>16, <1>17, <1>18 DEF Next, PollThread, PortThread, Process, Finish

\* Every step keeps the result of an asynchronous read available to its completion.
LEMMA ResultsStep ==
  ASSUME Typed, Threads, OneContinuation, Results, [Next]_vars
  PROVE  Results'
<1>1. CASE PlcChanges
  BY <1>1, RecordAssumption DEF PlcChanges, Results, ResultWaiting, CompletionHasResult,
       OneContinuation, Continuations, Threads, Typed, Count
<1>2. ASSUME NEW r \in Records, ChangeScan(r) PROVE Results'
  BY <1>2, RecordAssumption DEF ChangeScan, Results, ResultWaiting, CompletionHasResult,
       OneContinuation, Continuations, Threads, Typed, Count
<1>3. CASE PollStart
  BY <1>3, RecordAssumption DEF PollStart, Results, ResultWaiting, CompletionHasResult,
       OneContinuation, Continuations, Threads, Typed, Count
<1>4. CASE PollRead
  BY <1>4, RecordAssumption DEF PollRead, PortLock, MayFail, Results, ResultWaiting,
       CompletionHasResult, OneContinuation, Continuations, Threads, Typed, Count
<1>5. ASSUME NEW r \in Records, PollStore(r) PROVE Results'
  BY <1>5, RecordAssumption DEF PollStore, Store, Replaced, Results, ResultWaiting,
       CompletionHasResult, OneContinuation, Continuations, Threads, Typed, Count
<1>6. CASE PollRequestScan
  BY <1>6, RecordAssumption DEF PollRequestScan, Results, ResultWaiting,
       CompletionHasResult, OneContinuation, Continuations, Threads, Typed, Count
<1>7. ASSUME NEW r \in Records, PortRead(r) PROVE Results'
  BY <1>7, RecordAssumption DEF PortRead, MayFail, Results, ResultWaiting,
       CompletionHasResult, OneContinuation, Continuations, Threads, Typed, Count
<1>8. CASE PortStore
  BY <1>8, RecordAssumption DEF PortStore, Store, Replaced, Results, ResultWaiting,
       CompletionHasResult, OneContinuation, Continuations, Threads, Typed, Count
<1>9. CASE PortNotify
  BY <1>9, RecordAssumption DEF PortNotify, Results, ResultWaiting, CompletionHasResult,
       OneContinuation, Continuations, Threads, Typed, Count
<1>10. ASSUME NEW r \in Records, ProcessRecord(r) PROVE Results'
  <2> SUFFICES ASSUME NEW q \in Records
               PROVE  /\ (portJob' = q /\ portPc' = "notify") \/ callbacks'[q] > 0 => ResultWaiting(q)'
                      /\ procPc'[q] = "taken" /\ pact'[q] => procError'[q] \/ procData'[q] # NoData
    BY DEF Results, CompletionHasResult, ResultWaiting
  <2>1. CASE q # r
    BY <1>10, <2>1 DEF ProcessRecord, Take, TakenFrom, Results, ResultWaiting,
         CompletionHasResult, Typed, Threads
  <2>2. CASE q = r
    <3>1. ~pact[r] /\ callbacks[r] = 0 /\ portJob # r
      <4>1. ~pact[r] BY <1>10 DEF ProcessRecord
      <4>2. Continuations(r) = 0 BY <4>1 DEF OneContinuation, Count
      <4>3. callbacks[r] \in Nat BY DEF Typed
      <4>4. QED BY <4>1, <4>2, <4>3 DEF Continuations, Count
    <3>2. QED BY <1>10, <2>2, <3>1 DEF ProcessRecord, Take, TakenFrom, Typed
  <2>3. QED BY <2>1, <2>2
<1>11. ASSUME NEW r \in Records, ProcessScan(r) PROVE Results'
  <2> SUFFICES ASSUME NEW q \in Records
               PROVE  /\ (portJob' = q /\ portPc' = "notify") \/ callbacks'[q] > 0 => ResultWaiting(q)'
                      /\ procPc'[q] = "taken" /\ pact'[q] => procError'[q] \/ procData'[q] # NoData
    BY DEF Results, CompletionHasResult, ResultWaiting
  <2>1. CASE q # r
    BY <1>11, <2>1 DEF ProcessScan, Take, TakenFrom, Results, ResultWaiting,
         CompletionHasResult, Typed, Threads
  <2>2. CASE q = r
    <3>1. ~pact[r] /\ callbacks[r] = 0 /\ portJob # r
      <4>1. ~pact[r] BY <1>11 DEF ProcessScan
      <4>2. Continuations(r) = 0 BY <4>1 DEF OneContinuation, Count
      <4>3. callbacks[r] \in Nat BY DEF Typed
      <4>4. QED BY <4>1, <4>2, <4>3 DEF Continuations, Count
    <3>2. QED BY <1>11, <2>2, <3>1 DEF ProcessScan, Take, TakenFrom, Typed
  <2>3. QED BY <2>1, <2>2
<1>12. ASSUME NEW r \in Records, SkipScan(r) PROVE Results'
  BY <1>12, RecordAssumption DEF SkipScan, Results, ResultWaiting, CompletionHasResult,
       OneContinuation, Continuations, Threads, Typed, Count
<1>13. ASSUME NEW r \in Records, ProcessCallback(r) PROVE Results'
  <2> SUFFICES ASSUME NEW q \in Records
               PROVE  /\ (portJob' = q /\ portPc' = "notify") \/ callbacks'[q] > 0 => ResultWaiting(q)'
                      /\ procPc'[q] = "taken" /\ pact'[q] => procError'[q] \/ procData'[q] # NoData
    BY DEF Results, CompletionHasResult, ResultWaiting
  <2>1. CASE q # r
    BY <1>13, <2>1 DEF ProcessCallback, Take, TakenFrom, Results, ResultWaiting,
         CompletionHasResult, Typed, Threads
  <2>2. CASE q = r
    <3>1. callbacks[r] = 1 /\ portJob # r
      <4>1. callbacks[r] \in Nat /\ callbacks[r] > 0 BY <1>13 DEF ProcessCallback, Typed
      <4>2. Continuations(r) <= 1 BY DEF OneContinuation, Count
      <4>3. QED BY <4>1, <4>2 DEF Continuations, Count
    <3>2. ResultWaiting(r)
      BY <1>13, <3>1 DEF ProcessCallback, Results
    <3>3. QED BY <1>13, <2>2, <3>1, <3>2 DEF ProcessCallback, Take, TakenFrom, ResultWaiting, Typed
  <2>3. QED BY <2>1, <2>2
<1>14. ASSUME NEW r \in Records, FinishWithError(r) PROVE Results'
  BY <1>14, RecordAssumption DEF FinishWithError, Leave, Complete, Discarded, Results,
       ResultWaiting, CompletionHasResult, OneContinuation, Continuations, Threads, Typed,
       Count
<1>15. ASSUME NEW r \in Records, StartRead(r) PROVE Results'
  BY <1>15, RecordAssumption DEF StartRead, Leave, MustRead, Results, ResultWaiting,
       CompletionHasResult, OneContinuation, Continuations, Threads, Typed, Count
<1>16. ASSUME NEW r \in Records, StartReadFails(r) PROVE Results'
  BY <1>16, RecordAssumption DEF StartReadFails, Leave, MustRead, Complete, MayFail,
       Results, ResultWaiting, CompletionHasResult, OneContinuation, Continuations,
       Threads, Typed, Count
<1>17. ASSUME NEW r \in Records, FinishWithoutError(r) PROVE Results'
  BY <1>17, RecordAssumption DEF FinishWithoutError, Leave, MustRead, Complete, Results,
       ResultWaiting, CompletionHasResult, OneContinuation, Continuations, Threads, Typed,
       Count
<1>18. CASE UNCHANGED vars
  BY <1>18 DEF vars, Results, ResultWaiting, CompletionHasResult, OneContinuation,
       Continuations, Threads, Typed, Count
<1>19. QED
  BY <1>1, <1>2, <1>3, <1>4, <1>5, <1>6, <1>7, <1>8, <1>9, <1>10, <1>11, <1>12, <1>13,
       <1>14, <1>15, <1>16, <1>17, <1>18 DEF Next, PollThread, PortThread, Process, Finish

\* Every step keeps the values in newData as young as the last polled one.
LEMMA PollOrderStep ==
  ASSUME Typed, Threads, PollOrder, [Next]_vars
  PROVE  PollOrder'
<1> USE RecordAssumption DEF PollOrder, NewDataNotOlderThanPoll, Threads, Typed, Data
<1>1. CASE PlcChanges
  BY <1>1 DEF PlcChanges
<1>2. ASSUME NEW r \in Records, ChangeScan(r) PROVE PollOrder'
  BY <1>2 DEF ChangeScan
<1>3. CASE PollStart
  BY <1>3 DEF PollStart
<1>4. CASE PollRead
  BY <1>4 DEF PollRead, PortLock, MayFail
<1>5. ASSUME NEW r \in Records, PollStore(r) PROVE PollOrder'
  BY <1>5 DEF PollStore, Store, Replaced
<1>6. CASE PollRequestScan
  BY <1>6 DEF PollRequestScan
<1>7. ASSUME NEW r \in Records, PortRead(r) PROVE PollOrder'
  BY <1>7 DEF PortRead, MayFail
<1>8. CASE PortStore
  BY <1>8 DEF PortStore, Store, Replaced
<1>9. CASE PortNotify
  BY <1>9 DEF PortNotify
<1>10. ASSUME NEW r \in Records, ProcessRecord(r) PROVE PollOrder'
  BY <1>10 DEF ProcessRecord, Take, TakenFrom
<1>11. ASSUME NEW r \in Records, ProcessScan(r) PROVE PollOrder'
  BY <1>11 DEF ProcessScan, Take, TakenFrom
<1>12. ASSUME NEW r \in Records, SkipScan(r) PROVE PollOrder'
  BY <1>12 DEF SkipScan
<1>13. ASSUME NEW r \in Records, ProcessCallback(r) PROVE PollOrder'
  BY <1>13 DEF ProcessCallback, Take, TakenFrom
<1>14. ASSUME NEW r \in Records, FinishWithError(r) PROVE PollOrder'
  BY <1>14 DEF FinishWithError, Leave, Complete, Discarded
<1>15. ASSUME NEW r \in Records, StartRead(r) PROVE PollOrder'
  BY <1>15 DEF StartRead, Leave, MustRead
<1>16. ASSUME NEW r \in Records, StartReadFails(r) PROVE PollOrder'
  BY <1>16 DEF StartReadFails, Leave, MustRead, Complete, MayFail
<1>17. ASSUME NEW r \in Records, FinishWithoutError(r) PROVE PollOrder'
  BY <1>17 DEF FinishWithoutError, Leave, MustRead, Complete
<1>18. CASE UNCHANGED vars
  BY <1>18 DEF vars
<1>19. QED
  BY <1>1, <1>2, <1>3, <1>4, <1>5, <1>6, <1>7, <1>8, <1>9, <1>10, <1>11, <1>12, <1>13,
       <1>14, <1>15, <1>16, <1>17, <1>18 DEF Next, PollThread, PortThread, Process, Finish

\* Every step keeps the bound on how often a record is served after leaving.
LEMMA StaleStep ==
  ASSUME Typed, Threads, OneContinuation, StaleBound, [Next]_vars
  PROVE  StaleBound'
<1>1. CASE PlcChanges
  BY <1>1, RecordAssumption DEF PlcChanges, StaleBound, Pending, ResultWaiting,
       OneContinuation, Continuations, Threads, Typed, Count
<1>2. ASSUME NEW r \in Records, ChangeScan(r) PROVE StaleBound'
  BY <1>2, RecordAssumption DEF ChangeScan, StaleBound, Pending, ResultWaiting,
       OneContinuation, Continuations, Threads, Typed, Count
<1>3. CASE PollStart
  BY <1>3, RecordAssumption DEF PollStart, StaleBound, Pending, ResultWaiting,
       OneContinuation, Continuations, Threads, Typed, Count
<1>4. CASE PollRead
  BY <1>4, RecordAssumption DEF PollRead, PortLock, MayFail, StaleBound, Pending,
       ResultWaiting, OneContinuation, Continuations, Threads, Typed, Count
<1>5. ASSUME NEW r \in Records, PollStore(r) PROVE StaleBound'
  BY <1>5, RecordAssumption DEF PollStore, Store, Replaced, StaleBound, Pending,
       ResultWaiting, OneContinuation, Continuations, Threads, Typed, Count
<1>6. CASE PollRequestScan
  BY <1>6, RecordAssumption DEF PollRequestScan, StaleBound, Pending, ResultWaiting,
       OneContinuation, Continuations, Threads, Typed, Count
<1>7. ASSUME NEW r \in Records, PortRead(r) PROVE StaleBound'
  BY <1>7, RecordAssumption DEF PortRead, MayFail, StaleBound, Pending, ResultWaiting,
       OneContinuation, Continuations, Threads, Typed, Count
<1>8. CASE PortStore
  <2> SUFFICES ASSUME NEW q \in Records
               PROVE  IF q \in requesters' THEN stale'[q] = 0 ELSE stale'[q] + Pending(q)' <= 2
    BY DEF StaleBound
  <2>a. IF q \in requesters THEN stale[q] = 0 ELSE stale[q] + Pending(q) <= 2
    BY DEF StaleBound
  <2>1. CASE q # portJob
    BY <1>8, <2>1, <2>a DEF PortStore, Store, Pending, ResultWaiting, Typed, Threads, Count
  <2>2. CASE q = portJob
    <3>1. pact[q] /\ procPc[q] # "taken"
      BY <2>2 DEF OneContinuation, Continuations, Typed, Count
    <3>2. Pending(q)' = Pending(q)
      BY <1>8, <3>1 DEF PortStore, Pending, Count
    <3>3. QED BY <1>8, <2>a, <3>2 DEF PortStore
  <2>3. QED BY <2>1, <2>2
<1>9. CASE PortNotify
  BY <1>9, RecordAssumption DEF PortNotify, StaleBound, Pending, ResultWaiting,
       OneContinuation, Continuations, Threads, Typed, Count
<1>10. ASSUME NEW r \in Records, ProcessRecord(r) PROVE StaleBound'
  <2> SUFFICES ASSUME NEW q \in Records
               PROVE  IF q \in requesters' THEN stale'[q] = 0 ELSE stale'[q] + Pending(q)' <= 2
    BY DEF StaleBound
  <2>a. IF q \in requesters THEN stale[q] = 0 ELSE stale[q] + Pending(q) <= 2
    BY DEF StaleBound
  <2>1. CASE q # r
    BY <1>10, <2>1, <2>a DEF ProcessRecord, Take, TakenFrom, Pending, ResultWaiting,
         Typed, Threads, Count
  <2>2. CASE q = r
    <3>1. procPc[r] = "idle" /\ ResultWaiting(r)' = FALSE
      BY <1>10 DEF ProcessRecord, Take, TakenFrom, ResultWaiting, Typed
    <3>2. Pending(r)' = Count(r \in pollRequests)
      BY <1>10, <3>1 DEF ProcessRecord, Take, Pending, Count
    <3>3. Pending(r) = Count(ResultWaiting(r) /\ ~pact[r]) + Count(r \in pollRequests)
      BY <3>1 DEF Pending, Typed, Count
    <3>4. stale'[r] = stale[r] + Count(r \notin requesters /\ ~pact[r] /\ ResultWaiting(r))
      BY <1>10 DEF ProcessRecord, Take, ResultWaiting, Typed
    <3>5. requesters' = requesters
      BY <1>10 DEF ProcessRecord, Take
    <3>6. QED BY <2>2, <2>a, <3>2, <3>3, <3>4, <3>5 DEF Count, Typed
  <2>3. QED BY <2>1, <2>2
<1>11. ASSUME NEW r \in Records, ProcessScan(r) PROVE StaleBound'
  <2> SUFFICES ASSUME NEW q \in Records
               PROVE  IF q \in requesters' THEN stale'[q] = 0 ELSE stale'[q] + Pending(q)' <= 2
    BY DEF StaleBound
  <2>a. IF q \in requesters THEN stale[q] = 0 ELSE stale[q] + Pending(q) <= 2
    BY DEF StaleBound
  <2>1. CASE q # r
    BY <1>11, <2>1, <2>a DEF ProcessScan, Take, TakenFrom, Pending, ResultWaiting, Typed,
         Threads, Count
  <2>2. CASE q = r
    <3>1. procPc[r] = "idle" /\ ResultWaiting(r)' = FALSE
      BY <1>11 DEF ProcessScan, Take, TakenFrom, ResultWaiting, Typed
    <3>2. Pending(r)' = Count(r \in pollRequests)
      BY <1>11, <3>1 DEF ProcessScan, Take, Pending, Count
    <3>3. Pending(r) = Count(ResultWaiting(r) /\ ~pact[r]) + Count(r \in pollRequests)
      BY <3>1 DEF Pending, Typed, Count
    <3>4. stale'[r] = stale[r] + Count(r \notin requesters /\ ~pact[r] /\ ResultWaiting(r))
      BY <1>11 DEF ProcessScan, Take, ResultWaiting, Typed
    <3>5. requesters' = requesters
      BY <1>11 DEF ProcessScan, Take
    <3>6. QED BY <2>2, <2>a, <3>2, <3>3, <3>4, <3>5 DEF Count, Typed
  <2>3. QED BY <2>1, <2>2
<1>12. ASSUME NEW r \in Records, SkipScan(r) PROVE StaleBound'
  BY <1>12, RecordAssumption DEF SkipScan, StaleBound, Pending, ResultWaiting,
       OneContinuation, Continuations, Threads, Typed, Count
<1>13. ASSUME NEW r \in Records, ProcessCallback(r) PROVE StaleBound'
  <2> SUFFICES ASSUME NEW q \in Records
               PROVE  IF q \in requesters' THEN stale'[q] = 0 ELSE stale'[q] + Pending(q)' <= 2
    BY DEF StaleBound
  <2>a. IF q \in requesters THEN stale[q] = 0 ELSE stale[q] + Pending(q) <= 2
    BY DEF StaleBound
  <2>1. CASE q # r
    BY <1>13, <2>1, <2>a DEF ProcessCallback, Take, TakenFrom, Pending, ResultWaiting,
         Typed, Threads, Count
  <2>2. CASE q = r
    <3>1. procPc[r] = "idle" /\ ResultWaiting(r)' = FALSE
      BY <1>13 DEF ProcessCallback, Take, TakenFrom, ResultWaiting, Typed
    <3>2. Pending(r)' = Count(r \in pollRequests)
      BY <1>13, <3>1 DEF ProcessCallback, Take, Pending, Count
    <3>3. Pending(r) = Count(ResultWaiting(r) /\ ~pact[r]) + Count(r \in pollRequests)
      BY <3>1 DEF Pending, Typed, Count
    <3>4. stale'[r] = stale[r] + Count(r \notin requesters /\ ~pact[r] /\ ResultWaiting(r))
      BY <1>13 DEF ProcessCallback, Take, ResultWaiting, Typed
    <3>5. requesters' = requesters
      BY <1>13 DEF ProcessCallback, Take
    <3>6. QED BY <2>2, <2>a, <3>2, <3>3, <3>4, <3>5 DEF Count, Typed
  <2>3. QED BY <2>1, <2>2
<1>14. ASSUME NEW r \in Records, FinishWithError(r) PROVE StaleBound'
  BY <1>14, RecordAssumption DEF FinishWithError, Leave, Complete, Discarded, StaleBound,
       Pending, ResultWaiting, OneContinuation, Continuations, Threads, Typed, Count
<1>15. ASSUME NEW r \in Records, StartRead(r) PROVE StaleBound'
  BY <1>15, RecordAssumption DEF StartRead, Leave, MustRead, StaleBound, Pending,
       ResultWaiting, OneContinuation, Continuations, Threads, Typed, Count
<1>16. ASSUME NEW r \in Records, StartReadFails(r) PROVE StaleBound'
  BY <1>16, RecordAssumption DEF StartReadFails, Leave, MustRead, Complete, MayFail,
       StaleBound, Pending, ResultWaiting, OneContinuation, Continuations, Threads, Typed,
       Count
<1>17. ASSUME NEW r \in Records, FinishWithoutError(r) PROVE StaleBound'
  BY <1>17, RecordAssumption DEF FinishWithoutError, Leave, MustRead, Complete,
       StaleBound, Pending, ResultWaiting, OneContinuation, Continuations, Threads, Typed,
       Count
<1>18. CASE UNCHANGED vars
  BY <1>18 DEF vars, StaleBound, Pending, ResultWaiting, OneContinuation, Continuations,
       Threads, Typed, Count
<1>19. QED
  BY <1>1, <1>2, <1>3, <1>4, <1>5, <1>6, <1>7, <1>8, <1>9, <1>10, <1>11, <1>12, <1>13,
       <1>14, <1>15, <1>16, <1>17, <1>18 DEF Next, PollThread, PortThread, Process, Finish

------------------------------------------------------------------------------
\* The invariant holds initially.
LEMMA InitInv == Init => IInv
<1> SUFFICES ASSUME Init PROVE IInv
  OBVIOUS
<1>1. Typed
  BY RecordAssumption DEF Init, Typed, Data
<1>2. Threads /\ Results
  BY RecordAssumption DEF Init, Threads, Results, ResultWaiting, CompletionHasResult
<1>3. OneContinuation
  BY RecordAssumption DEF Init, OneContinuation, Continuations, Count
<1>4. BuffersBalanced
  BY RecordAssumption DEF Init, BuffersBalanced, Count
<1>5. PollOrder
  BY DEF Init, PollOrder, NewDataNotOlderThanPoll
<1>6. StaleBound
  BY DEF Init, StaleBound, Pending, ResultWaiting, Count
<1>7. QED BY <1>1, <1>2, <1>3, <1>4, <1>5, <1>6 DEF IInv

\* No step of any thread breaks the invariant.
LEMMA StepInv == IInv /\ [Next]_vars => IInv'
BY TypedStep, ThreadsStep, OneContinuationStep, BuffersStep, ResultsStep, PollOrderStep,
   StaleStep DEF IInv

\* The number of buffers is a sum of counts, so it is never negative.
LEMMA LiveNotNegative ==
  ASSUME BuffersBalanced
  PROVE  \A r \in Records : live[r] >= 0
BY DEF BuffersBalanced, Count

\* IInv is an invariant of the threads that work on input records.
THEOREM Invariance == Spec => []IInv
BY InitInv, StepInv, PTL DEF Spec

\* All variables keep their types, and no buffer is freed that was not allocated.
THEOREM TypeCorrect == Spec => []TypeOK
<1>1. IInv => TypeOK
  BY LiveNotNegative DEF IInv, TypeOK
<1>2. QED BY <1>1, Invariance, PTL

\* An active record has exactly one continuation: its asynUser is never queued twice, it
\* is never completed twice, and it is never left active for ever.
THEOREM ActiveHasOneContinuation == Spec => []OneContinuation
<1>1. IInv => OneContinuation
  BY DEF IInv
<1>2. QED BY <1>1, Invariance, PTL

\* The processing that completes an asynchronous read always has data or an error.
THEOREM CompletionFindsResult == Spec => []CompletionHasResult
<1>1. IInv => CompletionHasResult
  BY DEF IInv, Results
<1>2. QED BY <1>1, Invariance, PTL

\* The threads neither leak a buffer nor free one twice.
THEOREM BuffersNeverLeak == Spec => []BuffersBalanced
<1>1. IInv => BuffersBalanced
  BY DEF IInv
<1>2. QED BY <1>1, Invariance, PTL

\* The value waiting for a record is never older than the last polled one.
THEOREM NewDataIsYoung == Spec => []NewDataNotOlderThanPoll
<1>1. IInv => NewDataNotOlderThanPoll
  BY DEF IInv, PollOrder
<1>2. QED BY <1>1, Invariance, PTL

\* A record that has left its poll group is served by it at most twice more.
THEOREM StaleBounded == Spec => []StaleAtMostTwice
<1>1. IInv => StaleAtMostTwice
  <2> SUFFICES ASSUME IInv, NEW r \in Records PROVE stale[r] <= 2
    BY DEF StaleAtMostTwice
  <2>1. Pending(r) >= 0 /\ Pending(r) \in Int /\ stale[r] \in Nat
    BY DEF IInv, Typed, Pending, Count
  <2>2. QED BY <2>1 DEF IInv, StaleBound
<1>2. QED BY <1>1, Invariance, PTL
==============================================================================
