------------------------- MODULE OutputRecordProofs --------------------------
(***************************************************************************)
(* Proofs that every safety property of OutputRecord holds for any number  *)
(* of records, puts, failures and scans.  The properties need what the     *)
(* threads own (Threads), where an alarm is while it has not been shown    *)
(* (AlarmOnItsWay), that an alarm only stems from the last write           *)
(* (AlarmIsFresh), and that the value under way is the value of the record *)
(* or the record will be processed again (ValueOnItsWay).  There is one    *)
(* lemma for each part of the invariant, with one case for each action.    *)
(***************************************************************************)
EXTENDS OutputRecord, TLAPS

USE DEF portVars, valueVars, alarmVars

\* What the threads own at each of their steps.
Threads ==
  /\ portPc = "idle" <=> portJob = NoRecord
  /\ portPc = "write" <=> portData # NoData
  /\ \A r \in Records : procPc[r] \in {"init", "write"} => ~pact[r]
  /\ \A r \in Records : procPc[r] = "init" => outcome[r] = "none"

\* A buffer is where the next one who needs it will look for it.
DataInPlace ==
  /\ WriterHasData
  /\ \A r \in Records : procPc[r] = "queue" => newData[r] # NoData

\* A failure that no severity has shown yet is known to the port thread, or it is in
\* the new severity of an active record.
AlarmOnItsWay ==
  \A r \in Records :
    unreported[r] =>
      /\ pact[r]
      /\ nsev[r] = "INVALID_ALARM" \/ (portJob = r /\ portPc = "report" /\ ~portSuccess)

\* An alarm on its way is one of the last write, and an inactive record whose last write
\* succeeded has none.
AlarmIsFresh ==
  /\ \A r \in Records :
       nsev[r] = "INVALID_ALARM" => callbacks[r] > 0 \/ (portJob = r /\ portPc = "notify")
  /\ \A r \in Records :
       nsev[r] = "INVALID_ALARM" \/ (portJob = r /\ portPc = "report" /\ ~portSuccess)
         => outcome[r] = "failed"
  /\ SuccessClearsAlarm

\* An active record that will not be processed again has its value on its way to the PLC,
\* or there already.
ValueOnItsWay ==
  /\ \A r \in Records :
       pact[r] /\ ~rpro[r] =>
         /\ procPc[r] = "queue" \/ r \in queued => newData[r] = val[r]
         /\ portJob = r /\ portPc = "write" => portData = val[r]
         /\ (portJob = r /\ portPc # "write") \/ callbacks[r] > 0 =>
              (outcome[r] = "ok" => plc[r] = val[r])
  /\ QuietRecordIsWritten

\* The inductive invariant.
IInv ==
  /\ Typed /\ Threads
  /\ OneContinuation /\ DataInPlace /\ BuffersBalanced
  /\ AlarmOnItsWay /\ AlarmIsFresh /\ ValueOnItsWay

------------------------------------------------------------------------------

\* Every step keeps the types, but for the sign of live.
LEMMA TypedStep ==
  ASSUME Typed, Threads, [Next]_vars
  PROVE  Typed'
<1> USE RecordAssumption DEF Typed, Values, Severities, Count
<1>1. ASSUME NEW r \in Records, InitRecord(r) PROVE Typed'
  BY <1>1 DEF InitRecord, MayFail
<1>2. ASSUME NEW r \in Records, Put(r) PROVE Typed'
  <2>1. puts' \in Values /\ val' \in [Records -> Values] /\ udf' \in [Records -> BOOLEAN]
    BY <1>2 DEF Put
  <2>2. /\ rpro' \in [Records -> BOOLEAN] /\ lcnt' \in [Records -> 0..MaxLock]
        /\ procPc' \in [Records -> {"init", "idle", "write", "queue"}]
    <3>1. CASE pact[r]
      BY <1>2, <3>1 DEF Put
    <3>2. CASE ~pact[r]
      BY <1>2, <3>2 DEF Put
    <3>3. QED BY <3>1, <3>2
  <2>3. QED BY <1>2, <2>1, <2>2 DEF Put
<1>3. ASSUME NEW r \in Records, Process(r) /\ UNCHANGED once PROVE Typed'
  BY <1>3 DEF Process
<1>4. ASSUME NEW r \in Records, ProcessActive(r) /\ UNCHANGED once PROVE Typed'
  <2>1. lcnt' \in [Records -> 0..MaxLock]
    BY <1>4 DEF ProcessActive
  <2>2. /\ sevr' \in [Records -> Severities] /\ nsev' \in [Records -> Severities]
        /\ unreported' \in [Records -> BOOLEAN]
    BY <1>4 DEF ProcessActive
  <2>3. QED BY <1>4, <2>1, <2>2 DEF ProcessActive
<1>5. ASSUME NEW r \in Records, ProcessOnce(r) PROVE Typed'
  <2>1. once' \in [Records -> Nat]
    BY <1>5 DEF ProcessOnce
  <2>2. CASE Process(r)
    BY <1>5, <2>1, <2>2 DEF Process
  <2>3. CASE ProcessActive(r)
    <3>1. lcnt' \in [Records -> 0..MaxLock]
      BY <2>3 DEF ProcessActive
    <3>2. /\ sevr' \in [Records -> Severities] /\ nsev' \in [Records -> Severities]
          /\ unreported' \in [Records -> BOOLEAN]
      BY <2>3 DEF ProcessActive
    <3>3. QED BY <2>1, <2>3, <3>1, <3>2 DEF ProcessActive
  <2>4. CASE ~Process(r) /\ ~ProcessActive(r)
    BY <1>5, <2>1, <2>4 DEF ProcessOnce
  <2>5. QED BY <2>2, <2>3, <2>4
<1>6. ASSUME NEW r \in Records, StartWrite(r) PROVE Typed'
  BY <1>6 DEF StartWrite, Submit, Leftover
<1>7. ASSUME NEW r \in Records, QueueWrite(r) PROVE Typed'
  BY <1>7 DEF QueueWrite
<1>8. ASSUME NEW r \in Records, QueueWriteFails(r) PROVE Typed'
  BY <1>8 DEF QueueWriteFails, Complete, MayFail
<1>9. ASSUME NEW r \in Records, FinishWrite(r) PROVE Typed'
  BY <1>9 DEF FinishWrite, Complete
<1>10. ASSUME NEW r \in Records, PortTake(r) PROVE Typed'
  BY <1>10 DEF PortTake
<1>11. CASE PortWrite
  <2>1. portJob \in Records
    BY <1>11 DEF PortWrite, Threads
  <2>2. failures' \in 0..MaxFailures
    BY <1>11 DEF PortWrite, MayFail
  <2>3. /\ plc' \in [Records -> Values] /\ portSuccess' \in BOOLEAN
        /\ unreported' \in [Records -> BOOLEAN]
        /\ outcome' \in [Records -> {"none", "ok", "failed"}]
    <3>1. portData \in Values
      BY <1>11 DEF PortWrite, Threads
    <3>2. QED BY <1>11, <2>1, <3>1 DEF PortWrite
  <2>4. QED BY <1>11, <2>1, <2>2, <2>3 DEF PortWrite
<1>12. CASE PortReport
  <2>1. portJob \in Records
    BY <1>12 DEF PortReport, Threads, Typed
  <2>2. QED BY <1>12, <2>1 DEF PortReport, RaiseAlarm, WriteError, Typed, Values,
        Severities, Count
<1>13. CASE PortNotify
  <2>1. portJob \in Records
    BY <1>13 DEF PortNotify, Threads, Typed
  <2>2. QED BY <1>13, <2>1 DEF PortNotify, Typed, Values, Severities, Count
<1>14. CASE UNCHANGED vars
  BY <1>14 DEF vars
<1>15. QED
  BY <1>1, <1>2, <1>3, <1>4, <1>5, <1>6, <1>7, <1>8, <1>9, <1>10, <1>11, <1>12, <1>13,
       <1>14 DEF Next, Client, Processing

\* Without a continuation, a record is in no queue and no thread works on it.
LEMMA InactiveIsNowhere ==
  ASSUME Typed, OneContinuation, NEW r \in Records, ~pact[r]
  PROVE  r \notin queued /\ portJob # r /\ callbacks[r] = 0 /\ procPc[r] # "queue"
<1>1. Continuations(r) = 0
  BY DEF OneContinuation, Count
<1>2. /\ Count(r \in queued) \in Nat /\ Count(portJob = r) \in Nat
      /\ Count(procPc[r] = "queue") \in Nat /\ callbacks[r] \in Nat
  BY DEF Typed, Count
<1>3. /\ Count(r \in queued) = 0 /\ Count(portJob = r) = 0
      /\ Count(procPc[r] = "queue") = 0 /\ callbacks[r] = 0
  <2> DEFINE a == Count(r \in queued)
             b == Count(portJob = r)
             c == Count(procPc[r] = "queue")
  <2>1. a + b + callbacks[r] + c = 0
    BY <1>1 DEF Continuations
  <2>2. a \in Nat /\ b \in Nat /\ c \in Nat /\ callbacks[r] \in Nat
    BY <1>2
  <2> HIDE DEF a, b, c
  <2>3. a = 0 /\ b = 0 /\ c = 0 /\ callbacks[r] = 0
    BY <2>1, <2>2
  <2>4. QED BY <2>3 DEF a, b, c
<1>4. QED BY <1>3 DEF Count

\* The record the port thread works on is active, and nothing else will complete it.
LEMMA JobIsActive ==
  ASSUME Typed, Threads, OneContinuation, portPc # "idle"
  PROVE  /\ portJob \in Records /\ pact[portJob]
         /\ portJob \notin queued /\ callbacks[portJob] = 0 /\ procPc[portJob] # "queue"
<1>1. portJob \in Records
  BY DEF Typed, Threads
<1>2. pact[portJob]
  BY <1>1, InactiveIsNowhere
<1>3. Continuations(portJob) = 1 /\ callbacks[portJob] \in Nat
  BY <1>1, <1>2 DEF OneContinuation, Typed, Count
<1>4. QED BY <1>1, <1>2, <1>3 DEF Continuations, Count

\* So is a record that waits for its callback.
LEMMA CallbackIsActive ==
  ASSUME Typed, OneContinuation, NEW r \in Records, callbacks[r] > 0
  PROVE  pact[r] /\ callbacks[r] = 1 /\ r \notin queued /\ portJob # r /\ procPc[r] # "queue"
<1>1. pact[r]
  BY InactiveIsNowhere
<1>2. Continuations(r) = 1 /\ callbacks[r] \in Nat
  BY <1>1 DEF OneContinuation, Typed, Count
<1>3. QED BY <1>1, <1>2 DEF Continuations, Count


\* Every step keeps what the threads own.
LEMMA ThreadsStep ==
  ASSUME Typed, Threads, OneContinuation, DataInPlace, [Next]_vars
  PROVE  Threads'
<1> USE RecordAssumption DEF Threads, Typed, Values, OneContinuation, Continuations,
      Count, DataInPlace, WriterHasData
<1>1. ASSUME NEW r \in Records, InitRecord(r) PROVE Threads'
  BY <1>1 DEF InitRecord, MayFail
<1>2. ASSUME NEW r \in Records, Put(r) PROVE Threads'
  BY <1>2 DEF Put
<1>3. ASSUME NEW r \in Records, Process(r) /\ UNCHANGED once PROVE Threads'
  BY <1>3 DEF Process
<1>4. ASSUME NEW r \in Records, ProcessActive(r) /\ UNCHANGED once PROVE Threads'
  BY <1>4 DEF ProcessActive
<1>5. ASSUME NEW r \in Records, ProcessOnce(r) PROVE Threads'
  BY <1>5 DEF ProcessOnce, Process, ProcessActive
<1>6. ASSUME NEW r \in Records, StartWrite(r) PROVE Threads'
  BY <1>6 DEF StartWrite, Submit, Leftover
<1>7. ASSUME NEW r \in Records, QueueWrite(r) PROVE Threads'
  BY <1>7 DEF QueueWrite
<1>8. ASSUME NEW r \in Records, QueueWriteFails(r) PROVE Threads'
  BY <1>8 DEF QueueWriteFails, Complete, MayFail
<1>9. ASSUME NEW r \in Records, FinishWrite(r) PROVE Threads'
  BY <1>9 DEF FinishWrite, Complete
<1>10. ASSUME NEW r \in Records, PortTake(r) PROVE Threads'
  BY <1>10 DEF PortTake
<1>11. CASE PortWrite
  <2>1. portJob \in Records /\ procPc[portJob] # "init"
    BY <1>11, JobIsActive DEF PortWrite
  <2>2. \A r \in Records : r # portJob => outcome'[r] = outcome[r]
    BY <1>11 DEF PortWrite
  <2>3. QED BY <1>11, <2>1, <2>2 DEF PortWrite
<1>12. CASE PortReport
  BY <1>12 DEF PortReport, RaiseAlarm, WriteError
<1>13. CASE PortNotify
  BY <1>13 DEF PortNotify
<1>14. CASE UNCHANGED vars
  BY <1>14 DEF vars
<1>15. QED
  BY <1>1, <1>2, <1>3, <1>4, <1>5, <1>6, <1>7, <1>8, <1>9, <1>10, <1>11, <1>12, <1>13,
       <1>14 DEF Next, Client, Processing

\* Every step keeps the number of continuations of a record: one while it is active.
LEMMA OneContinuationStep ==
  ASSUME Typed, Threads, OneContinuation, [Next]_vars
  PROVE  OneContinuation'
<1>1. ASSUME NEW r \in Records, InitRecord(r) PROVE OneContinuation'
  <2> SUFFICES ASSUME NEW q \in Records PROVE (Continuations(q) = Count(pact[q]))'
    BY DEF OneContinuation
  <2>a. Continuations(q) = Count(pact[q])
    BY DEF OneContinuation
  <2>1. CASE q = r
    BY <1>1, <2>a, <2>1, RecordAssumption DEF InitRecord, MayFail, Continuations, Threads,
         Typed, Count
  <2>2. CASE q # r
    BY <1>1, <2>a, <2>2, RecordAssumption DEF InitRecord, MayFail, Continuations, Threads,
         Typed, Count
  <2>3. QED BY <2>1, <2>2
<1>2. ASSUME NEW r \in Records, Put(r) PROVE OneContinuation'
  <2> SUFFICES ASSUME NEW q \in Records PROVE (Continuations(q) = Count(pact[q]))'
    BY DEF OneContinuation
  <2>a. Continuations(q) = Count(pact[q])
    BY DEF OneContinuation
  <2>1. CASE q = r
    BY <1>2, <2>a, <2>1, RecordAssumption DEF Put, Continuations, Threads, Typed, Count
  <2>2. CASE q # r
    BY <1>2, <2>a, <2>2, RecordAssumption DEF Put, Continuations, Threads, Typed, Count
  <2>3. QED BY <2>1, <2>2
<1>3. ASSUME NEW r \in Records, Process(r) /\ UNCHANGED once PROVE OneContinuation'
  <2> SUFFICES ASSUME NEW q \in Records PROVE (Continuations(q) = Count(pact[q]))'
    BY DEF OneContinuation
  <2>a. Continuations(q) = Count(pact[q])
    BY DEF OneContinuation
  <2>1. CASE q = r
    BY <1>3, <2>a, <2>1, RecordAssumption DEF Process, Continuations, Threads, Typed,
         Count
  <2>2. CASE q # r
    BY <1>3, <2>a, <2>2, RecordAssumption DEF Process, Continuations, Threads, Typed,
         Count
  <2>3. QED BY <2>1, <2>2
<1>4. ASSUME NEW r \in Records, ProcessActive(r) /\ UNCHANGED once PROVE OneContinuation'
  <2> SUFFICES ASSUME NEW q \in Records PROVE (Continuations(q) = Count(pact[q]))'
    BY DEF OneContinuation
  <2>a. Continuations(q) = Count(pact[q])
    BY DEF OneContinuation
  <2>1. CASE q = r
    BY <1>4, <2>a, <2>1, RecordAssumption DEF ProcessActive, Continuations, Threads,
         Typed, Count
  <2>2. CASE q # r
    BY <1>4, <2>a, <2>2, RecordAssumption DEF ProcessActive, Continuations, Threads,
         Typed, Count
  <2>3. QED BY <2>1, <2>2
<1>5. ASSUME NEW r \in Records, ProcessOnce(r) PROVE OneContinuation'
  <2> SUFFICES ASSUME NEW q \in Records PROVE (Continuations(q) = Count(pact[q]))'
    BY DEF OneContinuation
  <2>a. Continuations(q) = Count(pact[q])
    BY DEF OneContinuation
  <2>1. CASE q = r
    BY <1>5, <2>a, <2>1, RecordAssumption DEF ProcessOnce, Process, ProcessActive,
         Continuations, Threads, Typed, Count
  <2>2. CASE q # r
    BY <1>5, <2>a, <2>2, RecordAssumption DEF ProcessOnce, Process, ProcessActive,
         Continuations, Threads, Typed, Count
  <2>3. QED BY <2>1, <2>2
<1>6. ASSUME NEW r \in Records, StartWrite(r) PROVE OneContinuation'
  <2> SUFFICES ASSUME NEW q \in Records PROVE (Continuations(q) = Count(pact[q]))'
    BY DEF OneContinuation
  <2>a. Continuations(q) = Count(pact[q])
    BY DEF OneContinuation
  <2>1. CASE q = r
    BY <1>6, <2>a, <2>1, RecordAssumption DEF StartWrite, Submit, Leftover, Continuations,
         Threads, Typed, Count
  <2>2. CASE q # r
    BY <1>6, <2>a, <2>2, RecordAssumption DEF StartWrite, Submit, Leftover, Continuations,
         Threads, Typed, Count
  <2>3. QED BY <2>1, <2>2
<1>7. ASSUME NEW r \in Records, QueueWrite(r) PROVE OneContinuation'
  <2> SUFFICES ASSUME NEW q \in Records PROVE (Continuations(q) = Count(pact[q]))'
    BY DEF OneContinuation
  <2>a. Continuations(q) = Count(pact[q])
    BY DEF OneContinuation
  <2>1. CASE q = r
    BY <1>7, <2>a, <2>1, RecordAssumption DEF QueueWrite, Continuations, Threads, Typed,
         Count
  <2>2. CASE q # r
    BY <1>7, <2>a, <2>2, RecordAssumption DEF QueueWrite, Continuations, Threads, Typed,
         Count
  <2>3. QED BY <2>1, <2>2
<1>8. ASSUME NEW r \in Records, QueueWriteFails(r) PROVE OneContinuation'
  <2> SUFFICES ASSUME NEW q \in Records PROVE (Continuations(q) = Count(pact[q]))'
    BY DEF OneContinuation
  <2>a. Continuations(q) = Count(pact[q])
    BY DEF OneContinuation
  <2>1. CASE q = r
    BY <1>8, <2>a, <2>1, RecordAssumption DEF QueueWriteFails, Complete, MayFail,
         Continuations, Threads, Typed, Count
  <2>2. CASE q # r
    BY <1>8, <2>a, <2>2, RecordAssumption DEF QueueWriteFails, Complete, MayFail,
         Continuations, Threads, Typed, Count
  <2>3. QED BY <2>1, <2>2
<1>9. ASSUME NEW r \in Records, FinishWrite(r) PROVE OneContinuation'
  <2> SUFFICES ASSUME NEW q \in Records PROVE (Continuations(q) = Count(pact[q]))'
    BY DEF OneContinuation
  <2>a. Continuations(q) = Count(pact[q])
    BY DEF OneContinuation
  <2>1. CASE q = r
    BY <1>9, <2>a, <2>1, RecordAssumption DEF FinishWrite, Complete, Continuations,
         Threads, Typed, Count
  <2>2. CASE q # r
    BY <1>9, <2>a, <2>2, RecordAssumption DEF FinishWrite, Complete, Continuations,
         Threads, Typed, Count
  <2>3. QED BY <2>1, <2>2
<1>10. ASSUME NEW r \in Records, PortTake(r) PROVE OneContinuation'
  <2> SUFFICES ASSUME NEW q \in Records PROVE (Continuations(q) = Count(pact[q]))'
    BY DEF OneContinuation
  <2>a. Continuations(q) = Count(pact[q])
    BY DEF OneContinuation
  <2>1. CASE q = r
    BY <1>10, <2>a, <2>1, RecordAssumption DEF PortTake, Continuations, Threads, Typed,
         Count
  <2>2. CASE q # r
    BY <1>10, <2>a, <2>2, RecordAssumption DEF PortTake, Continuations, Threads, Typed,
         Count
  <2>3. QED BY <2>1, <2>2
<1>11. CASE PortWrite
  BY <1>11, RecordAssumption DEF PortWrite, MayFail, OneContinuation, Continuations,
       Threads, Typed, Count
<1>12. CASE PortReport
  BY <1>12, RecordAssumption DEF PortReport, RaiseAlarm, WriteError, OneContinuation,
       Continuations, Threads, Typed, Count
<1>13. CASE PortNotify
  <2> SUFFICES ASSUME NEW q \in Records PROVE (Continuations(q) = Count(pact[q]))'
    BY DEF OneContinuation
  <2>a. Continuations(q) = Count(pact[q])
    BY DEF OneContinuation
  <2>1. CASE q = portJob
    BY <1>13, <2>a, <2>1, RecordAssumption DEF PortNotify, Continuations, Threads, Typed,
         Count
  <2>2. CASE q # portJob
    BY <1>13, <2>a, <2>2, RecordAssumption DEF PortNotify, Continuations, Threads, Typed,
         Count
  <2>3. QED BY <2>1, <2>2
<1>14. CASE UNCHANGED vars
  BY <1>14 DEF vars, OneContinuation, Continuations, Threads, Typed, Count
<1>15. QED
  BY <1>1, <1>2, <1>3, <1>4, <1>5, <1>6, <1>7, <1>8, <1>9, <1>10, <1>11, <1>12, <1>13,
       <1>14 DEF Next, Client, Processing

\* Every step keeps the buffer of a request in its place.
LEMMA DataStep ==
  ASSUME Typed, Threads, OneContinuation, DataInPlace, [Next]_vars
  PROVE  DataInPlace'
<1> USE RecordAssumption DEF DataInPlace, WriterHasData, OneContinuation, Continuations,
      Threads, Typed, Values, Severities, Count
<1>1. ASSUME NEW r \in Records, InitRecord(r) PROVE DataInPlace'
  BY <1>1 DEF InitRecord, MayFail
<1>2. ASSUME NEW r \in Records, Put(r) PROVE DataInPlace'
  BY <1>2 DEF Put
<1>3. ASSUME NEW r \in Records, Process(r) /\ UNCHANGED once PROVE DataInPlace'
  BY <1>3 DEF Process
<1>4. ASSUME NEW r \in Records, ProcessActive(r) /\ UNCHANGED once PROVE DataInPlace'
  BY <1>4 DEF ProcessActive
<1>5. ASSUME NEW r \in Records, ProcessOnce(r) PROVE DataInPlace'
  BY <1>5 DEF ProcessOnce, Process, ProcessActive
<1>6. ASSUME NEW r \in Records, StartWrite(r) PROVE DataInPlace'
  BY <1>6 DEF StartWrite, Submit, Leftover
<1>7. ASSUME NEW r \in Records, QueueWrite(r) PROVE DataInPlace'
  BY <1>7 DEF QueueWrite
<1>8. ASSUME NEW r \in Records, QueueWriteFails(r) PROVE DataInPlace'
  BY <1>8 DEF QueueWriteFails, Complete, MayFail
<1>9. ASSUME NEW r \in Records, FinishWrite(r) PROVE DataInPlace'
  BY <1>9 DEF FinishWrite, Complete
<1>10. ASSUME NEW r \in Records, PortTake(r) PROVE DataInPlace'
  BY <1>10 DEF PortTake
<1>11. CASE PortWrite
  BY <1>11 DEF PortWrite, MayFail
<1>12. CASE PortReport
  BY <1>12 DEF PortReport, RaiseAlarm, WriteError
<1>13. CASE PortNotify
  BY <1>13 DEF PortNotify
<1>14. CASE UNCHANGED vars
  BY <1>14 DEF vars
<1>15. QED
  BY <1>1, <1>2, <1>3, <1>4, <1>5, <1>6, <1>7, <1>8, <1>9, <1>10, <1>11, <1>12, <1>13,
       <1>14 DEF Next, Client, Processing

\* Every step keeps the balance of allocated and freed buffers.
LEMMA BuffersStep ==
  ASSUME Typed, Threads, BuffersBalanced, [Next]_vars
  PROVE  BuffersBalanced'
<1> USE RecordAssumption DEF BuffersBalanced, Threads, Typed, Values, Count
<1>1. ASSUME NEW r \in Records, InitRecord(r) PROVE BuffersBalanced'
  BY <1>1 DEF InitRecord, MayFail
<1>2. ASSUME NEW r \in Records, Put(r) PROVE BuffersBalanced'
  BY <1>2 DEF Put
<1>3. ASSUME NEW r \in Records, Process(r) /\ UNCHANGED once PROVE BuffersBalanced'
  BY <1>3 DEF Process
<1>4. ASSUME NEW r \in Records, ProcessActive(r) /\ UNCHANGED once PROVE BuffersBalanced'
  BY <1>4 DEF ProcessActive
<1>5. ASSUME NEW r \in Records, ProcessOnce(r) PROVE BuffersBalanced'
  BY <1>5 DEF ProcessOnce, Process, ProcessActive
<1>6. ASSUME NEW r \in Records, StartWrite(r) PROVE BuffersBalanced'
  BY <1>6 DEF StartWrite, Submit, Leftover
<1>7. ASSUME NEW r \in Records, QueueWrite(r) PROVE BuffersBalanced'
  BY <1>7 DEF QueueWrite
<1>8. ASSUME NEW r \in Records, QueueWriteFails(r) PROVE BuffersBalanced'
  BY <1>8 DEF QueueWriteFails, Complete, MayFail
<1>9. ASSUME NEW r \in Records, FinishWrite(r) PROVE BuffersBalanced'
  BY <1>9 DEF FinishWrite, Complete
<1>10. ASSUME NEW r \in Records, PortTake(r) PROVE BuffersBalanced'
  BY <1>10 DEF PortTake
<1>11. CASE PortWrite
  BY <1>11 DEF PortWrite, MayFail
<1>12. CASE PortReport
  BY <1>12 DEF PortReport, RaiseAlarm, WriteError
<1>13. CASE PortNotify
  BY <1>13 DEF PortNotify
<1>14. CASE UNCHANGED vars
  BY <1>14 DEF vars
<1>15. QED
  BY <1>1, <1>2, <1>3, <1>4, <1>5, <1>6, <1>7, <1>8, <1>9, <1>10, <1>11, <1>12, <1>13,
       <1>14 DEF Next, Client, Processing

\* Every step keeps a failure on its way to the severity.
LEMMA AlarmStep ==
  ASSUME Typed, Threads, OneContinuation, DataInPlace, AlarmOnItsWay, [Next]_vars
  PROVE  AlarmOnItsWay'
<1> USE RecordAssumption DEF AlarmOnItsWay, DataInPlace, WriterHasData, OneContinuation,
      Continuations, Threads, Typed, Values, Severities, Count
<1>1. ASSUME NEW r \in Records, InitRecord(r) PROVE AlarmOnItsWay'
  BY <1>1 DEF InitRecord, MayFail
<1>2. ASSUME NEW r \in Records, Put(r) PROVE AlarmOnItsWay'
  BY <1>2 DEF Put
<1>3. ASSUME NEW r \in Records, Process(r) /\ UNCHANGED once PROVE AlarmOnItsWay'
  BY <1>3 DEF Process
<1>4. ASSUME NEW r \in Records, ProcessActive(r) /\ UNCHANGED once PROVE AlarmOnItsWay'
  BY <1>4 DEF ProcessActive
<1>5. ASSUME NEW r \in Records, ProcessOnce(r) PROVE AlarmOnItsWay'
  BY <1>5 DEF ProcessOnce, Process, ProcessActive
<1>6. ASSUME NEW r \in Records, StartWrite(r) PROVE AlarmOnItsWay'
  BY <1>6 DEF StartWrite, Submit, Leftover
<1>7. ASSUME NEW r \in Records, QueueWrite(r) PROVE AlarmOnItsWay'
  BY <1>7 DEF QueueWrite
<1>8. ASSUME NEW r \in Records, QueueWriteFails(r) PROVE AlarmOnItsWay'
  BY <1>8 DEF QueueWriteFails, Complete, MayFail
<1>9. ASSUME NEW r \in Records, FinishWrite(r) PROVE AlarmOnItsWay'
  <2> SUFFICES ASSUME NEW q \in Records
               PROVE  unreported'[q] =>
                        /\ pact'[q]
                        /\ \/ nsev'[q] = "INVALID_ALARM"
                           \/ portJob' = q /\ portPc' = "report" /\ ~portSuccess'
    BY DEF AlarmOnItsWay
  <2>1. portJob # r
    BY <1>9, CallbackIsActive DEF FinishWrite
  <2>2. CASE q = r
    BY <1>9, <2>1, <2>2 DEF FinishWrite, Complete
  <2>3. CASE q # r
    BY <1>9, <2>1, <2>3 DEF FinishWrite, Complete
  <2>4. QED BY <2>2, <2>3
<1>10. ASSUME NEW r \in Records, PortTake(r) PROVE AlarmOnItsWay'
  BY <1>10 DEF PortTake
<1>11. CASE PortWrite
  <2> PICK failed \in BOOLEAN, written \in BOOLEAN :
         /\ failed \/ written
         /\ plc' = IF written THEN [plc EXCEPT ![portJob] = portData] ELSE plc
         /\ portSuccess' = ~failed
         /\ unreported' = [unreported EXCEPT ![portJob] = @ \/ failed]
         /\ outcome' = [outcome EXCEPT ![portJob] = IF failed THEN "failed" ELSE "ok"]
    BY <1>11 DEF PortWrite
  <2>1. portJob \in Records /\ pact[portJob] /\ callbacks[portJob] = 0
    BY <1>11, JobIsActive DEF PortWrite
  <2> SUFFICES ASSUME NEW q \in Records
               PROVE  unreported'[q] =>
                        /\ pact'[q]
                        /\ \/ nsev'[q] = "INVALID_ALARM"
                           \/ portJob' = q /\ portPc' = "report" /\ ~portSuccess'
    BY DEF AlarmOnItsWay
  <2>2. CASE q = portJob
    BY <1>11, <2>1, <2>2 DEF PortWrite
  <2>3. CASE q # portJob
    BY <1>11, <2>1, <2>3 DEF PortWrite
  <2>4. QED BY <2>2, <2>3
<1>12. CASE PortReport
  BY <1>12 DEF PortReport, RaiseAlarm, WriteError
<1>13. CASE PortNotify
  BY <1>13 DEF PortNotify
<1>14. CASE UNCHANGED vars
  BY <1>14 DEF vars
<1>15. QED
  BY <1>1, <1>2, <1>3, <1>4, <1>5, <1>6, <1>7, <1>8, <1>9, <1>10, <1>11, <1>12, <1>13,
       <1>14 DEF Next, Client, Processing

\* Every step keeps the alarms of earlier writes away.
LEMMA FreshStep ==
  ASSUME Typed, Threads, OneContinuation, DataInPlace, AlarmIsFresh, [Next]_vars
  PROVE  AlarmIsFresh'
<1> USE RecordAssumption DEF AlarmIsFresh, SuccessClearsAlarm, DataInPlace, WriterHasData,
      OneContinuation, Continuations, Threads, Typed, Values, Severities, Count
<1>1. ASSUME NEW r \in Records, InitRecord(r) PROVE AlarmIsFresh'
  BY <1>1 DEF InitRecord, MayFail
<1>2. ASSUME NEW r \in Records, Put(r) PROVE AlarmIsFresh'
  BY <1>2 DEF Put
<1>3. ASSUME NEW r \in Records, Process(r) /\ UNCHANGED once PROVE AlarmIsFresh'
  BY <1>3 DEF Process
<1>4. ASSUME NEW r \in Records, ProcessActive(r) /\ UNCHANGED once PROVE AlarmIsFresh'
  BY <1>4 DEF ProcessActive
<1>5. ASSUME NEW r \in Records, ProcessOnce(r) PROVE AlarmIsFresh'
  BY <1>5 DEF ProcessOnce, Process, ProcessActive
<1>6. ASSUME NEW r \in Records, StartWrite(r) PROVE AlarmIsFresh'
  BY <1>6 DEF StartWrite, Submit, Leftover
<1>7. ASSUME NEW r \in Records, QueueWrite(r) PROVE AlarmIsFresh'
  BY <1>7 DEF QueueWrite
<1>8. ASSUME NEW r \in Records, QueueWriteFails(r) PROVE AlarmIsFresh'
  BY <1>8 DEF QueueWriteFails, Complete, MayFail
<1>9. ASSUME NEW r \in Records, FinishWrite(r) PROVE AlarmIsFresh'
  BY <1>9 DEF FinishWrite, Complete
<1>10. ASSUME NEW r \in Records, PortTake(r) PROVE AlarmIsFresh'
  BY <1>10 DEF PortTake
<1>11. CASE PortWrite
  <2> PICK failed \in BOOLEAN, written \in BOOLEAN :
         /\ failed \/ written
         /\ plc' = IF written THEN [plc EXCEPT ![portJob] = portData] ELSE plc
         /\ portSuccess' = ~failed
         /\ unreported' = [unreported EXCEPT ![portJob] = @ \/ failed]
         /\ outcome' = [outcome EXCEPT ![portJob] = IF failed THEN "failed" ELSE "ok"]
    BY <1>11 DEF PortWrite
  <2>1. portJob \in Records /\ pact[portJob] /\ callbacks[portJob] = 0
    BY <1>11, JobIsActive DEF PortWrite
  <2> SUFFICES ASSUME NEW q \in Records
               PROVE  /\ nsev'[q] = "INVALID_ALARM" =>
                           callbacks'[q] > 0 \/ (portJob' = q /\ portPc' = "notify")
                      /\ \/ nsev'[q] = "INVALID_ALARM"
                         \/ portJob' = q /\ portPc' = "report" /\ ~portSuccess'
                         => outcome'[q] = "failed"
                      /\ ~pact'[q] /\ outcome'[q] = "ok" => sevr'[q] = "NO_ALARM"
    BY DEF AlarmIsFresh, SuccessClearsAlarm
  <2>2. CASE q = portJob
    BY <1>11, <2>1, <2>2 DEF PortWrite
  <2>3. CASE q # portJob
    BY <1>11, <2>1, <2>3 DEF PortWrite
  <2>4. QED BY <2>2, <2>3
<1>12. CASE PortReport
  BY <1>12 DEF PortReport, RaiseAlarm, WriteError
<1>13. CASE PortNotify
  BY <1>13 DEF PortNotify
<1>14. CASE UNCHANGED vars
  BY <1>14 DEF vars
<1>15. QED
  BY <1>1, <1>2, <1>3, <1>4, <1>5, <1>6, <1>7, <1>8, <1>9, <1>10, <1>11, <1>12, <1>13,
       <1>14 DEF Next, Client, Processing

\* Every step keeps the value of a record on its way.
LEMMA ValueStep ==
  ASSUME Typed, Threads, OneContinuation, DataInPlace, ValueOnItsWay, [Next]_vars
  PROVE  ValueOnItsWay'
<1> USE RecordAssumption DEF ValueOnItsWay, QuietRecordIsWritten, DataInPlace,
      WriterHasData, OneContinuation, Continuations, Threads, Typed, Values, Severities,
      Count
<1>1. ASSUME NEW r \in Records, InitRecord(r) PROVE ValueOnItsWay'
  BY <1>1 DEF InitRecord, MayFail
<1>2. ASSUME NEW r \in Records, Put(r) PROVE ValueOnItsWay'
  BY <1>2 DEF Put
<1>3. ASSUME NEW r \in Records, Process(r) /\ UNCHANGED once PROVE ValueOnItsWay'
  BY <1>3 DEF Process
<1>4. ASSUME NEW r \in Records, ProcessActive(r) /\ UNCHANGED once PROVE ValueOnItsWay'
  BY <1>4 DEF ProcessActive
<1>5. ASSUME NEW r \in Records, ProcessOnce(r) PROVE ValueOnItsWay'
  BY <1>5 DEF ProcessOnce, Process, ProcessActive
<1>6. ASSUME NEW r \in Records, StartWrite(r) PROVE ValueOnItsWay'
  <2> SUFFICES ASSUME NEW q \in Records
               PROVE  /\ pact'[q] /\ ~rpro'[q] =>
                           /\ procPc'[q] = "queue" \/ q \in queued' => newData'[q] = val'[q]
                           /\ portJob' = q /\ portPc' = "write" => portData' = val'[q]
                           /\ (portJob' = q /\ portPc' # "write") \/ callbacks'[q] > 0 =>
                                (outcome'[q] = "ok" => plc'[q] = val'[q])
                      /\ procPc'[q] = "idle" /\ ~pact'[q] /\ once'[q] = 0 /\ outcome'[q] = "ok"
                           => plc'[q] = val'[q]
    BY DEF ValueOnItsWay, QuietRecordIsWritten
  <2>1. r \notin queued /\ portJob # r /\ callbacks[r] = 0
    BY <1>6, InactiveIsNowhere DEF StartWrite
  <2>2. CASE q = r
    BY <1>6, <2>1, <2>2 DEF StartWrite, Submit, Leftover
  <2>3. CASE q # r
    BY <1>6, <2>1, <2>3 DEF StartWrite, Submit, Leftover
  <2>4. QED BY <2>2, <2>3
<1>7. ASSUME NEW r \in Records, QueueWrite(r) PROVE ValueOnItsWay'
  BY <1>7 DEF QueueWrite
<1>8. ASSUME NEW r \in Records, QueueWriteFails(r) PROVE ValueOnItsWay'
  BY <1>8 DEF QueueWriteFails, Complete, MayFail
<1>9. ASSUME NEW r \in Records, FinishWrite(r) PROVE ValueOnItsWay'
  BY <1>9 DEF FinishWrite, Complete
<1>10. ASSUME NEW r \in Records, PortTake(r) PROVE ValueOnItsWay'
  BY <1>10 DEF PortTake
<1>11. CASE PortWrite
  <2> PICK failed \in BOOLEAN, written \in BOOLEAN :
         /\ failed \/ written
         /\ plc' = IF written THEN [plc EXCEPT ![portJob] = portData] ELSE plc
         /\ portSuccess' = ~failed
         /\ unreported' = [unreported EXCEPT ![portJob] = @ \/ failed]
         /\ outcome' = [outcome EXCEPT ![portJob] = IF failed THEN "failed" ELSE "ok"]
    BY <1>11 DEF PortWrite
  <2>1. portJob \in Records /\ pact[portJob] /\ callbacks[portJob] = 0
    BY <1>11, JobIsActive DEF PortWrite
  <2> SUFFICES ASSUME NEW q \in Records
               PROVE  /\ pact'[q] /\ ~rpro'[q] =>
                           /\ procPc'[q] = "queue" \/ q \in queued' => newData'[q] = val'[q]
                           /\ portJob' = q /\ portPc' = "write" => portData' = val'[q]
                           /\ (portJob' = q /\ portPc' # "write") \/ callbacks'[q] > 0 =>
                                (outcome'[q] = "ok" => plc'[q] = val'[q])
                      /\ procPc'[q] = "idle" /\ ~pact'[q] /\ once'[q] = 0 /\ outcome'[q] = "ok"
                           => plc'[q] = val'[q]
    BY DEF ValueOnItsWay, QuietRecordIsWritten
  <2>2. CASE q = portJob
    <3>1. portPc = "write" /\ portPc' = "report" /\ val' = val /\ pact' = pact /\ rpro' = rpro
          /\ queued' = queued /\ newData' = newData /\ procPc' = procPc /\ portJob' = portJob
          /\ callbacks' = callbacks
      BY <1>11 DEF PortWrite
    <3>2. pact'[q] /\ (~rpro'[q] => portData = val'[q])
      BY <2>1, <2>2, <3>1
    <3>3. outcome'[q] = "ok" => plc'[q] = portData
      BY <2>1, <2>2
    <3>4. QED BY <2>1, <2>2, <3>1, <3>2, <3>3
  <2>3. CASE q # portJob
    BY <1>11, <2>1, <2>3 DEF PortWrite
  <2>4. QED BY <2>2, <2>3
<1>12. CASE PortReport
  BY <1>12 DEF PortReport, RaiseAlarm, WriteError
<1>13. CASE PortNotify
  BY <1>13 DEF PortNotify
<1>14. CASE UNCHANGED vars
  BY <1>14 DEF vars
<1>15. QED
  BY <1>1, <1>2, <1>3, <1>4, <1>5, <1>6, <1>7, <1>8, <1>9, <1>10, <1>11, <1>12, <1>13,
       <1>14 DEF Next, Client, Processing

------------------------------------------------------------------------------
\* The invariant holds initially.
LEMMA InitInv == Init => IInv
<1> SUFFICES ASSUME Init PROVE IInv
  OBVIOUS
<1>1. Typed
  BY RecordAssumption DEF Init, Typed, Values, Severities
<1>2. Threads /\ DataInPlace
  BY RecordAssumption DEF Init, Threads, DataInPlace, WriterHasData
<1>3. OneContinuation
  BY RecordAssumption DEF Init, OneContinuation, Continuations, Count
<1>4. BuffersBalanced
  BY RecordAssumption DEF Init, BuffersBalanced, Count
<1>5. AlarmOnItsWay /\ AlarmIsFresh
  BY DEF Init, AlarmOnItsWay, AlarmIsFresh, SuccessClearsAlarm
<1>6. ValueOnItsWay
  BY DEF Init, ValueOnItsWay, QuietRecordIsWritten
<1>7. QED BY <1>1, <1>2, <1>3, <1>4, <1>5, <1>6 DEF IInv

\* No step of any thread breaks the invariant.
LEMMA StepInv == IInv /\ [Next]_vars => IInv'
BY TypedStep, ThreadsStep, OneContinuationStep, DataStep, BuffersStep, AlarmStep,
   FreshStep, ValueStep DEF IInv

\* The number of buffers is a sum of counts, so it is never negative.
LEMMA LiveNotNegative ==
  ASSUME BuffersBalanced
  PROVE  \A r \in Records : live[r] >= 0
BY DEF BuffersBalanced, Count

\* IInv is an invariant of the threads that work on output records.
THEOREM Invariance == Spec => []IInv
BY InitInv, StepInv, PTL DEF Spec

\* All variables keep their types, and no buffer is freed that was not allocated.
THEOREM TypeCorrect == Spec => []TypeOK
<1>1. IInv => TypeOK
  BY LiveNotNegative DEF IInv, TypeOK
<1>2. QED BY <1>1, Invariance, PTL

\* An active record has exactly one continuation: its asynUser is never queued twice, it
\* is never completed twice, and it is never left active for ever.
THEOREM ActiveHasOneContinuation == Spec => []OneContinuation
<1>1. IInv => OneContinuation
  BY DEF IInv
<1>2. QED BY <1>1, Invariance, PTL

\* asynProcessCallback always finds the buffer with the value to be written.
THEOREM WriterFindsData == Spec => []WriterHasData
<1>1. IInv => WriterHasData
  BY DEF IInv, DataInPlace
<1>2. QED BY <1>1, Invariance, PTL

\* The threads neither leak a buffer nor free one twice.
THEOREM BuffersNeverLeak == Spec => []BuffersBalanced
<1>1. IInv => BuffersBalanced
  BY DEF IInv
<1>2. QED BY <1>1, Invariance, PTL

\* A failed write has shown in the severity when the record is inactive again.
THEOREM FailuresShow == Spec => []FailuresReported
<1>1. IInv => FailuresReported
  BY DEF IInv, AlarmOnItsWay, FailuresReported
<1>2. QED BY <1>1, Invariance, PTL

\* A write that succeeds clears the alarm.
THEOREM SuccessShows == Spec => []SuccessClearsAlarm
<1>1. IInv => SuccessClearsAlarm
  BY DEF IInv, AlarmIsFresh
<1>2. QED BY <1>1, Invariance, PTL

\* A quiet record whose last write succeeded agrees with the PLC.
THEOREM QuietRecordsAgree == Spec => []QuietRecordIsWritten
<1>1. IInv => QuietRecordIsWritten
  BY DEF IInv, ValueOnItsWay
<1>2. QED BY <1>1, Invariance, PTL

------------------------------------------------------------------------------
(***************************************************************************)
(* An output record implements the abstract asynchronous write.            *)
(***************************************************************************)
\* Values are put in order, and nobody has a value that has not been put.
PastValues ==
  /\ \A r \in Records : val[r] <= puts /\ plc[r] <= puts
  /\ \A r \in Records : newData[r] # NoData => newData[r] <= puts
  /\ portData # NoData => portData <= puts

LEMMA PastStep ==
  ASSUME IInv, PastValues, [Next]_vars
  PROVE  PastValues'
<1>. USE RecordAssumption DEF IInv, PastValues, Typed, Values, Threads
<1>1. ASSUME NEW r \in Records, InitRecord(r) PROVE PastValues'
  BY <1>1 DEF InitRecord, MayFail
<1>2. ASSUME NEW r \in Records, Put(r) PROVE PastValues'
  BY <1>2 DEF Put
<1>3. ASSUME NEW r \in Records, StartWrite(r) PROVE PastValues'
  BY <1>3 DEF StartWrite, Submit
<1>4. ASSUME NEW r \in Records, PortTake(r) PROVE PastValues'
  BY <1>4 DEF PortTake
<1>5. CASE PortWrite
  BY <1>5 DEF PortWrite
<1>6. CASE UNCHANGED <<puts, val, plc, newData, portData>>
  BY <1>6
<1>. QED
  BY <1>1, <1>2, <1>3, <1>4, <1>5, <1>6 DEF Next, Client, Process, ProcessActive, ProcessOnce,
     Processing, QueueWrite, QueueWriteFails, FinishWrite, PortReport, PortNotify, vars

\* The abstract state as functions of the records.
AbstractStates == [r \in Records |-> AbstractState(r)]
Writings == [r \in Records |-> Writing(r)]
Alarms == [r \in Records |-> sevr[r] # "NO_ALARM"]

\* What a step on one record leaves alone of the others.
Untouched(s) ==
  /\ procPc'[s] = procPc[s] /\ pact'[s] = pact[s] /\ outcome'[s] = outcome[s]
  /\ unreported'[s] = unreported[s] /\ newData'[s] = newData[s] /\ sevr'[s] = sevr[s]
  /\ s \in queued' <=> s \in queued
  /\ portJob' = s <=> portJob = s
  /\ portJob = s => portPc' = portPc /\ portData' = portData

LEMMA UntouchedState ==
  ASSUME NEW s \in Records, Untouched(s)
  PROVE  AbstractState(s)' = AbstractState(s) /\ Writing(s)' = Writing(s)
<1>1. UnderWay(s)' = UnderWay(s)
  BY DEF Untouched, UnderWay
<1>. QED
  BY <1>1 DEF Untouched, AbstractState, Writing

LEMMA OneRecordChanges ==
  ASSUME NEW r \in Records, \A s \in Records \ {r} : Untouched(s)
  PROVE  /\ AbstractStates' = [AbstractStates EXCEPT ![r] = AbstractState(r)']
         /\ Writings' = [Writings EXCEPT ![r] = Writing(r)']
         /\ Alarms' = [Alarms EXCEPT ![r] = sevr'[r] # "NO_ALARM"]
<1>1. \A s \in Records \ {r} :
        /\ AbstractState(s)' = AbstractState(s) /\ Writing(s)' = Writing(s)
        /\ sevr'[s] = sevr[s]
  BY UntouchedState DEF Untouched
<1>. QED
  BY <1>1 DEF AbstractStates, Writings, Alarms

LEMMA NoRecordChanges ==
  ASSUME \A s \in Records : /\ AbstractState(s)' = AbstractState(s) /\ Writing(s)' = Writing(s)
                            /\ sevr'[s] = sevr[s]
  PROVE  UNCHANGED <<AbstractStates, Writings, Alarms>>
BY DEF AbstractStates, Writings, Alarms

\* The steps of EPICS Base.
LEMMA ClientSteps ==
  ASSUME IInv, PastValues, NEW r \in Records
  PROVE  /\ InitRecord(r) => AbstractWrite!Load(r)
         /\ Put(r) => AbstractWrite!Change(r)
         /\ Process(r) => UNCHANGED AbstractWrite!writeVars
         /\ ProcessActive(r) =>
              AbstractWrite!RaiseAlarm(r) \/ UNCHANGED AbstractWrite!writeVars
<1>. USE DEF AbstractStates, Writings, Alarms
<1>1. ASSUME InitRecord(r) PROVE AbstractWrite!Load(r)
  <2>1. \A s \in Records \ {r} : Untouched(s)
    BY <1>1 DEF InitRecord, Untouched, IInv, Typed
  <2>2. AbstractState(r) = "new" /\ AbstractState(r)' = "idle" /\ Writing(r)' = Writing(r)
    BY <1>1 DEF InitRecord, AbstractState, Writing, UnderWay, IInv, Typed, Threads
  <2>3. /\ plc' = plc
        /\ \/ val' = [val EXCEPT ![r] = plc[r]] /\ sevr'[r] = "NO_ALARM"
           \/ val' = val /\ sevr' = sevr
    <3>1. nsev[r] = "NO_ALARM"
      BY <1>1 DEF InitRecord, IInv, Threads, AlarmIsFresh, Typed, Severities
    <3>. QED
      BY <1>1, <3>1 DEF InitRecord, IInv, Typed
  <2>. QED
    BY <2>1, <2>2, <2>3, OneRecordChanges DEF AbstractWrite!Load
<1>2. ASSUME Put(r) PROVE AbstractWrite!Change(r)
  <2>1. \A s \in Records : /\ AbstractState(s)' = AbstractState(s) /\ Writing(s)' = Writing(s)
                           /\ sevr'[s] = sevr[s]
    BY <1>2 DEF Put, AbstractState, Writing, UnderWay, IInv, Typed
  <2>2. AbstractState(r) # "new"
    BY <1>2 DEF Put, AbstractState
  <2>3. /\ plc' = plc /\ val' = [val EXCEPT ![r] = val'[r]]
        /\ val'[r] \in Nat /\ val'[r] > val[r]
    BY <1>2, RecordAssumption DEF Put, IInv, Typed, Values, PastValues
  <2>. QED
    BY <2>1, <2>2, <2>3, NoRecordChanges DEF AbstractWrite!Change
<1>3. ASSUME Process(r) PROVE UNCHANGED AbstractWrite!writeVars
  <2>1. \A s \in Records : /\ AbstractState(s)' = AbstractState(s) /\ Writing(s)' = Writing(s)
                           /\ sevr'[s] = sevr[s]
    BY <1>3 DEF Process, AbstractState, Writing, UnderWay, IInv, Typed
  <2>. QED
    BY <1>3, <2>1, NoRecordChanges DEF Process, AbstractWrite!writeVars
<1>4. ASSUME ProcessActive(r)
      PROVE  AbstractWrite!RaiseAlarm(r) \/ UNCHANGED AbstractWrite!writeVars
  <2>1. CASE lcnt[r] < MaxLock
    <3>1. \A s \in Records : /\ AbstractState(s)' = AbstractState(s) /\ Writing(s)' = Writing(s)
                             /\ sevr'[s] = sevr[s]
      BY <1>4, <2>1 DEF ProcessActive, AbstractState, Writing, UnderWay
    <3>. QED
      BY <1>4, <3>1, NoRecordChanges DEF ProcessActive, AbstractWrite!writeVars
  <2>2. CASE ~(lcnt[r] < MaxLock)
    <3>1. \A s \in Records \ {r} : Untouched(s)
      BY <1>4, <2>2 DEF ProcessActive, Untouched, IInv, Typed
    <3>2. sevr'[r] = "INVALID_ALARM" /\ ~unreported'[r] /\ UNCHANGED <<val, plc>>
      BY <1>4, <2>2 DEF ProcessActive, IInv, Typed
    <3>3. /\ AbstractState(r) \in {"requested", "written", "failed", "shown"}
          /\ AbstractState(r)' = IF AbstractState(r) = "failed" THEN "shown" ELSE AbstractState(r)
          /\ Writing(r)' = Writing(r)
      BY <1>4, <2>2, <3>2 DEF ProcessActive, AbstractState, Writing, UnderWay
    <3>. QED
      BY <3>1, <3>2, <3>3, OneRecordChanges
         DEF AbstractWrite!RaiseAlarm, AbstractWrite!States
  <2>. QED
    BY <2>1, <2>2
<1>. QED
  BY <1>1, <1>2, <1>3, <1>4

\* The steps of processRecord.
LEMMA ProcessingSteps ==
  ASSUME IInv, NEW r \in Records
  PROVE  /\ StartWrite(r) => AbstractWrite!Request(r)
         /\ QueueWrite(r) => UNCHANGED AbstractWrite!writeVars
         /\ QueueWriteFails(r) => AbstractWrite!Refuse(r)
         /\ FinishWrite(r) => AbstractWrite!Done(r)
<1>. USE DEF AbstractStates, Writings, Alarms
<1>1. ASSUME StartWrite(r) PROVE AbstractWrite!Request(r)
  <2>1. \A s \in Records \ {r} : Untouched(s)
    BY <1>1 DEF StartWrite, Submit, Untouched, IInv, Typed
  <2>2. ~pact[r] /\ portJob # r
    BY <1>1, InactiveIsNowhere DEF StartWrite, IInv, Threads
  <2>3. AbstractState(r) = "idle" /\ AbstractState(r)' = "requested" /\ Writing(r)' = val[r]
    BY <1>1, <2>2 DEF StartWrite, Submit, AbstractState, Writing, UnderWay, IInv, Typed
  <2>. QED
    BY <1>1, <2>1, <2>3, OneRecordChanges DEF StartWrite, AbstractWrite!Request
<1>2. ASSUME QueueWrite(r) PROVE UNCHANGED AbstractWrite!writeVars
  <2>1. \A s \in Records : /\ AbstractState(s)' = AbstractState(s) /\ Writing(s)' = Writing(s)
                           /\ sevr'[s] = sevr[s]
    BY <1>2 DEF QueueWrite, AbstractState, Writing, UnderWay, IInv, Typed
  <2>. QED
    BY <1>2, <2>1, NoRecordChanges DEF QueueWrite, AbstractWrite!writeVars
<1>3. ASSUME QueueWriteFails(r) PROVE AbstractWrite!Refuse(r)
  <2>1. \A s \in Records \ {r} : Untouched(s)
    BY <1>3 DEF QueueWriteFails, Complete, Untouched, IInv, Typed
  <2>2. pact[r] /\ r \notin queued /\ portJob # r
    <3>1. pact[r]
      BY <1>3, InactiveIsNowhere DEF QueueWriteFails, IInv
    <3>2. Continuations(r) = 1 /\ callbacks[r] \in Nat
      BY <3>1 DEF IInv, OneContinuation, Typed, Count
    <3>. QED
      BY <1>3, <3>1, <3>2 DEF QueueWriteFails, Continuations, Count
  <2>3. /\ AbstractState(r) = "requested" /\ AbstractState(r)' = "idle"
        /\ Writing(r)' = NoData /\ sevr'[r] = "INVALID_ALARM"
    BY <1>3, <2>2 DEF QueueWriteFails, Complete, AbstractState, Writing, UnderWay, IInv, Typed
  <2>. QED
    BY <1>3, <2>1, <2>3, OneRecordChanges DEF QueueWriteFails, AbstractWrite!Refuse
<1>4. ASSUME FinishWrite(r) PROVE AbstractWrite!Done(r)
  <2>1. \A s \in Records \ {r} : Untouched(s)
    BY <1>4 DEF FinishWrite, Complete, Untouched, IInv, Typed
  <2>2. ~UnderWay(r) /\ pact[r] /\ portJob # r
    BY <1>4, CallbackIsActive DEF FinishWrite, UnderWay, IInv
  <2>3. AbstractState(r)' = "idle" /\ Writing(r)' = Writing(r) /\ sevr'[r] = nsev[r]
    BY <1>4, <2>2 DEF FinishWrite, Complete, AbstractState, Writing, UnderWay, IInv, Typed
  <2>4. \/ AbstractState(r) = "written" /\ nsev[r] = "NO_ALARM"
        \/ AbstractState(r) = "failed" /\ nsev[r] = "INVALID_ALARM"
        \/ AbstractState(r) = "shown"
    BY <1>4, <2>2 DEF FinishWrite, AbstractState, IInv, AlarmOnItsWay, AlarmIsFresh, Typed,
       Severities
  <2>5. UNCHANGED <<val, plc>> /\ nsev[r] \in Severities
    BY <1>4 DEF FinishWrite, IInv, Typed
  <2>. QED
    BY <2>1, <2>3, <2>4, <2>5, OneRecordChanges DEF AbstractWrite!Done, Severities
<1>. QED
  BY <1>1, <1>2, <1>3, <1>4

\* The steps of asynProcessCallback.
LEMMA PortSteps ==
  ASSUME IInv
  PROVE  /\ \A r \in Records : PortTake(r) => UNCHANGED AbstractWrite!writeVars
         /\ PortWrite => AbstractWrite!Write(portJob) \/ AbstractWrite!WriteFails(portJob)
         /\ PortReport => UNCHANGED AbstractWrite!writeVars
         /\ PortNotify => UNCHANGED AbstractWrite!writeVars
<1>. USE DEF AbstractStates, Writings, Alarms
<1>1. ASSUME NEW r \in Records, PortTake(r) PROVE UNCHANGED AbstractWrite!writeVars
  <2>1. newData[r] # NoData /\ portJob = NoRecord
    BY <1>1 DEF PortTake, IInv, DataInPlace, WriterHasData, Threads
  <2>2. /\ queued' = queued \ {r} /\ portJob' = r /\ portData' = newData[r] /\ portPc' = "write"
        /\ newData' = [newData EXCEPT ![r] = NoData]
        /\ UNCHANGED <<val, plc, sevr, procPc, pact, outcome, unreported>>
        /\ r \in queued /\ DOMAIN newData = Records
    BY <1>1, <2>1 DEF PortTake, IInv, Typed
  <2>3. \A s \in Records : AbstractState(s)' = AbstractState(s) /\ Writing(s)' = Writing(s)
    BY <2>1, <2>2, RecordAssumption DEF AbstractState, Writing, UnderWay
  <2>. QED
    BY <2>2, <2>3, NoRecordChanges DEF AbstractWrite!writeVars
<1>2. ASSUME PortWrite
      PROVE  AbstractWrite!Write(portJob) \/ AbstractWrite!WriteFails(portJob)
  <2>1. /\ portJob \in Records /\ pact[portJob] /\ portJob \notin queued
        /\ procPc[portJob] # "queue"
    BY <1>2, JobIsActive DEF PortWrite, IInv
  <2>. DEFINE r == portJob
  <2>2. PICK failed \in BOOLEAN, written \in BOOLEAN :
          /\ failed \/ written
          /\ plc' = IF written THEN [plc EXCEPT ![r] = portData] ELSE plc
          /\ unreported' = [unreported EXCEPT ![r] = @ \/ failed]
          /\ outcome' = [outcome EXCEPT ![r] = IF failed THEN "failed" ELSE "ok"]
    BY <1>2 DEF PortWrite
  <2>3. /\ portPc = "write" /\ portPc' = "report" /\ portJob' = r
        /\ UNCHANGED <<val, sevr, procPc, pact, queued, newData>>
        /\ DOMAIN outcome = Records /\ DOMAIN unreported = Records
    BY <1>2 DEF PortWrite, IInv, Typed
  <2>4. \A s \in Records \ {r} : Untouched(s)
    BY <2>1, <2>2, <2>3 DEF Untouched
  <2>5. procPc[r] # "init"
    BY <2>1 DEF IInv, Threads
  <2>6. /\ AbstractState(r) = "requested" /\ Writing(r) = portData /\ Writing(r)' = NoData
        /\ AbstractState(r)' = IF failed THEN "failed" ELSE "written"
    BY <2>1, <2>2, <2>3, <2>5 DEF AbstractState, Writing, UnderWay
  <2>7. Alarms' = Alarms
    BY <2>3
  <2>8. CASE failed
    BY <2>1, <2>2, <2>3, <2>4, <2>6, <2>7, <2>8, OneRecordChanges DEF AbstractWrite!WriteFails
  <2>9. CASE ~failed
    BY <2>1, <2>2, <2>3, <2>4, <2>6, <2>7, <2>9, OneRecordChanges DEF AbstractWrite!Write
  <2>. QED
    BY <2>8, <2>9
<1>3. ASSUME PortReport PROVE UNCHANGED AbstractWrite!writeVars
  <2>1. \A s \in Records : /\ AbstractState(s)' = AbstractState(s) /\ Writing(s)' = Writing(s)
                           /\ sevr'[s] = sevr[s]
    BY <1>3 DEF PortReport, AbstractState, Writing, UnderWay
  <2>. QED
    BY <1>3, <2>1, NoRecordChanges DEF PortReport, AbstractWrite!writeVars
<1>4. ASSUME PortNotify PROVE UNCHANGED AbstractWrite!writeVars
  <2>1. /\ portPc = "notify" /\ portPc' = "idle" /\ portJob' = NoRecord /\ portJob \notin queued
        /\ procPc[portJob] # "queue"
        /\ UNCHANGED <<val, plc, sevr, procPc, pact, queued, newData, outcome, unreported>>
    BY <1>4, JobIsActive DEF PortNotify, IInv
  <2>2. \A s \in Records : AbstractState(s)' = AbstractState(s) /\ Writing(s)' = Writing(s)
    BY <2>1, RecordAssumption DEF AbstractState, Writing, UnderWay
  <2>. QED
    BY <2>1, <2>2, NoRecordChanges DEF AbstractWrite!writeVars
<1>. QED
  BY <1>1, <1>2, <1>3, <1>4

LEMMA AbstractStep ==
  IInv /\ PastValues /\ [Next]_vars => [AbstractWrite!WriteNext]_(AbstractWrite!writeVars)
<1>. SUFFICES ASSUME IInv, PastValues, [Next]_vars
              PROVE  AbstractWrite!WriteNext \/ UNCHANGED AbstractWrite!writeVars
  OBVIOUS
<1>. USE DEF AbstractWrite!WriteNext
<1>1. ASSUME NEW r \in Records, InitRecord(r) \/ Client(r)
      PROVE  AbstractWrite!WriteNext \/ UNCHANGED AbstractWrite!writeVars
  BY <1>1, ClientSteps DEF Client
<1>2. ASSUME NEW r \in Records, ProcessOnce(r)
      PROVE  AbstractWrite!WriteNext \/ UNCHANGED AbstractWrite!writeVars
  <2>1. CASE Process(r) \/ ProcessActive(r)
    BY <2>1, ClientSteps
  <2>2. CASE ~(Process(r) \/ ProcessActive(r))
    <3>1. UNCHANGED <<val, plc, sevr, procPc, pact, outcome, unreported, queued, portJob, portPc,
                      portData, newData>>
      BY <1>2, <2>2 DEF ProcessOnce
    <3>. QED
      BY <3>1 DEF AbstractWrite!writeVars, AbstractState, Writing, UnderWay
  <2>. QED
    BY <2>1, <2>2
<1>3. ASSUME NEW r \in Records, Processing(r) \/ FinishWrite(r)
      PROVE  AbstractWrite!WriteNext \/ UNCHANGED AbstractWrite!writeVars
  BY <1>3, ProcessingSteps DEF Processing
<1>4. ASSUME (\E r \in Records : PortTake(r)) \/ PortWrite \/ PortReport \/ PortNotify
      PROVE  AbstractWrite!WriteNext \/ UNCHANGED AbstractWrite!writeVars
  <2>1. PortWrite => portJob \in Records
    BY JobIsActive DEF PortWrite, IInv
  <2>. QED
    BY <1>4, <2>1, PortSteps
<1>5. CASE UNCHANGED vars
  BY <1>5 DEF vars, AbstractWrite!writeVars, AbstractState, Writing, UnderWay
<1>. QED
  BY <1>1, <1>2, <1>3, <1>4, <1>5 DEF Next

\* Clients may think of an output record as of an asynchronous write: initRecord,
\* processRecord, asynProcessCallback and dbProcess of EPICS Base only take its steps.
THEOREM Refinement == Spec => ImplementsAsyncWrite
<1>1. Init => AbstractWrite!WriteInit /\ PastValues
  <2>. SUFFICES ASSUME Init PROVE AbstractWrite!WriteInit /\ PastValues
    OBVIOUS
  <2>1. PastValues /\ val \in [Records -> Nat] /\ plc \in [Records -> Nat]
    BY DEF Init, PastValues
  <2>2. \A r \in Records : AbstractState(r) = "new" /\ Writing(r) = NoData
    BY RecordAssumption DEF Init, AbstractState, Writing, UnderWay
  <2>3. \A r \in Records : (sevr[r] # "NO_ALARM") = TRUE
    BY DEF Init
  <2>. QED
    BY <2>1, <2>2, <2>3 DEF AbstractWrite!WriteInit
<1>2. IInv /\ PastValues /\ [Next]_vars => PastValues'
  BY PastStep
<1>. QED
  BY <1>1, <1>2, Invariance, AbstractStep, PTL
     DEF Spec, AbstractWrite!WriteSpec, ImplementsAsyncWrite
==============================================================================
