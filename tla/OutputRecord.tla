---------------------------- MODULE OutputRecord -----------------------------
(***************************************************************************)
(* Output records of one port: S7nodaveOutputRecord.  A client that writes *)
(* the value of a record, or any other reason to process it, starts an     *)
(* asynchronous write; the port thread writes to the PLC and asks the      *)
(* callback thread to complete the processing.  Everything but the port    *)
(* thread holds the scan lock of the record: the port thread meets the     *)
(* others in newData, under newDataMutex, and in pact, in                  *)
(* processCallbackError and in the new severity of the record (nsev).      *)
(*                                                                         *)
(* A value is the number of the put that wrote it, so that a greater value *)
(* is a younger one.  Alarms that the record support derives from limits   *)
(* or from UDF are left out.  An operator that is not used is a variant,   *)
(* with a bug, of the one that follows it.                                 *)
(***************************************************************************)
EXTENDS Integers, FiniteSets

CONSTANTS
  Records,              \* the output records of the port
  NoRecord, NoData,     \* null pointers
  MaxPuts,              \* bound: values written by clients
  MaxFailures,          \* bound: failing reads, writes and queueRequest calls
  MaxLock               \* MAX_LOCK of dbProcess

ASSUME RecordAssumption ==
  /\ NoRecord \notin Records
  /\ NoData \notin 0..MaxPuts
  /\ MaxPuts \in Nat /\ MaxFailures \in Nat /\ MaxLock \in Nat

VARIABLES
  puts, failures,       \* puts and failures so far
  plc,                  \* the memory of the PLC that belongs to each record
  val, udf, pact, rpro, \* fields of each record
  nsev, sevr, lcnt,
  newData, processCallbackError,
  queued,               \* records whose asynUser is in the queue of the port
  portPc, portJob,      \* the port thread in asynProcessCallback
  portData, portSuccess,
  callbacks,            \* process callbacks queued for each record
  once,                 \* scanOnce requests queued for each record
  procPc,               \* the thread that has the scan lock
  live,                 \* buffers allocated for each record and not freed
  unreported,           \* history: a failure that no severity has shown yet
  outcome               \* history: how the last write ended

vars == <<puts, failures, plc, val, udf, pact, rpro, nsev, sevr, lcnt, newData,
          processCallbackError, queued, portPc, portJob, portData, portSuccess, callbacks,
          once, procPc, live, unreported, outcome>>

portVars   == <<portPc, portJob, portData, portSuccess>>
valueVars  == <<puts, val, udf>>
alarmVars  == <<nsev, sevr, unreported>>

Values == 0..MaxPuts
Severities == {"NO_ALARM", "INVALID_ALARM"}

Count(b) == IF b THEN 1 ELSE 0

\* A step that may fail uses up one of the failures.
MayFail(failed) ==
  /\ failed => failures < MaxFailures
  /\ failures' = failures + Count(failed)

------------------------------------------------------------------------------
Init ==
  /\ puts = 0 /\ failures = 0
  /\ plc = [r \in Records |-> 0] /\ val = [r \in Records |-> 0]
  /\ udf = [r \in Records |-> TRUE]
  /\ pact = [r \in Records |-> FALSE] /\ rpro = [r \in Records |-> FALSE]
  /\ nsev = [r \in Records |-> "NO_ALARM"]
  /\ sevr = [r \in Records |-> "INVALID_ALARM"]
  /\ lcnt = [r \in Records |-> 0]
  /\ newData = [r \in Records |-> NoData]
  /\ processCallbackError = [r \in Records |-> FALSE]
  /\ queued = {}
  /\ portPc = "idle" /\ portJob = NoRecord /\ portData = NoData /\ portSuccess = TRUE
  /\ callbacks = [r \in Records |-> 0] /\ once = [r \in Records |-> 0]
  /\ procPc = [r \in Records |-> "init"]
  /\ live = [r \in Records |-> 0]
  /\ unreported = [r \in Records |-> FALSE]
  /\ outcome = [r \in Records |-> "none"]

\* initRecord reads the value of the PLC once.  That this fails (the port cannot be
\* locked or the read fails) does not matter: the record just stays undefined.
InitRecord(r) ==
  /\ procPc[r] = "init"
  /\ procPc' = [procPc EXCEPT ![r] = "idle"]
  /\ \E failed \in BOOLEAN :
       /\ MayFail(failed)
       /\ val' = IF failed THEN val ELSE [val EXCEPT ![r] = plc[r]]
       /\ udf' = IF failed THEN udf ELSE [udf EXCEPT ![r] = FALSE]
       /\ sevr' = IF failed THEN sevr ELSE [sevr EXCEPT ![r] = nsev[r]]
  /\ UNCHANGED <<puts, plc, pact, rpro, nsev, lcnt, newData, processCallbackError, queued,
                 portVars, callbacks, once, live, unreported, outcome>>

------------------------------------------------------------------------------
(***************************************************************************)
(* What EPICS Base does: dbPutField and dbProcess.                         *)
(***************************************************************************)
\* A client writes the value and has the record processed, now or when it has become
\* inactive.
Put(r) ==
  /\ procPc[r] = "idle"
  /\ puts < MaxPuts
  /\ puts' = puts + 1
  /\ val' = [val EXCEPT ![r] = puts + 1]
  /\ udf' = [udf EXCEPT ![r] = FALSE]
  /\ IF pact[r]
     THEN rpro' = [rpro EXCEPT ![r] = TRUE] /\ UNCHANGED <<procPc, lcnt>>
     ELSE /\ procPc' = [procPc EXCEPT ![r] = "write"]
          /\ lcnt' = [lcnt EXCEPT ![r] = 0]
          /\ UNCHANGED rpro
  /\ UNCHANGED <<failures, plc, pact, alarmVars, newData, processCallbackError, queued,
                 portVars, callbacks, once, live, outcome>>

\* dbProcess of an inactive record.
Process(r) ==
  /\ procPc[r] = "idle" /\ ~pact[r]
  /\ procPc' = [procPc EXCEPT ![r] = "write"]
  /\ lcnt' = [lcnt EXCEPT ![r] = 0]
  /\ UNCHANGED <<failures, plc, valueVars, pact, rpro, alarmVars, newData,
                 processCallbackError, queued, portVars, callbacks, live, outcome>>

\* dbProcess of an active record: if that happens too often, it raises an alarm of its own.
ProcessActive(r) ==
  /\ procPc[r] = "idle" /\ pact[r]
  /\ IF lcnt[r] < MaxLock
     THEN lcnt' = [lcnt EXCEPT ![r] = @ + 1] /\ UNCHANGED alarmVars
     ELSE /\ sevr[r] = "NO_ALARM"
          /\ sevr' = [sevr EXCEPT ![r] = "INVALID_ALARM"]
          /\ nsev' = [nsev EXCEPT ![r] = "NO_ALARM"]
          /\ unreported' = [unreported EXCEPT ![r] = FALSE]
          /\ UNCHANGED lcnt
  /\ UNCHANGED <<failures, plc, valueVars, pact, rpro, newData, processCallbackError, queued,
                 portVars, callbacks, procPc, live, outcome>>

\* The once-task processes a record for its scanOnce requests.
ProcessOnce(r) ==
  /\ once[r] > 0
  /\ once' = [once EXCEPT ![r] = @ - 1]
  /\ \/ Process(r)
     \/ ProcessActive(r)
     \/ /\ procPc[r] = "idle" /\ pact[r]
        /\ lcnt[r] >= MaxLock /\ sevr[r] = "INVALID_ALARM"
        /\ UNCHANGED <<failures, plc, valueVars, pact, rpro, alarmVars, lcnt, newData, procPc,
                       processCallbackError, queued, portVars, callbacks, live, outcome>>

\* The record support completes the processing: alarms are updated, pact is reset, and a
\* record that was written to in the meantime is processed again.
Complete(r, severity) ==
  /\ sevr' = [sevr EXCEPT ![r] = severity]
  /\ nsev' = [nsev EXCEPT ![r] = "NO_ALARM"]
  /\ unreported' = [unreported EXCEPT ![r] = @ /\ severity = "NO_ALARM"]
  /\ pact' = [pact EXCEPT ![r] = FALSE]
  /\ once' = [once EXCEPT ![r] = @ + Count(rpro[r])]
  /\ rpro' = [rpro EXCEPT ![r] = FALSE]

------------------------------------------------------------------------------
(***************************************************************************)
(* processRecord, called with the scan lock held.                          *)
(***************************************************************************)
\* A buffer with the value replaces what an earlier processing has left behind.
SubmitBehindLeftover(r) ==
  newData' = IF newData[r] = NoData THEN [newData EXCEPT ![r] = val[r]] ELSE newData
Submit(r) == newData' = [newData EXCEPT ![r] = val[r]]

LeftoverForgotten(r) == 0
Leftover(r) == Count(newData[r] # NoData)

StartWrite(r) ==
  /\ procPc[r] = "write"
  /\ Submit(r)
  /\ live' = [live EXCEPT ![r] = @ + 1 - Leftover(r)]
  /\ pact' = [pact EXCEPT ![r] = TRUE]
  /\ procPc' = [procPc EXCEPT ![r] = "queue"]
  /\ UNCHANGED <<failures, plc, valueVars, rpro, alarmVars, lcnt, processCallbackError,
                 queued, portVars, callbacks, once, outcome>>

QueueWrite(r) ==
  /\ procPc[r] = "queue"
  /\ queued' = queued \union {r}
  /\ procPc' = [procPc EXCEPT ![r] = "idle"]
  /\ UNCHANGED <<failures, plc, valueVars, pact, rpro, alarmVars, lcnt, newData,
                 processCallbackError, portVars, callbacks, once, live, outcome>>

\* queueRequest refuses the request.  newData keeps the buffer.
QueueWriteFailsActive(r) ==
  /\ procPc[r] = "queue"
  /\ MayFail(TRUE)
  /\ nsev' = [nsev EXCEPT ![r] = "INVALID_ALARM"]
  /\ procPc' = [procPc EXCEPT ![r] = "idle"]
  /\ outcome' = [outcome EXCEPT ![r] = "failed"]
  /\ UNCHANGED <<plc, valueVars, pact, rpro, sevr, unreported, lcnt, newData, queued,
                 processCallbackError, portVars, callbacks, once, live>>

QueueWriteFails(r) ==
  /\ procPc[r] = "queue"
  /\ MayFail(TRUE)
  /\ Complete(r, "INVALID_ALARM")
  /\ procPc' = [procPc EXCEPT ![r] = "idle"]
  /\ outcome' = [outcome EXCEPT ![r] = "failed"]
  /\ UNCHANGED <<plc, valueVars, lcnt, newData, processCallbackError, queued, portVars,
                 callbacks, live>>

\* The callback thread completes the write.  (Were the record inactive, it would start
\* another one, but OneContinuation shows that this never happens.)
FinishWrite(r) ==
  /\ procPc[r] = "idle" /\ pact[r]
  /\ callbacks[r] > 0
  /\ callbacks' = [callbacks EXCEPT ![r] = @ - 1]
  /\ udf' = [udf EXCEPT ![r] = @ /\ processCallbackError[r]]
  /\ Complete(r, nsev[r])
  /\ UNCHANGED <<puts, failures, plc, val, lcnt, newData, processCallbackError, queued,
                 portVars, procPc, live, outcome>>

------------------------------------------------------------------------------
(***************************************************************************)
(* asynProcessCallback.                                                    *)
(***************************************************************************)
PortTake(r) ==
  /\ portPc = "idle"
  /\ r \in queued
  /\ queued' = queued \ {r}
  /\ portJob' = r
  /\ portData' = newData[r]
  /\ portSuccess' = (newData[r] # NoData)
  /\ portPc' = IF newData[r] # NoData THEN "write" ELSE "report"
  /\ newData' = [newData EXCEPT ![r] = NoData]
  /\ UNCHANGED <<failures, plc, valueVars, pact, rpro, alarmVars, lcnt, processCallbackError,
                 callbacks, once, procPc, live, outcome>>

\* writeToPlc: a write that fails may have reached the PLC or not.
PortWrite ==
  /\ portPc = "write"
  /\ \E failed \in BOOLEAN, written \in BOOLEAN :
       /\ MayFail(failed)
       /\ failed \/ written
       /\ plc' = IF written THEN [plc EXCEPT ![portJob] = portData] ELSE plc
       /\ portSuccess' = ~failed
       /\ unreported' = [unreported EXCEPT ![portJob] = @ \/ failed]
       /\ outcome' = [outcome EXCEPT ![portJob] = IF failed THEN "failed" ELSE "ok"]
  /\ live' = [live EXCEPT ![portJob] = @ - 1]
  /\ portData' = NoData
  /\ portPc' = "report"
  /\ UNCHANGED <<valueVars, pact, rpro, nsev, sevr, lcnt, newData, processCallbackError,
                 queued, portJob, callbacks, once, procPc>>

\* recGblSetSevr, called without the scan lock.
NoAlarm(r, failed) == UNCHANGED nsev
RaiseAlarm(r, failed) == nsev' = IF failed THEN [nsev EXCEPT ![r] = "INVALID_ALARM"] ELSE nsev

StickyError(r) == processCallbackError[r] \/ ~portSuccess
WriteError(r) == ~portSuccess

PortReport ==
  /\ portPc = "report"
  /\ processCallbackError' = [processCallbackError EXCEPT ![portJob] = WriteError(portJob)]
  /\ RaiseAlarm(portJob, WriteError(portJob))
  /\ portPc' = "notify"
  /\ UNCHANGED <<failures, plc, valueVars, pact, rpro, sevr, unreported, lcnt, newData,
                 queued, portJob, portData, portSuccess, callbacks, once, procPc, live,
                 outcome>>

PortNotify ==
  /\ portPc = "notify"
  /\ callbacks' = [callbacks EXCEPT ![portJob] = @ + Count(pact[portJob])]
  /\ portPc' = "idle" /\ portJob' = NoRecord /\ portSuccess' = TRUE
  /\ UNCHANGED <<failures, plc, valueVars, pact, rpro, alarmVars, lcnt, newData,
                 processCallbackError, queued, portData, once, procPc, live, outcome>>

------------------------------------------------------------------------------
Client(r) ==
  \/ Put(r)
  \/ Process(r) /\ UNCHANGED once
  \/ ProcessActive(r) /\ UNCHANGED once

Processing(r) ==
  \/ StartWrite(r)
  \/ QueueWrite(r)
  \/ QueueWriteFails(r)

Next ==
  \/ \E r \in Records : InitRecord(r)
  \/ \E r \in Records : Client(r)
  \/ \E r \in Records : ProcessOnce(r)
  \/ \E r \in Records : Processing(r)
  \/ \E r \in Records : FinishWrite(r)
  \/ \E r \in Records : PortTake(r)
  \/ PortWrite
  \/ PortReport
  \/ PortNotify

Spec == Init /\ [][Next]_vars

(***************************************************************************)
(* Fairness.  The port serves its queue in FIFO order, and the callback    *)
(* thread and the once-task get the scan lock that others take in between. *)
(* Nothing makes a client process a record.                                *)
(***************************************************************************)
Fairness ==
  /\ WF_vars(PortWrite) /\ WF_vars(PortReport) /\ WF_vars(PortNotify)
  /\ \A r \in Records : /\ WF_vars(InitRecord(r))
                        /\ SF_vars(PortTake(r))
                        /\ WF_vars(Processing(r))
                        /\ SF_vars(FinishWrite(r))
                        /\ SF_vars(ProcessOnce(r))

FairSpec == Spec /\ Fairness

------------------------------------------------------------------------------
(***************************************************************************)
(* Properties                                                              *)
(***************************************************************************)
Typed ==
  /\ puts \in Values /\ failures \in 0..MaxFailures
  /\ plc \in [Records -> Values] /\ val \in [Records -> Values]
  /\ udf \in [Records -> BOOLEAN]
  /\ pact \in [Records -> BOOLEAN] /\ rpro \in [Records -> BOOLEAN]
  /\ nsev \in [Records -> Severities] /\ sevr \in [Records -> Severities]
  /\ lcnt \in [Records -> 0..MaxLock]
  /\ newData \in [Records -> Values \union {NoData}]
  /\ processCallbackError \in [Records -> BOOLEAN]
  /\ queued \subseteq Records
  /\ portPc \in {"idle", "write", "report", "notify"}
  /\ portJob \in Records \union {NoRecord}
  /\ portData \in Values \union {NoData}
  /\ portSuccess \in BOOLEAN
  /\ callbacks \in [Records -> Nat] /\ once \in [Records -> Nat]
  /\ procPc \in [Records -> {"init", "idle", "write", "queue"}]
  /\ live \in [Records -> Int]
  /\ unreported \in [Records -> BOOLEAN]
  /\ outcome \in [Records -> {"none", "ok", "failed"}]

\* Every variable has its type; no more buffers are freed than were allocated.
TypeOK == Typed /\ \A r \in Records : live[r] >= 0

\* What is on its way to complete the processing of an active record.
Continuations(r) ==
  Count(r \in queued) + Count(portJob = r) + callbacks[r] + Count(procPc[r] = "queue")

\* A record is active exactly while one, and only one, thing is on its way that will
\* complete it, although pact is read by the port thread without the scan lock (the
\* argument of the comment at S7nodaveOutputRecord.cc:97-100).
OneContinuation == \A r \in Records : Continuations(r) = Count(pact[r])

\* The port thread always finds a buffer: the branch for a null pointer is not reached,
\* although a refused request leaves a buffer in newData that no request belongs to.
WriterHasData == \A r \in Records : r \in queued => newData[r] # NoData

\* Every buffer has exactly one owner and is freed exactly once.
BuffersBalanced ==
  \A r \in Records :
    live[r] = Count(newData[r] # NoData) + Count(portJob = r /\ portData # NoData)

\* When nothing is under way for a record and its last write succeeded, the PLC has the
\* value of the record: neither a value left behind by a refused request nor a put that
\* was made during a write makes the two differ.
QuietRecordIsWritten ==
  \A r \in Records :
    procPc[r] = "idle" /\ ~pact[r] /\ once[r] = 0 /\ outcome[r] = "ok" => plc[r] = val[r]

\* A write that failed has shown in the severity of the record by the time the record
\* is inactive again, although the port thread sets the new severity without the scan
\* lock and dbProcess may reset it before the write is completed.
FailuresReported == \A r \in Records : ~pact[r] => ~unreported[r]

\* A successful write clears the alarm, whatever happened in the meantime.
SuccessClearsAlarm ==
  \A r \in Records : ~pact[r] /\ outcome[r] = "ok" => sevr[r] = "NO_ALARM"

\* What is to be written, on its way from the record to the PLC.
UnderWay(r) == procPc[r] = "queue" \/ r \in queued \/ (portJob = r /\ portPc = "write")

Writing(r) == IF ~UnderWay(r) THEN NoData ELSE IF portJob = r THEN portData ELSE newData[r]

AbstractState(r) ==
  IF procPc[r] = "init" THEN "new"
  ELSE IF ~pact[r] THEN "idle"
  ELSE IF UnderWay(r) THEN "requested"
  ELSE IF outcome[r] = "ok" THEN "written"
  ELSE IF unreported[r] THEN "failed" ELSE "shown"

AbstractWrite == INSTANCE AsyncWrite WITH
  value <- val,
  memory <- plc,
  state <- [r \in Records |-> AbstractState(r)],
  writing <- [r \in Records |-> Writing(r)],
  alarm <- [r \in Records |-> sevr[r] # "NO_ALARM"]

\* An output record is an asynchronous write as its clients understand it: in spite of the
\* three threads and the two ways to process it there is one write at a time, of the value
\* that the record had when it began, and the outcome has shown by the time it is done:
\* a failure raises the alarm, and a success clears it.
ImplementsAsyncWrite == AbstractWrite!WriteSpec

\* Every put reaches the PLC in the end, also one made while a write was under way,
\* unless a later one replaces it or the last write failed.
LastPutReachesPlc == \A r \in Records : <>[](plc[r] = val[r] \/ outcome[r] = "failed")
==============================================================================
