----------------------------- MODULE InputRecord -----------------------------
(***************************************************************************)
(* Input records of one port that share a poll group.  Four kinds of       *)
(* threads work on a record:                                               *)
(*   - the timer thread of the poll group (PollGroup::process), which      *)
(*     reads all registered records at once and hands each its data in     *)
(*     processPollResponse,                                                *)
(*   - the port thread, which runs asynProcessCallback for a record that   *)
(*     has queued an asynchronous read,                                    *)
(*   - the callback thread, which completes such an asynchronous read,     *)
(*   - scan threads and clients that process the record.                   *)
(* The last two hold the record's scan lock, the first two do not: they    *)
(* meet the others in newData, under newDataMutex, and in record->pact.    *)
(*                                                                         *)
(* A value is the number of changes the PLC memory had seen when it was    *)
(* read, so that a greater value is a younger one.                         *)
(***************************************************************************)
EXTENDS Integers, FiniteSets

CONSTANTS
  Records,              \* the input records of the poll group
  NoRecord, NoData,     \* null pointers
  MaxChanges,           \* bound: changes of the PLC memory
  MaxFailures,          \* bound: failing reads and failing queueRequest calls
  MaxScanChanges,       \* bound: changes of SCAN
  MaxScans              \* bound: I/O Intr events queued for a record

ASSUME RecordAssumption ==
  /\ NoRecord \notin Records
  /\ NoData \notin 0..MaxChanges
  /\ MaxChanges \in Nat /\ MaxFailures \in Nat /\ MaxScanChanges \in Nat
  /\ MaxScans \in Nat \ {0}

VARIABLES
  plc,                  \* changes of the PLC memory so far
  failures,             \* failures so far
  scanChanges,          \* changes of SCAN so far
  requesters,           \* PollGroup::requesters: the records with SCAN = I/O Intr
  pollRequests,         \* requests of the poll cycle without a response yet
  pollPc, pollData,     \* where the timer thread is, what it has read
  pollRecord,           \* the record whose processPollResponse is running
  queued,               \* records whose asynUser is in the queue of the port
  portJob, portPc,      \* the record and the position of asynProcessCallback
  portData,             \* its buffer
  newData,              \* newData of each record
  processCallbackError,
  pact, udf, sevr, val, \* fields of each record
  callbacks,            \* process callbacks queued for each record
  scans,                \* I/O Intr events queued for each record
  procPc, procData,     \* the thread inside processRecord (it has the scan lock)
  procError,
  live,                 \* buffers allocated for each record and not freed
  polled,               \* history: last value the poll group put into newData
  stale                 \* history: times a record that has left the poll group was
                        \* processed with what the poll group had put into newData

vars == <<plc, failures, scanChanges, requesters, pollRequests, pollPc, pollData, pollRecord,
          queued, portJob, portPc, portData, newData, processCallbackError, pact, udf, sevr,
          val, callbacks, scans, procPc, procData, procError, live, polled, stale>>

envVars    == <<plc, scanChanges, requesters>>
pollVars   == <<pollRequests, pollPc, pollData, pollRecord>>
portVars   == <<portJob, portPc, portData>>
dataVars   == <<newData, processCallbackError>>
recordVars == <<udf, sevr, val>>
procVars   == <<procPc, procData, procError>>
history    == <<polled, stale>>

Data == 0..MaxChanges

Count(b) == IF b THEN 1 ELSE 0

\* A step that may fail uses up one of the failures.
MayFail(failed) ==
  /\ failed => failures < MaxFailures
  /\ failures' = failures + Count(failed)

------------------------------------------------------------------------------
Init ==
  /\ plc = 0 /\ failures = 0 /\ scanChanges = 0
  /\ requesters \in SUBSET Records
  /\ pollRequests = {} /\ pollPc = "idle" /\ pollRecord = NoRecord
  /\ pollData = [r \in Records |-> NoData]
  /\ queued = {} /\ portJob = NoRecord /\ portPc = "idle" /\ portData = NoData
  /\ newData = [r \in Records |-> NoData]
  /\ processCallbackError = [r \in Records |-> FALSE]
  /\ pact = [r \in Records |-> FALSE]
  /\ udf = [r \in Records |-> TRUE]
  /\ sevr = [r \in Records |-> "NO_ALARM"]
  /\ val = [r \in Records |-> NoData]
  /\ callbacks = [r \in Records |-> 0]
  /\ scans = [r \in Records |-> 0]
  /\ procPc = [r \in Records |-> "idle"]
  /\ procData = [r \in Records |-> NoData]
  /\ procError = [r \in Records |-> FALSE]
  /\ live = [r \in Records |-> 0]
  /\ polled = [r \in Records |-> 0]
  /\ stale = [r \in Records |-> 0]

------------------------------------------------------------------------------
(***************************************************************************)
(* The environment: the PLC program, and a client that changes SCAN.  EPICS*)
(* Base calls get_ioint_info (getIoIntInfoRecord) when a record enters or  *)
(* leaves I/O Intr, under the scan lock of the record.                     *)
(***************************************************************************)
PlcChanges ==
  /\ plc < MaxChanges
  /\ plc' = plc + 1
  /\ UNCHANGED <<failures, scanChanges, requesters, pollVars, queued, portVars, dataVars,
                 pact, recordVars, callbacks, scans, procVars, live, history>>

ChangeScan(r) ==
  /\ procPc[r] = "idle"
  /\ scanChanges < MaxScanChanges
  /\ scanChanges' = scanChanges + 1
  /\ requesters' = IF r \in requesters THEN requesters \ {r} ELSE requesters \union {r}
  /\ stale' = [stale EXCEPT ![r] = 0]
  /\ UNCHANGED <<plc, failures, pollVars, queued, portVars, dataVars, pact, recordVars,
                 callbacks, scans, procVars, live, polled>>

------------------------------------------------------------------------------
(***************************************************************************)
(* The poll group.  Here and below, an operator that is not used is a      *)
(* variant, with a bug, of the one that follows it: the properties are     *)
(* checked to notice it.                                                   *)
(***************************************************************************)
\* Both the poll group and the port thread put a result (NoData after a failure) into
\* newData, together with an error flag, and free the buffer that was waiting there.
Store(r, result) ==
  /\ newData' = [newData EXCEPT ![r] = result]
  /\ processCallbackError' = [processCallbackError EXCEPT ![r] = result = NoData]

ReplacedForgotten(r) == 0
Replaced(r) == Count(newData[r] # NoData)

\* The requesters are copied, and each of them prepares a request with a buffer.
PollStart ==
  /\ pollPc = "idle"
  /\ requesters # {}
  /\ pollRequests' = requesters
  /\ live' = [r \in Records |-> live[r] + Count(r \in requesters)]
  /\ pollPc' = "read"
  /\ UNCHANGED <<envVars, failures, pollData, pollRecord, queued, portVars, dataVars, pact,
                 recordVars, callbacks, scans, procVars, history>>

\* lockPort: the read waits while asynProcessCallback has the port.
PortLockMissing == TRUE
PortLock == portPc = "idle"

\* plcReadMultipleItems: any of the items may fail, or all of them.
PollRead ==
  /\ pollPc = "read"
  /\ PortLock
  /\ \E failed \in SUBSET pollRequests :
       /\ MayFail(failed # {})
       /\ pollData' = [r \in Records |-> IF r \in pollRequests \ failed THEN plc ELSE NoData]
  /\ pollPc' = "respond"
  /\ UNCHANGED <<envVars, pollRequests, pollRecord, queued, portVars, dataVars, pact,
                 recordVars, callbacks, scans, procVars, live, history>>

\* processPollResponse frees the buffer of a failed read and stores the result.
PollStore(r) ==
  /\ pollPc = "respond"
  /\ r \in pollRequests
  /\ Store(r, pollData[r])
  /\ live' = [live EXCEPT ![r] = @ - Count(pollData[r] = NoData) - Replaced(r)]
  /\ pollRequests' = pollRequests \ {r}
  /\ pollData' = [pollData EXCEPT ![r] = NoData]
  /\ polled' = IF pollData[r] = NoData THEN polled ELSE [polled EXCEPT ![r] = pollData[r]]
  /\ pollRecord' = r
  /\ pollPc' = "scan"
  /\ UNCHANGED <<envVars, failures, queued, portVars, pact, recordVars, callbacks, scans,
                 procVars, stale>>

\* ... and then requests the I/O Intr scan of the record.
PollRequestScanLost ==
  /\ pollPc = "scan"
  /\ pollPc' = IF pollRequests = {} THEN "idle" ELSE "respond"
  /\ pollRecord' = NoRecord
  /\ UNCHANGED <<envVars, failures, pollRequests, pollData, queued, portVars, dataVars, pact,
                 recordVars, callbacks, scans, procVars, live, history>>

PollRequestScan ==
  /\ pollPc = "scan"
  /\ scans[pollRecord] < MaxScans
  /\ scans' = [scans EXCEPT ![pollRecord] = @ + 1]
  /\ pollPc' = IF pollRequests = {} THEN "idle" ELSE "respond"
  /\ pollRecord' = NoRecord
  /\ UNCHANGED <<envVars, failures, pollRequests, pollData, queued, portVars, dataVars, pact,
                 recordVars, callbacks, procVars, live, history>>

------------------------------------------------------------------------------
(***************************************************************************)
(* asynProcessCallback.  The port thread holds the port lock throughout.   *)
(***************************************************************************)
PortRead(r) ==
  /\ portPc = "idle"
  /\ r \in queued
  /\ queued' = queued \ {r}
  /\ \E failed \in BOOLEAN :
       /\ MayFail(failed)
       /\ portData' = IF failed THEN NoData ELSE plc
       /\ live' = [live EXCEPT ![r] = @ + Count(~failed)]
  /\ portJob' = r
  /\ portPc' = "store"
  /\ UNCHANGED <<envVars, pollVars, dataVars, pact, recordVars, callbacks, scans, procVars, history>>

PortStore ==
  /\ portPc = "store"
  /\ Store(portJob, portData)
  /\ live' = [live EXCEPT ![portJob] = @ - Replaced(portJob)]
  /\ portData' = NoData
  /\ portPc' = "notify"
  /\ UNCHANGED <<envVars, failures, pollVars, queued, portJob, pact, recordVars, callbacks,
                 scans, procVars, history>>

PortNotify ==
  /\ portPc = "notify"
  /\ callbacks' = [callbacks EXCEPT ![portJob] = @ + Count(pact[portJob])]
  /\ portJob' = NoRecord
  /\ portPc' = "idle"
  /\ UNCHANGED <<envVars, failures, pollVars, queued, portData, dataVars, pact, recordVars,
                 scans, procVars, live, history>>

------------------------------------------------------------------------------
(***************************************************************************)
(* processRecord, called by the record support with the scan lock held.    *)
(* The first part takes newData under the mutex.                           *)
(***************************************************************************)
TakenWithoutReset(r) == newData
TakenFrom(r) == [newData EXCEPT ![r] = NoData]

Take(r) ==
  /\ procPc[r] = "idle"
  /\ procPc' = [procPc EXCEPT ![r] = "taken"]
  /\ procData' = [procData EXCEPT ![r] = newData[r]]
  /\ procError' = [procError EXCEPT ![r] = processCallbackError[r]]
  /\ newData' = TakenFrom(r)
  /\ processCallbackError' = [processCallbackError EXCEPT ![r] = FALSE]
  /\ stale' = [stale EXCEPT ![r] = @ + Count(r \notin requesters /\ ~pact[r]
                                              /\ (newData[r] # NoData \/ processCallbackError[r]))]
  /\ UNCHANGED <<envVars, failures, pollVars, queued, portVars, pact, recordVars, live, polled>>

\* dbProcess, for any reason but the poll group (a client writes PROC, a link, a
\* periodic scan): it leaves an active record alone.
ProcessRecord(r) ==
  /\ ~pact[r]
  /\ Take(r)
  /\ UNCHANGED <<callbacks, scans>>

\* dbProcess for an I/O Intr event.
ProcessScan(r) ==
  /\ scans[r] > 0
  /\ r \in requesters
  /\ ~pact[r]
  /\ scans' = [scans EXCEPT ![r] = @ - 1]
  /\ Take(r)
  /\ UNCHANGED callbacks

\* An I/O Intr event finds the record active, or no longer in the scan list.
SkipScan(r) ==
  /\ scans[r] > 0
  /\ r \notin requesters \/ (pact[r] /\ procPc[r] = "idle")
  /\ scans' = [scans EXCEPT ![r] = @ - 1]
  /\ UNCHANGED <<envVars, failures, pollVars, queued, portVars, dataVars, pact, recordVars,
                 callbacks, procVars, live, history>>

\* The callback thread calls the record support's process routine directly.
ProcessCallback(r) ==
  /\ callbacks[r] > 0
  /\ callbacks' = [callbacks EXCEPT ![r] = @ - 1]
  /\ Take(r)
  /\ UNCHANGED scans

\* The record support completes the processing: the new severity becomes the
\* severity of the record, and pact is reset.
Complete(r, severity) ==
  /\ sevr' = [sevr EXCEPT ![r] = severity]
  /\ pact' = [pact EXCEPT ![r] = FALSE]

\* The part of processRecord after the mutex has been released.
Leave(r) ==
  /\ procPc[r] = "taken"
  /\ procPc' = [procPc EXCEPT ![r] = "idle"]
  /\ procData' = [procData EXCEPT ![r] = NoData]
  /\ procError' = [procError EXCEPT ![r] = FALSE]
  /\ UNCHANGED <<envVars, pollVars, portVars, dataVars, callbacks, scans, history>>

Discarded(r) == Count(procData[r] # NoData)

FinishWithError(r) ==
  /\ Leave(r)
  /\ procError[r]
  /\ live' = [live EXCEPT ![r] = @ - Discarded(r)]
  /\ Complete(r, "INVALID_ALARM")
  /\ UNCHANGED <<failures, queued, udf, val>>

MustRead(r) == ~procError[r] /\ procData[r] = NoData /\ ~pact[r]

StartReadWithoutPact(r) ==
  /\ Leave(r)
  /\ MustRead(r)
  /\ queued' = queued \union {r}
  /\ UNCHANGED <<failures, pact, recordVars, live>>

\* queueRequest accepts the request ...
StartRead(r) ==
  /\ Leave(r)
  /\ MustRead(r)
  /\ pact' = [pact EXCEPT ![r] = TRUE]
  /\ queued' = queued \union {r}
  /\ UNCHANGED <<failures, recordVars, live>>

\* ... or refuses it, and pact is taken back.
StartReadFailsWithoutReset(r) ==
  /\ Leave(r)
  /\ MustRead(r)
  /\ MayFail(TRUE)
  /\ pact' = [pact EXCEPT ![r] = TRUE]
  /\ UNCHANGED <<queued, recordVars, live>>

StartReadFails(r) ==
  /\ Leave(r)
  /\ MustRead(r)
  /\ MayFail(TRUE)
  /\ Complete(r, "INVALID_ALARM")
  /\ UNCHANGED <<queued, udf, val, live>>

\* With data the value is updated; without data there is nothing to do.
FinishWithoutError(r) ==
  /\ Leave(r)
  /\ ~procError[r] /\ ~MustRead(r)
  /\ IF procData[r] # NoData
     THEN /\ val' = [val EXCEPT ![r] = procData[r]]
          /\ udf' = [udf EXCEPT ![r] = FALSE]
          /\ live' = [live EXCEPT ![r] = @ - 1]
     ELSE UNCHANGED <<val, udf, live>>
  /\ Complete(r, "NO_ALARM")
  /\ UNCHANGED <<failures, queued>>

------------------------------------------------------------------------------
PollThread == PollStart \/ PollRead \/ (\E r \in Records : PollStore(r)) \/ PollRequestScan

PortThread == (\E r \in Records : PortRead(r)) \/ PortStore \/ PortNotify

Finish(r) ==
  \/ FinishWithError(r)
  \/ StartRead(r)
  \/ StartReadFails(r)
  \/ FinishWithoutError(r)

Process(r) ==
  \/ ProcessRecord(r)
  \/ ProcessScan(r)
  \/ SkipScan(r)
  \/ ProcessCallback(r)

Next ==
  \/ PlcChanges
  \/ \E r \in Records : ChangeScan(r)
  \/ PollThread
  \/ PortThread
  \/ \E r \in Records : Process(r)
  \/ \E r \in Records : Finish(r)

Spec == Init /\ [][Next]_vars

(***************************************************************************)
(* Fairness.  All threads run for ever.  The port serves its queue in FIFO *)
(* order, and the waiters for the port lock and for a scan lock all get    *)
(* their turn although the lock is taken by others in between.             *)
(***************************************************************************)
Fairness ==
  /\ WF_vars(PollStart) /\ SF_vars(PollRead)
  /\ WF_vars(\E r \in Records : PollStore(r)) /\ WF_vars(PollRequestScan)
  /\ WF_vars(PortStore) /\ WF_vars(PortNotify)
  /\ \A r \in Records : /\ SF_vars(PortRead(r))
                        /\ SF_vars(ProcessScan(r) \/ SkipScan(r))
                        /\ WF_vars(ProcessCallback(r))
                        /\ WF_vars(Finish(r))

FairSpec == Spec /\ Fairness

------------------------------------------------------------------------------
(***************************************************************************)
(* Properties                                                              *)
(***************************************************************************)
Typed ==
  /\ plc \in Data /\ failures \in 0..MaxFailures /\ scanChanges \in 0..MaxScanChanges
  /\ requesters \subseteq Records /\ pollRequests \subseteq Records
  /\ pollPc \in {"idle", "read", "respond", "scan"}
  /\ pollData \in [Records -> Data \union {NoData}]
  /\ pollRecord \in Records \union {NoRecord}
  /\ queued \subseteq Records
  /\ portJob \in Records \union {NoRecord}
  /\ portPc \in {"idle", "store", "notify"}
  /\ portData \in Data \union {NoData}
  /\ newData \in [Records -> Data \union {NoData}]
  /\ processCallbackError \in [Records -> BOOLEAN]
  /\ pact \in [Records -> BOOLEAN]
  /\ udf \in [Records -> BOOLEAN]
  /\ sevr \in [Records -> {"NO_ALARM", "INVALID_ALARM"}]
  /\ val \in [Records -> Data \union {NoData}]
  /\ callbacks \in [Records -> Nat]
  /\ scans \in [Records -> 0..MaxScans]
  /\ procPc \in [Records -> {"idle", "taken"}]
  /\ procData \in [Records -> Data \union {NoData}]
  /\ procError \in [Records -> BOOLEAN]
  /\ live \in [Records -> Int]
  /\ polled \in [Records -> Data]
  /\ stale \in [Records -> Nat]

\* Every variable has its type; no more buffers are freed than were allocated.
TypeOK == Typed /\ \A r \in Records : live[r] >= 0

\* What is on its way to complete the processing of an active record.
Continuations(r) ==
  Count(r \in queued) + Count(portJob = r) + callbacks[r]
    + Count(procPc[r] = "taken" /\ pact[r])

\* A record is active exactly while one, and only one, thing is on its way that will
\* complete it: its request in the queue of the port, the callback of the port thread,
\* the process callback, or the processing that this one started.  So an asynUser is
\* never queued twice, a record is never completed twice, and none stays active with
\* nobody left to complete it (the argument of the comment at
\* S7nodaveInputRecord.cc:49-52).
OneContinuation ==
  \A r \in Records : Continuations(r) = Count(pact[r])

\* The processing that completes an asynchronous read finds either data or an error,
\* although the poll group may have replaced the result in the meantime.
CompletionHasResult ==
  \A r \in Records :
    procPc[r] = "taken" /\ pact[r] => procError[r] \/ procData[r] # NoData

\* Every buffer has exactly one owner and is freed exactly once, whoever replaces
\* whose result: a leak or a double free would break the balance.
BuffersBalanced ==
  \A r \in Records :
    live[r] = Count(newData[r] # NoData) + Count(r \in pollRequests)
              + Count(portJob = r /\ portData # NoData) + Count(procData[r] # NoData)

\* What a record is about to be given is never older than the last response of the
\* poll group: the port lock keeps an asynchronous read from delivering a value that
\* is older than one polled meanwhile.
NewDataNotOlderThanPoll ==
  \A r \in Records : newData[r] # NoData => newData[r] >= polled[r]

\* A record that leaves the poll group may still be served from newData instead of
\* reading the PLC, because a response may be waiting there and one more may be under
\* way (PollGroup.h:114-119), but at most twice.
StaleAtMostTwice == \A r \in Records : stale[r] <= 2

\* An asynchronous read always completes.
ReadsComplete == \A r \in Records : pact[r] ~> ~pact[r]

\* When the PLC settles and nothing fails any more, every record in the poll group ends
\* up with the value of the PLC and without an alarm, whatever order the results of
\* polls and asynchronous reads were applied in before.
RecordsCatchUp ==
  \A r \in Records : <>[](r \in requesters => val[r] = plc /\ sevr[r] = "NO_ALARM")
==============================================================================
