------------------------------ MODULE AsyncWrite ------------------------------
(***************************************************************************)
(* What an output record with asynchronous writes promises to whoever puts *)
(* values into it: there is one write at a time, it carries the value that *)
(* the record had when it began, it reaches the PLC at most once and never *)
(* after it has ended, and it does not end before its failure has shown.   *)
(***************************************************************************)
EXTENDS Naturals

CONSTANTS
  Records,
  NoData                \* nothing that could be written

VARIABLES
  value,                \* the value of each record
  memory,               \* the value that the PLC has for it
  state,                \* how far its write is
  writing,              \* the value that is on its way to the PLC
  alarm                 \* whether clients see an alarm

writeVars == <<value, memory, state, writing, alarm>>

States == {"new", "idle", "requested", "written", "failed", "shown"}

WriteInit ==
  /\ value \in [Records -> Nat] /\ memory \in [Records -> Nat]
  /\ state = [r \in Records |-> "new"]
  /\ alarm = [r \in Records |-> TRUE]
  /\ writing = [r \in Records |-> NoData]

\* The record starts, with the value of the PLC if it can be read.
Load(r) ==
  /\ state[r] = "new"
  /\ state' = [state EXCEPT ![r] = "idle"]
  /\ \/ value' = [value EXCEPT ![r] = memory[r]] /\ alarm' = [alarm EXCEPT ![r] = FALSE]
     \/ UNCHANGED <<value, alarm>>
  /\ UNCHANGED <<memory, writing>>

\* A new value: greater values are younger.
Change(r) ==
  /\ state[r] # "new"
  /\ value'[r] \in Nat /\ value'[r] > value[r]
  /\ value' = [value EXCEPT ![r] = value'[r]]
  /\ UNCHANGED <<memory, state, writing, alarm>>

Request(r) ==
  /\ state[r] = "idle"
  /\ state' = [state EXCEPT ![r] = "requested"]
  /\ writing' = [writing EXCEPT ![r] = value[r]]
  /\ UNCHANGED <<value, memory, alarm>>

Refuse(r) ==
  /\ state[r] = "requested"
  /\ state' = [state EXCEPT ![r] = "idle"]
  /\ writing' = [writing EXCEPT ![r] = NoData]
  /\ alarm' = [alarm EXCEPT ![r] = TRUE]
  /\ UNCHANGED <<value, memory>>

Write(r) ==
  /\ state[r] = "requested"
  /\ state' = [state EXCEPT ![r] = "written"]
  /\ memory' = [memory EXCEPT ![r] = writing[r]]
  /\ writing' = [writing EXCEPT ![r] = NoData]
  /\ UNCHANGED <<value, alarm>>

\* A write that fails may have reached the PLC all the same.
WriteFails(r) ==
  /\ state[r] = "requested"
  /\ state' = [state EXCEPT ![r] = "failed"]
  /\ \/ memory' = [memory EXCEPT ![r] = writing[r]]
     \/ UNCHANGED memory
  /\ writing' = [writing EXCEPT ![r] = NoData]
  /\ UNCHANGED <<value, alarm>>

\* An alarm may be raised during a write for other reasons; it counts as one for a
\* failure that there was before.
RaiseAlarm(r) ==
  /\ state[r] \in States \ {"new", "idle"}
  /\ state' = [state EXCEPT ![r] = IF @ = "failed" THEN "shown" ELSE @]
  /\ alarm' = [alarm EXCEPT ![r] = TRUE]
  /\ UNCHANGED <<value, memory, writing>>

\* The record is done with the write.  Success clears the alarm, failure raises it.
Done(r) ==
  /\ \/ state[r] = "written" /\ alarm' = [alarm EXCEPT ![r] = FALSE]
     \/ state[r] = "failed" /\ alarm' = [alarm EXCEPT ![r] = TRUE]
     \/ state[r] = "shown" /\ \E b \in BOOLEAN : alarm' = [alarm EXCEPT ![r] = b]
  /\ state' = [state EXCEPT ![r] = "idle"]
  /\ UNCHANGED <<value, memory, writing>>

WriteNext ==
  \E r \in Records :
    \/ Load(r) \/ Change(r) \/ Request(r) \/ Refuse(r)
    \/ Write(r) \/ WriteFails(r) \/ RaiseAlarm(r) \/ Done(r)

WriteSpec == WriteInit /\ [][WriteNext]_writeVars
==============================================================================
