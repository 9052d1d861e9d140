------------------------------ MODULE ReadBatch ------------------------------
(***************************************************************************)
(* What a poll group expects of the driver's plcReadMultipleItems: a batch *)
(* of items is answered in any grouping and order, an answer is final, and *)
(* the call may only report success once no item is left without one.      *)
(***************************************************************************)
EXTENDS Naturals

CONSTANT NumItems       \* number of items in the batch

Items == 1..NumItems

VARIABLES
  answer,               \* what is known about each item
  outcome               \* what the call has returned

batchVars == <<answer, outcome>>

Answers  == {"pending", "data", "failed"}
Outcomes == {"busy", "success", "failure"}

BatchInit ==
  /\ answer = [k \in Items |-> "pending"]
  /\ outcome = "busy"

Pending == {k \in Items : answer[k] = "pending"}

\* Some of the items get their final answer, each with data or with an error.
Answer ==
  /\ outcome = "busy"
  /\ \E S \in SUBSET Pending, F \in SUBSET Items :
       answer' = [k \in Items |-> IF k \notin S THEN answer[k]
                                  ELSE IF k \in F THEN "failed" ELSE "data"]
  /\ UNCHANGED outcome

Succeed ==
  /\ outcome = "busy"
  /\ Pending = {}
  /\ outcome' = "success"
  /\ UNCHANGED answer

Fail ==
  /\ outcome = "busy"
  /\ outcome' = "failure"
  /\ UNCHANGED answer

BatchNext == Answer \/ Succeed \/ Fail

BatchSpec == BatchInit /\ [][BatchNext]_batchVars
==============================================================================
