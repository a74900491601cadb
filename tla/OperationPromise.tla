-------------------------- MODULE OperationPromise --------------------------
(***************************************************************************)
(* What an asynchronous operation promises its submitter, whatever threads,*)
(* processes and crashes carry it out: a status and an attempt count that  *)
(* move one step at a time, an attempt counted when it starts, no attempt  *)
(* beyond the limit, and an end that is final.                             *)
(***************************************************************************)
EXTENDS Naturals

CONSTANTS Operations, MaxAttempts

VARIABLES status, attempts

Init ==
  /\ status = [o \in Operations |-> "ABSENT"]
  /\ attempts = [o \in Operations |-> 0]

Move(o, to) == status' = [status EXCEPT ![o] = to]

Accept(o) ==
  /\ status[o] = "ABSENT"
  /\ Move(o, "PENDING")
  /\ UNCHANGED attempts

\* A first attempt, a retry, or the one that follows an interrupted attempt.
Attempt(o) ==
  /\ status[o] \in {"PENDING", "RUNNING"}
  /\ attempts[o] < MaxAttempts
  /\ Move(o, "RUNNING")
  /\ attempts' = [attempts EXCEPT ![o] = @ + 1]

Requeue(o) ==
  /\ status[o] = "RUNNING"
  /\ attempts[o] < MaxAttempts
  /\ Move(o, "PENDING")
  /\ UNCHANGED attempts

Succeed(o) ==
  /\ status[o] = "RUNNING"
  /\ Move(o, "SUCCEEDED")
  /\ UNCHANGED attempts

Fail(o) ==
  /\ status[o] \in {"PENDING", "RUNNING"}
  /\ Move(o, "FAILED")
  /\ UNCHANGED attempts

Next == \E o \in Operations :
  Accept(o) \/ Attempt(o) \/ Requeue(o) \/ Succeed(o) \/ Fail(o)

Spec == Init /\ [][Next]_<<status, attempts>>
=============================================================================
