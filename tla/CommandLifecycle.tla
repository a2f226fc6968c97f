--------------------------- MODULE CommandLifecycle ---------------------------
(***************************************************************************)
(* What the durable executor of the AI engine promises the services that   *)
(* submit commands to it, without leases, workers or Redis: a command is   *)
(* accepted once, started at most MaxAttempts times, its stored result is  *)
(* the one its latest start produced, its outcome is final, and it is      *)
(* forgotten only as a whole.  DurableTask implements this module.         *)
(***************************************************************************)
EXTENDS Naturals

CONSTANTS Task,         \* command ids
          MaxAttempts   \* starts a command may use up

VARIABLES status,       \* what GET /tasks/{id} answers
          attempt,      \* how many starts the command has had
          producer      \* the start that produced the stored outcome, 0: none

lifecycle == <<status, attempt, producer>>

Accept(t) ==
    /\ status[t] = "absent"
    /\ status' = [status EXCEPT ![t] = "queued"]
    /\ UNCHANGED <<attempt, producer>>

Begin(t) ==
    /\ status[t] \in {"queued", "running"}
    /\ attempt[t] < MaxAttempts
    /\ status' = [status EXCEPT ![t] = "running"]
    /\ attempt' = [attempt EXCEPT ![t] = attempt[t] + 1]
    /\ UNCHANGED producer

\* Only the latest start may deliver an outcome.
Deliver(t) ==
    /\ status[t] = "running"
    /\ \E s \in {"succeeded", "failed"} : status' = [status EXCEPT ![t] = s]
    /\ producer' = [producer EXCEPT ![t] = attempt[t]]
    /\ UNCHANGED attempt

\* Recovery gives up, or a client cancels: an outcome nobody produced.
Abandon(t) ==
    /\ status[t] \in {"queued", "running"}
    /\ \E s \in {"failed", "canceled"} : status' = [status EXCEPT ![t] = s]
    /\ UNCHANGED <<attempt, producer>>

Forget(t) ==
    /\ status[t] # "absent"
    /\ status' = [status EXCEPT ![t] = "absent"]
    /\ attempt' = [attempt EXCEPT ![t] = 0]
    /\ producer' = [producer EXCEPT ![t] = 0]

LifecycleInit ==
    /\ status = [t \in Task |-> "absent"]
    /\ attempt = [t \in Task |-> 0]
    /\ producer = [t \in Task |-> 0]

LifecycleNext ==
    \E t \in Task : Accept(t) \/ Begin(t) \/ Deliver(t) \/ Abandon(t) \/ Forget(t)

LifecycleSpec == LifecycleInit /\ [][LifecycleNext]_lifecycle
=============================================================================
