------------------------------ MODULE LlmCall ------------------------------
(***************************************************************************)
(* The model calls of the AI engine, services/llm_client.py: callers run   *)
(* complete_with_truncation_retry, which repeats complete, which walks or   *)
(* hedges the candidate routes.  One attempt on one route waits for a       *)
(* permit of the process-wide semaphore, sends its request, stops its       *)
(* heartbeat, reports and saves the answer.  Everything runs on one event   *)
(* loop: a step is the code between two awaits.                             *)
(*                                                                         *)
(* A caller is cancelled at any time: because an enclosing asyncio.wait_for *)
(* ran out, because the durable executor cancels its runner after it lost   *)
(* the lease, or at shutdown or after a Redis error, with the lease held.   *)
(***************************************************************************)
EXTENDS Integers, FiniteSets, Sequences

CONSTANTS
    Callers,   \* concurrent calls, one complete_with_truncation_retry each
    NRoutes,   \* candidate routes of a call, in order
    Limits,    \* the values timeout.ai_engine.llm.max_concurrency takes, in order
    Mixes      \* which callers call, and with which arguments

(* The arguments of a call that its control depends on.  A longer budget is *)
(* asked for at most truncGrows or tmoGrows times before its ceiling.       *)
Profile == [calls : BOOLEAN,     \* FALSE: this caller makes no call
            hedged : BOOLEAN,    \* hedge_provider_fallback_after_s is set
            durable : BOOLEAN,   \* inside a durable command (execution_task_id set)
            trunc : Nat, truncGrows : Nat, guided : BOOLEAN,
            tmo : Nat, tmoGrows : Nat,
            prov : Nat, onTimeout : BOOLEAN,
            cancels : Nat]       \* bound: cancellations delivered to it

ASSUME LlmCallAssumption ==
    /\ IsFiniteSet(Callers)
    /\ NRoutes \in Nat \ {0}
    /\ Limits \in Seq(Nat \ {0}) /\ Len(Limits) > 0
    /\ \A p \in Mixes : \A c \in Callers : DOMAIN p = Callers /\ p[c] \in Profile

VARIABLES
    prof,    \* the arguments of each call
    call,    \* per caller: where it is, routes launched, retries used, result
    att,     \* per caller and route: the attempt
    free,    \* permits left in each semaphore built so far
    cur,     \* the semaphore new attempts take
    owned,   \* the caller's command still holds its lease
    saved,   \* checkpoints of the caller's command: <<route, truncation retries>>
    cancels  \* cancellations delivered to the caller
vars == <<prof, call, att, free, cur, owned, saved, cancels>>

Routes == 1..NRoutes
Sems == 1..Len(Limits)
Errors == {"forbidden", "retryable", "timeout", "truncated", "fatal"}
Outs == Errors \cup {"none", "ok", "cancelled"}

Retryable(e) == e \in {"forbidden", "retryable", "timeout", "truncated", "cancelled"}
FailsOver(e) == e # "forbidden" /\ Retryable(e)

NoAttempt == [st |-> "idle", sem |-> 1, out |-> "none"]
Live(a) == a.st \in {"admit", "queued", "busy", "closing", "done"}
Holds(a) == a.st \in {"busy", "closing"}
NothingLaunched == [r \in Routes |-> NoAttempt]

Init ==
    /\ prof \in Mixes
    /\ call = [c \in Callers |-> [pc |-> IF prof[c].calls THEN "prep" ELSE "ended", launched |-> 0, trunc |-> 0,
                                  tmo |-> 0, prov |-> 0, res |-> "none"]]
    /\ att = [c \in Callers |-> NothingLaunched]
    /\ free = Limits
    /\ cur = 1
    /\ owned = [c \in Callers |-> TRUE]
    /\ saved \in [Callers -> {{}, {<<1, 0>>}}]   \* what an earlier execution saved
    /\ \A c \in Callers : saved[c] # {} => prof[c].durable
    /\ cancels = [c \in Callers |-> 0]

(***************************************************************************)
(* complete_with_truncation_retry: what its except clauses make of an error *)
(***************************************************************************)
Ended(k, e) == [k EXCEPT !.pc = "ended", !.res = e]
Again(k) == [k EXCEPT !.pc = "prep", !.launched = 0, !.res = "none"]
AfterTruncation(k, p) ==
    IF k.trunc < p.trunc /\ (k.trunc < p.truncGrows \/ p.guided)
    THEN [Again(k) EXCEPT !.trunc = @ + 1] ELSE Ended(k, "truncated")
AfterTimeout(k, p) ==
    IF k.tmo < p.tmoGrows THEN [Again(k) EXCEPT !.tmo = @ + 1] ELSE Ended(k, "timeout")
AfterProviderUncounted(k, p, e) ==   \* a broken AfterProvider
    IF Retryable(e) /\ k.prov < p.prov /\ (e = "timeout" => p.onTimeout)
    THEN [k EXCEPT !.pc = "sleep", !.launched = 0, !.res = "none"] ELSE Ended(k, e)
AfterProviderOnceMore(k, p, e) ==   \* a broken AfterProvider
    IF Retryable(e) /\ k.prov <= p.prov /\ (e = "timeout" => p.onTimeout)
    THEN [k EXCEPT !.pc = "sleep", !.prov = @ + 1, !.launched = 0, !.res = "none"]
    ELSE Ended(k, e)
AfterProvider(k, p, e) ==
    IF Retryable(e) /\ k.prov < p.prov /\ (e = "timeout" => p.onTimeout)
    THEN [k EXCEPT !.pc = "sleep", !.prov = @ + 1, !.launched = 0, !.res = "none"]
    ELSE Ended(k, e)
AfterError(k, p, e) ==
    CASE e = "truncated" -> AfterTruncation(k, p)
      [] e = "timeout" /\ k.tmo < p.tmo -> AfterTimeout(k, p)
      [] OTHER -> AfterProvider(k, p, e)

(* complete ends with e, an error or "ok": the call returns or tries again *)
Leave(c, e) ==
    call' = [call EXCEPT ![c] = IF e = "ok" THEN Ended(@, e) ELSE AfterError(@, prof[c], e)]

(***************************************************************************)
(* A cancellation reaches the attempts of the routes R.  One that is in     *)
(* _finish_heartbeat suppresses it (deaf); the others end as cancelled, and *)
(* those that hold a permit still have their failure to report.             *)
(***************************************************************************)
Stop(a) == IF a.st \in {"admit", "queued"} THEN [a EXCEPT !.st = "done", !.out = "cancelled"]
           ELSE IF Holds(a) THEN [a EXCEPT !.st = "closing", !.out = "cancelled"] ELSE a
Pending(c) == {r \in Routes : Live(att[c][r])}
CancelAttempts(c, R) ==
    \E deaf \in SUBSET {r \in R : att[c][r].st = "closing"} :
        att' = [att EXCEPT ![c] = [r \in Routes |-> IF r \in R \ deaf THEN Stop(@[r]) ELSE @[r]]]

(* complete raises e: a hedged one cancels and gathers what is pending *)
Raise(c, e) ==
    IF prof[c].hedged
    THEN /\ call' = [call EXCEPT ![c].pc = "cleanup", ![c].res = e]
         /\ CancelAttempts(c, Pending(c))
    ELSE Leave(c, e) /\ UNCHANGED att

(***************************************************************************)
(* complete and _complete_with_hedged_routes                                *)
(***************************************************************************)
Launch(c) ==
    LET r == call[c].launched + 1 IN
    /\ call' = [call EXCEPT ![c].pc = "wait", ![c].launched = r]
    /\ att' = [att EXCEPT ![c] = [q \in Routes |->
                  IF q = r THEN [NoAttempt EXCEPT !.st = "admit"]
                  ELSE IF r = 1 THEN NoAttempt ELSE @[q]]]

Prepare(c) ==   \* _prepare_completion_attempt of the next route, and its start
    /\ call[c].pc = "prep"
    /\ \/ Launch(c)
       \/ Raise(c, "fatal")                               \* the prompt cannot be made to fit
       \/ call[c].launched > 0 /\ Raise(c, "timeout")     \* the overall budget is used up
    /\ UNCHANGED <<prof, free, cur, owned, saved, cancels>>

HedgeTimer(c) ==   \* hedge_after_s passed and the first attempt is not done
    /\ prof[c].hedged /\ call[c].pc = "wait"
    /\ call[c].launched = 1 /\ NRoutes > 1 /\ Live(att[c][1]) /\ att[c][1].st # "done"
    /\ call' = [call EXCEPT ![c].pc = "prep"]
    /\ UNCHANGED <<prof, att, free, cur, owned, saved, cancels>>

Over(a) == [NoAttempt EXCEPT !.out = a.out]
Consumed(c, r) == [att[c] EXCEPT ![r] = Over(@)]

FinishAlone(c, r) ==   \* a broken Finish
    Leave(c, "ok") /\ att' = [att EXCEPT ![c] = Consumed(c, r)]
Finish(c, r) ==   \* the answer of route r is the result
    IF prof[c].hedged
    THEN /\ call' = [call EXCEPT ![c].pc = "cleanup", ![c].res = "ok"]
         /\ CancelAttempts(c, Pending(c) \ {r})
    ELSE Leave(c, "ok") /\ att' = [att EXCEPT ![c] = Consumed(c, r)]

Fail(c, r) ==   \* the attempt on route r failed
    /\ att' = [att EXCEPT ![c] = Consumed(c, r)]
    /\ IF Pending(c) # {r} THEN UNCHANGED call
       ELSE IF call[c].launched < NRoutes /\ (prof[c].hedged \/ FailsOver(att[c][r].out))
            THEN call' = [call EXCEPT ![c].pc = "prep"]
            ELSE Leave(c, att[c][r].out)

TakeResult(c, r) ==   \* the attempt on route r is done
    /\ call[c].pc = "wait" /\ att[c][r].st = "done"
    /\ IF att[c][r].out = "ok" THEN Finish(c, r) ELSE Fail(c, r)
    /\ UNCHANGED <<prof, free, cur, owned, saved, cancels>>

Gathered(c) ==   \* every cancelled attempt has ended: complete returns or raises
    /\ call[c].pc = "cleanup" /\ \A r \in Pending(c) : att[c][r].st = "done"
    /\ Leave(c, call[c].res)
    /\ att' = [att EXCEPT ![c] = [r \in Routes |-> Over(@[r])]]
    /\ UNCHANGED <<prof, free, cur, owned, saved, cancels>>

Wake(c) ==   \* the back-off is over; what a second cancellation left behind has ended
    /\ call[c].pc = "sleep" /\ \A r \in Pending(c) : att[c][r].st = "done"
    /\ call' = [call EXCEPT ![c] = Again(@)]
    /\ att' = [att EXCEPT ![c] = NothingLaunched]
    /\ UNCHANGED <<prof, free, cur, owned, saved, cancels>>

(***************************************************************************)
(* _complete_with_route                                                     *)
(***************************************************************************)
Key(c, r) == <<r, call[c].trunc>>   \* the fingerprint: provider, messages, budget
RunAnyway(c) == TRUE   \* a broken MayRun
MayRun(c) == prof[c].durable => owned[c]   \* assert_owned

Admit(c, r) ==   \* checkpoint_get, then semaphore.acquire()
    /\ att[c][r].st = "admit"
    /\ att' = [att EXCEPT ![c][r] =
          IF ~MayRun(c) THEN [@ EXCEPT !.st = "done", !.out = "cancelled"]
          ELSE IF prof[c].durable /\ Key(c, r) \in saved[c] THEN [@ EXCEPT !.st = "done", !.out = "ok"]
          ELSE [@ EXCEPT !.st = "queued", !.sem = cur]]
    /\ UNCHANGED <<prof, call, free, cur, owned, saved, cancels>>

Acquire(c, r) ==   \* the permit is granted and the request goes out
    /\ att[c][r].st = "queued" /\ free[att[c][r].sem] > 0
    /\ free' = [free EXCEPT ![att[c][r].sem] = @ - 1]
    /\ att' = [att EXCEPT ![c][r].st = "busy"]
    /\ UNCHANGED <<prof, call, cur, owned, saved, cancels>>

Answer(c, r) ==   \* the provider answers, refuses or is given up on
    /\ att[c][r].st = "busy"
    /\ \E e \in Errors \cup {"ok"} :
          att' = [att EXCEPT ![c][r].st = "closing", ![c][r].out = e]
    /\ UNCHANGED <<prof, call, free, cur, owned, saved, cancels>>

Save(c, r) ==
    saved' = [saved EXCEPT ![c] =
        IF att[c][r].out = "ok" /\ MayRun(c) THEN @ \cup {Key(c, r)} ELSE @]
SettleUnfenced(c, r) ==   \* a broken Settle: a refused save is not noticed
    /\ att[c][r].st = "closing"
    /\ att' = [att EXCEPT ![c][r].st = "done"]
    /\ Save(c, r)
    /\ free' = [free EXCEPT ![att[c][r].sem] = @ + 1]
    /\ UNCHANGED <<prof, call, cur, owned, cancels>>
SettleToCurrent(c, r) ==   \* a broken Settle: release of the semaphore of today
    /\ att[c][r].st = "closing"
    /\ att' = [att EXCEPT ![c][r].st = "done",
            ![c][r].out = IF @ = "ok" /\ ~MayRun(c) THEN "cancelled" ELSE @]
    /\ Save(c, r)
    /\ free' = [free EXCEPT ![cur] = @ + 1]
    /\ UNCHANGED <<prof, call, cur, owned, cancels>>
Settle(c, r) ==   \* checkpoint_put of an answer; the permit goes back on every path
    /\ att[c][r].st = "closing"
    /\ att' = [att EXCEPT ![c][r].st = "done",
            ![c][r].out = IF @ = "ok" /\ ~MayRun(c) THEN "cancelled" ELSE @]
    /\ Save(c, r)
    /\ free' = [free EXCEPT ![att[c][r].sem] = @ + 1]
    /\ UNCHANGED <<prof, call, cur, owned, cancels>>

(***************************************************************************)
(* Around the calls                                                         *)
(***************************************************************************)
Cancel(c) ==
    /\ call[c].pc # "ended" /\ cancels[c] < prof[c].cancels
    /\ cancels' = [cancels EXCEPT ![c] = @ + 1]
    /\ \/ call[c].pc = "prep" /\ Raise(c, "cancelled")
       \/ call[c].pc = "wait" /\ prof[c].hedged /\ Raise(c, "cancelled")
       \/ /\ call[c].pc = "wait" /\ ~prof[c].hedged
          /\ CancelAttempts(c, Pending(c)) /\ UNCHANGED call
       \/ /\ call[c].pc = "cleanup"
          /\ CancelAttempts(c, Pending(c))
          /\ IF call[c].res = "ok" THEN call' = [call EXCEPT ![c].res = "cancelled"]
             ELSE Leave(c, "cancelled")
       \/ /\ call[c].pc = "sleep"   \* raised inside the except clause
          /\ call' = [call EXCEPT ![c] = Ended(@, "cancelled")]
          /\ UNCHANGED att
    /\ UNCHANGED <<prof, free, cur, owned, saved>>

LoseLease(c) ==   \* the command ended, was cancelled, or another execution has it
    /\ call[c].pc # "ended" /\ prof[c].durable /\ owned[c]
    /\ owned' = [owned EXCEPT ![c] = FALSE]
    /\ UNCHANGED <<prof, call, att, free, cur, saved, cancels>>

Reconfigure ==   \* the next attempt builds a semaphore of the new size
    /\ cur < Len(Limits) /\ cur' = cur + 1
    /\ UNCHANGED <<prof, call, att, free, owned, saved, cancels>>

CallStep(c) == Prepare(c) \/ Gathered(c) \/ Wake(c) \/ \E r \in Routes : TakeResult(c, r)
AttemptStep(c, r) == Admit(c, r) \/ Acquire(c, r) \/ Answer(c, r) \/ Settle(c, r)
Next ==
    \/ \E c \in Callers : CallStep(c) \/ HedgeTimer(c) \/ Cancel(c) \/ LoseLease(c)
    \/ \E c \in Callers, r \in Routes : AttemptStep(c, r)
    \/ Reconfigure

Spec == Init /\ [][Next]_vars
(* The event loop runs every ready task, a semaphore serves its waiters and *)
(* request_timeout_s ends every request.                                    *)
FairSpec == Spec /\ \A c \in Callers : WF_vars(CallStep(c))
                                       /\ \A r \in Routes : WF_vars(AttemptStep(c, r))

(***************************************************************************)
(* Properties                                                               *)
(***************************************************************************)
CallState == [pc : {"prep", "wait", "cleanup", "sleep", "ended"}, launched : 0..NRoutes,
              trunc : Nat, tmo : Nat, prov : Nat, res : Outs]
Attempt == [st : {"idle", "admit", "queued", "busy", "closing", "done"}, sem : Sems, out : Outs]
TypeOK ==
    /\ prof \in Mixes
    /\ call \in [Callers -> CallState]
    /\ att \in [Callers -> [Routes -> Attempt]]
    /\ free \in [Sems -> Nat] /\ cur \in Sems
    /\ owned \in [Callers -> BOOLEAN]
    /\ saved \in [Callers -> SUBSET (Routes \X Nat)]
    /\ cancels \in [Callers -> Nat]
    /\ \A c \in Callers : /\ call[c].trunc <= prof[c].trunc /\ call[c].tmo <= prof[c].tmo
                          /\ call[c].prov <= prof[c].prov /\ cancels[c] <= prof[c].cancels

(* Every permit is in its semaphore or held by one attempt, and goes back   *)
(* to the semaphore it came from even when the limit has changed meanwhile: *)
(* the finally clause of _complete_with_route.                              *)
Holders(s) == {x \in Callers \X Routes : Holds(att[x[1]][x[2]]) /\ att[x[1]][x[2]].sem = s}
PermitsReturned == \A s \in Sems : free[s] + Cardinality(Holders(s)) = Limits[s]

(* A call that has returned or raised has no attempt waiting for a permit   *)
(* or talking to a provider: the loser of a hedge is cancelled.             *)
NothingLeftBehind ==
    \A c \in Callers, r \in Routes :
        call[c].pc \in {"sleep", "ended"} => att[c][r].st \notin {"admit", "queued", "busy"}

(* What a durable call returns was saved while its command held the lease,  *)
(* under the fingerprint a later execution asks for.                        *)
ResultSaved ==
    \A c \in Callers : prof[c].durable /\ call[c].res = "ok" /\ call[c].pc = "ended" =>
        \E r \in Routes : Key(c, r) \in saved[c]

(* Once a command is no longer its execution's, the calls made for it ask   *)
(* no provider again: not on another route, not when a hedge fires, not on  *)
(* a retry, not after a back-off that has swallowed the cancellation.  Only *)
(* an attempt that already waited for its permit still sends its request.   *)
LostAsksNothing ==
    [][\A c \in Callers, r \in Routes :
          prof[c].durable /\ ~owned[c] /\ att[c][r].st \notin {"queued", "busy"} =>
              att'[c][r].st \notin {"queued", "busy"}]_vars

(* What holds only of commands that were lost: a caller that has been       *)
(* cancelled sends no further request.  While the lease is held it does,    *)
(* because a cancellation is retried like a provider error.                 *)
CanceledSendsNothing ==
    [][\A c \in Callers, r \in Routes :
          cancels[c] > 0 /\ att[c][r].st # "busy" => att'[c][r].st # "busy"]_vars

(* Every call returns or raises, whatever the providers do. *)
EveryCallEnds == \A c \in Callers : <>(call[c].pc = "ended")
=============================================================================
