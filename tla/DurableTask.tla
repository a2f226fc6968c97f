------------------------------ MODULE DurableTask ------------------------------
(***************************************************************************)
(* The durable command executor of the AI engine                           *)
(* (packages/ai-engine/src/services/durable_task_executor.py).             *)
(*                                                                         *)
(* A command is one JSON record in Redis plus an entry of the sorted set   *)
(* of pending commands, scored by the end of the current lease.  Every     *)
(* worker process polls the sorted set, claims due commands with a fresh   *)
(* owner token, runs them next to a heartbeat that renews the lease, and   *)
(* writes the outcome only while it still owns the record.                 *)
(*                                                                         *)
(* Every write is WATCH, GET, compute, MULTI/EXEC.  Where the computation  *)
(* reads the clock (claim, renew, finish, checkpoint) the two halves are   *)
(* separate steps: the first puts an update in txn, the second applies it  *)
(* if the record is still the one that was read.  submit and cancel read   *)
(* no clock in between, so each is one step, at its EXEC.                  *)
(*                                                                         *)
(* Time is counted in ticks up to MaxClock, which stands for "any later    *)
(* time": leases do not reach beyond it.  A process may read a clock that  *)
(* is up to MaxSkew ahead.                                                 *)
(***************************************************************************)
EXTENDS Integers, FiniteSets

CONSTANTS Task,         \* command ids
          Worker,       \* processes that run an executor
          Runners,      \* Runners[w]: the commands whose task_type w can run
          Fingerprint,  \* model calls a command makes, by request fingerprint
          NoOwner,      \* the JSON null of an unclaimed record
          LeaseS, TimeoutS, TtlS, Concurrency, MaxAttempts,
          MaxClock, MaxSkew, MaxFaults   \* bounds of the model

ASSUME ConstantsAssumption ==
    /\ Runners \in [Worker -> SUBSET Task]
    /\ LeaseS \in Nat \ {0} /\ TimeoutS \in Nat /\ TtlS \in Nat
    /\ Concurrency \in Nat \ {0} /\ MaxAttempts \in Nat \ {0}
    /\ MaxClock \in Nat /\ MaxSkew \in Nat /\ MaxFaults \in Nat
    /\ NoOwner \notin Worker \X Nat

VARIABLES clock,
          rec,      \* Redis: the command record of each id
          active,   \* Redis: score of each id in the pending set
          expires,  \* Redis: when the record's TTL runs out
          issued,   \* history: owner tokens granted so far for each id
          sweep,    \* per worker: where its polling loop is
          runs,     \* executions alive in some process
          txn,      \* updates computed and not yet EXECuted
          faults    \* crashes and Redis errors so far

vars == <<clock, rec, active, expires, issued, sweep, runs, txn, faults>>

Terminal == {"succeeded", "failed", "canceled"}
Open == {"queued", "running"}
Token == Worker \X Nat
NoScore == -1

Record == [status : {"absent"} \cup Open \cup Terminal,
           owner : Token \cup {NoOwner},
           lease : Nat, deadline : Nat,
           attempt : 0..MaxAttempts,   \* claims so far
           by : 0..MaxAttempts,        \* attempt that produced the stored outcome
           saved : SUBSET Fingerprint]

Absent == [status |-> "absent", owner |-> NoOwner, lease |-> 0, deadline |-> 0,
           attempt |-> 0, by |-> 0, saved |-> {}]

Run == [t : Task, own : Token, attempt : 0..MaxAttempts, deadline : Nat,
        tracked : BOOLEAN,                                \* in the handles dict
        work : {"busy", "ok", "error", "aborted"},        \* the runner coroutine
        call : SUBSET Fingerprint, known : SUBSET Fingerprint,
        beat : {"alive", "lost"},                         \* the heartbeat coroutine
        out : {"none", "ok", "error", "timeout"}]         \* what _run is about to write

Txn == [op : {"claim", "renew", "save", "finish"}, t : Task, own : Token,
        old : Record, new : Record]

Loop == [todo : SUBSET Task, claim : SUBSET Task, gone : SUBSET Task]
Polling == [todo |-> {}, claim |-> {}, gone |-> {}]

TypeOK ==
    /\ clock \in Nat /\ faults \in Nat
    /\ rec \in [Task -> Record]
    /\ active \in [Task -> Int]
    /\ expires \in [Task -> Nat]
    /\ issued \in [Task -> Nat]
    /\ sweep \in [Worker -> Loop]
    /\ runs \subseteq Run
    /\ txn \subseteq Txn

Init ==
    /\ clock = 0 /\ faults = 0
    /\ rec = [t \in Task |-> Absent]
    /\ active = [t \in Task |-> NoScore]
    /\ expires = [t \in Task |-> 0]
    /\ issued = [t \in Task |-> 0]
    /\ sweep = [w \in Worker |-> Polling]
    /\ runs = {} /\ txn = {}
-----------------------------------------------------------------------------
(* Time, and the Redis side of change().                                   *)

Now == clock .. (clock + MaxSkew)
Smaller(a, b) == IF a < b THEN a ELSE b

Tick ==
    /\ clock < MaxClock
    /\ clock' = clock + 1
    /\ UNCHANGED <<rec, active, expires, issued, sweep, runs, txn, faults>>

\* MULTI: SET with a fresh TTL, and ZADD or ZREM of the pending entry.
Store(t, new) ==
    /\ rec' = [rec EXCEPT ![t] = new]
    /\ active' = [active EXCEPT ![t] =
                    IF new.status \in Terminal THEN NoScore ELSE new.lease]
    /\ expires' = [expires EXCEPT ![t] = Smaller(clock + TtlS, MaxClock + 1)]

WriteAnyway(x) == TRUE                                       \* a broken Unwatched

\* EXEC goes through only if the watched key was not written in between.
Unwatched(x) == rec[x.t] = x.old

Fresh(op, t, own, new) ==
    [op |-> op, t |-> t, own |-> own, old |-> rec[t], new |-> new]

Pending(op, t, own) == \E x \in txn : x.op = op /\ x.t = t /\ x.own = own

\* WatchError: the loop of change() reads again.
Retry(x) ==
    /\ ~Unwatched(x)
    /\ txn' = txn \ {x}
    /\ UNCHANGED <<clock, rec, active, expires, issued, sweep, runs, faults>>

\* The TTL removes the record; the pending entry has none and stays.
Expire(t) ==
    /\ rec[t].status # "absent" /\ expires[t] <= clock
    /\ rec' = [rec EXCEPT ![t] = Absent]
    /\ UNCHANGED <<clock, active, expires, issued, sweep, runs, txn, faults>>
-----------------------------------------------------------------------------
(* The API: submit (an id that exists is answered from its record) and     *)
(* cancel, on any process; only that process can stop its own coroutine.   *)

Submit(t) ==
    /\ rec[t].status = "absent"
    /\ \E now \in Now :
         /\ now + TimeoutS <= MaxClock
         /\ Store(t, [Absent EXCEPT !.status = "queued", !.deadline = now + TimeoutS])
    /\ UNCHANGED <<clock, issued, sweep, runs, txn, faults>>

TxnsOf(r) == {x \in txn : x.t = r.t /\ x.own = r.own}

Cancel(w, t) ==
    LET handles == {r \in runs : r.t = t /\ r.own[1] = w /\ r.tracked}
    IN  /\ rec[t].status \in Open
        /\ Store(t, [rec[t] EXCEPT !.status = "canceled"])
        /\ runs' = runs \ handles
        /\ txn' = txn \ UNION {TxnsOf(r) : r \in handles}
        /\ UNCHANGED <<clock, issued, sweep, faults>>
-----------------------------------------------------------------------------
(* The polling loop of one worker.                                         *)

Tracked(w) == {r \in runs : r.own[1] = w /\ r.tracked}

WholePool(w) == Concurrency                                  \* a broken Room

Room(w) == Concurrency - Cardinality(Tracked(w))

\* Reads the lowest scores that are due, no more than there is room for.
SweepPoll(w) ==
    /\ sweep[w] = Polling
    /\ Room(w) > 0
    /\ \E now \in Now :
         LET due == {t \in Task : active[t] # NoScore /\ active[t] <= now}
         IN  \E ids \in SUBSET due :
               /\ ids # {}
               /\ Cardinality(ids) = Smaller(Room(w), Cardinality(due))
               /\ \A i \in ids, j \in due \ ids : active[i] <= active[j]
               /\ sweep' = [sweep EXCEPT ![w].todo = ids]
    /\ UNCHANGED <<clock, rec, active, expires, issued, runs, txn, faults>>

\* GET of the next id: gone, of a type this process has no runner for, or to claim.
SweepGet(w, t) ==
    LET missing == rec[t].status = "absent"
    IN  /\ t \in sweep[w].todo /\ sweep[w].claim = {} /\ sweep[w].gone = {}
        /\ sweep' = [sweep EXCEPT ![w] =
             [todo |-> @.todo \ {t},
              gone |-> IF missing THEN {t} ELSE {},
              claim |-> IF ~missing /\ t \in Runners[w] THEN {t} ELSE {}]]
        /\ UNCHANGED <<clock, rec, active, expires, issued, runs, txn, faults>>

\* ZREM of an id whose record was gone.
SweepZrem(w, t) ==
    /\ t \in sweep[w].gone
    /\ active' = [active EXCEPT ![t] = NoScore]
    /\ sweep' = [sweep EXCEPT ![w].gone = {}]
    /\ UNCHANGED <<clock, rec, expires, issued, runs, txn, faults>>

ClaimableOnce(old, now) == old.status = "queued"             \* a broken Claimable

Claimable(old, now) == old.status \in Open /\ old.lease <= now
OneTooMany(old, now) ==                                      \* a broken Exhausted
    old.deadline <= now \/ old.attempt > MaxAttempts

Exhausted(old, now) == old.deadline <= now \/ old.attempt >= MaxAttempts
LeaseUntil(now) == Smaller(now + LeaseS, MaxClock)

ClaimRead(w, t) ==
    LET own == <<w, issued[t] + 1>>
    IN  /\ t \in sweep[w].claim
        /\ ~\E x \in txn : x.op = "claim" /\ x.own[1] = w
        /\ \E now \in Now :
             \/ /\ ~Claimable(rec[t], now)
                /\ sweep' = [sweep EXCEPT ![w].claim = {}]
                /\ UNCHANGED txn
             \/ /\ Claimable(rec[t], now) /\ Exhausted(rec[t], now)
                /\ txn' = txn \cup
                     {Fresh("claim", t, own, [rec[t] EXCEPT !.status = "failed"])}
                /\ UNCHANGED sweep
             \/ /\ Claimable(rec[t], now) /\ ~Exhausted(rec[t], now)
                /\ txn' = txn \cup
                     {Fresh("claim", t, own,
                        [rec[t] EXCEPT !.status = "running", !.owner = own,
                                       !.lease = LeaseUntil(now),
                                       !.attempt = @ + 1])}
                /\ UNCHANGED sweep
        /\ UNCHANGED <<clock, rec, active, expires, issued, runs, faults>>

NewRun(x) == [t |-> x.t, own |-> x.own, attempt |-> x.new.attempt,
              deadline |-> x.new.deadline, tracked |-> TRUE, work |-> "busy",
              call |-> {}, known |-> {}, beat |-> "alive", out |-> "none"]

\* handles[task_id] = _run(...): an older handle of the same id is forgotten.
Replaced(x) == {IF r.t = x.t /\ r.own[1] = x.own[1] THEN [r EXCEPT !.tracked = FALSE] ELSE r
                  : r \in runs}

ClaimExec(x) ==
    /\ x.op = "claim" /\ Unwatched(x)
    /\ Store(x.t, x.new)
    /\ IF x.new.status = "running"
         THEN /\ runs' = Replaced(x) \cup {NewRun(x)}
              /\ issued' = [issued EXCEPT ![x.t] = @ + 1]
         ELSE UNCHANGED <<runs, issued>>
    /\ sweep' = [sweep EXCEPT ![x.own[1]].claim = {}]
    /\ txn' = txn \ {x}
    /\ UNCHANGED <<clock, faults>>
-----------------------------------------------------------------------------
(* One execution: the runner and the heartbeat race inside _run.           *)

OwnedThoughEnded(r, now) ==                                  \* a broken Owned
    rec[r.t].owner = r.own /\ rec[r.t].lease > now

AnyOwner(r, now) ==                                          \* a broken Owned
    rec[r.t].lease > now /\ rec[r.t].status \notin Terminal

Owned(r, now) ==
    /\ rec[r.t].owner = r.own
    /\ rec[r.t].lease > now
    /\ rec[r.t].status \notin Terminal

Becomes(r, new) == runs' = (runs \ {r}) \cup {new}

\* _run returns or is cancelled: its coroutines go with it.
Close(r) ==
    /\ runs' = runs \ {r}
    /\ txn' = txn \ TxnsOf(r)

BeatRead(r) ==
    /\ r.beat = "alive" /\ ~Pending("renew", r.t, r.own)
    /\ \E now \in Now :
         \/ /\ Owned(r, now)
            /\ txn' = txn \cup {Fresh("renew", r.t, r.own,
                                  [rec[r.t] EXCEPT !.lease = LeaseUntil(now)])}
            /\ UNCHANGED runs
         \/ /\ ~Owned(r, now)
            /\ Becomes(r, [r EXCEPT !.beat = "lost"])
            /\ UNCHANGED txn
    /\ UNCHANGED <<clock, rec, active, expires, issued, sweep, faults>>

RenewExec(x) ==
    /\ x.op = "renew" /\ Unwatched(x)
    /\ Store(x.t, x.new)
    /\ txn' = txn \ {x}
    /\ UNCHANGED <<clock, issued, sweep, runs, faults>>

\* checkpoint_get before a model call: abort, reuse the saved text, or call.
LookUp(r, f) ==
    /\ r.work = "busy" /\ r.call = {} /\ f \notin r.known
    /\ \E now \in Now :
         Becomes(r, IF ~Owned(r, now) THEN [r EXCEPT !.work = "aborted"]
                    ELSE IF f \in rec[r.t].saved THEN [r EXCEPT !.known = @ \cup {f}]
                    ELSE [r EXCEPT !.call = {f}])
    /\ UNCHANGED <<clock, rec, active, expires, issued, sweep, txn, faults>>

\* The provider answered: checkpoint_put.
SaveRead(r) ==
    /\ r.work = "busy" /\ r.call # {} /\ ~Pending("save", r.t, r.own)
    /\ \E now \in Now :
         \/ /\ Owned(r, now)
            /\ txn' = txn \cup {Fresh("save", r.t, r.own,
                                  [rec[r.t] EXCEPT !.saved = @ \cup r.call])}
            /\ UNCHANGED runs
         \/ /\ ~Owned(r, now)
            /\ Becomes(r, [r EXCEPT !.work = "aborted", !.call = {}])
            /\ UNCHANGED txn
    /\ UNCHANGED <<clock, rec, active, expires, issued, sweep, faults>>

SaveExec(x, r) ==
    /\ x.op = "save" /\ r.t = x.t /\ r.own = x.own /\ Unwatched(x)
    /\ Store(x.t, x.new)
    /\ Becomes(r, [r EXCEPT !.known = @ \cup r.call, !.call = {}])
    /\ txn' = txn \ {x}
    /\ UNCHANGED <<clock, issued, sweep, faults>>

RunnerReturns(r) ==
    /\ r.work = "busy" /\ ~Pending("save", r.t, r.own)
    /\ \/ /\ r.known = Fingerprint
          /\ Becomes(r, [r EXCEPT !.work = "ok"])
       \/ Becomes(r, [r EXCEPT !.work = "error", !.call = {}])
    /\ UNCHANGED <<clock, rec, active, expires, issued, sweep, txn, faults>>

NoTimeout(r) == FALSE                                        \* a broken Overdue

Overdue(r) == \E now \in Now : r.deadline <= now

\* asyncio.wait returned: a finished heartbeat wins over a finished runner.
MainWakes(r) ==
    /\ r.out = "none"
    /\ \/ /\ r.beat = "lost" \/ r.work = "aborted"
          /\ Close(r)
       \/ /\ r.beat = "alive" /\ r.work \in {"ok", "error"}
          /\ Becomes(r, [r EXCEPT !.out = r.work])
          /\ UNCHANGED txn
       \/ /\ r.beat = "alive" /\ r.work = "busy"
          /\ Overdue(r)
          /\ Becomes(r, [r EXCEPT !.out = "timeout"])
          /\ UNCHANGED txn
    /\ UNCHANGED <<clock, rec, active, expires, issued, sweep, faults>>

FinishRead(r) ==
    /\ r.out # "none" /\ ~Pending("finish", r.t, r.own)
    /\ \E now \in Now :
         \/ /\ Owned(r, now)
            /\ txn' = txn \cup {Fresh("finish", r.t, r.own,
                 [rec[r.t] EXCEPT !.status = IF r.out = "ok" THEN "succeeded" ELSE "failed",
                                  !.by = r.attempt])}
            /\ UNCHANGED runs
         \/ /\ ~Owned(r, now)
            /\ Close(r)
    /\ UNCHANGED <<clock, rec, active, expires, issued, sweep, faults>>

FinishExec(x, r) ==
    /\ x.op = "finish" /\ r.t = x.t /\ r.own = x.own /\ Unwatched(x)
    /\ Store(x.t, x.new)
    /\ Close(r)
    /\ UNCHANGED <<clock, issued, sweep, faults>>
-----------------------------------------------------------------------------
(* Faults.                                                                 *)

\* A Redis error ends _run (or the reply of the claim is lost) without a write.
Interrupt(r) ==
    /\ faults < MaxFaults
    /\ Close(r)
    /\ faults' = faults + 1
    /\ UNCHANGED <<clock, rec, active, expires, issued, sweep>>

\* A Redis error, or 20 lost races, ends this pass of the polling loop.
SweepFault(w) ==
    /\ faults < MaxFaults /\ sweep[w] # Polling
    /\ sweep' = [sweep EXCEPT ![w] = Polling]
    /\ txn' = {x \in txn : ~(x.op = "claim" /\ x.own[1] = w)}
    /\ faults' = faults + 1
    /\ UNCHANGED <<clock, rec, active, expires, issued, runs>>

\* The process dies, or close() cancels every handle; a new one polls again.
Crash(w) ==
    /\ faults < MaxFaults
    /\ runs' = {r \in runs : r.own[1] # w}
    /\ txn' = {x \in txn : x.own[1] # w}
    /\ sweep' = [sweep EXCEPT ![w] = Polling]
    /\ faults' = faults + 1
    /\ UNCHANGED <<clock, rec, active, expires, issued>>
-----------------------------------------------------------------------------
SweepStep(w) ==
    \/ SweepPoll(w)
    \/ \E t \in Task : SweepGet(w, t) \/ SweepZrem(w, t) \/ ClaimRead(w, t)
    \/ \E x \in txn : x.op = "claim" /\ x.own[1] = w /\ (ClaimExec(x) \/ Retry(x))

BeatStep(r) ==
    \/ BeatRead(r)
    \/ \E x \in TxnsOf(r) : x.op = "renew" /\ (RenewExec(x) \/ Retry(x))

RunnerStep(r) ==
    \/ \E f \in Fingerprint : LookUp(r, f)
    \/ SaveRead(r)
    \/ \E x \in TxnsOf(r) : SaveExec(x, r) \/ (x.op = "save" /\ Retry(x))
    \/ RunnerReturns(r)

MainStep(r) ==
    \/ MainWakes(r)
    \/ FinishRead(r)
    \/ \E x \in TxnsOf(r) : FinishExec(x, r) \/ (x.op = "finish" /\ Retry(x))

Next ==
    \/ Tick
    \/ \E t \in Task : Submit(t) \/ Expire(t)
    \/ \E w \in Worker : SweepStep(w) \/ SweepFault(w) \/ Crash(w)
    \/ \E w \in Worker, t \in Task : Cancel(w, t)
    \/ \E r \in runs : BeatStep(r) \/ RunnerStep(r) \/ MainStep(r) \/ Interrupt(r)

Spec == Init /\ [][Next]_vars

\* The event loop of every process keeps running its poll loop and wakes _run;
\* nothing is assumed of the heartbeat, the model provider or the client.
Fairness ==
    /\ WF_vars(Tick)
    /\ \A w \in Worker : WF_vars(SweepStep(w))
    /\ \A w \in Worker : WF_vars(\E r \in runs : r.own[1] = w /\ MainStep(r))

FairSpec == Spec /\ Fairness
-----------------------------------------------------------------------------
(* Properties.                                                             *)

\* An outcome is final: whatever a stale owner, a late cancel, a late claim or
\* a second finish still does, a terminal record is never written again; only
\* its TTL removes it.  (owned_change, claim and cancel refuse terminal records.)
TerminalIsFinal ==
    [][\A t \in Task : rec[t].status \in Terminal => rec'[t] \in {rec[t], Absent}]_vars

\* The pending set and the records agree.  This is not so once a record can
\* expire: the GET and the ZREM of sweep() are two commands, and a submit between
\* them loses its entry (DurableTask_ttl.cfg).
PendingIndexed ==
    \A t \in Task : /\ rec[t].status \in Open => active[t] = rec[t].lease
                    /\ rec[t].status \in Terminal => active[t] = NoScore

\* An update in flight was computed from an open record, by the owner of that
\* record unless it is a claim, and changes what its operation may change.
Lawful(x) ==
    /\ x.old.status \in Open /\ x.old.saved \subseteq x.new.saved
    /\ x.new.deadline = x.old.deadline
    /\ x.op = "claim" =>
         \/ x.new = [x.old EXCEPT !.status = "failed"]
         \/ /\ x.old.attempt < MaxAttempts
            /\ x.new.status = "running" /\ x.new.owner = x.own
            /\ x.new.attempt = x.old.attempt + 1 /\ x.new.by = x.old.by
    /\ x.op # "claim" =>
         /\ x.old.status = "running" /\ x.old.owner = x.own
         /\ x.new.owner = x.own /\ x.new.attempt = x.old.attempt
    /\ x.op \in {"renew", "save"} => x.new.status = "running" /\ x.new.by = x.old.by
    /\ x.op = "finish" =>
         x.new.status \in {"succeeded", "failed"} /\ x.new.by = x.old.attempt
UpdatesLawful == \A x \in txn : Lawful(x)

\* An unclaimed record has no owner; a record that is gone leaves nothing behind.
RecordsLawful ==
    \A t \in Task : /\ rec[t].status = "queued" => rec[t].owner = NoOwner
                    /\ rec[t].status = "absent" => rec[t] = Absent

\* Owner tokens identify executions: the owner of a record is the execution of
\* its latest attempt, and a claim in flight carries a token nobody holds.
TokensLawful ==
    /\ \A r \in runs : /\ r.own[2] <= issued[r.t]
                       /\ rec[r.t].owner = r.own => rec[r.t].attempt = r.attempt
    /\ \A x \in txn : x.op = "claim" =>
         /\ x.own[2] <= issued[x.t] + 1
         /\ \A r \in runs : r.t = x.t => r.own # x.own
    /\ \A x, y \in txn :
         x.op = "claim" /\ y.op = "claim" /\ x.own[1] = y.own[1] => x = y

\* Fencing, as an inductive invariant: whoever writes a record next is its
\* current owner, computed the write from its current content, and leaves the
\* numbering of attempts intact.
Fenced == UpdatesLawful /\ RecordsLawful /\ TokensLawful

\* No two executions of a command, not even a stale one and its successor, carry
\* the same attempt number: progress sequence numbers (generate.py:727) start
\* at attempt * 1000000 and order the reports of different executions.  A command
\* submitted again after its record expired counts anew, under a later deadline.
AttemptsDistinct ==
    \A r, s \in runs :
        r.t = s.t /\ r.deadline = s.deadline /\ r.attempt = s.attempt => r = s

\* A model output that was checkpointed survives every later write of the record:
\* no renewal, claim, cancel or finish computed from an older copy drops it.
CheckpointsKept ==
    [][\A t \in Task : rec'[t].status # "absent" => rec[t].saved \subseteq rec'[t].saved]_vars

\* A worker never has more than Concurrency executions in its handles, although
\* the room is computed once and the claims come later, one at a time.
RoomRespected == \A w \in Worker : Cardinality(Tracked(w)) <= Concurrency

\* The executor implements the abstract life of a command.
Lifecycle == INSTANCE CommandLifecycle WITH
                status <- [t \in Task |-> rec[t].status],
                attempt <- [t \in Task |-> rec[t].attempt],
                producer <- [t \in Task |-> rec[t].by]
ImplementsLifecycle == Lifecycle!LifecycleSpec

\* Every accepted command reaches an outcome, through crashes, lost leases and
\* Redis errors, as long as processes keep polling.
EveryCommandEnds ==
    \A t \in Task : rec[t].status \in Open ~> rec[t].status \notin Open

\* An execution whose command ended or went to another owner stops by itself,
\* also when the cancel request reached another process.
Stale(r) == rec[r.t].owner # r.own \/ rec[r.t].status \notin Open
StaleRunsStop == []<>(\A r \in runs : ~Stale(r))
=============================================================================
