---------------------------- MODULE GenerationTask ----------------------------
(***************************************************************************)
(* A pipeline_run task of the game-service, its game and the free quota it *)
(* consumed (packages/game-service/src/game/game.service.ts and            *)
(* generation-task.service.ts).                                            *)
(*                                                                         *)
(* The rows live in MySQL.  Requests, queue jobs and the sweep of active   *)
(* tasks run on several processes and take turns at every await, so each   *)
(* handler is a program of single SQL statements.  A $transaction is two   *)
(* steps, its snapshot read and its commit: InnoDB lets two transactions   *)
(* read the same row and then write it one after the other.                *)
(*                                                                         *)
(* A game has one task here and version 1 throughout: iterations, and the  *)
(* TaskSupersededError only they can cause, are not in this module.        *)
(* cancelRequested is written together with the status canceled and adds   *)
(* nothing to it.  Time is the set late of tasks past their deadline.      *)
(***************************************************************************)
EXTENDS Integers, FiniteSets

CONSTANTS Game,          \* game ids; the task of a game goes by the same name
          Handler,       \* requests and jobs that can be under way at a time
          Sweeper,       \* the one that sweeps the active tasks
          Requester,     \* those that take requests and jobs
          TotalQuota,    \* user_quota.total_free_quota
          MaxAttempts,   \* tries of persistGeneratedGameResult and of create
          Calls,         \* bound of the model: the requests and jobs there are
          MaxFaults      \* bound of the model

ASSUME ConstantsAssumption ==
    /\ Sweeper \in Handler /\ Requester \subseteq Handler
    /\ Calls \subseteq {"create", "deliver", "status", "cancel", "delete", "relay"}
    /\ TotalQuota \in Nat /\ MaxAttempts \in Nat \ {0} /\ MaxFaults \in Nat

VARIABLES task,      \* generation_tasks row of each game
          game,      \* games row
          used,      \* user_quota.used_free_quota
          bundle,    \* games whose version 1 is in game_bundles
          late,      \* tasks past their deadline
          job,       \* BullMQ: the job of each task, by jobId
          up,        \* the AI engine's record of each task
          relay,     \* task-failure calls on their way to the game-service
          poor,      \* tasks whose result will fail the quality gate
          run,       \* where each handler is
          faults

db == <<task, game, used, bundle>>
engine == <<up, relay, poor>>
vars == <<task, game, used, bundle, late, job, up, relay, poor, run, faults>>

Active == {"queued", "running"}
Final == {"succeeded", "failed", "timed_out", "canceled"}
GameStatus == {"none", "generating", "draft", "failed", "banned"}
Op == {"create", "deliver", "sweep", "status", "cancel", "delete", "relay"}

TaskRow == [status : {"none"} \cup Active \cup Final,
            bound : BOOLEAN,     \* upstreamTaskId is set
            stored : BOOLEAN]    \* progressStage completed, terminal response stored

NoTask == [status |-> "none", bound |-> FALSE, stored |-> FALSE]

Program == {"task", "game", "fetch", "stop",
            "cancelRead", "cancelWrite", "failTask", "failGame", "refundRead",
            "refundWrite", "markRead", "markWrite", "succRead", "succWrite",
            "mayTask", "mayGame", "pubGame", "pubBundle", "pubSwap",
            "run", "launch", "bind", "enqueue", "quota", "insert", "ban"}

Frame == [pc : Program, op : Op, g : Game,
          t : TaskRow, gs : GameStatus,          \* rows as this handler read them
          grant : BOOLEAN, seen : Nat,           \* the same, of a transaction
          base : GameStatus,                     \* the same, of a try to publish
          goal : {"canceled", "failed", "timed_out", "relayed"},  \* what it is to write
          via : {"none", "timed_out", "missing", "running"}, \* recovering a stored result
          try : 1..MaxAttempts]

Idle == [pc |-> "idle"]

TypeOK ==
    /\ task \in [Game -> TaskRow]
    /\ game \in [Game -> [status : GameStatus, grant : BOOLEAN]]
    /\ used \in Nat
    /\ bundle \subseteq Game /\ late \subseteq Game /\ poor \subseteq Game
    /\ job \in [Game -> {"absent", "waiting", "kept"}]
    /\ up \in [Game -> {"none", "running", "failing", "succeeded", "failed",
                        "canceled", "gone"}]
    /\ relay \subseteq Game
    /\ run \in [Handler -> Frame \cup {Idle}]
    /\ faults \in 0..MaxFaults

Init ==
    /\ task = [g \in Game |-> NoTask]
    /\ game = [g \in Game |-> [status |-> "none", grant |-> FALSE]]
    /\ used = 0 /\ bundle = {} /\ late = {} /\ faults = 0
    /\ job = [g \in Game |-> "absent"]
    /\ up = [g \in Game |-> "none"] /\ relay = {}
    /\ poor \in SUBSET Game
    /\ run = [h \in Handler |-> Idle]
-----------------------------------------------------------------------------
(* Frames: where a handler goes next.                                      *)

\* From here on a handler does not look at what it has read so far.
Tail == {"run", "enqueue", "ban", "cancelRead", "failTask", "refundRead",
         "markRead", "succRead"}

At(f, pc) ==
    IF pc \notin Tail THEN [f EXCEPT !.pc = pc]
    ELSE [f EXCEPT !.pc = pc, !.t = NoTask, !.gs = "none", !.grant = FALSE,
                   !.seen = 0, !.base = "none", !.via = "none", !.try = 1]

Aim(f, pc, goal) == [At(f, pc) EXCEPT !.goal = goal]

\* A handler returns; delete() goes on whatever became of the task.
Done(f) == IF f.op = "delete" THEN At(f, "ban") ELSE Idle

\* completePipelineTask; via says which recovery it is part of, if any.
Complete(f, via) == [f EXCEPT !.pc = "mayTask", !.via = via]

\* A missing upstream record fails the task once the grace period is over.
Lost(f) == {Done(f), Aim(f, "failTask", "failed")}

\* completePipelineTask threw.  A recovery that threw counts as none.
Thrown(f, aborted) ==
    CASE f.via = "none" /\ aborted  -> {Done(f)}
      [] f.via = "none" /\ ~aborted -> {Aim(f, "failTask", "failed")}
      [] f.via = "timed_out"        -> {At(f, "stop")}
      [] f.via = "missing"          -> Lost(f)
      [] f.via = "running"          -> {Done(f)}

ResolutionInTime(f) ==                                       \* a broken Resolution
    CASE f.gs = "banned" -> "canceled"
      [] f.gs = "failed" -> "failed"
      [] f.gs = "draft"  -> "succeeded"
      [] OTHER           -> "none"

\* deriveEffectiveTaskResolution of an active task: the deadline comes last.
Resolution(f) ==
    CASE f.gs = "banned" -> "canceled"
      [] f.gs = "failed" -> "failed"
      [] f.gs = "draft"  -> "succeeded"
      [] f.gs \notin {"banned", "failed", "draft"} /\ f.g \in late -> "timed_out"
      [] OTHER           -> "none"

\* persistDerivedTaskResolution.
Settle(f, resolution) ==
    CASE resolution = "canceled"  -> Aim(f, "stop", "canceled")
      [] resolution = "failed"    -> Aim(f, "markRead", "failed")
      [] resolution = "succeeded" -> At(f, "succRead")
      [] resolution = "timed_out" ->
           IF f.t.stored THEN Complete(Aim(f, "mayTask", "timed_out"), "timed_out")
                         ELSE Aim(f, "stop", "timed_out")

\* What a handler does once it has read the task and its game.
Decide(f) ==
    IF f.t.status \notin Active THEN Done(f)
    ELSE IF f.op = "deliver" /\ ~f.t.bound THEN At(f, "run")
    ELSE IF Resolution(f) # "none" THEN Settle(f, Resolution(f))
    ELSE IF f.op \in {"cancel", "delete"} THEN Settle(f, "canceled")
    ELSE IF f.t.bound THEN At(f, "fetch")
    ELSE IF f.op = "sweep" /\ f.t.status = "queued" THEN At(f, "enqueue")
    ELSE Done(f)

Goes(h, f) == run' = [run EXCEPT ![h] = f]
In(h, pc) == run[h].pc = pc
-----------------------------------------------------------------------------
(* Handlers begin.                                                         *)

Begin(h, op, g, pc) ==
    /\ run[h] = Idle /\ op \in Calls \cup {"sweep"}
    /\ Goes(h, [pc |-> pc, op |-> op, g |-> g, t |-> NoTask, gs |-> "none",
                grant |-> FALSE, seen |-> 0, base |-> "none", via |-> "none", try |-> 1,
                goal |-> IF op = "relay" THEN "relayed" ELSE "failed"])

BeginCreate(h, g) ==
    /\ h \in Requester /\ task[g] = NoTask
    /\ \A k \in Handler : run[k] # Idle => run[k].g # g
    /\ Begin(h, "create", g, "quota")
    /\ UNCHANGED <<db, late, job, engine, faults>>

\* A worker takes a job; BullMQ keeps its id when it is over.
BeginDeliver(h, g) ==
    /\ h \in Requester /\ job[g] = "waiting"
    /\ Begin(h, "deliver", g, "task")
    /\ job' = [job EXCEPT ![g] = "kept"]
    /\ UNCHANGED <<db, late, engine, faults>>

BeginSweep(g) ==
    /\ task[g].status \in Active
    /\ Begin(Sweeper, "sweep", g, "task")
    /\ UNCHANGED <<db, late, job, engine, faults>>

\* generation-status reads the game first, every other request the task.
BeginRequest(h, op, g) ==
    /\ h \in Requester /\ op \in {"status", "cancel", "delete"}
    /\ game[g].status # "none"
    /\ Begin(h, op, g, IF op = "status" THEN "game" ELSE "task")
    /\ UNCHANGED <<db, late, job, engine, faults>>

BeginRelay(h, g) ==
    /\ h \in Requester /\ g \in relay
    /\ Begin(h, "relay", g, "markRead")
    /\ relay' = relay \ {g}
    /\ UNCHANGED <<db, late, job, up, poor, faults>>
-----------------------------------------------------------------------------
(* create(): the quota is taken with a compare-and-set, three tries.       *)

ReadQuota(h) ==
    /\ In(h, "quota")
    /\ Goes(h, [At(run[h], "insert") EXCEPT !.seen = used])
    /\ UNCHANGED <<db, late, job, engine, faults>>

QuotaMoved(f) == f.seen < TotalQuota /\ used # f.seen

\* Without quota left the game is made all the same, locked.
Insert(h) ==
    LET f == run[h]
        granted == f.seen < TotalQuota
    IN  /\ In(h, "insert")
        /\ IF QuotaMoved(f)                  \* the transaction conflicts: tried again
           THEN /\ Goes(h, IF f.try < MaxAttempts
                              THEN [At(f, "quota") EXCEPT !.try = @ + 1] ELSE Idle)
                /\ UNCHANGED <<used, game, task>>
           ELSE /\ used' = IF granted THEN used + 1 ELSE used
                /\ game' = [game EXCEPT ![f.g] = [status |-> "generating", grant |-> granted]]
                /\ task' = [task EXCEPT ![f.g].status = "queued"]
                /\ Goes(h, At(f, "enqueue"))
        /\ UNCHANGED <<bundle, late, job, engine, faults>>

\* queue.add ignores an id it still knows; an outage leaves the task queued.
Enqueue(h) ==
    LET g == run[h].g
    IN  /\ In(h, "enqueue")
        /\ job' \in {job, IF job[g] = "absent" THEN [job EXCEPT ![g] = "waiting"] ELSE job}
        /\ Goes(h, Done(run[h]))
        /\ UNCHANGED <<db, late, engine, faults>>
-----------------------------------------------------------------------------
(* Reading, and asking the AI engine.                                      *)

ReadTask(h) ==
    LET f == [run[h] EXCEPT !.t = task[run[h].g]]
    IN  /\ In(h, "task")
        /\ Goes(h, IF f.op = "status" THEN Decide(f) ELSE At(f, "game"))
        /\ UNCHANGED <<db, late, job, engine, faults>>

ReadGame(h) ==
    LET f == [run[h] EXCEPT !.gs = game[run[h].g].status]
    IN  /\ In(h, "game")
        /\ Goes(h, IF f.op = "status" THEN At(f, "task") ELSE Decide(f))
        /\ UNCHANGED <<db, late, job, engine, faults>>

AnyStatus(s) == "running"                                   \* a broken Started

\* ensureTaskRunning: conditional on queued.
Started(s) == IF s = "queued" THEN "running" ELSE s

\* fetchUpstreamTaskSnapshotWithFailover, and what follows from the answer.
Fetch(h) ==
    LET f == run[h]
        finished == up[f.g] \in {"succeeded", "failed", "canceled"}
    IN  /\ In(h, "fetch")
        /\ \/ Goes(h, Done(f)) /\ UNCHANGED task               \* no answer
           \/ /\ up[f.g] = "gone" /\ UNCHANGED task
              /\ \E n \in (IF f.t.stored THEN {Complete(f, "missing")} ELSE Lost(f)) : Goes(h, n)
           \/ /\ up[f.g] \in {"running", "failing"} /\ f.t.status = "queued"
              /\ task' = [task EXCEPT ![f.g].status = Started(@)]
              /\ Goes(h, Done(f))
           \/ /\ up[f.g] \in {"running", "failing"} /\ f.t.status = "running"
              /\ Goes(h, IF f.t.stored THEN Complete(f, "running") ELSE Done(f))
              /\ UNCHANGED task
           \/ /\ finished /\ UNCHANGED task
              /\ Goes(h, CASE up[f.g] = "canceled"  -> At(f, "cancelRead")
                           [] up[f.g] = "failed"    -> Aim(f, "failTask", "failed")
                           [] up[f.g] = "succeeded" -> Complete(f, "none"))
        /\ UNCHANGED <<game, used, bundle, late, job, engine, faults>>

\* cancelUpstreamTask, best effort.
Stop(h) ==
    LET f == run[h]
        alive == f.t.bound /\ up[f.g] \in {"running", "failing"}
    IN  /\ In(h, "stop")
        /\ up' \in {up, IF alive THEN [up EXCEPT ![f.g] = "canceled"] ELSE up}
        /\ Goes(h, CASE f.goal = "canceled" -> At(f, "cancelRead")
                     [] f.goal = "timed_out" /\ f.gs = "generating" -> At(f, "refundRead")
                     [] OTHER -> At(f, "markRead"))
        /\ UNCHANGED <<db, late, job, relay, poor, faults>>
-----------------------------------------------------------------------------
(* Launching: markRunning, the POST under X-Idempotency-Key, the binding.  *)

MarkRunning(h) ==
    LET f == run[h]
    IN  /\ In(h, "run")
        /\ task' = [task EXCEPT ![f.g].status = Started(@)]
        /\ Goes(h, At(f, "launch"))
        /\ UNCHANGED <<game, used, bundle, late, job, engine, faults>>

Launched(g) == IF up[g] \in {"none", "gone"} THEN [up EXCEPT ![g] = "running"] ELSE up

\* The AI engine answers, or the launch throws, the request received or not.
Launch(h) ==
    LET f == run[h]
    IN  /\ In(h, "launch")
        /\ \/ up' = Launched(f.g) /\ Goes(h, At(f, "bind"))
           \/ up' \in {up, Launched(f.g)} /\ Goes(h, Aim(f, "failTask", "failed"))
        /\ UNCHANGED <<db, late, job, relay, poor, faults>>

\* bindUpstreamTaskId swallows its errors.
Bind(h) ==
    LET f == run[h]
    IN  /\ In(h, "bind")
        /\ task' \in {task, [task EXCEPT ![f.g].bound = TRUE]}
        /\ Goes(h, Done(f))
        /\ UNCHANGED <<game, used, bundle, late, job, engine, faults>>
-----------------------------------------------------------------------------
(* Cancelling and failing: the game, the refund and the task.              *)

\* The transaction of persistTaskCancellation or persistFailureState reads.
ReadInTransaction(h, pc, next) ==
    LET f == run[h]
    IN  /\ In(h, pc)
        /\ Goes(h, [At(f, next) EXCEPT !.gs = game[f.g].status, !.grant = game[f.g].grant])
        /\ UNCHANGED <<db, late, job, engine, faults>>

CancelRead(h) == ReadInTransaction(h, "cancelRead", "cancelWrite")
RefundRead(h) == ReadInTransaction(h, "refundRead", "refundWrite")

RefundAlways(f) == TRUE                                      \* a broken Refunds

RefundAllButLast(f) == f.grant /\ used > 1                   \* another one

\* refundConsumedGenerationAccess gives back what the transaction saw granted.
Refunds(f) == f.grant /\ used > 0

FailGameOnly(f) ==                                           \* a broken FailGame
    /\ used' = IF Refunds(f) THEN used - 1 ELSE used
    /\ game' = [game EXCEPT ![f.g].status = "failed"]

FailGame(f) ==
    /\ used' = IF Refunds(f) THEN used - 1 ELSE used
    /\ game' = [game EXCEPT ![f.g] = [status |-> "failed",
                                      grant |-> @.grant /\ ~Refunds(f)]]

\* The task is canceled whatever its status has become.
CancelWrite(h) ==
    LET f == run[h]
    IN  /\ In(h, "cancelWrite")
        /\ IF f.gs = "generating" THEN FailGame(f) ELSE UNCHANGED <<game, used>>
        /\ task' = [task EXCEPT ![f.g].status = "canceled"]
        /\ Goes(h, Done(f))
        /\ UNCHANGED <<bundle, late, job, engine, faults>>

FailUnlessEnded(h) ==                                        \* a broken FailTask
    LET f == run[h]
    IN  /\ In(h, "failTask")
        /\ Goes(h, IF task[f.g].status \in Final THEN Done(f) ELSE At(f, "failGame"))
        /\ UNCHANGED <<db, late, job, engine, faults>>

\* failPipelineTask leaves succeeded and canceled tasks alone ...
FailTask(h) ==
    LET f == run[h]
    IN  /\ In(h, "failTask")
        /\ Goes(h, IF task[f.g].status \in {"succeeded", "canceled"}
                     THEN Done(f) ELSE At(f, "failGame"))
        /\ UNCHANGED <<db, late, job, engine, faults>>

\* ... and games that are neither generating nor failed.
FailGameRead(h) ==
    LET f == run[h]
    IN  /\ In(h, "failGame")
        /\ Goes(h, IF game[f.g].status \in {"generating", "failed"}
                     THEN At(f, "refundRead") ELSE Done(f))
        /\ UNCHANGED <<db, late, job, engine, faults>>

RefundWrite(h) ==
    LET f == run[h]
    IN  /\ In(h, "refundWrite")
        /\ FailGame(f)
        /\ Goes(h, At(f, "markRead"))
        /\ UNCHANGED <<task, bundle, late, job, engine, faults>>

NeverSettled(t) == FALSE                                     \* a broken Settled

Settled(t) == t.status \in Final

MarkedOnly(f) == Done(f)                                     \* a broken Marked

\* markFailed.  A relayed failure marks the task first, then fails the game.
Marked(f) == IF f.goal = "relayed" THEN Aim(f, "failTask", "failed") ELSE Done(f)

MarkRead(h) ==
    LET f == run[h]
    IN  /\ In(h, "markRead")
        /\ Goes(h, IF Settled(task[f.g]) THEN Marked(f) ELSE At(f, "markWrite"))
        /\ UNCHANGED <<db, late, job, engine, faults>>

MarkWrite(h) ==
    LET f == run[h]
    IN  /\ In(h, "markWrite")
        /\ task' = [task EXCEPT ![f.g].status =
                      IF f.goal = "timed_out" THEN "timed_out" ELSE "failed"]
        /\ Goes(h, Marked(f))
        /\ UNCHANGED <<game, used, bundle, late, job, engine, faults>>
-----------------------------------------------------------------------------
(* Completing: the checks, the bundle, the game, the task.                 *)

\* completePipelineTask throws before its first read if the HTML is unusable.
MayTask(h) ==
    LET f == run[h]
    IN  /\ In(h, "mayTask")
        /\ \/ f.g \in poor /\ \E n \in Thrown(f, FALSE) : Goes(h, n)
           \/ IF Settled(task[f.g]) THEN \E n \in Thrown(f, TRUE) : Goes(h, n)
                                    ELSE Goes(h, At(f, "mayGame"))
        /\ UNCHANGED <<db, late, job, engine, faults>>

\* ... and after its second one if the result misses the quality gate.
MayGame(h) ==
    LET f == run[h]
    IN  /\ In(h, "mayGame")
        /\ IF game[f.g].status = "banned" THEN \E n \in Thrown(f, TRUE) : Goes(h, n)
           ELSE IF f.g \in poor THEN \E n \in Thrown(f, FALSE) : Goes(h, n)
           ELSE Goes(h, At(f, "pubGame"))
        /\ UNCHANGED <<db, late, job, engine, faults>>

\* persistGeneratedGameResult: one of up to three tries.
PublishRead(h) ==
    LET f == run[h]
    IN  /\ In(h, "pubGame")
        /\ Goes(h, [At(f, "pubBundle") EXCEPT !.base = game[f.g].status])
        /\ UNCHANGED <<db, late, job, engine, faults>>

PublishBundle(h) ==
    LET f == run[h]
    IN  /\ In(h, "pubBundle")
        /\ bundle' = bundle \cup {f.g}
        /\ Goes(h, At(f, "pubSwap"))
        /\ UNCHANGED <<task, game, used, late, job, engine, faults>>

\* The update is conditional on the status this try has read.
Unmoved(f) == game[f.g].status = f.base

PublishSwap(h) ==
    LET f == run[h]
    IN  /\ In(h, "pubSwap") /\ Unmoved(f)
        /\ game' = [game EXCEPT ![f.g].status = "draft"]
        /\ Goes(h, At(f, "succRead"))
        /\ UNCHANGED <<task, used, bundle, late, job, engine, faults>>

PublishRetry(h) ==
    LET f == run[h]
    IN  /\ In(h, "pubSwap") /\ ~Unmoved(f)
        /\ IF f.try < MaxAttempts
             THEN Goes(h, [At(f, "pubGame") EXCEPT !.try = @ + 1])
             ELSE \E n \in Thrown(f, FALSE) : Goes(h, n)
        /\ UNCHANGED <<db, late, job, engine, faults>>

\* markSucceeded.
SucceedRead(h) ==
    LET f == run[h]
    IN  /\ In(h, "succRead")
        /\ Goes(h, IF Settled(task[f.g]) THEN Done(f) ELSE At(f, "succWrite"))
        /\ UNCHANGED <<db, late, job, engine, faults>>

SucceedWrite(h) ==
    LET f == run[h]
    IN  /\ In(h, "succWrite")
        /\ task' = [task EXCEPT ![f.g].status = "succeeded"]
        /\ Goes(h, Done(f))
        /\ UNCHANGED <<game, used, bundle, late, job, engine, faults>>

\* delete() bans the game last.
Ban(h) ==
    LET f == run[h]
    IN  /\ In(h, "ban")
        /\ game' = [game EXCEPT ![f.g].status = "banned"]
        /\ Goes(h, Idle)
        /\ UNCHANGED <<task, used, bundle, late, job, engine, faults>>
-----------------------------------------------------------------------------
(* The AI engine, time, BullMQ's retention, and crashes.                   *)

\* Progress of the pipeline; the last one comes with the stored response.
Progress(g) ==
    /\ up[g] = "running" /\ task[g].status \in Active
    /\ \E stored \in {task[g].stored, TRUE} :
         task' = [task EXCEPT ![g].status = Started(@), ![g].stored = stored]
    /\ UNCHANGED <<game, used, bundle, late, job, engine, run, faults>>

\* A failing pipeline relays its failure once, before its outcome is stored.
\* After it has stored a response only a second execution, of a worker that
\* lost its lease, can fail.
UpFails(g) ==
    /\ up[g] = "running"
    /\ faults' = IF task[g].stored THEN faults + 1 ELSE faults
    /\ faults' <= MaxFaults
    /\ up' = [up EXCEPT ![g] = "failing"]
    /\ relay' \in {relay, relay \cup {g}}
    /\ UNCHANGED <<db, late, job, poor, run>>

UpEnds(g) ==
    /\ up[g] \in {"running", "failing"}
    /\ up' = [up EXCEPT ![g] = IF @ = "failing" THEN "failed" ELSE "succeeded"]
    /\ UNCHANGED <<db, late, job, relay, poor, run, faults>>

UpLost(g) ==
    /\ up[g] # "none" /\ faults < MaxFaults
    /\ up' = [up EXCEPT ![g] = "gone"] /\ faults' = faults + 1
    /\ UNCHANGED <<db, late, job, relay, poor, run>>

Deadline(g) ==
    /\ task[g].status \in Active /\ g \notin late
    /\ late' = late \cup {g}
    /\ UNCHANGED <<db, job, engine, run, faults>>

\* removeOnComplete and removeOnFail keep a number of jobs, not all.
Evict(g) ==
    /\ job[g] = "kept"
    /\ \A h \in Handler : ~(run[h] # Idle /\ run[h].op = "deliver" /\ run[h].g = g)
    /\ job' = [job EXCEPT ![g] = "absent"]
    /\ UNCHANGED <<db, late, engine, run, faults>>

\* The process of a handler dies; a stalled job may be delivered again.
Crash(h) ==
    /\ run[h] # Idle /\ faults < MaxFaults
    /\ run' = [run EXCEPT ![h] = Idle] /\ faults' = faults + 1
    /\ job' \in {job, IF run[h].op = "deliver"
                        THEN [job EXCEPT ![run[h].g] = "waiting"] ELSE job}
    /\ UNCHANGED <<db, late, engine>>

Step(h) ==
    \/ ReadQuota(h) \/ Insert(h) \/ Enqueue(h)
    \/ ReadTask(h) \/ ReadGame(h) \/ Fetch(h) \/ Stop(h)
    \/ MarkRunning(h) \/ Launch(h) \/ Bind(h)
    \/ CancelRead(h) \/ CancelWrite(h) \/ FailTask(h) \/ FailGameRead(h)
    \/ RefundRead(h) \/ RefundWrite(h) \/ MarkRead(h) \/ MarkWrite(h)
    \/ MayTask(h) \/ MayGame(h) \/ PublishRead(h) \/ PublishBundle(h)
    \/ PublishSwap(h) \/ PublishRetry(h) \/ SucceedRead(h) \/ SucceedWrite(h)
    \/ Ban(h)

Next ==
    \/ \E h \in Handler, g \in Game :
         \/ BeginCreate(h, g) \/ BeginDeliver(h, g) \/ BeginRelay(h, g)
         \/ \E op \in Op : BeginRequest(h, op, g)
    \/ \E g \in Game : BeginSweep(g)
    \/ \E h \in Handler : Step(h) \/ Crash(h)
    \/ \E g \in Game : \/ Progress(g) \/ UpFails(g) \/ UpEnds(g) \/ UpLost(g)
                       \/ Deadline(g) \/ Evict(g)

Spec == Init /\ [][Next]_vars

\* Handlers go on, time passes and the sweep visits every active task.  No
\* fairness for the AI engine, the queue, relays, requests or crashes.
FairSpec ==
    /\ Spec
    /\ \A h \in Handler : WF_vars(Step(h))
    /\ \A g \in Game : WF_vars(Deadline(g)) /\ SF_vars(BeginSweep(g))
-----------------------------------------------------------------------------
(* Properties.                                                             *)

\* Concurrent creations never take more than the free quota.
QuotaCap == used <= TotalQuota

\* The used quota is the number of games that still hold a grant: one unit is
\* taken per creation that got one and given back once, when it fails.
QuotaMatchesGrants ==
    used = Cardinality({g \in Game : game[g].grant})

\* Between handlers, a task's outcome is what became of its game: a canceled,
\* failed or timed-out task has no draft, a succeeded one has it until deletion,
\* and a draft has its bundle.
OutcomesAgree ==
    (\A h \in Handler : run[h] = Idle) =>
        \A g \in Game :
            /\ game[g].status = "draft" => g \in bundle
            /\ task[g].status \in Final \ {"succeeded"} => game[g].status # "draft"
            /\ task[g].status = "succeeded" => game[g].status \in {"draft", "banned"}

\* Every failed game has given back its unit of quota: each unit in use is held
\* by a game that has not failed, however the handlers that cancel, fail and
\* time out its task overlap.
NoUnitLost ==
    used <= Cardinality({g \in Game : game[g].grant /\ game[g].status # "failed"})

\* A task does not end without its game: a succeeded task's game and a draft
\* have their bundle, and a game still in generation after its task has ended
\* (which no sweep looks at again) is about to be failed by the handler that
\* was told of the failure, unless a process died.
EndedIsSettled ==
    \A g \in Game :
        /\ task[g].status = "succeeded" \/ game[g].status = "draft" => g \in bundle
        /\ task[g].status \in Final /\ game[g].status = "generating" =>
              /\ task[g].status = "failed"
              /\ \/ faults > 0
                 \/ \E h \in Handler :
                       /\ run[h].pc \in {"failTask", "failGame", "refundRead", "refundWrite"}
                       /\ run[h].g = g

\* A task that has ended is never active again.
NoResurrection ==
    [][\A g \in Game : task[g].status \in Final => task'[g].status \in Final]_vars

\* Every task ends: its deadline passes and the sweep settles it, whatever
\* became of its job, its launch or the AI engine.
EveryTaskEnds == \A g \in Game : task[g].status \in Active ~> task[g].status \in Final

\* No game stays in generation for ever, which would lock it for its author.
EveryGameSettles ==
    \A g \in Game : game[g].status = "generating" ~> game[g].status # "generating"
=============================================================================
