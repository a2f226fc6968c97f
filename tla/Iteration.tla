------------------------------ MODULE Iteration ------------------------------
(***************************************************************************)
(* Iterations of a finished game, and its publication and deletion: the    *)
(* handlers of packages/game-service/src/game/game.service.ts that share    *)
(* the row of one game.  An iteration is a pipeline_iterate task with a     *)
(* version of its own; its code is kept as the bundle of that version.      *)
(*                                                                         *)
(* As in GenerationTask a handler is a program of single SQL statements     *)
(* and calls.  That module has the delivery of jobs and the deadline; here  *)
(* a job of a task may be delivered at any time, also twice, and a handler  *)
(* that looks may find the deadline passed.                                 *)
(***************************************************************************)
EXTENDS Integers, FiniteSets

CONSTANTS Task,          \* bound: the iterations there are
          Handler,       \* requests, jobs and sweeps under way at a time
          MaxVersion,    \* bound
          MaxAttempts,   \* tries of persistGeneratedGameResult
          MaxFaults,     \* bound: crashes and records the engine loses
          MaxCalls       \* bound: requests, jobs and sweeps there are, and faults

ASSUME ConstantsAssumption ==
    /\ Task \cap {"none", "origin"} = {}
    /\ MaxVersion \in Nat \ {0} /\ MaxAttempts \in Nat \ {0}
    /\ MaxCalls \in Nat /\ MaxFaults \in Nat

VARIABLES game,     \* games row
          bundle,   \* game_bundles: the task that stored each version
          task,     \* generation_tasks rows
          up,       \* the AI engine's record of each task
          relay,    \* task-failure calls on their way
          run,      \* where each handler is
          alone,    \* ghost: no two handlers have overlapped so far
          calls, faults

vars == <<game, bundle, task, up, relay, run, alone, calls, faults>>
engine == <<up, relay, alone, calls, faults>>

Version == 1..MaxVersion
Base == {"draft", "published"}     \* getIterationBaseStatus; no row is "review"
Active == {"queued", "running"}
Final == {"succeeded", "failed", "timed_out", "canceled"}
GameRow == [status : Base \cup {"generating", "banned"}, version : Version,
            live : BOOLEAN]        \* publishedAt is set
TaskRow == [status : {"none"} \cup Active \cup Final, version : Version,
            base : Base,           \* metadata.baseStatus
            bound : BOOLEAN,       \* upstreamTaskId is set
            stored : BOOLEAN]      \* progressStage completed, response stored
NoTask == [status |-> "none", version |-> 1, base |-> "draft", bound |-> FALSE, stored |-> FALSE]
ActiveTasks == {t \in Task : task[t].status \in Active}

Program == {"game", "ensure", "recheck", "latest", "claim", "publish",
            "readTask", "readGame", "run", "launch", "bind", "fetch", "stop", "reset",
            "cancelRead", "cancelWrite", "failTask", "failGame", "failWrite",
            "markRead", "markWrite", "mayTask", "mayGame", "pubGame", "pubBundle",
            "pubSwap", "succRead", "succWrite", "ban"}
Frame == [pc : Program,
          op : {"iterate", "publish", "delete", "deliver", "status", "cancel", "relay"},
          t : Task \cup {"none"}, row : TaskRow, g : GameRow,   \* as read
          seen : GameRow,         \* the game, as a try to publish read it
          fresh : BOOLEAN,        \* the game has not been written since iterate read it
          top : Version,          \* the latest bundle, as read
          goal : {"failed", "timed_out", "canceled", "relayed"},
          via : {"upstream", "timed_out", "missing", "running"},
          try : 1..MaxAttempts]
Unread == [status |-> "draft", version |-> 1, live |-> FALSE]
Idle == [pc |-> "idle", fresh |-> FALSE]

TypeOK ==
    /\ game \in GameRow
    /\ bundle \in [Version -> Task \cup {"none", "origin"}]
    /\ task \in [Task -> TaskRow]
    /\ up \in [Task -> {"none", "running", "succeeded", "failed", "canceled", "gone"}]
    /\ relay \subseteq Task
    /\ run \in [Handler -> Frame \cup {Idle}]
    /\ alone \in BOOLEAN /\ calls \in 0..MaxCalls /\ faults \in 0..MaxFaults

InFlight(base) == IF base = "published" THEN "published" ELSE "generating"

Init ==   \* pipeline_run has stored version 1
    /\ \E s \in Base : game = [status |-> s, version |-> 1, live |-> s = "published"]
    /\ bundle = [v \in Version |-> IF v = 1 THEN "origin" ELSE "none"]
    /\ task = [t \in Task |-> NoTask]
    /\ up = [t \in Task |-> "none"] /\ relay = {}
    /\ run = [h \in Handler |-> Idle]
    /\ alone = TRUE /\ calls = 0 /\ faults = 0
-----------------------------------------------------------------------------
(* Frames.                                                                 *)

In(h, pc) == run[h].pc = pc
Goes(h, f) == run' = [run EXCEPT ![h] = f]

\* updatedAt: a write of the row overtakes every copy of it, one's own too.
Overtaken(f) == IF f.fresh THEN [f EXCEPT !.fresh = FALSE] ELSE f
WriteGame(h, f, row) ==
    /\ game' = row
    /\ run' = [k \in Handler |-> Overtaken(IF k = h THEN f ELSE run[k])]

\* From here on a handler does not look at what it has read so far.
Tail == {"cancelRead", "failTask", "markRead", "succRead", "recheck", "ban"}
At(f, pc) ==
    IF pc \notin Tail THEN [f EXCEPT !.pc = pc]
    ELSE [f EXCEPT !.pc = pc, !.row = NoTask, !.g = Unread, !.seen = Unread,
                   !.via = "upstream", !.try = 1]
Aim(f, pc, goal) == [At(f, pc) EXCEPT !.goal = goal]

\* A task has been reconciled, or could not be: the handler that asked goes on.
Done(f) == CASE f.op \in {"iterate", "publish"} -> At(f, "recheck")
             [] f.op = "delete" -> At(f, "ban")
             [] OTHER -> Idle
Unresolved(f) == IF f.op = "delete" THEN At(f, "ban") ELSE Idle

\* completeIterationTask; via says from where.
Complete(f, via) == [f EXCEPT !.pc = "mayTask", !.via = via]

\* A missing upstream record fails the task, once its grace period is over.
Lost(f) == {Unresolved(f), Aim(f, "failTask", "failed")}

\* completeIterationTask threw.  A recovery that threw counts as none.
Thrown(f, why) ==
    CASE f.via = "timed_out" -> {At(f, "stop")}
      [] f.via = "missing" -> Lost(f)
      [] f.via = "running" -> {Unresolved(f)}
      [] f.via = "upstream" /\ why = "superseded" -> {At(f, "cancelRead")}
      [] f.via = "upstream" /\ why = "aborted" -> {Done(f)}
      [] f.via = "upstream" /\ why = "error" -> {Aim(f, "failTask", "failed")}

\* deriveEffectiveTaskResolution of an active task.
Resolution(f) ==
    CASE f.g.status = "banned" -> {"canceled"}
      [] f.g.status \in Base /\ f.g.version >= f.row.version -> {"succeeded"}
      [] OTHER -> {"none", "timed_out"}

\* persistDerivedTaskResolution.
Settle(f, resolution) ==
    CASE resolution = "canceled" -> Aim(f, "stop", "canceled")
      [] resolution = "succeeded" -> At(f, "succRead")
      [] resolution = "timed_out" ->
           IF f.row.stored THEN Complete(Aim(f, "mayTask", "timed_out"), "timed_out")
                           ELSE Aim(f, "stop", "timed_out")

Decide(f) ==
    IF f.row.status \notin Active THEN {Done(f)}
    ELSE IF f.op = "deliver" /\ ~f.row.bound THEN {At(f, "run")}
    ELSE {IF r # "none" THEN Settle(f, r)
          ELSE IF f.op \in {"cancel", "delete"} THEN Settle(f, "canceled")
          ELSE IF f.row.bound THEN At(f, "fetch") ELSE Unresolved(f) : r \in Resolution(f)}
-----------------------------------------------------------------------------
(* Handlers begin.                                                         *)

Begin(h, op, t, pc) ==
    /\ run[h] = Idle /\ calls + faults < MaxCalls /\ calls' = calls + 1
    /\ Goes(h, [pc |-> pc, op |-> op, t |-> t, row |-> NoTask, g |-> Unread, seen |-> Unread,
                fresh |-> FALSE, top |-> 1,
                goal |-> IF op = "relay" THEN "relayed" ELSE "failed",
                via |-> "upstream", try |-> 1])
    /\ alone' = (alone /\ \A k \in Handler : run[k] = Idle)
    /\ UNCHANGED <<game, bundle, task, up, faults>>

BeginEdit(h) ==
    /\ \E op \in {"iterate", "publish"} : Begin(h, op, "none", "game")
    /\ UNCHANGED relay
BeginDelete(h) ==   \* terminateActiveTasksForGame
    /\ \/ ActiveTasks = {} /\ Begin(h, "delete", "none", "ban")
       \/ \E t \in ActiveTasks : Begin(h, "delete", t, "readTask")
    /\ UNCHANGED relay
\* A poll, the sweep, a cancellation, a job.  None changes anything of a task
\* that has ended, and a job of a bound task does what a poll does.
BeginOnTask(h, t) ==
    /\ task[t].status \in Active
    /\ \E op \in {"status", "cancel", "deliver"} :
         (op = "deliver" => ~task[t].bound) /\ Begin(h, op, t, "readTask")
    /\ UNCHANGED relay
BeginRelay(h, t) ==
    /\ t \in relay /\ relay' = relay \ {t}
    /\ Begin(h, "relay", t, "markRead")
-----------------------------------------------------------------------------
(* iterate() and publish().                                                *)

EditReadGame(h) ==
    /\ In(h, "game")
    /\ Goes(h, IF game.status \in Base
               THEN [At(run[h], "ensure") EXCEPT !.fresh = run[h].op = "iterate"] ELSE Idle)
    /\ UNCHANGED <<game, bundle, task, engine>>

\* ensureNoActiveTaskForGame: the newest active task is reconciled first.
Ensure(h) ==
    /\ In(h, "ensure")
    /\ \/ ActiveTasks = {} /\ Goes(h, At(run[h], "latest"))
       \/ \E t \in ActiveTasks :
             Goes(h, [At(run[h], "readGame") EXCEPT !.t = t, !.row = task[t]])
    /\ UNCHANGED <<game, bundle, task, engine>>

Recheck(h) ==
    /\ In(h, "recheck")
    /\ Goes(h, IF task[run[h].t].status \in Active THEN Idle
               ELSE [At(run[h], "latest") EXCEPT !.t = "none"])
    /\ UNCHANGED <<game, bundle, task, engine>>

Stored(v) == bundle[v] # "none"
IsLatest(v) == Stored(v) /\ \A w \in Version : Stored(w) => w <= v
ReadLatest(h) ==   \* getLatestBundle, getBundleHistory
    /\ In(h, "latest")
    /\ \E v \in Version : IsLatest(v) /\
          Goes(h, [At(run[h], IF run[h].op = "iterate" THEN "claim" ELSE "publish") EXCEPT !.top = v])
    /\ UNCHANGED <<game, bundle, task, engine>>

\* The transaction of iterate: updateMany where the row is as it was read.
\* So is, then, the copy the base status and the version are computed from.
ClaimByStatus(f) == game.status \in Base                         \* mutant
CopyHolds(f) == f.fresh
NextVersion(f) == 1 + (IF f.top > game.version THEN f.top ELSE game.version)
BaseStatus == IF game.status = "published" \/ game.live THEN "published" ELSE "draft"
Claim(h) ==
    LET f == run[h] IN
    /\ In(h, "claim")
    /\ \/ /\ CopyHolds(f) /\ NextVersion(f) \in Version
          /\ \E t \in Task :
                /\ task[t] = NoTask
                /\ task' = [task EXCEPT ![t] = [NoTask EXCEPT !.status = "queued",
                                !.version = NextVersion(f), !.base = BaseStatus]]
          /\ WriteGame(h, Idle, [game EXCEPT !.status = InFlight(BaseStatus)])
       \/ Goes(h, Idle) /\ UNCHANGED <<game, task>>   \* a conflict; or beyond the bounds
    /\ UNCHANGED <<bundle, engine>>

\* publish() writes by id what it has read.
Publish(h) ==
    /\ In(h, "publish")
    /\ WriteGame(h, Idle, [status |-> "published", version |-> run[h].top, live |-> TRUE])
    /\ UNCHANGED <<bundle, task, engine>>
-----------------------------------------------------------------------------
(* Reading a task and its game, and asking the AI engine.                  *)

ReadTask(h) ==
    /\ In(h, "readTask")
    /\ Goes(h, [At(run[h], "readGame") EXCEPT !.row = task[run[h].t]])
    /\ UNCHANGED <<game, bundle, task, engine>>

ReadGame(h) ==
    /\ In(h, "readGame")
    /\ \E f \in Decide([run[h] EXCEPT !.g = game]) : Goes(h, f)
    /\ UNCHANGED <<game, bundle, task, engine>>

\* ensureTaskRunning: conditional on queued.
Started(row) == IF row.status = "queued" THEN [row EXCEPT !.status = "running"] ELSE row

Fetch(h) ==
    LET f == run[h] IN
    /\ In(h, "fetch")
    /\ \/ Goes(h, Unresolved(f))                           \* no answer
       \/ /\ up[f.t] = "gone"
          /\ \E n \in (IF f.row.stored THEN {Complete(f, "missing")} ELSE Lost(f)) : Goes(h, n)
       \/ /\ up[f.t] = "running"                            \* and so is a bound task
          /\ Goes(h, IF f.row.stored THEN Complete(f, "running") ELSE Unresolved(f))
       \/ up[f.t] = "canceled" /\ Goes(h, At(f, "cancelRead"))
       \/ up[f.t] = "failed" /\ Goes(h, Aim(f, "failTask", "failed"))
       \/ up[f.t] = "succeeded" /\ Goes(h, Complete(f, "upstream"))
    /\ UNCHANGED <<game, bundle, task, engine>>

MarkRunning(h) ==
    /\ In(h, "run")
    /\ task' = [task EXCEPT ![run[h].t] = Started(@)]
    /\ Goes(h, At(run[h], "launch"))
    /\ UNCHANGED <<game, bundle, engine>>

Launched(t) == IF up[t] \in {"none", "gone"} THEN [up EXCEPT ![t] = "running"] ELSE up
Launch(h) ==   \* answered, or not although it may have been received
    LET f == run[h] IN
    /\ In(h, "launch")
    /\ \/ up' = Launched(f.t) /\ Goes(h, At(f, "bind"))
       \/ up' \in {up, Launched(f.t)} /\ Goes(h, Aim(f, "failTask", "failed"))
    /\ UNCHANGED <<game, bundle, task, relay, alone, calls, faults>>

Bind(h) ==   \* its failures are in GenerationTask
    /\ In(h, "bind")
    /\ task' = [task EXCEPT ![run[h].t].bound = TRUE]
    /\ Goes(h, Idle)
    /\ UNCHANGED <<game, bundle, engine>>
-----------------------------------------------------------------------------
(* Cancelling, timing out and failing.                                     *)

Stop(h) ==   \* cancelUpstreamTask, best effort
    LET f == run[h]
        alive == f.row.bound /\ up[f.t] = "running" IN
    /\ In(h, "stop")
    /\ up' \in {up, IF alive THEN [up EXCEPT ![f.t] = "canceled"] ELSE up}
    /\ Goes(h, IF f.goal = "canceled" THEN At(f, "cancelRead")
               ELSE At(f, IF f.g.status = "generating" THEN "reset" ELSE "markRead"))
    /\ UNCHANGED <<game, bundle, task, relay, alone, calls, faults>>

Reset(h) ==   \* the game of a timed-out task, by id
    /\ In(h, "reset")
    /\ WriteGame(h, At(run[h], "markRead"), [game EXCEPT !.status = run[h].row.base])
    /\ UNCHANGED <<bundle, task, engine>>

\* persistTaskCancellation reads task and game in its transaction ...
CancelRead(h) ==
    /\ In(h, "cancelRead")
    /\ Goes(h, [At(run[h], "cancelWrite") EXCEPT !.g = game])
    /\ UNCHANGED <<game, bundle, task, engine>>

\* ... and cancels the task whatever has become of it.
CancelWrite(h) ==
    LET f == run[h] IN
    /\ In(h, "cancelWrite")
    /\ task' = [task EXCEPT ![f.t].status = "canceled"]
    /\ IF f.g.status = "generating"
       THEN WriteGame(h, Done(f), [game EXCEPT !.status = task[f.t].base])
       ELSE Goes(h, Done(f)) /\ UNCHANGED game
    /\ UNCHANGED <<bundle, engine>>

\* failIterationTask leaves succeeded and canceled tasks alone ...
FailTask(h) ==
    /\ In(h, "failTask")
    /\ Goes(h, IF task[run[h].t].status \in {"succeeded", "canceled"}
               THEN Done(run[h]) ELSE At(run[h], "failGame"))
    /\ UNCHANGED <<game, bundle, task, engine>>

\* ... and banned games.
FailGame(h) ==
    /\ In(h, "failGame")
    /\ Goes(h, IF game.status = "banned" THEN Done(run[h]) ELSE At(run[h], "failWrite"))
    /\ UNCHANGED <<game, bundle, task, engine>>

FailWrite(h) ==   \* persistFailureState: the game goes back to the base status
    /\ In(h, "failWrite")
    /\ WriteGame(h, At(run[h], "markRead"), [game EXCEPT !.status = task[run[h].t].base])
    /\ UNCHANGED <<bundle, task, engine>>

\* markFailed.  A relayed failure marks the task first, then the game.
Marked(f) == IF f.goal = "relayed" THEN Aim(f, "failTask", "failed") ELSE Done(f)
MarkRead(h) ==
    /\ In(h, "markRead")
    /\ Goes(h, IF task[run[h].t].status \in Final THEN Marked(run[h]) ELSE At(run[h], "markWrite"))
    /\ UNCHANGED <<game, bundle, task, engine>>
MarkAsAsked(h) ==                                                \* mutant
    /\ In(h, "markWrite")
    /\ task' = [task EXCEPT ![run[h].t].status = run[h].goal]
    /\ Goes(h, Marked(run[h]))
    /\ UNCHANGED <<game, bundle, engine>>
MarkWrite(h) ==
    LET f == run[h] IN
    /\ In(h, "markWrite")
    /\ task' = [task EXCEPT ![f.t].status = IF f.goal = "timed_out" THEN "timed_out" ELSE "failed"]
    /\ Goes(h, Marked(f))
    /\ UNCHANGED <<game, bundle, engine>>
-----------------------------------------------------------------------------
(* completeIterationTask: the checks, the bundle, the game, the task.      *)

MayTask(h) ==   \* the text may be unusable; then assertTaskCanPersistResult
    LET f == run[h] IN
    /\ In(h, "mayTask")
    /\ \/ \E n \in Thrown(f, "error") : Goes(h, n)
       \/ IF task[f.t].status \in Final THEN \E n \in Thrown(f, "aborted") : Goes(h, n)
          ELSE Goes(h, At(f, "mayGame"))
    /\ UNCHANGED <<game, bundle, task, engine>>

MayGame(h) ==
    LET f == run[h] IN
    /\ In(h, "mayGame")
    /\ IF game.status = "banned" THEN \E n \in Thrown(f, "aborted") : Goes(h, n)
       ELSE Goes(h, At(f, "pubGame"))
    /\ UNCHANGED <<game, bundle, task, engine>>

\* A try of persistGeneratedGameResult failed.  Every error is tried again.
Retried(f, why) ==
    IF f.try < MaxAttempts THEN {[At(f, "pubGame") EXCEPT !.try = @ + 1]} ELSE Thrown(f, why)

PublishUnsaved(h) ==                                             \* mutant
    /\ In(h, "pubGame") /\ Goes(h, [At(run[h], "pubSwap") EXCEPT !.seen = game])
    /\ UNCHANGED <<game, bundle, task, engine>>
PublishRead(h) ==
    LET f == run[h] IN
    /\ In(h, "pubGame")
    /\ IF game.version > f.row.version THEN \E n \in Retried(f, "superseded") : Goes(h, n)
       ELSE Goes(h, [At(f, "pubBundle") EXCEPT !.seen = game])
    /\ UNCHANGED <<game, bundle, task, engine>>

Owned(f) == bundle[f.row.version] \notin {"none", f.t}
PublishBundle(h) ==   \* saveBundle creates the row, once
    LET f == run[h] IN
    /\ In(h, "pubBundle")
    /\ IF Owned(f) THEN (\E n \in Retried(f, "superseded") : Goes(h, n)) /\ UNCHANGED bundle
       ELSE Goes(h, At(f, "pubSwap")) /\ bundle' = [bundle EXCEPT ![f.row.version] = f.t]
    /\ UNCHANGED <<game, task, engine>>

\* updateMany, conditional on version and status as this try has read them.
\* The completion by reconcileTaskWithUpstream is not told the base status.
Unmoved(f) == game.version = f.seen.version /\ game.status = f.seen.status
ToldBase(f) == IF f.via = "upstream" THEN "draft" ELSE f.row.base
PublishSwap(h) ==
    LET f == run[h] IN
    /\ In(h, "pubSwap") /\ Unmoved(f)
    /\ WriteGame(h, At(f, "succRead"),
          [game EXCEPT !.status = ToldBase(f),
                       !.version = IF ToldBase(f) = "published" THEN @ ELSE f.row.version])
    /\ UNCHANGED <<bundle, task, engine>>
PublishRetry(h) ==
    LET f == run[h] IN
    /\ In(h, "pubSwap") /\ ~Unmoved(f)
    /\ \E n \in Retried(f, IF game.version > f.row.version THEN "superseded" ELSE "error") : Goes(h, n)
    /\ UNCHANGED <<game, bundle, task, engine>>

SucceedRead(h) ==   \* markSucceeded
    LET f == run[h] IN
    /\ In(h, "succRead")
    /\ Goes(h, IF task[f.t].status \in Final THEN Done(f) ELSE At(f, "succWrite"))
    /\ UNCHANGED <<game, bundle, task, engine>>
SucceedWrite(h) ==
    /\ In(h, "succWrite")
    /\ task' = [task EXCEPT ![run[h].t].status = "succeeded"]
    /\ Goes(h, Done(run[h]))
    /\ UNCHANGED <<game, bundle, engine>>

Ban(h) ==
    /\ In(h, "ban")
    /\ WriteGame(h, Idle, [game EXCEPT !.status = "banned"])
    /\ UNCHANGED <<bundle, task, engine>>
-----------------------------------------------------------------------------
(* The AI engine and crashes.                                              *)

Progress(t) ==   \* the last report comes with the stored response
    /\ up[t] = "running" /\ task[t].status \in Active
    /\ \E s \in {task[t].stored, TRUE} :
          task' = [task EXCEPT ![t] = [Started(@) EXCEPT !.stored = s]]
    /\ UNCHANGED <<game, bundle, engine, run>>

UpEnds(t) ==   \* a failing pipeline relays its failure before that
    /\ up[t] = "running"
    /\ \/ up' = [up EXCEPT ![t] = "succeeded"] /\ UNCHANGED relay
       \/ /\ ~task[t].stored
          /\ up' = [up EXCEPT ![t] = "failed"]
          /\ relay' \in {relay, relay \cup {t}}
    /\ UNCHANGED <<game, bundle, task, run, alone, calls, faults>>

UpLost(t) ==
    /\ up[t] # "none" /\ faults < MaxFaults /\ calls + faults < MaxCalls
    /\ up' = [up EXCEPT ![t] = "gone"] /\ faults' = faults + 1
    /\ UNCHANGED <<game, bundle, task, relay, run, alone, calls>>

Crash(h) ==
    /\ run[h] # Idle /\ faults < MaxFaults /\ calls + faults < MaxCalls
    /\ Goes(h, Idle) /\ faults' = faults + 1
    /\ UNCHANGED <<game, bundle, task, up, relay, alone, calls>>

Step(h) ==
    \/ EditReadGame(h) \/ Ensure(h) \/ Recheck(h) \/ ReadLatest(h) \/ Claim(h) \/ Publish(h)
    \/ ReadTask(h) \/ ReadGame(h) \/ Fetch(h) \/ MarkRunning(h) \/ Launch(h) \/ Bind(h)
    \/ Stop(h) \/ Reset(h) \/ CancelRead(h) \/ CancelWrite(h)
    \/ FailTask(h) \/ FailGame(h) \/ FailWrite(h) \/ MarkRead(h) \/ MarkWrite(h)
    \/ MayTask(h) \/ MayGame(h) \/ PublishRead(h) \/ PublishBundle(h) \/ PublishSwap(h)
    \/ PublishRetry(h) \/ SucceedRead(h) \/ SucceedWrite(h) \/ Ban(h)
BeginAny(h) == BeginEdit(h) \/ BeginDelete(h) \/ \E t \in Task : BeginOnTask(h, t) \/ BeginRelay(h, t)
Next ==
    \/ \E h \in Handler : BeginAny(h) \/ Step(h) \/ Crash(h)
    \/ \E t \in Task : Progress(t) \/ UpEnds(t) \/ UpLost(t)
Spec == Init /\ [][Next]_vars
-----------------------------------------------------------------------------
(* Properties.                                                             *)

\* A game has one iteration at a time, although iterate() looks for another
\* task, reads the bundles and claims the game in separate statements and a
\* published game does not show that an iteration is under way.
OneActiveTask == \A s, t \in ActiveTasks : s = t

\* Between handlers game, tasks and bundles agree: the version a game serves
\* is stored, a task that succeeded has stored its own version, and a game is
\* in generation only while a task is active that will take it out again.
\* The second may fail once handlers have overlapped: the late result of a
\* canceled task then takes the version of the next one.
Quiet == \A h \in Handler : run[h] = Idle
RowsAgree ==
    /\ Stored(game.version)
    /\ alone => \A t \in Task : task[t].status = "succeeded" => bundle[task[t].version] = t
    /\ Quiet /\ faults = 0 /\ game.status = "generating" => ActiveTasks # {}

\* A published game stays published, at the version it serves, until its
\* author publishes again or deletes it.  Not so even for handlers that take
\* turns: an iteration completed by reconcileTaskWithUpstream is not told the
\* base status, and a failure reported again or late, after the author has
\* published, resets the game to it.
PublishedStays ==
    [][ alone' /\ game.status = "published" =>
            \/ game'.status = "banned"
            \/ game'.status = "published" /\ (\/ game'.version = game.version
                                             \/ \E h \in Handler : In(h, "publish")) ]_vars
=============================================================================
