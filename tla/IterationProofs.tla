--------------------------- MODULE IterationProofs ---------------------------
(***************************************************************************)
(* That a game has one active iteration and that game, tasks and bundles    *)
(* agree, for any number of handlers, tasks, versions, calls and faults.    *)
(*                                                                         *)
(* The argument for the first (IInv): the copy of a game that iterate() has *)
(* read stays fresh only while no other iteration claims the game, since a  *)
(* claim writes the row.  While it is fresh, the tasks that are active can  *)
(* only be the one that was found by ensureNoActiveTaskForGame, and once    *)
(* that has ended, none.                                                   *)
(*                                                                         *)
(* For the second (Held): while handlers take turns, what a handler has     *)
(* read of its task is still true (Turns).  However they interleave, a game *)
(* in generation is owed to some task: the task is active, or a handler is  *)
(* on its way to reset the game, and no handler is about to end that task   *)
(* on the word of a copy of the game (Owed).                               *)
(***************************************************************************)
EXTENDS Iteration, TLAPS

\* Where a handler has no task, or need not have one.
Free == {"game", "ensure", "latest", "claim", "publish", "ban"}

Special == {"ensure", "latest", "claim", "publish", "pubSwap"}

Good(f) ==
    \/ f = Idle
    \/ /\ f \in Frame
       /\ f.pc \notin Free => f.t \in Task
       /\ f.fresh /\ f.pc # "ensure" => ActiveTasks \subseteq {f.t}
       /\ f.fresh /\ f.pc \in {"latest", "claim"} => ActiveTasks = {}
       /\ f.pc = "publish" => Stored(f.top)
       /\ f.pc = "pubSwap" => Stored(f.row.version)

Rows ==
    /\ game \in GameRow
    /\ bundle \in [Version -> Task \cup {"none", "origin"}]
    /\ task \in [Task -> TaskRow]
    /\ run \in [Handler -> Frame \cup {Idle}]

Engine ==
    /\ up \in [Task -> {"none", "running", "succeeded", "failed", "canceled", "gone"}]
    /\ relay \subseteq Task
    /\ alone \in BOOLEAN /\ calls \in 0..MaxCalls /\ faults \in 0..MaxFaults

IInv ==
    /\ Rows
    /\ \A h \in Handler : Good(run[h])
    /\ OneActiveTask
    /\ Stored(game.version)
-----------------------------------------------------------------------------
(* Frames.                                                                 *)

\* What a step makes of the frame f of its handler, but for a few steps.
Moved(f, n) ==
    \/ n = Idle
    \/ /\ n \in Frame /\ n.t = f.t /\ n.fresh = f.fresh
       /\ n.pc \notin Special
       /\ n.pc \notin Free => f.pc \notin Free

\* Two moves are one.
LEMMA MovedOn ==
    ASSUME NEW f \in Frame, NEW a \in Frame, NEW n, Moved(f, a), Moved(a, n)
    PROVE  Moved(f, n)
BY DEF Moved, Frame, Program, Idle, Special

\* The values a frame starts from have their types.
LEMMA Values ==
    /\ 1 \in Version /\ 1 \in 1..MaxAttempts
    /\ NoTask \in TaskRow /\ Unread \in GameRow
BY ConstantsAssumption
   DEF Version, NoTask, TaskRow, Unread, GameRow, Base, Active, Final

\* A frame that goes elsewhere is a frame of the same handler.
LEMMA AtTyped ==
    ASSUME NEW f \in Frame, NEW pc \in Program
    PROVE  /\ At(f, pc) \in Frame
           /\ At(f, pc).t = f.t /\ At(f, pc).fresh = f.fresh /\ At(f, pc).pc = pc
           /\ At(f, pc).top = f.top /\ At(f, pc).op = f.op
           /\ pc \notin Tail => At(f, pc).row = f.row /\ At(f, pc).g = f.g
<1>1. CASE pc \notin Tail
  BY <1>1 DEF At, Frame
<1>2. CASE pc \in Tail
  BY <1>2, Values DEF At, Frame
<1> QED
  BY <1>1, <1>2

\* Where a handler goes keeps it moving.
LEMMA AtMoved ==
    ASSUME NEW f \in Frame, f.pc \notin Free,
           NEW pc \in Program \ Special
    PROVE  Moved(f, At(f, pc))
BY AtTyped DEF Moved, Special

LEMMA AimMoved ==
    ASSUME NEW f \in Frame, f.pc \notin Free,
           NEW pc \in Program \ Special,
           NEW goal \in {"failed", "timed_out", "canceled", "relayed"}
    PROVE  Moved(f, Aim(f, pc, goal)) /\ Aim(f, pc, goal) \in Frame
<1> DEFINE a == At(f, pc)
<1>1. a \in Frame /\ a.t = f.t /\ a.fresh = f.fresh /\ a.pc = pc
  BY AtTyped
<1>2. Aim(f, pc, goal) = [a EXCEPT !.goal = goal]
  BY DEF Aim
<1> QED
  BY <1>1, <1>2 DEF Moved, Frame, Special

\* Handlers that are done with a task go on to something else, or stop.
LEMMA DoneMoved ==
    ASSUME NEW f \in Frame, f.pc \notin Free
    PROVE  Moved(f, Done(f)) /\ Moved(f, Unresolved(f))
<1>1. Moved(f, At(f, "recheck")) /\ Moved(f, At(f, "ban"))
  BY AtMoved DEF Program, Special
<1>2. Moved(f, Idle)
  BY DEF Moved, Special
<1>3. f.op \in {"iterate", "publish", "delete", "deliver", "status", "cancel", "relay"}
  BY DEF Frame
<1>4. Done(f) \in {At(f, "recheck"), At(f, "ban"), Idle}
  BY <1>3 DEF Done
<1> QED
  BY <1>1, <1>2, <1>4 DEF Unresolved

LEMMA CompleteMoved ==
    ASSUME NEW f \in Frame, f.pc \notin Free,
           NEW via \in {"upstream", "timed_out", "missing", "running"}
    PROVE  Moved(f, Complete(f, via))
BY DEF Complete, Moved, Frame, Program, Free, Special

LEMMA LostMoved ==
    ASSUME NEW f \in Frame, f.pc \notin Free, NEW n \in Lost(f)
    PROVE  Moved(f, n)
BY DoneMoved, AimMoved DEF Lost, Program, Special

\* What became of a completion that threw.
LEMMA ThrownMoved ==
    ASSUME NEW f \in Frame, f.pc \notin Free,
           NEW why \in {"superseded", "aborted", "error"}, NEW n \in Thrown(f, why)
    PROVE  Moved(f, n)
<1>1. Moved(f, At(f, "stop")) /\ Moved(f, At(f, "cancelRead"))
      /\ Moved(f, Aim(f, "failTask", "failed"))
  BY AtMoved, AimMoved DEF Program, Special
<1>2. f.via \in {"upstream", "timed_out", "missing", "running"}
  BY DEF Frame
<1>3. \/ n \in {At(f, "stop"), At(f, "cancelRead"), Aim(f, "failTask", "failed"),
                Unresolved(f), Done(f)}
      \/ n \in Lost(f)
  BY <1>2 DEF Thrown
<1> QED
  BY <1>1, <1>3, DoneMoved, LostMoved

\* Another try.
LEMMA TryTyped ==
    ASSUME NEW a \in Frame, NEW i \in 1..MaxAttempts, NEW n, n = [a EXCEPT !.try = i]
    PROVE  n \in Frame /\ n.t = a.t /\ n.fresh = a.fresh /\ n.pc = a.pc
BY DEF Frame

\* A try of persistGeneratedGameResult that failed.
LEMMA RetriedMoved ==
    ASSUME NEW f \in Frame, f.pc \notin Free,
           NEW why \in {"superseded", "aborted", "error"}, NEW n \in Retried(f, why)
    PROVE  Moved(f, n)
<1>1. CASE f.try < MaxAttempts
  <2> DEFINE a == At(f, "pubGame")
  <2>1. a \in Frame /\ a.t = f.t /\ a.fresh = f.fresh /\ a.pc = "pubGame"
    BY AtTyped DEF Program
  <2>9. a.try = f.try
    BY DEF At, Tail, Frame
  <2>2. f.try + 1 \in 1..MaxAttempts
    BY <1>1, ConstantsAssumption DEF Frame
  <2>3. n = [a EXCEPT !.try = f.try + 1]
    BY <1>1, <2>9 DEF Retried
  <2>4. n \in Frame /\ n.t = a.t /\ n.fresh = a.fresh /\ n.pc = a.pc
    BY <2>1, <2>2, <2>3, TryTyped
  <2> QED
    BY <2>1, <2>4 DEF Moved, Special
<1>2. CASE ~(f.try < MaxAttempts)
  BY <1>2, ThrownMoved DEF Retried
<1> QED
  BY <1>1, <1>2

\* How reconcileGenerationTask goes on once it has read task and game.
LEMMA SettleMoved ==
    ASSUME NEW f \in Frame, f.pc \notin Free,
           NEW r \in {"canceled", "succeeded", "timed_out"}
    PROVE  Moved(f, Settle(f, r))
<1> DEFINE a == Aim(f, "mayTask", "timed_out")
<1>1. /\ Moved(f, Aim(f, "stop", "canceled")) /\ Moved(f, Aim(f, "stop", "timed_out"))
      /\ Moved(f, At(f, "succRead"))
  BY AtMoved, AimMoved DEF Program, Special
<1>2. a \in Frame /\ Moved(f, a)
  BY AimMoved DEF Program, Special
<1>3. a.pc = "mayTask"
  <2> DEFINE b == At(f, "mayTask")
  <2>1. b \in Frame /\ b.pc = "mayTask"
    BY AtTyped DEF Program
  <2> QED
    BY <2>1 DEF Aim, Frame
<1>4. Moved(a, Complete(a, "timed_out"))
  BY <1>2, <1>3, CompleteMoved DEF Free
<1>5. Moved(f, Complete(a, "timed_out"))
  BY <1>2, <1>3, <1>4, MovedOn
<1> QED
  BY <1>1, <1>5 DEF Settle

LEMMA DecideMoved ==
    ASSUME NEW f \in Frame, f.pc \notin Free, NEW n \in Decide(f)
    PROVE  Moved(f, n)
<1>1. \A r \in {"canceled", "succeeded", "timed_out"} : Moved(f, Settle(f, r))
  BY SettleMoved
<1>2. Moved(f, At(f, "run")) /\ Moved(f, At(f, "fetch"))
  BY AtMoved DEF Program, Special
<1>3. \A r \in Resolution(f) : r \in {"none", "canceled", "succeeded", "timed_out"}
  BY DEF Resolution
<1>4. \/ n \in {Done(f), Unresolved(f), At(f, "run"), At(f, "fetch")}
      \/ \E r \in {"canceled", "succeeded", "timed_out"} : n = Settle(f, r)
  BY <1>3 DEF Decide
<1> QED
  BY <1>1, <1>2, <1>4, DoneMoved
-----------------------------------------------------------------------------
(* Steps.                                                                  *)

\* A handler that is somewhere has a frame.
LEMMA Framed ==
    ASSUME IInv, NEW h \in Handler, run[h].pc # "idle"
    PROVE  run[h] \in Frame /\ Good(run[h])
BY DEF IInv, Rows, Idle

\* A frame moved to is a good one, and so is one that has been overtaken.
LEMMA MovedGood ==
    ASSUME NEW f \in Frame, Good(f), f.pc # "ensure", NEW n, Moved(f, n)
    PROVE  Good(n)
<1>1. f # Idle
  BY DEF Frame, Program, Idle
<1> QED
  BY <1>1 DEF Good, Moved, Special

LEMMA OvertakenGood ==
    ASSUME NEW f, Good(f)
    PROVE  Good(Overtaken(f)) /\ Overtaken(f).pc = f.pc /\ Overtaken(f).fresh = FALSE
<1>1. CASE f = Idle
  <2>1. Overtaken(f) = Idle /\ Idle.fresh = FALSE
    BY <1>1 DEF Overtaken, Idle
  <2> QED
    BY <1>1, <2>1 DEF Good
<1>2. CASE f \in Frame
  <2> DEFINE n == Overtaken(f)
  <2>1. n \in Frame /\ n.t = f.t /\ n.fresh = FALSE /\ n.pc = f.pc /\ n.top = f.top /\ n.row = f.row
    BY <1>2 DEF Overtaken, Frame
  <2>2. f # Idle
    BY <1>2 DEF Frame, Program, Idle
  <2> QED
    BY <2>1, <2>2 DEF Good
<1> QED
  BY <1>1, <1>2 DEF Good

\* A good frame is one of the type.
LEMMA GoodTyped == ASSUME NEW f, Good(f) PROVE f \in Frame \cup {Idle}
BY DEF Good

\* A handler goes on, with or without a write of the game.
LEMMA RunGood ==
    ASSUME IInv, NEW h \in Handler, NEW n, Good(n),
           \/ run' = [run EXCEPT ![h] = n]
           \/ run' = [k \in Handler |-> Overtaken(IF k = h THEN n ELSE run[k])]
    PROVE  run' \in [Handler -> Frame \cup {Idle}] /\ \A k \in Handler : Good(run'[k])
<1>1. CASE run' = [run EXCEPT ![h] = n]
  BY <1>1, GoodTyped DEF IInv, Rows
<1>2. CASE run' = [k \in Handler |-> Overtaken(IF k = h THEN n ELSE run[k])]
  <2>1. ASSUME NEW k \in Handler PROVE Good(run'[k])
    BY <1>2, <2>1, OvertakenGood DEF IInv
  <2> QED
    BY <1>2, <2>1, GoodTyped
<1> QED
  BY <1>1, <1>2

\* Good frames stay good while tasks end and bundles are added.
LEMMA StaysGood ==
    ASSUME NEW f, Good(f), ActiveTasks' \subseteq ActiveTasks,
           \A v \in Version : Stored(v) => Stored(v)'
    PROVE  \/ f = Idle
           \/ /\ f \in Frame
              /\ f.pc \notin Free => f.t \in Task
              /\ f.fresh /\ f.pc # "ensure" => ActiveTasks' \subseteq {f.t}
              /\ f.fresh /\ f.pc \in {"latest", "claim"} => ActiveTasks' = {}
              /\ f.pc = "publish" => Stored(f.top)'
              /\ f.pc = "pubSwap" => Stored(f.row.version)'
BY DEF Good, Frame, TaskRow

\* A step in which no task becomes active and no bundle is lost.
LEMMA Kept ==
    ASSUME IInv, Rows', \A k \in Handler : Good(run'[k]),
           ActiveTasks' \subseteq ActiveTasks,
           \A v \in Version : Stored(v) => Stored(v)', Stored(game.version)'
    PROVE  IInv'
<1>1. ASSUME NEW k \in Handler PROVE Good(run[k])'
  BY <1>1, StaysGood DEF Good
<1>2. OneActiveTask'
  BY DEF IInv, OneActiveTask
<1> QED
  BY <1>1, <1>2 DEF IInv

\* A step that leaves tasks and bundles alone.
LEMMA Rests ==
    ASSUME IInv, UNCHANGED <<bundle, task>>, NEW h \in Handler, NEW n, Good(n),
           \/ run' = [run EXCEPT ![h] = n] /\ UNCHANGED game
           \/ \E g \in GameRow : WriteGame(h, n, g) /\ Stored(g.version)
    PROVE  IInv'
<1>1. run' \in [Handler -> Frame \cup {Idle}] /\ \A k \in Handler : Good(run'[k])
  BY RunGood DEF WriteGame
<1>2. ActiveTasks' = ActiveTasks /\ \A v \in Version : Stored(v)' = Stored(v)
  BY DEF ActiveTasks, Stored
<1>3. game' \in GameRow /\ Stored(game.version)'
  BY DEF IInv, Rows, WriteGame, Stored
<1>4. Rows'
  BY <1>1, <1>3 DEF Rows, IInv
<1> QED
  BY <1>1, <1>2, <1>3, <1>4, Kept

\* A handler moves on from a frame it does not read the game in.
LEMMA MoveRests ==
    ASSUME IInv, UNCHANGED <<bundle, task>>, NEW h \in Handler,
           run[h].pc \notin Free \cup {"idle"}, NEW n, Moved(run[h], n),
           \/ Goes(h, n) /\ UNCHANGED game
           \/ \E g \in GameRow : WriteGame(h, n, g) /\ Stored(g.version)
    PROVE  IInv'
<1>1. Good(n)
  BY Framed, MovedGood DEF Free
<1> QED
  BY <1>1, Rests DEF Goes

\* Handlers begin.
LEMMA BeginStep ==
    ASSUME IInv, NEW h \in Handler, BeginAny(h)
    PROVE  IInv'
<1>1. PICK op \in {"iterate", "publish", "delete", "deliver", "status", "cancel", "relay"},
           t \in Task \cup {"none"}, pc \in {"game", "ban", "readTask", "markRead"} :
         Begin(h, op, t, pc) /\ (pc \in {"readTask", "markRead"} => t \in Task)
  <2>1. CASE BeginEdit(h) \/ BeginDelete(h)
    BY <2>1 DEF BeginEdit, BeginDelete, ActiveTasks
  <2>2. ASSUME NEW t \in Task, BeginOnTask(h, t) \/ BeginRelay(h, t)
        PROVE  \E op \in {"status", "cancel", "deliver", "relay"}, pc \in {"readTask", "markRead"} :
                  Begin(h, op, t, pc)
    BY <2>2 DEF BeginOnTask, BeginRelay
  <2> QED
    BY <2>1, <2>2 DEF BeginAny
<1> DEFINE n == [pc |-> pc, op |-> op, t |-> t, row |-> NoTask, g |-> Unread, seen |-> Unread,
                 fresh |-> FALSE, top |-> 1,
                 goal |-> IF op = "relay" THEN "relayed" ELSE "failed",
                 via |-> "upstream", try |-> 1]
<1>2. n \in Frame
  BY Values DEF Frame, Program
<1>3. Good(n)
  BY <1>1, <1>2 DEF Good, Free
<1> QED
  BY <1>1, <1>3, Rests DEF Begin, Goes

\* iterate() and publish(), up to their writes.
LEMMA EditStep ==
    ASSUME IInv, NEW h \in Handler,
           EditReadGame(h) \/ Ensure(h) \/ Recheck(h) \/ ReadLatest(h)
    PROVE  IInv'
<1>0. run[h] \in Frame /\ Good(run[h]) /\ UNCHANGED <<game, bundle, task>> /\ Good(Idle)
  BY Framed DEF EditReadGame, Ensure, Recheck, ReadLatest, In, Good
<1> SUFFICES \E n : Good(n) /\ Goes(h, n)
  BY <1>0, Rests DEF Goes
<1>1. CASE EditReadGame(h)
  <2> DEFINE a == At(run[h], "ensure")
             n == [a EXCEPT !.fresh = run[h].op = "iterate"]
  <2>1. a \in Frame /\ a.pc = "ensure"
    BY <1>0, AtTyped DEF Program
  <2>2. n \in Frame /\ n.pc = "ensure"
    BY <2>1 DEF Frame
  <2>3. Good(n)
    BY <2>2 DEF Good, Free
  <2>4. Goes(h, n) \/ Goes(h, Idle)
    BY <1>1 DEF EditReadGame
  <2> QED
    BY <1>0, <2>3, <2>4
<1>2. CASE Ensure(h)
  <2>1. CASE ActiveTasks = {} /\ Goes(h, At(run[h], "latest"))
    <3> DEFINE n == At(run[h], "latest")
    <3>1. n \in Frame /\ n.pc = "latest"
      BY <1>0, AtTyped DEF Program
    <3>2. Good(n)
      BY <2>1, <3>1 DEF Good, Free
    <3> QED
      BY <2>1, <3>2
  <2>2. ASSUME NEW t \in ActiveTasks,
               Goes(h, [At(run[h], "readGame") EXCEPT !.t = t, !.row = task[t]])
        PROVE  \E n : Good(n) /\ Goes(h, n)
    <3> DEFINE a == At(run[h], "readGame")
               n == [a EXCEPT !.t = t, !.row = task[t]]
    <3>1. a \in Frame /\ a.pc = "readGame"
      BY <1>0, AtTyped DEF Program
    <3>2. t \in Task /\ task[t] \in TaskRow
      BY <2>2 DEF IInv, Rows, ActiveTasks
    <3>3. n \in Frame /\ n.pc = "readGame" /\ n.t = t
      BY <3>1, <3>2 DEF Frame
    <3>4. ActiveTasks \subseteq {t}
      BY <2>2 DEF IInv, OneActiveTask
    <3>5. Good(n)
      BY <3>2, <3>3, <3>4 DEF Good
    <3> QED
      BY <2>2, <3>5
  <2> QED
    BY <1>2, <2>1, <2>2 DEF Ensure
<1>3. CASE Recheck(h)
  <2> DEFINE a == At(run[h], "latest")
             n == [a EXCEPT !.t = "none"]
  <2>1. a \in Frame /\ a.pc = "latest" /\ a.fresh = run[h].fresh
    BY <1>0, AtTyped DEF Program
  <2>2. n \in Frame /\ n.pc = "latest" /\ n.fresh = run[h].fresh
    BY <2>1 DEF Frame
  <2>3. CASE task[run[h].t].status \notin Active
    <3>1. run[h].fresh => ActiveTasks = {}
      BY <1>0, <1>3, <2>3 DEF Recheck, In, Good, Idle, ActiveTasks
    <3>2. Good(n)
      BY <2>2, <3>1 DEF Good, Free
    <3> QED
      BY <1>3, <2>3, <3>2 DEF Recheck
  <2>4. CASE task[run[h].t].status \in Active
    BY <1>0, <1>3, <2>4 DEF Recheck
  <2> QED
    BY <2>3, <2>4
<1>4. CASE ReadLatest(h)
  <2>1. PICK v \in Version : IsLatest(v) /\
          Goes(h, [At(run[h], IF run[h].op = "iterate" THEN "claim" ELSE "publish") EXCEPT !.top = v])
    BY <1>4 DEF ReadLatest
  <2> DEFINE pc == IF run[h].op = "iterate" THEN "claim" ELSE "publish"
             a == At(run[h], pc)
             n == [a EXCEPT !.top = v]
  <2>2. pc \in {"claim", "publish"}
    OBVIOUS
  <2>3. a \in Frame /\ a.pc = pc /\ a.fresh = run[h].fresh /\ a.t = run[h].t
    BY <1>0, <2>2, AtTyped DEF Program
  <2>4. n \in Frame /\ n.pc = pc /\ n.fresh = run[h].fresh /\ n.t = run[h].t /\ n.top = v
    BY <2>3 DEF Frame
  <2>5. run[h].fresh => ActiveTasks = {}
    BY <1>0, <1>4 DEF ReadLatest, In, Good, Idle
  <2>6. Good(n)
    BY <2>1, <2>2, <2>4, <2>5 DEF Good, Free, IsLatest
  <2> QED
    BY <2>1, <2>6
<1> QED
  BY <1>1, <1>2, <1>3, <1>4

\* The claim: the game has not been written since, so no task is active.
LEMMA ClaimStep ==
    ASSUME IInv, NEW h \in Handler, Claim(h)
    PROVE  IInv'
<1> DEFINE f == run[h]
<1>0. f \in Frame /\ Good(f) /\ f.pc = "claim" /\ Good(Idle)
  BY Framed DEF Claim, In, Good
<1>1. CASE Goes(h, Idle) /\ UNCHANGED <<game, task>>
  BY <1>0, <1>1, Rests DEF Claim, Goes
<1>2. ASSUME NEW t \in Task, CopyHolds(f), NextVersion(f) \in Version, task[t] = NoTask,
             task' = [task EXCEPT ![t] = [NoTask EXCEPT !.status = "queued",
                                !.version = NextVersion(f), !.base = BaseStatus]],
             WriteGame(h, Idle, [game EXCEPT !.status = InFlight(BaseStatus)])
      PROVE  IInv'
  <2> DEFINE g == [game EXCEPT !.status = InFlight(BaseStatus)]
             row == [NoTask EXCEPT !.status = "queued",
                                !.version = NextVersion(f), !.base = BaseStatus]
  <2>1. BaseStatus \in Base /\ InFlight(BaseStatus) \in Base \cup {"generating"}
    BY DEF BaseStatus, Base, InFlight
  <2>2. g \in GameRow /\ g.version = game.version
    BY <2>1 DEF IInv, Rows, GameRow
  <2>3. row \in TaskRow
    BY <1>2, <2>1 DEF NoTask, TaskRow, Active
  <2>4. run' \in [Handler -> Frame \cup {Idle}] /\ \A k \in Handler : Good(run'[k]) /\ run'[k].fresh = FALSE
    <3>1. run' = [k \in Handler |-> Overtaken(IF k = h THEN Idle ELSE run[k])]
      BY <1>2 DEF WriteGame
    <3>2. ASSUME NEW k \in Handler PROVE Good(run'[k]) /\ run'[k].fresh = FALSE
      BY <1>0, <3>1, <3>2, OvertakenGood DEF IInv
    <3> QED
      BY <3>1, <3>2, GoodTyped
  <2>5. ActiveTasks = {}
    BY <1>0, <1>2, ConstantsAssumption DEF CopyHolds, Good, Idle, ActiveTasks, Free
  <2>6. ActiveTasks' \subseteq {t}
    BY <1>2, <2>5 DEF ActiveTasks, IInv, Rows
  <2>7. Rows'
    BY <1>2, <2>2, <2>3, <2>4 DEF Rows, IInv, WriteGame, Claim
  <2>8. bundle' = bundle
    BY DEF Claim
  <2>9. \A k \in Handler : Good(run[k])'
    BY <2>4, <2>8 DEF Good, Stored
  <2>10. Stored(game.version)'
    BY <1>2, <2>2, <2>8 DEF WriteGame, Stored, IInv
  <2> QED
    BY <2>6, <2>7, <2>9, <2>10 DEF IInv, OneActiveTask
<1> QED
  BY <1>1, <1>2 DEF Claim

\* Writes of the game by id.
LEMMA WriteStep ==
    ASSUME IInv, NEW h \in Handler, Publish(h) \/ Ban(h)
    PROVE  IInv'
<1>0. run[h] \in Frame /\ Good(run[h]) /\ UNCHANGED <<bundle, task>> /\ Good(Idle)
  BY Framed DEF Publish, Ban, In, Good
<1>1. CASE Publish(h)
  <2> DEFINE g == [status |-> "published", version |-> run[h].top, live |-> TRUE]
  <2>1. Stored(run[h].top)
    BY <1>0, <1>1 DEF Publish, In, Good, Idle
  <2>2. g \in GameRow
    BY <1>0 DEF GameRow, Frame, Base
  <2> QED
    BY <1>0, <1>1, <2>1, <2>2, Rests DEF Publish
<1>2. CASE Ban(h)
  <2>1. [game EXCEPT !.status = "banned"] \in GameRow
        /\ [game EXCEPT !.status = "banned"].version = game.version
    BY DEF IInv, Rows, GameRow
  <2> QED
    BY <1>0, <1>2, <2>1, Rests DEF Ban, IInv
<1> QED
  BY <1>1, <1>2

\* A handler reads a task, the game, the engine's answer.
LEMMA ReadStep ==
    ASSUME IInv, NEW h \in Handler,
           ReadTask(h) \/ ReadGame(h) \/ Fetch(h) \/ Launch(h) \/ CancelRead(h)
    PROVE  IInv'
<1> DEFINE f == run[h]
<1>0. f \in Frame /\ Good(f) /\ UNCHANGED <<game, bundle, task>> /\ f.pc \notin Free \cup {"idle"}
      /\ f.t \in Task
  BY Framed DEF ReadTask, ReadGame, Fetch, Launch, CancelRead, In, Free, Good, Idle
<1>9. game \in GameRow /\ task[f.t] \in TaskRow
  BY <1>0 DEF IInv, Rows
<1> SUFFICES \E n : Moved(f, n) /\ Goes(h, n)
  BY <1>0, MoveRests
<1>1. CASE ReadTask(h)
  <2> DEFINE a == At(f, "readGame")
             n == [a EXCEPT !.row = task[f.t]]
  <2>1. a \in Frame /\ a.t = f.t /\ a.fresh = f.fresh /\ a.pc = "readGame"
    BY <1>0, AtTyped DEF Program
  <2>2. n \in Frame /\ n.t = f.t /\ n.fresh = f.fresh /\ n.pc = "readGame"
    BY <1>9, <2>1 DEF Frame
  <2>3. Moved(f, n)
    BY <1>0, <2>2 DEF Moved, Special
  <2> QED
    BY <1>1, <2>3 DEF ReadTask
<1>2. CASE ReadGame(h)
  <2> DEFINE b == [f EXCEPT !.g = game]
  <2>1. b \in Frame /\ b.t = f.t /\ b.fresh = f.fresh /\ b.pc = f.pc
    BY <1>0, <1>9 DEF Frame
  <2>2. PICK n \in Decide(b) : Goes(h, n)
    BY <1>2 DEF ReadGame
  <2>3. Moved(b, n)
    BY <1>0, <2>1, <2>2, DecideMoved
  <2>4. Moved(f, n)
    BY <2>1, <2>3 DEF Moved, Special
  <2> QED
    BY <2>2, <2>4
<1>3. CASE Fetch(h)
  <2>1. Moved(f, Unresolved(f))
    BY <1>0, DoneMoved
  <2>2. \A via \in {"missing", "running", "upstream"} : Moved(f, Complete(f, via))
    BY <1>0, CompleteMoved
  <2>3. \A n \in Lost(f) : Moved(f, n)
    BY <1>0, LostMoved
  <2>4. Moved(f, At(f, "cancelRead")) /\ Moved(f, Aim(f, "failTask", "failed"))
    BY <1>0, AtMoved, AimMoved DEF Program, Special
  <2> QED
    BY <1>3, <2>1, <2>2, <2>3, <2>4 DEF Fetch
<1>4. CASE Launch(h)
  <2>1. Moved(f, At(f, "bind")) /\ Moved(f, Aim(f, "failTask", "failed"))
    BY <1>0, AtMoved, AimMoved DEF Program, Special
  <2> QED
    BY <1>4, <2>1 DEF Launch
<1>5. CASE CancelRead(h)
  <2> DEFINE a == At(f, "cancelWrite")
             n == [a EXCEPT !.g = game]
  <2>1. a \in Frame /\ a.t = f.t /\ a.fresh = f.fresh /\ a.pc = "cancelWrite"
    BY <1>0, AtTyped DEF Program
  <2>2. n \in Frame /\ n.t = f.t /\ n.fresh = f.fresh /\ n.pc = "cancelWrite"
    BY <1>9, <2>1 DEF Frame
  <2>3. Moved(f, n)
    BY <1>0, <2>2 DEF Moved, Special
  <2> QED
    BY <1>5, <2>3 DEF CancelRead
<1> QED
  BY <1>1, <1>2, <1>3, <1>4, <1>5

\* Resetting the status of a game leaves its version.
LEMMA StatusOnly ==
    ASSUME IInv, NEW st \in Base \cup {"generating", "banned"}
    PROVE  [game EXCEPT !.status = st] \in GameRow /\ Stored([game EXCEPT !.status = st].version)
<1>1. game \in GameRow /\ Stored(game.version)
  BY DEF IInv, Rows
<1>2. [game EXCEPT !.status = st] \in GameRow /\ [game EXCEPT !.status = st].version = game.version
  BY <1>1 DEF GameRow
<1> QED
  BY <1>1, <1>2

\* Cancelling, timing out and failing, as far as the task is not written.
LEMMA EndStep ==
    ASSUME IInv, NEW h \in Handler,
           Stop(h) \/ Reset(h) \/ FailTask(h) \/ FailGame(h) \/ FailWrite(h) \/ MarkRead(h)
    PROVE  IInv'
<1> DEFINE f == run[h]
<1>0. f \in Frame /\ Good(f) /\ UNCHANGED <<bundle, task>> /\ f.pc \notin Free \cup {"idle"}
      /\ f.t \in Task
  BY Framed DEF Stop, Reset, FailTask, FailGame, FailWrite, MarkRead, In, Free, Good, Idle
<1>1. /\ Moved(f, At(f, "cancelRead")) /\ Moved(f, At(f, "reset")) /\ Moved(f, At(f, "markRead"))
      /\ Moved(f, At(f, "failGame")) /\ Moved(f, At(f, "failWrite")) /\ Moved(f, At(f, "markWrite"))
      /\ Moved(f, Aim(f, "failTask", "failed")) /\ Moved(f, Done(f))
  BY <1>0, AtMoved, AimMoved, DoneMoved DEF Program, Special
<1>2. Moved(f, Marked(f))
  BY <1>1 DEF Marked
<1>3. CASE Reset(h) \/ FailWrite(h)
  <2>1. PICK st \in Base : WriteGame(h, At(f, "markRead"), [game EXCEPT !.status = st])
    <3>1. f.row.base \in Base /\ task[f.t].base \in Base
      BY <1>0 DEF Frame, IInv, Rows, TaskRow
    <3> QED
      BY <1>3, <3>1 DEF Reset, FailWrite
  <2> QED
    BY <1>0, <1>1, <2>1, StatusOnly, MoveRests
<1>4. CASE Stop(h) \/ FailTask(h) \/ FailGame(h) \/ MarkRead(h)
  <2>1. PICK n : Moved(f, n) /\ Goes(h, n) /\ UNCHANGED game
    BY <1>1, <1>2, <1>4 DEF Stop, FailTask, FailGame, MarkRead
  <2> QED
    BY <1>0, <2>1, MoveRests
<1> QED
  BY <1>3, <1>4

\* A write of a task that does not make it active.
LEMMA TaskWrite ==
    ASSUME IInv, UNCHANGED bundle, NEW t \in Task, NEW row \in TaskRow,
           task' = [task EXCEPT ![t] = row],
           row.status \in Active => task[t].status \in Active,
           NEW h \in Handler, run[h].pc \notin Free \cup {"idle"}, NEW n, Moved(run[h], n),
           \/ Goes(h, n) /\ UNCHANGED game
           \/ \E g \in GameRow : WriteGame(h, n, g) /\ Stored(g.version)
    PROVE  IInv'
<1>1. Good(n)
  BY Framed, MovedGood, DoneMoved DEF Free
<1>2. run' \in [Handler -> Frame \cup {Idle}] /\ \A k \in Handler : Good(run'[k])
  BY <1>1, RunGood DEF WriteGame, Goes
<1>3. ActiveTasks' \subseteq ActiveTasks
  BY DEF ActiveTasks, IInv, Rows
<1>4. game' \in GameRow /\ Stored(game.version)' /\ \A v \in Version : Stored(v)' = Stored(v)
  BY DEF IInv, Rows, WriteGame, Stored
<1>5. Rows'
  BY <1>2, <1>4 DEF Rows, IInv
<1> QED
  BY <1>2, <1>3, <1>4, <1>5, Kept

\* What is written to a task.
LEMMA Written ==
    ASSUME NEW row \in TaskRow
    PROVE  /\ Started(row) \in TaskRow
           /\ Started(row).status \in Active => row.status \in Active
           /\ [row EXCEPT !.bound = TRUE] \in TaskRow
           /\ [row EXCEPT !.bound = TRUE].status = row.status
           /\ \A s \in BOOLEAN : [Started(row) EXCEPT !.stored = s] \in TaskRow
                 /\ [Started(row) EXCEPT !.stored = s].status = Started(row).status
           /\ \A st \in Final : [row EXCEPT !.status = st] \in TaskRow
                 /\ [row EXCEPT !.status = st].status = st
<1>1. Started(row) \in TaskRow /\ (Started(row).status \in Active => row.status \in Active)
  BY DEF Started, TaskRow, Active
<1>2. [row EXCEPT !.bound = TRUE] \in TaskRow /\ [row EXCEPT !.bound = TRUE].status = row.status
  BY DEF TaskRow
<1>3. \A s \in BOOLEAN : [Started(row) EXCEPT !.stored = s] \in TaskRow
                 /\ [Started(row) EXCEPT !.stored = s].status = Started(row).status
  BY <1>1 DEF TaskRow
<1>4. \A st \in Final : [row EXCEPT !.status = st] \in TaskRow
                 /\ [row EXCEPT !.status = st].status = st
  BY DEF TaskRow
<1> QED
  BY <1>1, <1>2, <1>3, <1>4

\* Ended tasks are not active.
LEMMA Ended == Final \cap Active = {}
BY DEF Final, Active

LEMMA TaskStep ==
    ASSUME IInv, NEW h \in Handler,
           MarkRunning(h) \/ Bind(h) \/ CancelWrite(h) \/ MarkWrite(h) \/ SucceedWrite(h)
    PROVE  IInv'
<1> DEFINE f == run[h]
           row == task[f.t]
<1>0. f \in Frame /\ UNCHANGED bundle /\ f.pc \notin Free \cup {"idle"} /\ f.t \in Task
      /\ row \in TaskRow
  <2>1. f \in Frame /\ Good(f) /\ UNCHANGED bundle /\ f.pc \notin Free \cup {"idle"}
    BY Framed DEF MarkRunning, Bind, CancelWrite, MarkWrite, SucceedWrite, In, Free
  <2> QED
    BY <2>1 DEF Good, Idle, IInv, Rows
<1>1. Moved(f, Done(f)) /\ Moved(f, Marked(f)) /\ Moved(f, At(f, "launch")) /\ Moved(f, Idle)
  BY <1>0, AtMoved, AimMoved, DoneMoved DEF Program, Special, Marked, Moved
<1>2. CASE MarkRunning(h)
  BY <1>0, <1>1, <1>2, Written, TaskWrite DEF MarkRunning
<1>3. CASE Bind(h)
  <2> DEFINE new == [row EXCEPT !.bound = TRUE]
  <2>1. task' = [task EXCEPT ![f.t] = new]
    BY <1>3 DEF Bind
  <2>2. new \in TaskRow /\ new.status = row.status
    BY <1>0, Written
  <2>3. Goes(h, Idle) /\ UNCHANGED game
    BY <1>3 DEF Bind
  <2> HIDE DEF new
  <2> QED
    BY <1>0, <1>1, <2>1, <2>2, <2>3, TaskWrite
<1>4. CASE CancelWrite(h)
  <2> DEFINE new == [row EXCEPT !.status = "canceled"]
  <2>1. task' = [task EXCEPT ![f.t] = new]
    BY <1>4 DEF CancelWrite
  <2>3. new \in TaskRow /\ new.status \notin Active
    BY <1>0, Written, Ended DEF Final
  <2>2. \/ Goes(h, Done(f)) /\ UNCHANGED game
        \/ \E g \in GameRow : WriteGame(h, Done(f), g) /\ Stored(g.version)
    <3>1. row.base \in Base
      BY <1>0 DEF TaskRow
    <3> QED
      BY <1>4, <3>1, StatusOnly DEF CancelWrite
  <2> HIDE DEF new
  <2> QED
    BY <1>0, <1>1, <2>1, <2>2, <2>3, TaskWrite
<1>5. CASE MarkWrite(h) \/ SucceedWrite(h)
  <2>1. PICK st \in {"timed_out", "failed", "succeeded"} :
           task' = [task EXCEPT ![f.t] = [row EXCEPT !.status = st]]
    BY <1>5 DEF MarkWrite, SucceedWrite
  <2> DEFINE new == [row EXCEPT !.status = st]
  <2>5. st \in Final
    BY <2>1 DEF Final
  <2>2. new \in TaskRow /\ new.status \notin Active
    <3>1. new \in TaskRow /\ new.status = st
      BY <1>0, <2>5, Written
    <3> QED
      BY <2>5, <3>1, Ended
  <2>3. UNCHANGED game /\ (Goes(h, Marked(f)) \/ Goes(h, Done(f)))
    BY <1>5 DEF MarkWrite, SucceedWrite
  <2>4. task' = [task EXCEPT ![f.t] = new]
    BY <2>1
  <2> HIDE DEF new
  <2> QED
    BY <1>0, <1>1, <2>2, <2>3, <2>4, TaskWrite
<1> QED
  BY <1>2, <1>3, <1>4, <1>5

\* completeIterationTask.
LEMMA ResultStep ==
    ASSUME IInv, NEW h \in Handler,
           \/ MayTask(h) \/ MayGame(h) \/ PublishRead(h) \/ PublishBundle(h)
           \/ PublishSwap(h) \/ PublishRetry(h) \/ SucceedRead(h)
    PROVE  IInv'
<1> DEFINE f == run[h]
<1>0. f \in Frame /\ Good(f) /\ UNCHANGED task /\ f.pc \notin Free \cup {"idle"}
      /\ f.t \in Task /\ f.row \in TaskRow
  <2>1. f \in Frame /\ Good(f) /\ UNCHANGED task /\ f.pc \notin Free \cup {"idle"}
    BY Framed DEF MayTask, MayGame, PublishRead, PublishBundle, PublishSwap, PublishRetry,
                  SucceedRead, In, Free
  <2> QED
    BY <2>1 DEF Good, Idle, Frame
<1>1. \A why \in {"superseded", "aborted", "error"} :
         (\A n \in Thrown(f, why) : Moved(f, n)) /\ (\A n \in Retried(f, why) : Moved(f, n))
  BY <1>0, ThrownMoved, RetriedMoved
<1>2. /\ Moved(f, At(f, "mayGame")) /\ Moved(f, At(f, "pubGame")) /\ Moved(f, At(f, "succRead"))
      /\ Moved(f, At(f, "succWrite")) /\ Moved(f, Done(f))
  BY <1>0, AtMoved, DoneMoved DEF Program, Special
<1>3. Moved(f, [At(f, "pubBundle") EXCEPT !.seen = game])
  <2> DEFINE a == At(f, "pubBundle")
             n == [a EXCEPT !.seen = game]
  <2>1. a \in Frame /\ a.t = f.t /\ a.fresh = f.fresh /\ a.pc = "pubBundle"
    BY <1>0, AtTyped DEF Program
  <2>2. game \in GameRow
    BY DEF IInv, Rows
  <2>3. n \in Frame /\ n.t = f.t /\ n.fresh = f.fresh /\ n.pc = "pubBundle"
    BY <2>1, <2>2 DEF Frame
  <2> QED
    BY <1>0, <2>3 DEF Moved, Special
<1>4. CASE MayTask(h) \/ MayGame(h) \/ PublishRead(h) \/ PublishRetry(h) \/ SucceedRead(h)
  <2>1. UNCHANGED <<game, bundle>>
    BY <1>4 DEF MayTask, MayGame, PublishRead, PublishRetry, SucceedRead
  <2>2. PICK n : Moved(f, n) /\ Goes(h, n)
    <3>1. CASE MayTask(h)
      BY <1>1, <1>2, <3>1 DEF MayTask
    <3>2. CASE MayGame(h)
      BY <1>1, <1>2, <3>2 DEF MayGame
    <3>3. CASE PublishRead(h)
      BY <1>1, <1>3, <3>3 DEF PublishRead
    <3>4. CASE PublishRetry(h)
      BY <1>1, <3>4 DEF PublishRetry
    <3>5. CASE SucceedRead(h)
      BY <1>2, <3>5 DEF SucceedRead
    <3> QED
      BY <1>4, <3>1, <3>2, <3>3, <3>4, <3>5
  <2> QED
    BY <1>0, <2>1, <2>2, MoveRests
<1>5. CASE PublishSwap(h)
  <2> DEFINE v == IF ToldBase(f) = "published" THEN game.version ELSE f.row.version
             g == [game EXCEPT !.status = ToldBase(f), !.version = v]
  <2>1. Stored(f.row.version) /\ Stored(game.version)
    BY <1>0, <1>5 DEF PublishSwap, In, Good, Idle, IInv
  <2>2. ToldBase(f) \in Base /\ f.row.version \in Version
    BY <1>0 DEF ToldBase, Base, TaskRow
  <2>3. g \in GameRow /\ g.version = v
    BY <2>2 DEF GameRow, IInv, Rows
  <2>4. WriteGame(h, At(f, "succRead"), g) /\ UNCHANGED bundle
    BY <1>5 DEF PublishSwap
  <2>5. Stored(g.version)
    BY <2>1, <2>3
  <2> QED
    BY <1>0, <1>2, <2>3, <2>4, <2>5, MoveRests
<1>6. CASE PublishBundle(h)
  <2>1. CASE Owned(f)
    <3>1. PICK n : Moved(f, n) /\ Goes(h, n)
      BY <1>1, <1>6, <2>1 DEF PublishBundle
    <3>2. UNCHANGED <<game, bundle>>
      BY <1>6, <2>1 DEF PublishBundle
    <3> QED
      BY <1>0, <3>1, <3>2, MoveRests
  <2>2. CASE ~Owned(f)
    <3> DEFINE n == At(f, "pubSwap")
    <3>1. /\ Goes(h, n) /\ UNCHANGED game
          /\ bundle' = [bundle EXCEPT ![f.row.version] = f.t]
      BY <1>6, <2>2 DEF PublishBundle
    <3>2. n \in Frame /\ n.t = f.t /\ n.fresh = f.fresh /\ n.pc = "pubSwap" /\ n.row = f.row
      BY <1>0, AtTyped DEF Program, Tail
    <3>3. f.row.version \in Version /\ f.t # "none"
      BY <1>0, ConstantsAssumption DEF TaskRow
    <3>4. \A v \in Version : Stored(v) => Stored(v)'
      BY <3>1, <3>3 DEF Stored, IInv, Rows
    <3>5. bundle'[f.row.version] # "none"
      BY <3>1, <3>3 DEF IInv, Rows
    <3>6. ActiveTasks' = ActiveTasks
      BY <1>0 DEF ActiveTasks
    <3>7. f.fresh => ActiveTasks \subseteq {f.t}
      BY <1>0, <1>6 DEF Good, Idle, Free, PublishBundle, In
    <3>8. Good(run[h])'
      <4>1. run'[h] = n
        BY <3>1 DEF Goes, IInv, Rows
      <4> QED
        BY <1>0, <3>2, <3>5, <3>6, <3>7, <4>1 DEF Good, Stored
    <3>9. ASSUME NEW k \in Handler, k # h PROVE Good(run[k])'
      <4>1. run'[k] = run[k] /\ Good(run[k])
        BY <3>1, <3>9 DEF Goes, IInv, Rows
      <4> QED
        BY <3>4, <3>6, <4>1, StaysGood DEF Good
    <3>10. Rows'
      BY <1>0, <3>1, <3>2 DEF Rows, IInv, Goes
    <3>11. OneActiveTask' /\ Stored(game.version)'
      BY <3>1, <3>4, <3>6 DEF IInv, OneActiveTask, Rows, GameRow
    <3> QED
      BY <3>8, <3>9, <3>10, <3>11 DEF IInv
  <2> QED
    BY <2>1, <2>2
<1> QED
  BY <1>4, <1>5, <1>6

\* The engine, a crash, and nothing at all.
LEMMA OutsideStep ==
    ASSUME IInv,
           \/ \E h \in Handler : Crash(h)
           \/ \E t \in Task : Progress(t) \/ UpEnds(t) \/ UpLost(t)
           \/ UNCHANGED vars
    PROVE  IInv'
<1>1. ASSUME NEW h \in Handler, Crash(h) PROVE IInv'
  <2>1. Good(Idle)
    BY DEF Good
  <2> QED
    BY <1>1, <2>1, Rests DEF Crash, Goes
<1>2. ASSUME NEW t \in Task, Progress(t) PROVE IInv'
  <2>1. PICK s \in BOOLEAN : task' = [task EXCEPT ![t] = [Started(task[t]) EXCEPT !.stored = s]]
    <3>1. task[t].stored \in BOOLEAN /\ task[t] \in TaskRow
      BY DEF IInv, Rows, TaskRow
    <3>2. PICK s \in {task[t].stored, TRUE} :
            task' = [task EXCEPT ![t] = [Started(@) EXCEPT !.stored = s]]
      BY <1>2 DEF Progress
    <3> QED
      BY <3>1, <3>2 DEF IInv, Rows
  <2> DEFINE new == [Started(task[t]) EXCEPT !.stored = s]
  <2>2. new \in TaskRow /\ (new.status \in Active => task[t].status \in Active)
    BY Written DEF IInv, Rows
  <2>3. task' = [task EXCEPT ![t] = new] /\ UNCHANGED <<game, bundle, run>>
    BY <1>2, <2>1 DEF Progress
  <2> HIDE DEF new
  <2>4. Rows' /\ ActiveTasks' \subseteq ActiveTasks
    BY <2>2, <2>3 DEF IInv, Rows, ActiveTasks
  <2>5. (\A v \in Version : Stored(v) => Stored(v)') /\ Stored(game.version)'
    BY <2>3 DEF IInv, Stored
  <2> QED
    BY <2>3, <2>4, <2>5, Kept DEF IInv
<1>3. ASSUME UNCHANGED <<game, bundle, task, run>> PROVE IInv'
  BY <1>3 DEF IInv, Rows, Good, OneActiveTask, ActiveTasks, Stored
<1> QED
  BY <1>1, <1>2, <1>3 DEF UpEnds, UpLost, vars

\* It holds at first, and every step keeps it.
LEMMA InvInit == Init => IInv
<1> SUFFICES ASSUME Init PROVE IInv
  OBVIOUS
<1>1. Rows
  BY Values, ConstantsAssumption DEF Init, Rows, GameRow, Base, NoTask
<1>2. \A h \in Handler : Good(run[h])
  BY DEF Init, Good
<1>3. OneActiveTask
  BY DEF Init, OneActiveTask, ActiveTasks, NoTask, Active
<1>4. Stored(game.version)
  BY Values DEF Init, Stored
<1> QED
  BY <1>1, <1>2, <1>3, <1>4 DEF IInv

LEMMA InvStep == IInv /\ [Next]_vars => IInv'
<1> SUFFICES ASSUME IInv, [Next]_vars PROVE IInv'
  OBVIOUS
<1>1. ASSUME NEW h \in Handler, BeginAny(h) \/ Step(h) PROVE IInv'
  BY <1>1, BeginStep, EditStep, ClaimStep, WriteStep, ReadStep, EndStep, TaskStep, ResultStep
     DEF Step
<1> QED
  BY <1>1, OutsideStep DEF Next

\* The invariant holds in every behaviour.
LEMMA InvAlways == Spec => []IInv
BY InvInit, InvStep, PTL DEF Spec
-----------------------------------------------------------------------------
(* Theorems.                                                               *)

\* What a call does to the engine's records and to the counters.
LEMMA EngineStep == Engine /\ [Next]_vars => Engine'
<1> SUFFICES ASSUME Engine, [Next]_vars PROVE Engine'
  OBVIOUS
<1> USE ConstantsAssumption
<1>1. ASSUME NEW h \in Handler, BeginAny(h) PROVE Engine'
  <2>1. PICK op, t, pc : Begin(h, op, t, pc)
    BY <1>1 DEF BeginAny, BeginEdit, BeginDelete, BeginOnTask, BeginRelay
  <2>2. relay' \subseteq relay
    BY <1>1 DEF BeginAny, BeginEdit, BeginDelete, BeginOnTask, BeginRelay
  <2>3. calls' \in 0..MaxCalls /\ alone' \in BOOLEAN /\ UNCHANGED <<up, faults>>
    BY <2>1 DEF Begin, Engine
  <2> QED
    BY <2>2, <2>3 DEF Engine
<1>2. ASSUME NEW h \in Handler, Launch(h) \/ Stop(h) PROVE Engine'
  BY <1>2 DEF Launch, Launched, Stop, Engine
<1>3. ASSUME NEW t \in Task, UpEnds(t) PROVE Engine'
  BY <1>3 DEF UpEnds, Engine
<1>4. ASSUME NEW t \in Task, UpLost(t) PROVE Engine'
  BY <1>4 DEF UpLost, Engine
<1>5. ASSUME NEW h \in Handler, Crash(h) PROVE Engine'
  BY <1>5 DEF Crash, Engine
<1>6. ASSUME UNCHANGED engine PROVE Engine'
  BY <1>6 DEF engine, Engine
<1>7. ASSUME NEW h \in Handler, Step(h) PROVE UNCHANGED engine \/ Launch(h) \/ Stop(h)
  BY <1>7 DEF Step, EditReadGame, Ensure, Recheck, ReadLatest, Claim, Publish, ReadTask, ReadGame,
     Fetch, MarkRunning, Bind, Reset, CancelRead, CancelWrite, FailTask, FailGame, FailWrite,
     MarkRead, MarkWrite, MayTask, MayGame, PublishRead, PublishBundle, PublishSwap, PublishRetry,
     SucceedRead, SucceedWrite, Ban
<1>8. ASSUME NEW t \in Task, Progress(t) PROVE UNCHANGED engine
  BY <1>8 DEF Progress
<1>9. CASE UNCHANGED vars
  BY <1>6, <1>9 DEF vars, engine
<1> QED
  BY <1>1, <1>2, <1>3, <1>4, <1>5, <1>6, <1>7, <1>8, <1>9 DEF Next

\* Every variable has its type: no statement is reached without a task it
\* needs, and no frame holds a row that was never there.
THEOREM TypeCorrect == Spec => []TypeOK
<1>1. Init => Engine
  BY ConstantsAssumption DEF Init, Engine
<1>2. IInv /\ Engine => TypeOK
  BY DEF IInv, Rows, Engine, TypeOK
<1> QED
  BY <1>1, <1>2, EngineStep, InvAlways, PTL DEF Spec

\* A game has one active iteration at a time, for any number of requests,
\* jobs, sweeps, relays, crashes and lost records.
THEOREM OneActiveTaskAlways == Spec => []OneActiveTask
<1>1. IInv => OneActiveTask
  BY DEF IInv
<1> QED
  BY <1>1, InvAlways, PTL

\* The version a game names is stored: publish() and a completed iteration
\* only ever name a version whose bundle they have found or written.
THEOREM LiveVersionStored == Spec => []Stored(game.version)
<1>1. IInv => Stored(game.version)
  BY DEF IInv
<1> QED
  BY <1>1, InvAlways, PTL
-----------------------------------------------------------------------------
(* What a handler takes along.                                             *)

Edit == {"iterate", "publish"}
Goal == {"failed", "timed_out", "canceled", "relayed"}

\* Where a handler works on a task with what it has read of it and of the game.
Looked == {"fetch", "stop", "mayTask", "mayGame", "pubGame"}
Carry == {"run", "launch", "bind"} \cup Looked
\* Where it does not look at what it has read.
Loose == {"recheck", "ban", "cancelRead", "cancelWrite", "reset", "failTask", "failGame",
          "failWrite", "markRead", "markWrite"}

Sees(f) == \/ f.pc \in Looked \cup {"pubBundle", "pubSwap"}
           \/ f.pc = "readGame" /\ f.row.status \in Active
Acts(f) == f.pc \in Carry \/ Sees(f)

\* What most steps make of the frame f of their handler.
Keeps(f, n) ==
    \/ n = Idle
    \/ /\ n \in Frame /\ n.t = f.t /\ n.op = f.op
       /\ n.pc \in Carry \cup Loose
       /\ n.pc \in Carry => Acts(f) /\ n.row = f.row /\ n.g = f.g
       /\ n.pc \in Looked => Sees(f)
       /\ n.pc = "recheck" => f.op \in Edit
       /\ n.pc = "cancelWrite" => n.g = game
       /\ n.pc = "markRead" => \/ f.pc \in {"reset", "failWrite"}
                               \/ f.pc = "stop" /\ f.g.status # "generating"
       /\ n.pc = "markWrite" => f.pc = "markRead" /\ n.goal = f.goal

LEMMA PcSets ==
    /\ Carry \subseteq Program /\ Loose \subseteq Program /\ Carry \cap Tail = {}
    /\ Looked \subseteq Carry
BY DEF Carry, Loose, Looked, Program, Tail

\* What a frame keeps, wherever it goes.
LEMMA AtKept ==
    ASSUME NEW f \in Frame, NEW pc \in Program
    PROVE  /\ At(f, pc) \in Frame /\ At(f, pc).pc = pc
           /\ At(f, pc).t = f.t /\ At(f, pc).op = f.op /\ At(f, pc).goal = f.goal
           /\ pc \notin Tail => At(f, pc).row = f.row /\ At(f, pc).g = f.g
<1>1. CASE pc \notin Tail
  BY <1>1 DEF At, Frame
<1>2. CASE pc \in Tail
  BY <1>2, Values DEF At, Frame
<1> QED
  BY <1>1, <1>2

LEMMA AimKept ==
    ASSUME NEW f \in Frame, NEW pc \in Program,
           NEW goal \in Goal
    PROVE  /\ Aim(f, pc, goal) \in Frame /\ Aim(f, pc, goal).pc = pc
           /\ Aim(f, pc, goal).t = f.t /\ Aim(f, pc, goal).op = f.op
           /\ Aim(f, pc, goal).goal = goal
           /\ pc \notin Tail => Aim(f, pc, goal).row = f.row /\ Aim(f, pc, goal).g = f.g
<1> DEFINE a == At(f, pc)
<1>1. /\ a \in Frame /\ a.pc = pc /\ a.t = f.t /\ a.op = f.op
      /\ pc \notin Tail => a.row = f.row /\ a.g = f.g
  BY AtKept
<1>2. Aim(f, pc, goal) = [a EXCEPT !.goal = goal]
  BY DEF Aim
<1> HIDE DEF a
<1> QED
  BY <1>1, <1>2 DEF Frame, Goal

\* A handler drops what it has read.
LEMMA LooseKeeps ==
    ASSUME NEW f \in Frame,
           NEW pc \in {"ban", "cancelRead", "reset", "failTask", "failGame", "failWrite"},
           NEW goal \in Goal
    PROVE  Keeps(f, At(f, pc)) /\ Keeps(f, Aim(f, pc, goal))
<1>1. pc \in Program /\ pc \notin Carry /\ pc \in Loose
      /\ pc \notin {"recheck", "cancelWrite", "markRead", "markWrite"} \cup Looked
  BY DEF Program, Carry, Loose, Looked
<1>2. \A n \in Frame : n.pc = pc /\ n.t = f.t /\ n.op = f.op => Keeps(f, n)
  BY <1>1 DEF Keeps
<1>3. /\ At(f, pc) \in Frame /\ At(f, pc).pc = pc
      /\ At(f, pc).t = f.t /\ At(f, pc).op = f.op
  BY <1>1, AtKept
<1>4. /\ Aim(f, pc, goal) \in Frame /\ Aim(f, pc, goal).pc = pc
      /\ Aim(f, pc, goal).t = f.t /\ Aim(f, pc, goal).op = f.op
  BY <1>1, AimKept
<1> QED
  BY <1>2, <1>3, <1>4

\* A handler goes on with what it has read.
LEMMA CarryKeeps ==
    ASSUME NEW f \in Frame, NEW n \in Frame, n.t = f.t, n.op = f.op, n.row = f.row, n.g = f.g,
           n.pc \in Carry, Acts(f), n.pc \in Looked => Sees(f)
    PROVE  Keeps(f, n)
<1>1. n.pc \notin {"recheck", "cancelWrite", "markRead", "markWrite"}
  BY DEF Carry, Looked
<1> QED
  BY <1>1 DEF Keeps

LEMMA DoneKeeps ==
    ASSUME NEW f \in Frame
    PROVE  Keeps(f, Idle) /\ Keeps(f, Done(f)) /\ Keeps(f, Unresolved(f))
<1>1. Keeps(f, Idle)
  BY DEF Keeps
<1>2. Keeps(f, At(f, "ban")) /\ Keeps(f, Aim(f, "ban", "failed"))
  BY LooseKeeps DEF Goal
<1>3. f.op \in Edit => Keeps(f, At(f, "recheck"))
  <2>1. At(f, "recheck") \in Frame /\ At(f, "recheck").pc = "recheck"
        /\ At(f, "recheck").t = f.t /\ At(f, "recheck").op = f.op
    BY AtKept DEF Program
  <2> QED
    BY <2>1 DEF Keeps, Carry, Loose, Looked
<1>4. f.op \in {"iterate", "publish", "delete", "deliver", "status", "cancel", "relay"}
  BY DEF Frame
<1>5. /\ f.op \in Edit => Done(f) = At(f, "recheck")
      /\ f.op \notin Edit => Done(f) \in {At(f, "ban"), Idle}
  BY <1>4 DEF Done, Edit
<1> QED
  BY <1>1, <1>2, <1>3, <1>5 DEF Unresolved

LEMMA LostKeeps ==
    ASSUME NEW f \in Frame, NEW n \in Lost(f)
    PROVE  Keeps(f, n)
BY DoneKeeps, LooseKeeps DEF Lost, Goal

LEMMA CompleteKept ==
    ASSUME NEW f \in Frame, NEW via \in {"upstream", "timed_out", "missing", "running"},
           NEW n, n = Complete(f, via)
    PROVE  /\ n \in Frame /\ n.t = f.t /\ n.op = f.op /\ n.row = f.row /\ n.g = f.g
           /\ n.pc = "mayTask"
<1>1. n = [f EXCEPT !.pc = "mayTask", !.via = via]
  BY DEF Complete
<1>2. "mayTask" \in Program
  BY DEF Program
<1> QED
  BY <1>1, <1>2 DEF Frame

LEMMA CompleteKeeps ==
    ASSUME NEW f \in Frame, Sees(f), NEW via \in {"upstream", "timed_out", "missing", "running"}
    PROVE  Keeps(f, Complete(f, via))
<1> DEFINE n == Complete(f, via)
<1>1. /\ n \in Frame /\ n.t = f.t /\ n.op = f.op /\ n.row = f.row /\ n.g = f.g
      /\ n.pc = "mayTask"
  BY CompleteKept
<1>2. Acts(f) /\ "mayTask" \in Carry
  BY DEF Acts, Carry, Looked
<1> HIDE DEF n
<1> QED
  BY <1>1, <1>2, CarryKeeps DEF n

LEMMA AimStopKeeps ==
    ASSUME NEW f \in Frame, Sees(f),
           NEW goal \in Goal
    PROVE  Keeps(f, At(f, "stop")) /\ Keeps(f, Aim(f, "stop", goal))
<1>1. /\ "stop" \in Program /\ "stop" \notin Tail /\ "stop" \in Carry /\ Acts(f)
  BY DEF Program, Tail, Carry, Looked, Acts
<1>2. \A n \in Frame : /\ n.t = f.t /\ n.op = f.op /\ n.row = f.row /\ n.g = f.g
                       /\ n.pc = "stop"
                       => Keeps(f, n)
  BY <1>1, CarryKeeps
<1>3. /\ At(f, "stop") \in Frame /\ At(f, "stop").pc = "stop"
      /\ At(f, "stop").t = f.t /\ At(f, "stop").op = f.op
      /\ At(f, "stop").row = f.row /\ At(f, "stop").g = f.g
  BY <1>1, AtKept
<1>4. /\ Aim(f, "stop", goal) \in Frame /\ Aim(f, "stop", goal).pc = "stop"
      /\ Aim(f, "stop", goal).t = f.t /\ Aim(f, "stop", goal).op = f.op
      /\ Aim(f, "stop", goal).row = f.row /\ Aim(f, "stop", goal).g = f.g
  BY <1>1, AimKept
<1> QED
  BY <1>2, <1>3, <1>4

LEMMA ThrownKeeps ==
    ASSUME NEW f \in Frame, Sees(f),
           NEW why \in {"superseded", "aborted", "error"}, NEW n \in Thrown(f, why)
    PROVE  Keeps(f, n)
<1>1. Keeps(f, At(f, "stop")) /\ Keeps(f, At(f, "cancelRead"))
      /\ Keeps(f, Aim(f, "failTask", "failed"))
  BY AimStopKeeps, LooseKeeps DEF Goal
<1>2. f.via \in {"upstream", "timed_out", "missing", "running"}
  BY DEF Frame
<1>3. \/ n \in {At(f, "stop"), At(f, "cancelRead"), Aim(f, "failTask", "failed"),
                Unresolved(f), Done(f)}
      \/ n \in Lost(f)
  BY <1>2 DEF Thrown
<1> QED
  BY <1>1, <1>3, DoneKeeps, LostKeeps

LEMMA RetriedKeeps ==
    ASSUME NEW f \in Frame, Sees(f),
           NEW why \in {"superseded", "aborted", "error"}, NEW n \in Retried(f, why)
    PROVE  Keeps(f, n)
<1>1. CASE f.try < MaxAttempts
  <2> DEFINE a == At(f, "pubGame")
  <2>1. a \in Frame /\ a.t = f.t /\ a.op = f.op /\ a.pc = "pubGame" /\ a.row = f.row /\ a.g = f.g
    BY AtKept DEF Program, Tail
  <2>2. a.try = f.try
    BY DEF At, Tail, Frame
  <2>3. f.try + 1 \in 1..MaxAttempts
    BY <1>1, ConstantsAssumption DEF Frame
  <2>4. n = [a EXCEPT !.try = f.try + 1]
    BY <1>1, <2>2 DEF Retried
  <2> HIDE DEF a
  <2>5. n \in Frame /\ n.t = f.t /\ n.op = f.op /\ n.row = f.row /\ n.g = f.g /\ n.pc = "pubGame"
    BY <2>1, <2>3, <2>4 DEF Frame
  <2>6. "pubGame" \in Carry /\ Acts(f)
    BY DEF Carry, Looked, Acts
  <2> QED
    BY <2>5, <2>6, CarryKeeps
<1>2. CASE ~(f.try < MaxAttempts)
  BY <1>2, ThrownKeeps DEF Retried
<1> QED
  BY <1>1, <1>2

LEMMA SettleKeeps ==
    ASSUME NEW f \in Frame, Sees(f), NEW r \in {"canceled", "timed_out"}
    PROVE  Keeps(f, Settle(f, r))
<1> DEFINE a == Aim(f, "mayTask", "timed_out")
           n == Complete(a, "timed_out")
<1>1. Keeps(f, Aim(f, "stop", "canceled")) /\ Keeps(f, Aim(f, "stop", "timed_out"))
  BY AimStopKeeps DEF Goal
<1>2. a \in Frame /\ a.t = f.t /\ a.op = f.op /\ a.row = f.row /\ a.g = f.g
  BY AimKept DEF Program, Tail, Goal
<1>3. /\ n \in Frame /\ n.t = f.t /\ n.op = f.op /\ n.row = f.row /\ n.g = f.g
      /\ n.pc = "mayTask"
  <2>1. n \in Frame /\ n.t = a.t /\ n.op = a.op /\ n.row = a.row /\ n.g = a.g
        /\ n.pc = "mayTask"
    <3> HIDE DEF a
    <3> QED
      BY <1>2, CompleteKept
  <2> QED
    BY <1>2, <2>1
<1>4. Acts(f) /\ "mayTask" \in Carry
  BY DEF Acts, Carry, Looked
<1>5. Keeps(f, n)
  <2> HIDE DEF n
  <2> QED
    BY <1>3, <1>4, CarryKeeps
<1> QED
  BY <1>1, <1>5 DEF Settle

\* A reconciled task: it succeeded when the game has its version already.
Found(f, n) ==
    /\ n = At(f, "succRead")
    /\ f.row.status \in Active /\ f.g.status \in Base /\ f.g.version >= f.row.version

LEMMA DecideKeeps ==
    ASSUME NEW f \in Frame, f.pc = "readGame", NEW n \in Decide(f)
    PROVE  Keeps(f, n) \/ Found(f, n)
<1>1. CASE f.row.status \notin Active
  BY <1>1, DoneKeeps DEF Decide
<1>2. CASE f.row.status \in Active
  <2>1. Sees(f) /\ Acts(f)
    BY <1>2 DEF Sees, Acts
  <2>2. Keeps(f, At(f, "run")) /\ Keeps(f, At(f, "fetch"))
    <3>1. /\ {"run", "fetch"} \subseteq Program \ Tail /\ {"run", "fetch"} \subseteq Carry
      BY DEF Program, Tail, Carry, Looked
    <3> QED
      BY <2>1, <3>1, AtKept, CarryKeeps
  <2>3. \A r \in Resolution(f) :
          \/ r \in {"none", "canceled", "timed_out"}
          \/ r = "succeeded" /\ f.g.status \in Base /\ f.g.version >= f.row.version
    BY DEF Resolution
  <2>4. Settle(f, "succeeded") = At(f, "succRead")
    BY DEF Settle
  <2>5. \/ n \in {Unresolved(f), At(f, "run"), At(f, "fetch")}
        \/ \E r \in {"canceled", "timed_out"} : n = Settle(f, r)
        \/ n = Settle(f, "succeeded") /\ f.g.status \in Base /\ f.g.version >= f.row.version
    BY <1>2, <2>3 DEF Decide
  <2> QED
    BY <1>2, <2>1, <2>2, <2>4, <2>5, SettleKeeps, DoneKeeps DEF Found
<1> QED
  BY <1>1, <1>2
-----------------------------------------------------------------------------
(* The invariants.                                                         *)

ActiveIn(rows) == {t \in Task : rows[t].status \in Active}

\* A task that is named somewhere has been created.
Born(t) == task[t].status # "none"
AllBorn ==
    /\ \A h \in Handler : run[h].pc \notin Free \cup {"idle"} => Born(run[h].t)
    /\ \A t \in Task : t \in relay \/ up[t] # "none" => Born(t)

\* What a handler may rely on as long as none has overlapped with another.
Works == Carry \cup {"pubBundle", "pubSwap"}
Ends == {"succRead", "succWrite"}
Sound(f, rows, b) ==
    /\ f.pc \in Works \cup Ends => rows[f.t].status \in Active
    /\ f.pc \in Works \cup {"readGame"} => f.row.version = rows[f.t].version
    /\ f.pc = "readGame" /\ f.row.status \in Active => rows[f.t].status \in Active
    /\ f.pc = "pubSwap" => b[f.row.version] = f.t
    /\ f.pc \in Ends => b[rows[f.t].version] = f.t
    /\ f.pc \in {"latest", "claim", "publish"} => ActiveIn(rows) = {}
    /\ f.pc = "claim" => \A v \in Version : b[v] # "none" => v <= f.top
    /\ f.pc = "recheck" => f.op \in Edit
    /\ f.pc \notin {"idle", "game", "ensure"} /\ f.op \in Edit => ActiveIn(rows) \subseteq {f.t}

\* A task shares its version with none, until it has stored it.
RowSound(t, row, b, live) ==
    /\ row.status \in Active => /\ b[row.version] \in {"none", t}
                                /\ b[row.version] = "none" => live < row.version
    /\ row.status = "succeeded" => b[row.version] = t

Turns ==
    alone => /\ \A h, k \in Handler : run[h] = Idle \/ run[k] = Idle \/ h = k
             /\ \A h \in Handler : Sound(run[h], task, bundle)
             /\ \A t \in Task : RowSound(t, task[t], bundle, game.version)

\* A handler that may end its task without another look at the game: the game
\* was not in generation for that task, or is no longer.
Cleared(f) ==
    \/ f.pc \in Ends
    \/ f.pc \in {"markRead", "markWrite"} /\ f.goal # "relayed"
    \/ f.pc \in Looked \cup {"pubBundle", "pubSwap", "cancelWrite"} /\ f.g.status # "generating"

\* A handler that will take the game of task t out of generation.
Pays(f, t, rows) ==
    /\ f.pc \in {"failTask", "failGame", "failWrite"} /\ f.t = t
    /\ f.pc = "failTask" => rows[t].status \notin {"succeeded", "canceled"}

OwedBy(t) == t \in ActiveTasks \/ \E h \in Handler : Pays(run[h], t, task)
Owed ==
    faults = 0 /\ game.status = "generating" =>
        \E t \in Task : OwedBy(t) /\ \A k \in Handler : Cleared(run[k]) => run[k].t # t

-----------------------------------------------------------------------------
(* A handler goes on.                                                      *)

\* Handler h goes on with the frame n, with or without a write of the game.
Ran(h, n) == \/ run' = [run EXCEPT ![h] = n]
             \/ run' = [k \in Handler |-> Overtaken(IF k = h THEN n ELSE run[k])]

\* What a frame says of its task does not depend on fresh.
LEMMA OvertakenSame ==
    ASSUME NEW f \in Frame \cup {Idle}, NEW rows, NEW b, NEW t
    PROVE  LET o == Overtaken(f) IN
           /\ o \in Frame \cup {Idle} /\ (o = Idle <=> f = Idle)
           /\ o.pc = f.pc /\ (f # Idle => o.t = f.t)
           /\ Sound(o, rows, b) <=> Sound(f, rows, b)
           /\ Cleared(o) <=> Cleared(f)
           /\ Pays(o, t, rows) <=> Pays(f, t, rows)
<1> DEFINE o == Overtaken(f)
<1>1. CASE f = Idle
  <2>1. o = Idle
    BY <1>1 DEF Overtaken, Idle
  <2> QED
    BY <1>1, <2>1
<1>2. CASE f \in Frame
  <2>1. /\ o \in Frame /\ o.pc = f.pc /\ o.t = f.t /\ o.op = f.op /\ o.row = f.row /\ o.g = f.g
        /\ o.top = f.top /\ o.goal = f.goal
    BY <1>2 DEF Overtaken, Frame
  <2>2. f # Idle /\ o # Idle
    BY <1>2, <2>1 DEF Frame, Program, Idle
  <2> HIDE DEF o
  <2>3. Sound(o, rows, b) <=> Sound(f, rows, b)
    BY <2>1 DEF Sound
  <2>4. (Cleared(o) <=> Cleared(f)) /\ (Pays(o, t, rows) <=> Pays(f, t, rows))
    BY <2>1 DEF Cleared, Pays
  <2> QED
    BY <1>2, <2>1, <2>2, <2>3, <2>4 DEF o
<1> QED
  BY <1>1, <1>2

\* Where the handlers are then.
LEMMA RanFrames ==
    ASSUME IInv, NEW h \in Handler, NEW n \in Frame \cup {Idle}, Ran(h, n), NEW k \in Handler,
           NEW rows, NEW b, NEW t
    PROVE  LET w == IF k = h THEN n ELSE run[k] IN
           /\ w \in Frame \cup {Idle}
           /\ run'[k] = Idle <=> w = Idle
           /\ run'[k].pc = w.pc /\ (w # Idle => run'[k].t = w.t)
           /\ Sound(run'[k], rows, b) <=> Sound(w, rows, b)
           /\ Cleared(run'[k]) <=> Cleared(w)
           /\ Pays(run'[k], t, rows) <=> Pays(w, t, rows)
<1> DEFINE w == IF k = h THEN n ELSE run[k]
<1>1. w \in Frame \cup {Idle}
  BY DEF IInv, Rows
<1>2. run'[k] = w \/ run'[k] = Overtaken(w)
  BY DEF Ran, IInv, Rows
<1> HIDE DEF w
<1>3. CASE run'[k] = w
  BY <1>1, <1>3 DEF w
<1>4. CASE run'[k] = Overtaken(w)
  BY <1>1, <1>4, OvertakenSame DEF w
<1> QED
  BY <1>2, <1>3, <1>4

\* No handler is on a task that has not been created.
LEMMA BornGo ==
    ASSUME IInv, AllBorn, NEW h \in Handler, NEW n \in Frame \cup {Idle}, Ran(h, n),
           n.pc \notin Free \cup {"idle"} => n.t \in Task /\ task'[n.t].status # "none",
           \A t \in Task : task[t].status # "none" => task'[t].status # "none",
           \A t \in Task : t \in relay' \/ up'[t] # "none" =>
              t \in relay \/ up[t] # "none" \/ task[t].status # "none"
    PROVE  AllBorn'
<1>1. ASSUME NEW k \in Handler, run'[k].pc \notin Free \cup {"idle"}
      PROVE  task'[run'[k].t].status # "none"
  <2> DEFINE w == IF k = h THEN n ELSE run[k]
  <2>1. run'[k].pc = w.pc /\ (w # Idle => run'[k].t = w.t)
    BY RanFrames
  <2>2. w # Idle
    BY <1>1, <2>1 DEF Idle
  <2>3. w.pc \notin Free \cup {"idle"} => w.t \in Task /\ task'[w.t].status # "none"
    BY DEF AllBorn, Born, IInv, Good, Idle
  <2> HIDE DEF w
  <2> QED
    BY <1>1, <2>1, <2>2, <2>3
<1>2. ASSUME NEW t \in Task, t \in relay' \/ up'[t] # "none" PROVE task'[t].status # "none"
  BY <1>2 DEF AllBorn, Born
<1> QED
  BY <1>1, <1>2 DEF AllBorn, Born

\* Handlers that take turns.
LEMMA IdleSound == ASSUME NEW rows, NEW b PROVE Sound(Idle, rows, b)
BY DEF Sound, Idle, Works, Carry, Looked, Ends

LEMMA TurnsGo ==
    ASSUME IInv, Turns, NEW h \in Handler, NEW n \in Frame \cup {Idle}, Ran(h, n),
           alone' => alone /\ \A k \in Handler : k = h \/ run[k] = Idle,
           alone' => /\ Sound(n, task', bundle')
                     /\ \A t \in Task : RowSound(t, task'[t], bundle', game'.version)
    PROVE  Turns'
<1> SUFFICES ASSUME alone'
             PROVE  /\ \A k, j \in Handler : run'[k] = Idle \/ run'[j] = Idle \/ k = j
                    /\ \A k \in Handler : Sound(run'[k], task', bundle')
                    /\ \A t \in Task : RowSound(t, task'[t], bundle', game'.version)
  BY DEF Turns
<1>1. \A k \in Handler : k # h => run'[k] = Idle
  BY RanFrames
<1>2. ASSUME NEW k \in Handler PROVE Sound(run'[k], task', bundle')
  BY <1>1, RanFrames, IdleSound
<1> QED
  BY <1>1, <1>2

\* What is owed stays owed while the game is in generation.
LEMMA OwedGo ==
    ASSUME IInv, Owed, NEW h \in Handler, NEW n \in Frame \cup {Idle}, Ran(h, n),
           UNCHANGED faults, faults = 0 /\ game'.status = "generating" => game.status = "generating",
           game.status = "generating" /\ game'.status = "generating" =>
              /\ Cleared(n) => Cleared(run[h]) /\ n.t = run[h].t
              /\ \A t \in Task : OwedBy(t) /\ ~(Cleared(run[h]) /\ run[h].t = t) =>
                    \/ task'[t].status \in Active
                    \/ Pays(n, t, task')
                    \/ \E k \in Handler : k # h /\ Pays(run[k], t, task')
    PROVE  Owed'
<1> SUFFICES ASSUME faults = 0, game'.status = "generating"
             PROVE  \E t \in Task :
                       /\ task'[t].status \in Active \/ \E k \in Handler : Pays(run'[k], t, task')
                       /\ \A k \in Handler : Cleared(run'[k]) => run'[k].t # t
  BY DEF Owed, OwedBy, ActiveTasks
<1>1. PICK t \in Task : OwedBy(t) /\ \A k \in Handler : Cleared(run[k]) => run[k].t # t
  BY DEF Owed
<1>2. ASSUME NEW k \in Handler, Cleared(run'[k]) PROVE run'[k].t # t
  <2> DEFINE w == IF k = h THEN n ELSE run[k]
  <2>1. Cleared(w) /\ (w # Idle => run'[k].t = w.t)
    BY <1>2, RanFrames
  <2>2. ~Cleared(Idle)
    BY DEF Cleared, Idle, Ends, Looked
  <2>3. w.t # t
    BY <1>1, <2>1
  <2> HIDE DEF w
  <2> QED
    BY <2>1, <2>2, <2>3
<1>3. task'[t].status \in Active \/ \E k \in Handler : Pays(run'[k], t, task')
  <2>1. CASE Pays(n, t, task')
    <3>1. Pays(run'[h], t, task')
      BY <2>1, RanFrames
    <3> QED
      BY <3>1
  <2>2. ASSUME NEW k \in Handler, k # h, Pays(run[k], t, task') PROVE Pays(run'[k], t, task')
    BY <2>2, RanFrames
  <2> QED
    BY <1>1, <2>1, <2>2
<1> QED
  BY <1>2, <1>3
-----------------------------------------------------------------------------
(* Steps that take a task along.                                           *)

Busy(f) == f \in Frame /\ f.pc \notin Free \cup {"idle", "readTask"} /\ f.t \in Task

\* Where a handler of a task is, it has one.
LEMMA BusyFrame ==
    ASSUME IInv, NEW h \in Handler, run[h].pc \notin Free \cup {"idle"}
    PROVE  /\ run[h] \in Frame /\ run[h].t \in Task /\ task[run[h].t] \in TaskRow
           /\ run[h] # Idle /\ game \in GameRow
BY Framed DEF Good, IInv, Rows, Idle

\* Steps that write no task and no bundle, and of the game the status at most.
LEMMA PlainStep ==
    ASSUME IInv, NEW h \in Handler,
           \/ Fetch(h) \/ Launch(h) \/ Stop(h) \/ Reset(h) \/ CancelRead(h)
           \/ FailTask(h) \/ FailGame(h) \/ FailWrite(h) \/ MayTask(h) \/ MayGame(h)
           \/ PublishRetry(h)
    PROVE  /\ Busy(run[h]) /\ run[h].pc # "readGame"
           /\ UNCHANGED <<task, bundle, relay, alone, faults>>
           /\ \E n : /\ Keeps(run[h], n)
                     /\ \/ Goes(h, n) /\ UNCHANGED game
                        \/ \E st \in Base : WriteGame(h, n, [game EXCEPT !.status = st])
<1> DEFINE f == run[h]
<1>1. f.pc \notin Free \cup {"idle", "readTask", "readGame"}
      /\ UNCHANGED <<task, bundle, relay, alone, faults>>
  BY DEF Fetch, Launch, Stop, Reset, CancelRead, FailTask, FailGame, FailWrite, MayTask,
         MayGame, PublishRetry, In, Free, engine
<1>2. /\ f \in Frame /\ f.t \in Task /\ task[f.t] \in TaskRow /\ game \in GameRow
  BY <1>1, BusyFrame
<1>3. Keeps(f, Done(f)) /\ Keeps(f, Unresolved(f))
  BY <1>2, DoneKeeps
<1>4. \A pc \in {"ban", "cancelRead", "reset", "failTask", "failGame", "failWrite"}, goal \in Goal :
        Keeps(f, At(f, pc)) /\ Keeps(f, Aim(f, pc, goal))
  BY <1>2, LooseKeeps
<1>5. "failed" \in Goal
  BY DEF Goal
<1> SUFFICES \E n : /\ Keeps(f, n)
                    /\ \/ Goes(h, n) /\ UNCHANGED game
                       \/ \E st \in Base : WriteGame(h, n, [game EXCEPT !.status = st])
  BY <1>1, <1>2 DEF Busy
<1>6. CASE Fetch(h)
  <2>1. Sees(f)
    BY <1>6 DEF Fetch, In, Sees, Looked
  <2>2. \A via \in {"missing", "running", "upstream"} : Keeps(f, Complete(f, via))
    BY <1>2, <2>1, CompleteKeeps
  <2>3. \A n \in Lost(f) : Keeps(f, n)
    BY <1>2, LostKeeps
  <2>4. Keeps(f, At(f, "cancelRead")) /\ Keeps(f, Aim(f, "failTask", "failed"))
    BY <1>4, <1>5
  <2> QED
    BY <1>3, <1>6, <2>2, <2>3, <2>4 DEF Fetch
<1>7. CASE Launch(h)
  <2>1. Keeps(f, At(f, "bind"))
    <3>1. At(f, "bind") \in Frame /\ At(f, "bind").pc = "bind" /\ At(f, "bind").t = f.t
          /\ At(f, "bind").op = f.op /\ At(f, "bind").row = f.row /\ At(f, "bind").g = f.g
      BY <1>2, AtKept DEF Program, Tail
    <3>2. Acts(f) /\ "bind" \in Carry /\ "bind" \notin Looked
      BY <1>7 DEF Launch, In, Acts, Carry, Looked
    <3> QED
      BY <1>2, <3>1, <3>2, CarryKeeps
  <2>2. Keeps(f, Aim(f, "failTask", "failed"))
    BY <1>4, <1>5
  <2> QED
    BY <1>7, <2>1, <2>2 DEF Launch
<1>8. CASE Stop(h)
  <2>1. f.g.status # "generating" => Keeps(f, At(f, "markRead"))
    <3>1. At(f, "markRead") \in Frame /\ At(f, "markRead").pc = "markRead"
          /\ At(f, "markRead").t = f.t /\ At(f, "markRead").op = f.op
      BY <1>2, AtKept DEF Program
    <3> QED
      BY <1>8, <3>1 DEF Keeps, Carry, Loose, Looked, Stop, In
  <2>2. Keeps(f, At(f, "cancelRead")) /\ Keeps(f, At(f, "reset"))
    BY <1>4, <1>5
  <2> QED
    BY <1>8, <2>1, <2>2 DEF Stop
<1>9. CASE Reset(h) \/ FailWrite(h)
  <2>1. Keeps(f, At(f, "markRead"))
    <3>1. At(f, "markRead") \in Frame /\ At(f, "markRead").pc = "markRead"
          /\ At(f, "markRead").t = f.t /\ At(f, "markRead").op = f.op
      BY <1>2, AtKept DEF Program
    <3> QED
      BY <1>9, <3>1 DEF Keeps, Carry, Loose, Looked, Reset, FailWrite, In
  <2>2. f.row.base \in Base /\ task[f.t].base \in Base
    BY <1>2 DEF Frame, TaskRow
  <2> QED
    BY <1>9, <2>1, <2>2 DEF Reset, FailWrite
<1>10. CASE CancelRead(h)
  <2> DEFINE a == At(f, "cancelWrite")
             n == [a EXCEPT !.g = game]
  <2>1. a \in Frame /\ a.pc = "cancelWrite" /\ a.t = f.t /\ a.op = f.op
    BY <1>2, AtKept DEF Program
  <2> HIDE DEF a
  <2>2. n \in Frame /\ n.pc = "cancelWrite" /\ n.t = f.t /\ n.op = f.op /\ n.g = game
    BY <1>2, <2>1 DEF Frame
  <2>3. Keeps(f, n)
    BY <2>2 DEF Keeps, Carry, Loose, Looked
  <2> QED
    BY <1>10, <2>3 DEF CancelRead, a
<1>11. CASE FailTask(h) \/ FailGame(h)
  <2>1. Keeps(f, At(f, "failGame")) /\ Keeps(f, At(f, "failWrite"))
    BY <1>4, <1>5
  <2> QED
    BY <1>3, <1>11, <2>1 DEF FailTask, FailGame
<1>12. CASE MayTask(h) \/ MayGame(h) \/ PublishRetry(h)
  <2>1. Sees(f)
    BY <1>12 DEF MayTask, MayGame, PublishRetry, In, Sees, Looked
  <2>2. \A why \in {"superseded", "aborted", "error"} :
           (\A n \in Thrown(f, why) : Keeps(f, n)) /\ (\A n \in Retried(f, why) : Keeps(f, n))
    BY <1>2, <2>1, ThrownKeeps, RetriedKeeps
  <2>3. Keeps(f, At(f, "mayGame")) /\ Keeps(f, At(f, "pubGame"))
    <3>1. \A pc \in {"mayGame", "pubGame"} :
             /\ At(f, pc) \in Frame /\ At(f, pc).pc = pc /\ At(f, pc).t = f.t
             /\ At(f, pc).op = f.op /\ At(f, pc).row = f.row /\ At(f, pc).g = f.g
      BY <1>2, AtKept DEF Program, Tail
    <3>2. Acts(f) /\ {"mayGame", "pubGame"} \subseteq Carry
      BY <2>1 DEF Acts, Carry, Looked
    <3> QED
      BY <1>2, <2>1, <3>1, <3>2, CarryKeeps
  <2>4. CASE MayTask(h)
    BY <2>2, <2>3, <2>4 DEF MayTask
  <2>5. CASE MayGame(h)
    BY <2>2, <2>3, <2>5 DEF MayGame
  <2>6. CASE PublishRetry(h)
    BY <2>2, <2>6 DEF PublishRetry
  <2> QED
    BY <1>12, <2>4, <2>5, <2>6
<1> QED
  BY <1>6, <1>7, <1>8, <1>9, <1>10, <1>11, <1>12

\* The same where a failure is marked.
LEMMA MarkReadStep ==
    ASSUME IInv, NEW h \in Handler, MarkRead(h)
    PROVE  /\ Busy(run[h]) /\ run[h].pc = "markRead"
           /\ UNCHANGED <<game, task, bundle, relay, alone, faults>>
           /\ \E n : Keeps(run[h], n) /\ Goes(h, n)
<1> DEFINE f == run[h]
<1>1. /\ f.pc = "markRead" /\ f.pc \notin Free \cup {"idle", "readTask"}
      /\ UNCHANGED <<game, task, bundle, relay, alone, faults>>
  BY DEF MarkRead, In, Free, engine
<1>2. f \in Frame /\ f.t \in Task
  BY <1>1, BusyFrame
<1>3. Keeps(f, Aim(f, "failTask", "failed")) /\ Keeps(f, Done(f))
  BY <1>2, LooseKeeps, DoneKeeps DEF Goal
<1>4. Keeps(f, At(f, "markWrite"))
  <2>1. At(f, "markWrite") \in Frame /\ At(f, "markWrite").pc = "markWrite"
        /\ At(f, "markWrite").t = f.t /\ At(f, "markWrite").op = f.op
        /\ At(f, "markWrite").goal = f.goal
    BY <1>2, AtKept DEF Program
  <2> QED
    BY <1>1, <2>1 DEF Keeps, Carry, Loose, Looked
<1> QED
  BY <1>1, <1>2, <1>3, <1>4 DEF Busy, MarkRead, Marked

\* What holds of a frame holds of one that keeps it.
LEMMA KeepsTyped == ASSUME NEW f, NEW n, Keeps(f, n) PROVE n \in Frame \cup {Idle}
BY DEF Keeps

LEMMA KeepsTask ==
    ASSUME NEW f \in Frame, NEW n, Keeps(f, n)
    PROVE  n.pc \notin Free \cup {"idle"} => n.t = f.t
BY DEF Keeps, Idle

LEMMA KeepsSound ==
    ASSUME NEW f \in Frame, f.pc \notin {"idle", "game", "ensure"}, NEW n, Keeps(f, n),
           NEW rows, NEW b, Sound(f, rows, b)
    PROVE  Sound(n, rows, b)
<1>1. CASE n = Idle
  BY <1>1, IdleSound
<1>2. CASE n # Idle
  <2>1. n.pc \in Carry \cup Loose /\ n.t = f.t /\ n.op = f.op
    BY <1>2 DEF Keeps
  <2>2. n.pc \notin {"readGame", "pubBundle", "pubSwap", "latest", "claim", "publish"} \cup Ends
    BY <2>1 DEF Carry, Looked, Loose, Ends
  <2>3. n.pc \in Works => /\ rows[f.t].status \in Active /\ n.row.version = rows[f.t].version
    <3>1. n.pc \in Works => n.pc \in Carry
      BY <2>2 DEF Works
    <3>2. n.pc \in Carry => Acts(f) /\ n.row = f.row
      BY <1>2 DEF Keeps
    <3> QED
      BY <3>1, <3>2 DEF Acts, Sees, Sound, Works, Carry
  <2>4. n.pc = "recheck" => n.op \in Edit
    BY <1>2, <2>1 DEF Keeps
  <2>5. n.op \in Edit => ActiveIn(rows) \subseteq {n.t}
    BY <2>1 DEF Sound
  <2> QED
    BY <2>1, <2>2, <2>3, <2>4, <2>5 DEF Sound
<1> QED
  BY <1>1, <1>2

LEMMA KeepsCleared ==
    ASSUME NEW f \in Frame, f.pc \notin {"reset", "failWrite", "readGame"}, NEW n, Keeps(f, n),
           game.status = "generating", Cleared(n)
    PROVE  Cleared(f) /\ n.t = f.t
<1>1. n # Idle
  BY DEF Cleared, Idle, Ends, Looked
<1>2. n.pc \in Carry \cup Loose /\ n.t = f.t
  BY <1>1 DEF Keeps
<1>3. CASE n.pc \in Looked /\ n.g.status # "generating"
  <2>1. Sees(f) /\ n.g = f.g
    BY <1>1, <1>3 DEF Keeps, Carry
  <2> QED
    BY <1>2, <1>3, <2>1 DEF Sees, Cleared
<1>4. CASE n.pc = "markRead"
  <2>1. f.pc = "stop" /\ f.g.status # "generating"
    BY <1>1, <1>4 DEF Keeps
  <2> QED
    BY <1>2, <2>1 DEF Cleared, Looked
<1>5. CASE n.pc = "markWrite" /\ n.goal # "relayed"
  <2>1. f.pc = "markRead" /\ n.goal = f.goal
    BY <1>1, <1>5 DEF Keeps
  <2> QED
    BY <1>2, <1>5, <2>1 DEF Cleared
<1>6. CASE n.pc = "cancelWrite" /\ n.g.status # "generating"
  BY <1>1, <1>6 DEF Keeps
<1>7. n.pc \notin Ends \cup {"pubBundle", "pubSwap"}
  BY <1>2 DEF Carry, Looked, Loose, Ends
<1> QED
  BY <1>3, <1>4, <1>5, <1>6, <1>7 DEF Cleared

Held == AllBorn /\ Turns /\ Owed

\* A step of a handler that keeps what it has, while tasks and bundles rest.
LEMMA PlainHeld ==
    ASSUME IInv, Held, Engine, NEW h \in Handler,
           \/ Fetch(h) \/ Launch(h) \/ Stop(h) \/ Reset(h) \/ CancelRead(h)
           \/ FailTask(h) \/ FailGame(h) \/ FailWrite(h) \/ MayTask(h) \/ MayGame(h)
           \/ PublishRetry(h) \/ MarkRead(h)
    PROVE  Held'
<1> DEFINE f == run[h]
<1>1. /\ Busy(f) /\ f.pc # "readGame" /\ UNCHANGED <<task, bundle, relay, alone, faults>>
      /\ \E n : /\ Keeps(f, n)
                /\ \/ Goes(h, n) /\ UNCHANGED game
                   \/ \E st \in Base : WriteGame(h, n, [game EXCEPT !.status = st])
  BY PlainStep, MarkReadStep
<1>2. PICK n : /\ Keeps(f, n)
               /\ \/ Goes(h, n) /\ UNCHANGED game
                  \/ \E st \in Base : WriteGame(h, n, [game EXCEPT !.status = st])
  BY <1>1
<1>3. Ran(h, n) /\ n \in Frame \cup {Idle}
  BY <1>2, KeepsTyped DEF Ran, Goes, WriteGame
<1>4. /\ f \in Frame /\ f.t \in Task /\ f.pc \notin {"idle", "game", "ensure", "readGame"}
      /\ f.pc \notin Free \cup {"idle"} /\ f # Idle
  BY <1>1 DEF Busy, Free, Idle
<1>5. game'.version = game.version
      /\ (game' = game \/ game'.status \in Base)
  BY <1>2 DEF WriteGame, IInv, Rows, GameRow
<1>6. AllBorn'
  <2>1. task[f.t].status # "none"
    BY <1>4 DEF Held, AllBorn, Born
  <2>2. n.pc \notin Free \cup {"idle"} => n.t \in Task /\ task'[n.t].status # "none"
    BY <1>1, <1>2, <1>4, <2>1, KeepsTask
  <2>3. \A t \in Task : up'[t] # "none" => up[t] # "none" \/ t = f.t
    BY DEF Fetch, Launch, Launched, Stop, Reset, CancelRead, FailTask, FailGame, FailWrite,
           MayTask, MayGame, PublishRetry, MarkRead, engine, Engine
  <2> QED
    BY <1>1, <1>3, <2>1, <2>2, <2>3, BornGo DEF Held
<1>7. Turns'
  <2>1. alone' => alone /\ \A k \in Handler : k = h \/ run[k] = Idle
    BY <1>1, <1>4 DEF Held, Turns
  <2>2. alone' => Sound(n, task', bundle')
    <3>1. alone => Sound(f, task, bundle)
      BY DEF Held, Turns
    <3>2. alone => Sound(n, task, bundle)
      BY <1>2, <1>4, <3>1, KeepsSound
    <3> QED
      BY <1>1, <3>2
  <2>3. alone' => \A t \in Task : RowSound(t, task'[t], bundle', game'.version)
    BY <1>1, <1>5 DEF Held, Turns
  <2> QED
    BY <1>3, <2>1, <2>2, <2>3, TurnsGo DEF Held
<1>8. Owed'
  <2>1. game'.status = "generating" => game' = game
    BY <1>5 DEF Base
  <2>2. ASSUME game.status = "generating", game'.status = "generating", Cleared(n)
        PROVE  Cleared(f) /\ n.t = f.t
    <3>1. f.pc \notin {"reset", "failWrite"}
      <4>1. f.pc = "reset" => Reset(h)
        BY DEF Fetch, Launch, Stop, Reset, CancelRead, FailTask, FailGame, FailWrite,
               MayTask, MayGame, PublishRetry, MarkRead, In
      <4>2. f.pc = "failWrite" => FailWrite(h)
        BY DEF Fetch, Launch, Stop, Reset, CancelRead, FailTask, FailGame, FailWrite,
               MayTask, MayGame, PublishRetry, MarkRead, In
      <4>3. Reset(h) \/ FailWrite(h) => game'.status \in Base
        BY <1>4 DEF Reset, FailWrite, WriteGame, IInv, Rows, GameRow, TaskRow, Frame
      <4> QED
        BY <2>2, <4>1, <4>2, <4>3 DEF Base
    <3> QED
      BY <1>2, <1>4, <2>2, <3>1, KeepsCleared
  <2>3. ASSUME game.status = "generating", game'.status = "generating",
               NEW t \in Task, OwedBy(t)
        PROVE  \/ task'[t].status \in Active
               \/ Pays(n, t, task')
               \/ \E k \in Handler : k # h /\ Pays(run[k], t, task')
    <3>1. Pays(f, t, task) => Pays(n, t, task')
      <4> SUFFICES ASSUME Pays(f, t, task) PROVE Pays(n, t, task')
        OBVIOUS
      <4>1. f.pc \in {"failTask", "failGame", "failWrite"} /\ f.t = t
        BY DEF Pays
      <4>2. CASE FailTask(h)
        <5>1. task[t].status \notin {"succeeded", "canceled"}
          BY <4>1, <4>2 DEF Pays, FailTask, In
        <5>2. Goes(h, At(f, "failGame"))
          BY <4>1, <4>2, <5>1 DEF FailTask
        <5>3. run'[h] = At(f, "failGame")
          BY <5>2 DEF Goes, IInv, Rows
        <5>4. At(f, "failGame").pc = "failGame" /\ At(f, "failGame").t = f.t
          BY <1>4, AtKept DEF Program
        <5>5. Pays(run'[h], t, task')
          BY <4>1, <5>3, <5>4 DEF Pays
        <5> QED
          BY <1>3, <5>5, RanFrames
      <4>3. CASE FailGame(h)
        <5>2. Goes(h, At(f, "failWrite"))
          BY <2>3, <4>3 DEF FailGame
        <5>3. run'[h] = At(f, "failWrite")
          BY <5>2 DEF Goes, IInv, Rows
        <5>4. At(f, "failWrite").pc = "failWrite" /\ At(f, "failWrite").t = f.t
          BY <1>4, AtKept DEF Program
        <5>5. Pays(run'[h], t, task')
          BY <4>1, <5>3, <5>4 DEF Pays
        <5> QED
          BY <1>3, <5>5, RanFrames
      <4>4. ~FailWrite(h)
        <5>1. FailWrite(h) => game'.status \in Base
          BY <1>4 DEF FailWrite, WriteGame, IInv, Rows, GameRow, TaskRow, Frame
        <5> QED
          BY <2>3, <5>1 DEF Base
      <4>5. FailTask(h) \/ FailGame(h) \/ FailWrite(h)
        BY <4>1 DEF Fetch, Launch, Stop, Reset, CancelRead, FailTask, FailGame, FailWrite,
               MayTask, MayGame, PublishRetry, MarkRead, In
      <4> QED
        BY <4>2, <4>3, <4>4, <4>5
    <3>2. t \in ActiveTasks => task'[t].status \in Active
      BY <1>1 DEF ActiveTasks
    <3> QED
      BY <1>1, <2>3, <3>1, <3>2 DEF OwedBy
  <2>4. UNCHANGED faults
    BY <1>1
  <2>5. faults = 0 /\ game'.status = "generating" => game.status = "generating"
    BY <2>1
  <2>6. game.status = "generating" /\ game'.status = "generating" =>
              /\ Cleared(n) => Cleared(run[h]) /\ n.t = run[h].t
              /\ \A t \in Task : OwedBy(t) /\ ~(Cleared(run[h]) /\ run[h].t = t) =>
                    \/ task'[t].status \in Active
                    \/ Pays(n, t, task')
                    \/ \E k \in Handler : k # h /\ Pays(run[k], t, task')
    BY <2>2, <2>3
  <2> HIDE DEF f
  <2> QED
    BY <1>3, <2>4, <2>5, <2>6, OwedGo DEF Held
<1> QED
  BY <1>6, <1>7, <1>8 DEF Held

\* A handler goes on and writes nothing.
LEMMA RestHeld ==
    ASSUME IInv, Held, NEW h \in Handler, Busy(run[h]),
           run[h].pc \notin {"readGame", "reset", "failTask", "failGame", "failWrite"},
           NEW n, Keeps(run[h], n), Goes(h, n),
           UNCHANGED <<game, task, bundle, up, relay, alone, faults>>
    PROVE  Held'
<1> DEFINE f == run[h]
<1>1. /\ f \in Frame /\ f.t \in Task /\ f # Idle
      /\ f.pc \notin Free \cup {"idle"} /\ f.pc \notin {"idle", "game", "ensure"}
  BY DEF Busy, Free, Idle
<1>2. Ran(h, n) /\ n \in Frame \cup {Idle}
  BY KeepsTyped DEF Ran, Goes
<1>3. AllBorn'
  <2>1. n.pc \notin Free \cup {"idle"} => n.t \in Task /\ task'[n.t].status # "none"
    BY <1>1, KeepsTask DEF Held, AllBorn, Born
  <2> QED
    BY <1>2, <2>1, BornGo DEF Held
<1>4. Turns'
  <2>1. alone' => alone /\ \A k \in Handler : k = h \/ run[k] = Idle
    BY <1>1 DEF Held, Turns
  <2>2. alone => Sound(f, task, bundle)
    BY DEF Held, Turns
  <2>3. alone' => Sound(n, task', bundle')
    BY <1>1, <2>2, KeepsSound
  <2>4. alone' => \A t \in Task : RowSound(t, task'[t], bundle', game'.version)
    BY DEF Held, Turns
  <2> QED
    BY <1>2, <2>1, <2>3, <2>4, TurnsGo DEF Held
<1>5. Owed'
  <2>1. game.status = "generating" => (Cleared(n) => Cleared(f) /\ n.t = f.t)
    BY <1>1, KeepsCleared
  <2>2. \A t \in Task : OwedBy(t) =>
           \/ task'[t].status \in Active
           \/ \E k \in Handler : k # h /\ Pays(run[k], t, task')
    BY DEF OwedBy, Pays, ActiveTasks
  <2> HIDE DEF f
  <2> QED
    BY <1>2, <2>1, <2>2, OwedGo DEF Held, f
<1> QED
  BY <1>3, <1>4, <1>5 DEF Held

\* completeIterationTask, from where it reads the game it will write.
LEMMA PublishReadHeld ==
    ASSUME IInv, Held, NEW h \in Handler, PublishRead(h)
    PROVE  Held'
<1> DEFINE f == run[h]
<1>1. /\ f.pc = "pubGame" /\ f.pc \notin Free \cup {"idle"}
      /\ UNCHANGED <<game, task, bundle, up, relay, alone, faults>>
  BY DEF PublishRead, In, Free, engine
<1>2. f \in Frame /\ f.t \in Task /\ f # Idle /\ game \in GameRow /\ Busy(f)
  BY <1>1, BusyFrame DEF Busy
<1>3. ASSUME NEW n \in Retried(f, "superseded"), Goes(h, n) PROVE Held'
  <2>1. Sees(f)
    BY <1>1 DEF Sees, Looked
  <2>2. Keeps(f, n)
    BY <1>2, <1>3, <2>1, RetriedKeeps
  <2> QED
    BY <1>1, <1>2, <1>3, <2>2, RestHeld
<1>4. ASSUME Goes(h, [At(f, "pubBundle") EXCEPT !.seen = game]) PROVE Held'
  <2> DEFINE a == At(f, "pubBundle")
             n == [a EXCEPT !.seen = game]
  <2>1. /\ a \in Frame /\ a.pc = "pubBundle" /\ a.t = f.t /\ a.op = f.op /\ a.row = f.row
        /\ a.g = f.g
    BY <1>2, AtKept DEF Program, Tail
  <2> HIDE DEF a
  <2>2. /\ n \in Frame /\ n.pc = "pubBundle" /\ n.t = f.t /\ n.op = f.op /\ n.row = f.row
        /\ n.g = f.g
    BY <1>2, <2>1 DEF Frame
  <2>3. Goes(h, n)
    BY <1>4 DEF a
  <2> HIDE DEF n
  <2>4. Ran(h, n)
    BY <2>3 DEF Ran, Goes
  <2>5. AllBorn'
    <3>1. n.t \in Task /\ task'[n.t].status # "none"
      BY <1>1, <1>2, <2>2 DEF Held, AllBorn, Born
    <3> QED
      BY <1>1, <2>2, <2>4, <3>1, BornGo DEF Held
  <2>6. Turns'
    <3>1. alone' => alone /\ \A k \in Handler : k = h \/ run[k] = Idle
      BY <1>1, <1>2 DEF Held, Turns
    <3>2. alone => Sound(f, task, bundle)
      BY DEF Held, Turns
    <3>3. alone' => Sound(n, task', bundle')
      BY <1>1, <2>2, <3>2 DEF Sound, Works, Ends, Carry, Looked
    <3>4. alone' => \A t \in Task : RowSound(t, task'[t], bundle', game'.version)
      BY <1>1 DEF Held, Turns
    <3> QED
      BY <2>2, <2>4, <3>1, <3>3, <3>4, TurnsGo DEF Held
  <2>7. Owed'
    <3>1. Cleared(n) => Cleared(f) /\ n.t = f.t
      BY <1>1, <2>2 DEF Cleared, Ends, Looked
    <3>2. \A t \in Task : OwedBy(t) =>
             \/ task'[t].status \in Active
             \/ \E k \in Handler : k # h /\ Pays(run[k], t, task')
      BY <1>1 DEF OwedBy, Pays, ActiveTasks
    <3> HIDE DEF f
    <3> QED
      BY <1>1, <2>2, <2>4, <3>1, <3>2, OwedGo DEF Held, f
  <2> QED
    BY <2>5, <2>6, <2>7 DEF Held
<1> QED
  BY <1>3, <1>4 DEF PublishRead

\* The bundle: the version is free, or this task's already.
LEMMA PublishBundleHeld ==
    ASSUME IInv, Held, NEW h \in Handler, PublishBundle(h)
    PROVE  Held'
<1> DEFINE f == run[h]
<1>1. /\ f.pc = "pubBundle" /\ f.pc \notin Free \cup {"idle"}
      /\ UNCHANGED <<game, task, up, relay, alone, faults>>
  BY DEF PublishBundle, In, Free, engine
<1>2. f \in Frame /\ f.t \in Task /\ f # Idle /\ game \in GameRow /\ Busy(f)
  BY <1>1, BusyFrame DEF Busy
<1>3. ASSUME NEW n \in Retried(f, "superseded"), Goes(h, n), UNCHANGED bundle PROVE Held'
  <2>1. Sees(f)
    BY <1>1 DEF Sees, Looked
  <2>2. Keeps(f, n)
    BY <1>2, <1>3, <2>1, RetriedKeeps
  <2> QED
    BY <1>1, <1>2, <1>3, <2>2, RestHeld
<1>4. ASSUME ~Owned(f), Goes(h, At(f, "pubSwap")), bundle' = [bundle EXCEPT ![f.row.version] = f.t]
      PROVE  Held'
  <2> DEFINE n == At(f, "pubSwap")
             v == f.row.version
  <2>1. n \in Frame /\ n.pc = "pubSwap" /\ n.t = f.t /\ n.op = f.op /\ n.row = f.row /\ n.g = f.g
    BY <1>2, AtKept DEF Program, Tail
  <2>2. Goes(h, n)
    BY <1>4
  <2> HIDE DEF n
  <2>3. Ran(h, n)
    BY <2>2 DEF Ran, Goes
  <2>4. AllBorn'
    <3>1. n.t \in Task /\ task'[n.t].status # "none"
      BY <1>1, <1>2, <2>1 DEF Held, AllBorn, Born
    <3> QED
      BY <1>1, <2>1, <2>3, <3>1, BornGo DEF Held
  <2>5. v \in Version /\ bundle'[v] = f.t /\ bundle[v] \in {"none", f.t}
        /\ \A w \in Version : w # v => bundle'[w] = bundle[w]
    BY <1>2, <1>4 DEF Frame, TaskRow, IInv, Rows, Owned
  <2>6. Turns'
    <3>1. alone' => alone /\ \A k \in Handler : k = h \/ run[k] = Idle
      BY <1>1, <1>2 DEF Held, Turns
    <3>2. alone => Sound(f, task, bundle)
      BY DEF Held, Turns
    <3>3. alone' => Sound(n, task', bundle')
      BY <1>1, <2>1, <2>5, <3>2 DEF Sound, Works, Ends, Carry, Looked
    <3>4. ASSUME alone, NEW t \in Task PROVE RowSound(t, task'[t], bundle', game'.version)
      <4>1. RowSound(t, task[t], bundle, game.version)
        BY <3>4 DEF Held, Turns
      <4>2. task[f.t].status \in Active /\ task[f.t].version = v
        BY <1>1, <3>2, <3>4 DEF Sound, Works, Ends
      <4>3. task[t].version \in Version /\ task[t] \in TaskRow
        BY DEF IInv, Rows, TaskRow
      <4>4. t \in Task /\ t # "none"
        BY ConstantsAssumption
      <4>5. task[t].status \in Active => t = f.t
        BY <1>2, <4>2 DEF IInv, OneActiveTask, ActiveTasks
      <4>6. CASE task[t].status \in Active
        <5>1. t = f.t /\ bundle'[task[t].version] = t
          BY <2>5, <4>2, <4>5, <4>6
        <5>2. task[t].status # "succeeded"
          BY <4>6 DEF Active
        <5> QED
          BY <1>1, <4>4, <5>1, <5>2 DEF RowSound
      <4>7. CASE task[t].status \notin Active
        <5>1. task[t].status = "succeeded" => task[t].version # v
          BY <2>5, <4>1, <4>2, <4>4, <4>7 DEF RowSound
        <5> QED
          BY <1>1, <2>5, <4>1, <4>3, <4>7, <5>1 DEF RowSound
      <4> QED
        BY <4>6, <4>7
    <3> QED
      BY <1>1, <2>1, <2>3, <3>1, <3>3, <3>4, TurnsGo DEF Held
  <2>7. Owed'
    <3>1. Cleared(n) => Cleared(f) /\ n.t = f.t
      BY <1>1, <2>1 DEF Cleared, Ends, Looked
    <3>2. \A t \in Task : OwedBy(t) =>
             \/ task'[t].status \in Active
             \/ \E k \in Handler : k # h /\ Pays(run[k], t, task')
      BY <1>1 DEF OwedBy, Pays, ActiveTasks
    <3> HIDE DEF f
    <3> QED
      BY <1>1, <2>1, <2>3, <3>1, <3>2, OwedGo DEF Held, f
  <2> QED
    BY <2>4, <2>6, <2>7 DEF Held
<1> QED
  BY <1>3, <1>4 DEF PublishBundle

\* The game: it leaves generation, for the version of the task.
LEMMA PublishSwapHeld ==
    ASSUME IInv, Held, NEW h \in Handler, PublishSwap(h)
    PROVE  Held'
<1> DEFINE f == run[h]
           n == At(f, "succRead")
<1>1. /\ f.pc = "pubSwap" /\ f.pc \notin Free \cup {"idle"}
      /\ UNCHANGED <<task, bundle, up, relay, alone, faults>>
  BY DEF PublishSwap, In, Free, engine
<1>2. f \in Frame /\ f.t \in Task /\ f # Idle /\ game \in GameRow /\ f.row \in TaskRow
  BY <1>1, BusyFrame DEF Frame
<1>3. n \in Frame /\ n.pc = "succRead" /\ n.t = f.t /\ n.op = f.op
  BY <1>2, AtKept DEF Program
<1>4. /\ game'.status \in Base
      /\ game'.version \in {game.version, f.row.version}
      /\ Ran(h, n)
  <2>1. ToldBase(f) \in Base
    BY <1>2 DEF ToldBase, Base, TaskRow
  <2>2. game'.status = ToldBase(f) /\ game'.version \in {game.version, f.row.version}
    BY <1>2 DEF PublishSwap, WriteGame, GameRow
  <2> QED
    BY <2>1, <2>2 DEF PublishSwap, WriteGame, Ran
<1> HIDE DEF n
<1>5. AllBorn'
  <2>1. n.t \in Task /\ task'[n.t].status # "none"
    BY <1>1, <1>2, <1>3 DEF Held, AllBorn, Born
  <2> QED
    BY <1>1, <1>3, <1>4, <2>1, BornGo DEF Held
<1>6. Turns'
  <2>1. alone' => alone /\ \A k \in Handler : k = h \/ run[k] = Idle
    BY <1>1, <1>2 DEF Held, Turns
  <2>2. ASSUME alone
        PROVE  /\ task[f.t].status \in Active /\ task[f.t].version = f.row.version
               /\ bundle[f.row.version] = f.t
               /\ f.op \in Edit => ActiveIn(task) \subseteq {f.t}
    <3>1. Sound(f, task, bundle)
      BY <2>2 DEF Held, Turns
    <3> QED
      BY <1>1, <3>1 DEF Sound, Works
  <2>3. alone' => Sound(n, task', bundle')
    BY <1>1, <1>3, <2>2 DEF Sound, Works, Ends, Carry, Looked
  <2>4. ASSUME alone, NEW t \in Task PROVE RowSound(t, task'[t], bundle', game'.version)
    <3>1. RowSound(t, task[t], bundle, game.version)
      BY <2>4 DEF Held, Turns
    <3>2. task[t].status \in Active => t = f.t
      BY <1>2, <2>2, <2>4 DEF IInv, OneActiveTask, ActiveTasks
    <3>3. f.t # "none"
      BY <1>2, ConstantsAssumption
    <3> QED
      BY <1>1, <2>2, <2>4, <3>1, <3>2, <3>3 DEF RowSound
  <2> QED
    BY <1>1, <1>3, <1>4, <2>1, <2>3, <2>4, TurnsGo DEF Held
<1>7. Owed'
  BY <1>4 DEF Owed, Base
<1> QED
  BY <1>5, <1>6, <1>7 DEF Held

\* markSucceeded looks whether the task has ended.
LEMMA SucceedReadHeld ==
    ASSUME IInv, Held, NEW h \in Handler, SucceedRead(h)
    PROVE  Held'
<1> DEFINE f == run[h]
<1>1. /\ f.pc = "succRead" /\ f.pc \notin Free \cup {"idle"}
      /\ UNCHANGED <<game, task, bundle, up, relay, alone, faults>>
  BY DEF SucceedRead, In, Free, engine
<1>2. f \in Frame /\ f.t \in Task /\ f # Idle /\ game \in GameRow /\ Busy(f)
  BY <1>1, BusyFrame DEF Busy
<1>3. CASE Goes(h, Done(f))
  BY <1>1, <1>2, <1>3, DoneKeeps, RestHeld
<1>4. ASSUME Goes(h, At(f, "succWrite")) PROVE Held'
  <2> DEFINE n == At(f, "succWrite")
  <2>1. n \in Frame /\ n.pc = "succWrite" /\ n.t = f.t /\ n.op = f.op
    BY <1>2, AtKept DEF Program
  <2>2. Goes(h, n)
    BY <1>4
  <2> HIDE DEF n
  <2>3. Ran(h, n)
    BY <2>2 DEF Ran, Goes
  <2>4. AllBorn'
    <3>1. n.t \in Task /\ task'[n.t].status # "none"
      BY <1>1, <1>2, <2>1 DEF Held, AllBorn, Born
    <3> QED
      BY <1>1, <2>1, <2>3, <3>1, BornGo DEF Held
  <2>5. Turns'
    <3>1. alone' => alone /\ \A k \in Handler : k = h \/ run[k] = Idle
      BY <1>1, <1>2 DEF Held, Turns
    <3>2. alone => Sound(f, task, bundle)
      BY DEF Held, Turns
    <3>3. alone' => Sound(n, task', bundle')
      BY <1>1, <2>1, <3>2 DEF Sound, Works, Ends, Carry, Looked
    <3>4. alone' => \A t \in Task : RowSound(t, task'[t], bundle', game'.version)
      BY <1>1 DEF Held, Turns
    <3> QED
      BY <2>1, <2>3, <3>1, <3>3, <3>4, TurnsGo DEF Held
  <2>6. Owed'
    <3>1. Cleared(n) => Cleared(f) /\ n.t = f.t
      BY <1>1, <2>1 DEF Cleared, Ends
    <3>2. \A t \in Task : OwedBy(t) =>
             \/ task'[t].status \in Active
             \/ \E k \in Handler : k # h /\ Pays(run[k], t, task')
      BY <1>1 DEF OwedBy, Pays, ActiveTasks
    <3> HIDE DEF f
    <3> QED
      BY <1>1, <2>1, <2>3, <3>1, <3>2, OwedGo DEF Held, f
  <2> QED
    BY <2>4, <2>5, <2>6 DEF Held
<1> QED
  BY <1>3, <1>4 DEF SucceedRead
-----------------------------------------------------------------------------
(* Steps that write a task.                                                *)

\* A frame that relies on nothing it has read.
LEMMA LooseSound ==
    ASSUME NEW f \in Frame, NEW n, Keeps(f, n), n.pc \notin Carry, NEW rows, NEW b,
           f.op \in Edit => ActiveIn(rows) \subseteq {f.t}
    PROVE  Sound(n, rows, b)
<1>1. CASE n = Idle
  BY <1>1, IdleSound
<1>2. CASE n # Idle
  <2>1. n.pc \in Loose /\ n.t = f.t /\ n.op = f.op /\ (n.pc = "recheck" => n.op \in Edit)
    BY <1>2 DEF Keeps
  <2>2. n.pc \notin {"readGame", "pubBundle", "pubSwap", "latest", "claim", "publish"}
                    \cup Ends \cup Works
    BY <2>1 DEF Works, Carry, Looked, Loose, Ends
  <2> QED
    BY <2>1, <2>2 DEF Sound
<1> QED
  BY <1>1, <1>2

\* The writer of a task: either the task stays as active as it was, or the
\* writer was cleared to end it, or takes care of the game after that.
LEMMA TaskHeld ==
    ASSUME IInv, Held, NEW h \in Handler, Busy(run[h]),
           run[h].pc \notin {"failTask", "failGame", "failWrite"},
           NEW row \in TaskRow, task' = [task EXCEPT ![run[h].t] = row],
           row.version = task[run[h].t].version, row.status # "none",
           row.status \in Active => task[run[h].t].status \in Active,
           row.status = "succeeded" /\ alone => bundle[row.version] = run[h].t,
           UNCHANGED <<bundle, up, relay, alone, faults>>,
           game'.version = game.version, game' = game \/ game'.status \in Base,
           NEW n \in Frame \cup {Idle}, Ran(h, n), n.pc \notin Free \cup {"idle"} => n.t = run[h].t,
           alone => Sound(n, task', bundle'),
           game.status = "generating" /\ game' = game =>
              /\ Cleared(n) => Cleared(run[h]) /\ n.t = run[h].t
              /\ \/ Cleared(run[h])
                 \/ task[run[h].t].status \in Active => row.status \in Active
                 \/ Pays(n, run[h].t, task')
              /\ row.status \in {"succeeded", "canceled"} =>
                    Cleared(run[h]) \/ row.status = task[run[h].t].status
    PROVE  Held'
<1> DEFINE f == run[h]
<1>1. f \in Frame /\ f.t \in Task /\ f.pc \notin Free \cup {"idle"} /\ f # Idle
  BY DEF Busy, Idle
<1>2. task'[f.t] = row /\ \A t \in Task : t # f.t => task'[t] = task[t]
  BY <1>1 DEF IInv, Rows
<1>3. AllBorn'
  <2>1. \A t \in Task : task[t].status # "none" => task'[t].status # "none"
    BY <1>2
  <2>2. n.pc \notin Free \cup {"idle"} => n.t \in Task /\ task'[n.t].status # "none"
    BY <1>1, <1>2
  <2> HIDE DEF f
  <2> QED
    BY <2>1, <2>2, BornGo DEF Held
<1>4. Turns'
  <2>1. alone' => alone /\ \A k \in Handler : k = h \/ run[k] = Idle
    BY <1>1 DEF Held, Turns
  <2>2. ASSUME alone, NEW t \in Task PROVE RowSound(t, task'[t], bundle', game'.version)
    <3>1. RowSound(t, task[t], bundle, game.version)
      BY <2>2 DEF Held, Turns
    <3> QED
      BY <1>2, <2>2, <3>1 DEF RowSound
  <2> HIDE DEF f
  <2> QED
    BY <2>1, <2>2, TurnsGo DEF Held
<1>5. Owed'
  <2>1. game'.status = "generating" => game' = game
    BY DEF Base
  <2>2. ASSUME game.status = "generating", game' = game, NEW t \in Task, OwedBy(t),
               ~(Cleared(f) /\ f.t = t)
        PROVE  \/ task'[t].status \in Active
               \/ Pays(n, t, task')
               \/ \E k \in Handler : k # h /\ Pays(run[k], t, task')
    <3>1. \A k \in Handler : Pays(run[k], t, task) => k # h
      BY DEF Pays
    <3>2. CASE t # f.t
      BY <1>2, <2>2, <3>1, <3>2 DEF OwedBy, Pays, ActiveTasks
    <3>3. CASE t = f.t
      <4>1. ~Cleared(f)
        BY <2>2, <3>3
      <4>2. \/ row.status \notin {"succeeded", "canceled"}
            \/ row.status = task[f.t].status
        BY <2>2, <4>1
      <4>3. \A k \in Handler : Pays(run[k], t, task) => Pays(run[k], t, task')
        BY <1>2, <3>3, <4>2 DEF Pays
      <4>4. t \in ActiveTasks => task'[t].status \in Active \/ Pays(n, t, task')
        BY <1>2, <2>2, <3>3, <4>1 DEF ActiveTasks
      <4> QED
        BY <2>2, <3>1, <4>3, <4>4 DEF OwedBy
    <3> QED
      BY <3>2, <3>3
  <2>3. game.status = "generating" /\ game'.status = "generating" =>
              /\ Cleared(n) => Cleared(run[h]) /\ n.t = run[h].t
              /\ \A t \in Task : OwedBy(t) /\ ~(Cleared(run[h]) /\ run[h].t = t) =>
                    \/ task'[t].status \in Active
                    \/ Pays(n, t, task')
                    \/ \E k \in Handler : k # h /\ Pays(run[k], t, task')
    BY <2>1, <2>2
  <2> HIDE DEF f
  <2> QED
    BY <2>1, <2>3, OwedGo DEF Held
<1> QED
  BY <1>3, <1>4, <1>5 DEF Held

\* What becomes of the row, whatever is written.
LEMMA RowKept ==
    ASSUME NEW row \in TaskRow
    PROVE  /\ \A st \in Final : /\ [row EXCEPT !.status = st] \in TaskRow
                                /\ [row EXCEPT !.status = st].status = st
                                /\ [row EXCEPT !.status = st].version = row.version
           /\ [row EXCEPT !.bound = TRUE] \in TaskRow
           /\ [row EXCEPT !.bound = TRUE].status = row.status
           /\ [row EXCEPT !.bound = TRUE].version = row.version
           /\ Started(row) \in TaskRow /\ Started(row).version = row.version
           /\ Started(row).status \in Active <=> row.status \in Active
           /\ Started(row).status = row.status \/ Started(row).status = "running"
<1>1. \A st \in Final : /\ [row EXCEPT !.status = st] \in TaskRow
                        /\ [row EXCEPT !.status = st].status = st
                        /\ [row EXCEPT !.status = st].version = row.version
  BY DEF TaskRow
<1>2. /\ [row EXCEPT !.bound = TRUE] \in TaskRow
      /\ [row EXCEPT !.bound = TRUE].status = row.status
      /\ [row EXCEPT !.bound = TRUE].version = row.version
  BY DEF TaskRow
<1>3. CASE row.status = "queued"
  <2>1. Started(row) = [row EXCEPT !.status = "running"]
    BY <1>3 DEF Started
  <2>2. Started(row) \in TaskRow /\ Started(row).version = row.version
        /\ Started(row).status = "running"
    BY <2>1 DEF TaskRow, Active
  <2> QED
    BY <1>1, <1>2, <1>3, <2>2 DEF Active
<1>4. CASE row.status # "queued"
  BY <1>1, <1>2, <1>4 DEF Started
<1> QED
  BY <1>3, <1>4

\* A task is marked as running, or bound.
LEMMA StartHeld ==
    ASSUME IInv, Held, NEW h \in Handler, MarkRunning(h) \/ Bind(h)
    PROVE  Held'
<1> DEFINE f == run[h]
           old == task[f.t]
<1>1. /\ f.pc \in {"run", "bind"} /\ f.pc \notin Free \cup {"idle"}
      /\ UNCHANGED <<game, bundle, up, relay, alone, faults>>
  BY DEF MarkRunning, Bind, In, Free, engine
<1>2. f \in Frame /\ f.t \in Task /\ f # Idle /\ game \in GameRow /\ Busy(f) /\ old \in TaskRow
  BY <1>1, BusyFrame DEF Busy
<1>3. old.status # "none"
  BY <1>1, <1>2 DEF Held, AllBorn, Born
<1>4. PICK row \in TaskRow : /\ row.version = old.version
                             /\ task' = [task EXCEPT ![f.t] = row]
                             /\ row.status \in Active <=> old.status \in Active
                             /\ row.status = old.status \/ row.status = "running"
  <2>1. CASE MarkRunning(h)
    <3>1. task' = [task EXCEPT ![f.t] = Started(old)]
      BY <2>1 DEF MarkRunning
    <3> QED
      BY <1>2, <3>1, RowKept
  <2>2. CASE Bind(h)
    <3> DEFINE new == [old EXCEPT !.bound = TRUE]
    <3>1. task' = [task EXCEPT ![f.t] = new]
      BY <2>2 DEF Bind
    <3>2. new \in TaskRow /\ new.version = old.version /\ new.status = old.status
      BY <1>2, RowKept
    <3> HIDE DEF new
    <3> QED
      BY <3>1, <3>2
  <2> QED
    BY <2>1, <2>2
<1>5. PICK n \in Frame \cup {Idle} : Goes(h, n) /\ Keeps(f, n) /\ n.pc \in {"launch", "idle"}
  <2>1. CASE MarkRunning(h)
    <3> DEFINE a == At(f, "launch")
    <3>1. a \in Frame /\ a.pc = "launch" /\ a.t = f.t /\ a.op = f.op /\ a.row = f.row /\ a.g = f.g
      BY <1>2, AtKept DEF Program, Tail
    <3>2. Goes(h, a)
      BY <2>1 DEF MarkRunning
    <3>3. Acts(f) /\ "launch" \in Carry /\ "launch" \notin Looked
      BY <1>1 DEF Acts, Carry, Looked
    <3> HIDE DEF a
    <3>4. Keeps(f, a)
      BY <1>2, <3>1, <3>3, CarryKeeps
    <3> QED
      BY <3>1, <3>2, <3>4
  <2>2. CASE Bind(h)
    <3>1. Goes(h, Idle) /\ Idle.pc = "idle"
      BY <2>2 DEF Bind, Idle
    <3> QED
      BY <1>2, <3>1, DoneKeeps
  <2> QED
    BY <2>1, <2>2
<1>6. Ran(h, n)
  BY <1>5 DEF Ran, Goes
<1>7. task'[f.t] = row /\ \A t \in Task : t # f.t => task'[t] = task[t]
  BY <1>2, <1>4 DEF IInv, Rows
<1>8. alone => Sound(n, task', bundle')
  <2> SUFFICES ASSUME alone PROVE Sound(n, task', bundle')
    OBVIOUS
  <2>1. Sound(f, task, bundle)
    BY DEF Held, Turns
  <2>2. ActiveIn(task') = ActiveIn(task)
    BY <1>2, <1>4, <1>7 DEF ActiveIn
  <2>3. Sound(f, task', bundle')
    BY <1>1, <1>4, <1>7, <2>1, <2>2 DEF Sound, Works, Ends, Carry, Looked
  <2> QED
    BY <1>1, <1>2, <1>5, <2>3, KeepsSound
<1>9. row.status = "succeeded" /\ alone => bundle[row.version] = f.t
  BY <1>2, <1>4 DEF Held, Turns, RowSound
<1>10. ~Cleared(n)
  BY <1>5 DEF Cleared, Ends, Looked
<1>11. /\ f.pc \notin {"failTask", "failGame", "failWrite"}
       /\ n.pc \notin Free \cup {"idle"} => n.t = f.t
       /\ row.status # "none"
       /\ game'.version = game.version
       /\ row.status \in {"succeeded", "canceled"} => row.status = old.status
  BY <1>1, <1>2, <1>3, <1>4, <1>5, KeepsTask
<1> HIDE DEF f
<1> QED
  BY <1>1, <1>2, <1>4, <1>6, <1>8, <1>9, <1>10, <1>11, TaskHeld DEF f

\* A task ends: the writes of persistTaskCancellation, markFailed and markSucceeded.
LEMMA EndHeld ==
    ASSUME IInv, Held, NEW h \in Handler, CancelWrite(h) \/ MarkWrite(h) \/ SucceedWrite(h)
    PROVE  Held'
<1> DEFINE f == run[h]
           old == task[f.t]
<1>1. /\ f.pc \in {"cancelWrite", "markWrite", "succWrite"} /\ f.pc \notin Free \cup {"idle"}
      /\ UNCHANGED <<bundle, up, relay, alone, faults>>
  BY DEF CancelWrite, MarkWrite, SucceedWrite, In, Free, engine
<1>2. f \in Frame /\ f.t \in Task /\ f # Idle /\ game \in GameRow /\ Busy(f) /\ old \in TaskRow
      /\ old.base \in Base
  BY <1>1, BusyFrame DEF Busy, TaskRow
<1>3. PICK st \in {"canceled", "timed_out", "failed", "succeeded"} :
         /\ task' = [task EXCEPT ![f.t] = [old EXCEPT !.status = st]]
         /\ st = "canceled" => f.pc = "cancelWrite"
         /\ st = "succeeded" => f.pc = "succWrite"
  BY DEF CancelWrite, MarkWrite, SucceedWrite, In
<1> DEFINE row == [old EXCEPT !.status = st]
<1>4. row \in TaskRow /\ row.status = st /\ row.version = old.version
      /\ st \notin Active /\ st # "none"
  <2>1. st \in Final /\ st \notin Active /\ st # "none"
    BY DEF Final, Active
  <2> QED
    BY <1>2, <2>1, RowKept
<1>5. task' = [task EXCEPT ![f.t] = row]
  BY <1>3
<1> HIDE DEF row
<1>6. PICK n \in {Done(f), Marked(f)} :
         /\ Ran(h, n)
         /\ n \in {Done(f), Aim(f, "failTask", "failed")}
         /\ (f.pc = "markWrite" /\ f.goal = "relayed") => (n = Aim(f, "failTask", "failed") /\ st = "failed")
         /\ game'.version = game.version
         /\ game' = game \/ game'.status \in Base
         /\ (f.pc = "cancelWrite" /\ game' = game /\ game.status = "generating") => f.g.status # "generating"
  <2>1. CASE CancelWrite(h)
    <3>1. f.pc = "cancelWrite" /\ st = "canceled"
      <4>1. task'[f.t] = row
        BY <1>2, <1>5 DEF IInv, Rows
      <4>2. task'[f.t].status = "canceled"
        BY <1>2, <2>1 DEF CancelWrite, IInv, Rows, TaskRow
      <4> QED
        BY <1>4, <2>1, <4>1, <4>2 DEF CancelWrite, In
    <3>2. CASE f.g.status = "generating"
      <4>1. WriteGame(h, Done(f), [game EXCEPT !.status = old.base])
        BY <2>1, <3>2 DEF CancelWrite
      <4>2. game'.status \in Base /\ game'.version = game.version /\ Ran(h, Done(f))
        BY <1>2, <4>1 DEF WriteGame, Ran, GameRow
      <4> QED
        BY <3>1, <4>2 DEF Base
    <3>3. CASE f.g.status # "generating"
      <4>1. Goes(h, Done(f)) /\ game' = game
        BY <2>1, <3>3 DEF CancelWrite
      <4> QED
        BY <3>1, <3>3, <4>1 DEF Ran, Goes
    <3> QED
      BY <3>2, <3>3
  <2>2. CASE MarkWrite(h)
    <3>1. f.pc = "markWrite" /\ Ran(h, Marked(f)) /\ game' = game
      BY <2>2 DEF MarkWrite, In, Ran, Goes
    <3>2. f.goal = "relayed" => st = "failed"
      <4>1. task'[f.t] = row
        BY <1>2, <1>5 DEF IInv, Rows
      <4>2. task'[f.t].status = IF f.goal = "timed_out" THEN "timed_out" ELSE "failed"
        BY <1>2, <2>2 DEF MarkWrite, IInv, Rows, TaskRow
      <4> QED
        BY <1>4, <4>1, <4>2
    <3> QED
      BY <3>1, <3>2 DEF Marked
  <2>3. CASE SucceedWrite(h)
    <3>1. f.pc = "succWrite" /\ Ran(h, Done(f)) /\ game' = game
      BY <2>3 DEF SucceedWrite, In, Ran, Goes
    <3> QED
      BY <3>1
  <2> QED
    BY <2>1, <2>2, <2>3
<1>7. Keeps(f, n) /\ n.pc \notin Carry /\ ~Cleared(n) /\ n \in Frame \cup {Idle}
  <2>1. Keeps(f, Done(f)) /\ Keeps(f, Aim(f, "failTask", "failed"))
    BY <1>2, DoneKeeps, LooseKeeps DEF Goal
  <2>2. Aim(f, "failTask", "failed").pc = "failTask"
    BY <1>2, AimKept DEF Goal, Program
  <2>3. Done(f).pc \in {"recheck", "ban", "idle"}
    <3>1. At(f, "recheck").pc = "recheck" /\ At(f, "ban").pc = "ban" /\ Idle.pc = "idle"
      BY <1>2, AtKept DEF Program, Idle
    <3>2. f.op \in {"iterate", "publish", "delete", "deliver", "status", "cancel", "relay"}
      BY <1>2 DEF Frame
    <3>3. Done(f) \in {At(f, "recheck"), At(f, "ban"), Idle}
      BY <3>2 DEF Done
    <3> QED
      BY <3>1, <3>3
  <2>4. Keeps(f, n) /\ n.pc \in {"recheck", "ban", "idle", "failTask"}
    BY <1>6, <2>1, <2>2, <2>3
  <2> QED
    BY <2>4, KeepsTyped DEF Carry, Looked, Cleared, Ends
<1>8. task'[f.t] = row /\ \A t \in Task : t # f.t => task'[t] = task[t]
  BY <1>2, <1>4, <1>5 DEF IInv, Rows
<1>9. alone => Sound(n, task', bundle')
  <2> SUFFICES ASSUME alone PROVE Sound(n, task', bundle')
    OBVIOUS
  <2>1. Sound(f, task, bundle)
    BY DEF Held, Turns
  <2>2. ActiveIn(task') \subseteq ActiveIn(task)
    BY <1>4, <1>8 DEF ActiveIn
  <2>3. f.op \in Edit => ActiveIn(task') \subseteq {f.t}
    BY <1>1, <2>1, <2>2 DEF Sound
  <2> QED
    BY <1>2, <1>7, <2>3, LooseSound
<1>10. row.status = "succeeded" /\ alone => bundle[row.version] = f.t
  <2>1. alone => Sound(f, task, bundle)
    BY DEF Held, Turns
  <2>2. row.status = "succeeded" => f.pc = "succWrite"
    BY <1>3, <1>4
  <2> QED
    BY <1>4, <2>1, <2>2 DEF Sound, Ends
<1>11. ASSUME game.status = "generating", game' = game
       PROVE  /\ Cleared(f) \/ Pays(n, f.t, task')
              /\ row.status \in {"succeeded", "canceled"} => Cleared(f)
  <2>1. CASE f.pc = "cancelWrite"
    BY <1>6, <1>11, <2>1 DEF Cleared
  <2>2. CASE f.pc = "markWrite"
    <3>1. f.goal = "relayed" => Pays(n, f.t, task')
      <4>1. Aim(f, "failTask", "failed").pc = "failTask" /\ Aim(f, "failTask", "failed").t = f.t
        BY <1>2, AimKept DEF Goal, Program
      <4> QED
        BY <1>4, <1>6, <1>8, <2>2, <4>1 DEF Pays
    <3> QED
      BY <1>3, <1>4, <2>2, <3>1 DEF Cleared
  <2>3. CASE f.pc = "succWrite"
    BY <2>3 DEF Cleared, Ends
  <2> QED
    BY <1>1, <2>1, <2>2, <2>3
<1>12. n.pc \notin Free \cup {"idle"} => n.t = f.t
  BY <1>2, <1>7, KeepsTask
<1> HIDE DEF f
<1> QED
  BY <1>1, <1>2, <1>4, <1>5, <1>6, <1>7, <1>9, <1>10, <1>11, <1>12, TaskHeld DEF f
-----------------------------------------------------------------------------
(* Steps of a handler that has no task yet, or reads one.                  *)

LEMMA GoHeld ==
    ASSUME IInv, Held, NEW h \in Handler, run[h] # Idle,
           run[h].pc \notin {"failTask", "failGame", "failWrite"},
           UNCHANGED <<task, bundle, up, relay, alone, faults>>,
           NEW n \in Frame \cup {Idle}, Ran(h, n),
           n.pc \notin Free \cup {"idle"} => n.t \in Task /\ task[n.t].status # "none",
           alone => Sound(n, task, bundle),
           alone => \A t \in Task : RowSound(t, task[t], bundle, game'.version),
           game'.status = "generating" => game.status = "generating" /\ ~Cleared(n)
    PROVE  Held'
<1>1. AllBorn'
  BY BornGo DEF Held
<1>2. Turns'
  <2>1. alone' => alone /\ \A k \in Handler : k = h \/ run[k] = Idle
    BY DEF Held, Turns
  <2> QED
    BY <2>1, TurnsGo DEF Held
<1>3. Owed'
  <2>1. \A t \in Task : OwedBy(t) =>
           \/ task'[t].status \in Active
           \/ \E k \in Handler : k # h /\ Pays(run[k], t, task')
    BY DEF OwedBy, Pays, ActiveTasks
  <2> QED
    BY <2>1, OwedGo DEF Held
<1> QED
  BY <1>1, <1>2, <1>3 DEF Held

\* The statements of iterate() and publish() before their writes.
LEMMA EditHeld ==
    ASSUME IInv, Held, NEW h \in Handler,
           EditReadGame(h) \/ Ensure(h) \/ Recheck(h) \/ ReadLatest(h)
    PROVE  Held'
<1> DEFINE f == run[h]
<1>1. /\ f.pc \in {"game", "ensure", "recheck", "latest"}
      /\ UNCHANGED <<game, task, bundle, up, relay, alone, faults>>
  BY DEF EditReadGame, Ensure, Recheck, ReadLatest, In, engine
<1>2. f \in Frame /\ f # Idle
  BY <1>1, Framed DEF Idle
<1>3. Sound(f, task, bundle) \/ ~alone
  BY DEF Held, Turns
<1>4. \A n \in Frame \cup {Idle} :
         /\ Goes(h, n)
         /\ n.pc \notin Free \cup {"idle"} => n.t \in Task /\ task[n.t].status # "none"
         /\ alone => Sound(n, task, bundle)
         /\ ~Cleared(n)
         => Held'
  <2> SUFFICES ASSUME NEW n \in Frame \cup {Idle}, Goes(h, n),
                      n.pc \notin Free \cup {"idle"} => n.t \in Task /\ task[n.t].status # "none",
                      alone => Sound(n, task, bundle), ~Cleared(n)
               PROVE  Held'
    OBVIOUS
  <2>1. Ran(h, n)
    BY DEF Ran, Goes
  <2>2. alone => \A t \in Task : RowSound(t, task[t], bundle, game'.version)
    BY <1>1 DEF Held, Turns
  <2>3. f.pc \notin {"failTask", "failGame", "failWrite"}
    BY <1>1
  <2> HIDE DEF f
  <2> QED
    BY <1>1, <1>2, <2>1, <2>2, <2>3, GoHeld DEF f
<1>5. ASSUME Goes(h, Idle) PROVE Held'
  <2>1. Idle.pc = "idle" /\ ~Cleared(Idle) /\ Sound(Idle, task, bundle)
    BY IdleSound DEF Idle, Cleared, Ends, Looked
  <2> QED
    BY <1>4, <1>5, <2>1
<1>6. CASE EditReadGame(h)
  <2> DEFINE a == At(f, "ensure")
             n == [a EXCEPT !.fresh = f.op = "iterate"]
  <2>1. a \in Frame /\ a.pc = "ensure"
    BY <1>2, AtKept DEF Program
  <2>2. n \in Frame /\ n.pc = "ensure"
    BY <2>1 DEF Frame
  <2>3. Goes(h, n) \/ Goes(h, Idle)
    BY <1>6 DEF EditReadGame
  <2> HIDE DEF n
  <2>4. Sound(n, task, bundle) /\ ~Cleared(n) /\ n.pc \in Free
    BY <2>2 DEF Sound, Works, Ends, Carry, Looked, Cleared, Free
  <2> QED
    BY <1>4, <1>5, <2>2, <2>3, <2>4
<1>7. CASE Ensure(h)
  <2>1. CASE ActiveTasks = {} /\ Goes(h, At(f, "latest"))
    <3> DEFINE n == At(f, "latest")
    <3>1. n \in Frame /\ n.pc = "latest"
      BY <1>2, AtKept DEF Program
    <3>2. Goes(h, n)
      BY <2>1
    <3> HIDE DEF n
    <3>3. ActiveIn(task) = {}
      BY <2>1 DEF ActiveTasks, ActiveIn
    <3>4. Sound(n, task, bundle) /\ ~Cleared(n) /\ n.pc \in Free
      BY <3>1, <3>3 DEF Sound, Works, Ends, Carry, Looked, Cleared, Free
    <3> QED
      BY <1>4, <3>1, <3>2, <3>4
  <2>2. ASSUME NEW t \in ActiveTasks,
               Goes(h, [At(f, "readGame") EXCEPT !.t = t, !.row = task[t]])
        PROVE  Held'
    <3> DEFINE a == At(f, "readGame")
               n == [a EXCEPT !.t = t, !.row = task[t]]
    <3>1. a \in Frame /\ a.pc = "readGame"
      BY <1>2, AtKept DEF Program
    <3>2. t \in Task /\ task[t] \in TaskRow /\ task[t].status \in Active
      BY <2>2 DEF IInv, Rows, ActiveTasks
    <3>3. n \in Frame /\ n.pc = "readGame" /\ n.t = t /\ n.row = task[t]
      BY <3>1, <3>2 DEF Frame
    <3>4. ActiveIn(task) \subseteq {t}
      BY <2>2 DEF IInv, OneActiveTask, ActiveTasks, ActiveIn
    <3>5. Goes(h, n)
      BY <2>2
    <3> HIDE DEF n
    <3>6. Sound(n, task, bundle)
      BY <3>2, <3>3, <3>4 DEF Sound, Works, Ends, Carry, Looked
    <3>7. ~Cleared(n) /\ task[n.t].status # "none"
      BY <3>2, <3>3 DEF Cleared, Ends, Looked, Active
    <3> QED
      BY <1>4, <3>2, <3>3, <3>5, <3>6, <3>7
  <2> QED
    BY <1>7, <2>1, <2>2 DEF Ensure
<1>8. CASE Recheck(h)
  <2> DEFINE a == At(f, "latest")
             n == [a EXCEPT !.t = "none"]
  <2>1. a \in Frame /\ a.pc = "latest"
    BY <1>2, AtKept DEF Program
  <2>2. n \in Frame /\ n.pc = "latest" /\ n.t = "none"
    BY <2>1 DEF Frame
  <2> HIDE DEF n
  <2>3. CASE task[f.t].status \in Active
    <3>1. Goes(h, Idle)
      BY <1>8, <2>3 DEF Recheck
    <3> QED
      BY <1>5, <3>1
  <2>4. CASE task[f.t].status \notin Active
    <3>1. Goes(h, n)
      BY <1>8, <2>4 DEF Recheck, n
    <3>2. f.pc = "recheck"
      BY <1>8 DEF Recheck, In
    <3>3. alone => ActiveIn(task) = {}
      <4>1. alone => f.op \in Edit /\ ActiveIn(task) \subseteq {f.t}
        BY <1>3, <3>2 DEF Sound
      <4> QED
        BY <2>4, <4>1 DEF ActiveIn
    <3>4. /\ alone => Sound(n, task, bundle)
          /\ ~Cleared(n) /\ n.pc \in Free
      BY <2>2, <3>3 DEF Sound, Works, Ends, Carry, Looked, Cleared, Free
    <3> QED
      BY <1>4, <2>2, <3>1, <3>4
  <2> QED
    BY <2>3, <2>4
<1>9. CASE ReadLatest(h)
  <2>1. PICK v \in Version : IsLatest(v) /\
          Goes(h, [At(f, IF f.op = "iterate" THEN "claim" ELSE "publish") EXCEPT !.top = v])
    BY <1>9 DEF ReadLatest
  <2> DEFINE pc == IF f.op = "iterate" THEN "claim" ELSE "publish"
             a == At(f, pc)
             n == [a EXCEPT !.top = v]
  <2>2. pc \in {"claim", "publish"}
    OBVIOUS
  <2>3. a \in Frame /\ a.pc = pc
    BY <1>2, <2>2, AtKept DEF Program
  <2>4. n \in Frame /\ n.pc \in {"claim", "publish"} /\ n.top = v
    BY <2>2, <2>3 DEF Frame
  <2>5. Goes(h, n)
    BY <2>1
  <2> HIDE DEF n
  <2>6. alone => ActiveIn(task) = {}
    BY <1>3, <1>9 DEF Sound, ReadLatest, In
  <2>7. \A w \in Version : bundle[w] # "none" => w <= v
    BY <2>1 DEF IsLatest, Stored
  <2>8. /\ alone => Sound(n, task, bundle)
        /\ ~Cleared(n) /\ n.pc \in Free
    BY <2>4, <2>6, <2>7 DEF Sound, Works, Ends, Carry, Looked, Cleared, Free
  <2> QED
    BY <1>4, <2>4, <2>5, <2>8
<1> QED
  BY <1>6, <1>7, <1>8, <1>9

\* publish() and the deletion write by id.
LEMMA WriteHeld ==
    ASSUME IInv, Held, NEW h \in Handler, Publish(h) \/ Ban(h)
    PROVE  Held'
<1> DEFINE f == run[h]
<1>1. /\ f.pc \in {"publish", "ban"}
      /\ UNCHANGED <<task, bundle, up, relay, alone, faults>>
  BY DEF Publish, Ban, In, engine
<1>2. f \in Frame /\ f # Idle
  BY <1>1, Framed DEF Idle
<1>3. Idle.pc = "idle" /\ Sound(Idle, task, bundle) /\ Ran(h, Idle)
  BY IdleSound DEF Idle, Publish, Ban, WriteGame, Ran
<1>4. game'.status # "generating"
  BY DEF Publish, Ban, WriteGame, IInv, Rows, GameRow
<1>5. ASSUME alone, NEW t \in Task PROVE RowSound(t, task[t], bundle, game'.version)
  <2>1. RowSound(t, task[t], bundle, game.version)
    BY <1>5 DEF Held, Turns
  <2>2. CASE Publish(h)
    <3>1. Sound(f, task, bundle) /\ f.pc = "publish"
      BY <1>5, <2>2 DEF Held, Turns, Publish, In
    <3>2. task[t].status \notin Active
      BY <3>1 DEF Sound, ActiveIn
    <3> QED
      BY <2>1, <3>2 DEF RowSound
  <2>3. CASE Ban(h)
    <3>1. game'.version = game.version
      BY <2>3 DEF Ban, WriteGame, IInv, Rows, GameRow
    <3> QED
      BY <2>1, <3>1
  <2> QED
    BY <2>2, <2>3
<1>6. f.pc \notin {"failTask", "failGame", "failWrite"} /\ Idle \in Frame \cup {Idle}
  BY <1>1
<1> HIDE DEF f
<1> QED
  BY <1>1, <1>2, <1>3, <1>4, <1>5, <1>6, GoHeld DEF f

\* The task as reconcileGenerationTask reads it.
LEMMA ReadTaskHeld ==
    ASSUME IInv, Held, NEW h \in Handler, ReadTask(h)
    PROVE  Held'
<1> DEFINE f == run[h]
           a == At(f, "readGame")
           n == [a EXCEPT !.row = task[f.t]]
<1>1. /\ f.pc = "readTask" /\ f.pc \notin Free \cup {"idle"}
      /\ UNCHANGED <<game, task, bundle, up, relay, alone, faults>>
  BY DEF ReadTask, In, Free, engine
<1>2. f \in Frame /\ f # Idle /\ f.t \in Task /\ task[f.t] \in TaskRow
  BY <1>1, BusyFrame
<1>3. a \in Frame /\ a.pc = "readGame" /\ a.t = f.t /\ a.op = f.op
  BY <1>2, AtKept DEF Program
<1> HIDE DEF a
<1>4. n \in Frame /\ n.pc = "readGame" /\ n.t = f.t /\ n.op = f.op /\ n.row = task[f.t]
  BY <1>2, <1>3 DEF Frame
<1>5. Ran(h, n)
  BY DEF ReadTask, Ran, Goes, a
<1> HIDE DEF n
<1>6. alone => Sound(n, task, bundle)
  <2>1. alone => Sound(f, task, bundle)
    BY DEF Held, Turns
  <2> QED
    BY <1>1, <1>4, <2>1 DEF Sound, Works, Ends, Carry, Looked
<1>7. alone => \A t \in Task : RowSound(t, task[t], bundle, game'.version)
  BY <1>1 DEF Held, Turns
<1>8. ~Cleared(n) /\ (game'.status = "generating" => game.status = "generating")
  BY <1>1, <1>4 DEF Cleared, Ends, Looked
<1>9. n.t \in Task /\ task[n.t].status # "none"
  BY <1>1, <1>2, <1>4 DEF Held, AllBorn, Born
<1>10. f.pc \notin {"failTask", "failGame", "failWrite"}
  BY <1>1
<1> HIDE DEF f
<1> QED
  BY <1>1, <1>2, <1>4, <1>5, <1>6, <1>7, <1>8, <1>9, <1>10, GoHeld DEF f

\* The game, and what is made of both.
LEMMA ReadGameHeld ==
    ASSUME IInv, Held, NEW h \in Handler, ReadGame(h)
    PROVE  Held'
<1> DEFINE f == run[h]
           b == [f EXCEPT !.g = game]
<1>1. /\ f.pc = "readGame" /\ f.pc \notin Free \cup {"idle"}
      /\ UNCHANGED <<game, task, bundle, up, relay, alone, faults>>
  BY DEF ReadGame, In, Free, engine
<1>2. f \in Frame /\ f # Idle /\ f.t \in Task /\ task[f.t] \in TaskRow /\ game \in GameRow
  BY <1>1, BusyFrame
<1>3. PICK n \in Decide(b) : Goes(h, n)
  BY DEF ReadGame
<1>4. b \in Frame /\ b.pc = "readGame" /\ b.t = f.t /\ b.op = f.op /\ b.row = f.row /\ b.g = game
  BY <1>1, <1>2 DEF Frame
<1> HIDE DEF b
<1>5. Keeps(b, n) \/ Found(b, n)
  BY <1>3, <1>4, DecideKeeps
<1>6. task[f.t].status # "none"
  BY <1>1, <1>2 DEF Held, AllBorn, Born
<1>7. alone => Sound(b, task, bundle)
  <2>1. alone => Sound(f, task, bundle)
    BY DEF Held, Turns
  <2> QED
    BY <1>1, <1>4, <2>1 DEF Sound, Works, Ends, Carry, Looked
<1>8. Ran(h, n)
  BY <1>3 DEF Ran, Goes
<1>9. CASE Keeps(b, n)
  <2>1. n \in Frame \cup {Idle} /\ (n.pc \notin Free \cup {"idle"} => n.t = f.t)
    BY <1>4, <1>9, KeepsTyped, KeepsTask
  <2>2. alone => Sound(n, task, bundle)
    BY <1>4, <1>7, <1>9, KeepsSound
  <2>3. game.status = "generating" => ~Cleared(n)
    <3> SUFFICES ASSUME game.status = "generating", Cleared(n) PROVE FALSE
      OBVIOUS
    <3>1. n # Idle
      BY DEF Cleared, Idle, Ends, Looked
    <3>2. /\ n.pc \in Carry \cup Loose /\ n.pc \notin {"markRead", "markWrite"}
          /\ n.pc \in Carry => n.g = game
          /\ n.pc = "cancelWrite" => n.g = game
      BY <1>4, <1>9, <3>1 DEF Keeps
    <3> QED
      BY <3>2 DEF Cleared, Ends, Looked, Carry, Loose
  <2>4. alone => \A t \in Task : RowSound(t, task[t], bundle, game'.version)
    BY <1>1 DEF Held, Turns
  <2>5. f.pc \notin {"failTask", "failGame", "failWrite"}
    BY <1>1
  <2> HIDE DEF f
  <2> QED
    BY <1>1, <1>2, <1>6, <1>8, <2>1, <2>2, <2>3, <2>4, <2>5, GoHeld DEF f
<1>10. CASE Found(b, n)
  <2>1. n \in Frame /\ n.pc = "succRead" /\ n.t = f.t /\ n.op = f.op
    BY <1>4, <1>10, AtKept DEF Found, Program
  <2>2. f.row.status \in Active /\ game.status \in Base /\ game.version >= f.row.version
    BY <1>4, <1>10 DEF Found
  <2>3. alone => Sound(n, task, bundle)
    <3> SUFFICES ASSUME alone PROVE Sound(n, task, bundle)
      OBVIOUS
    <3>1. /\ task[f.t].status \in Active /\ f.row.version = task[f.t].version
          /\ f.op \in Edit => ActiveIn(task) \subseteq {f.t}
      BY <1>4, <1>7, <2>2 DEF Sound
    <3>2. RowSound(f.t, task[f.t], bundle, game.version)
      BY <1>2 DEF Held, Turns
    <3>3. game.version \in Int /\ task[f.t].version \in Int
      BY <1>2, ConstantsAssumption DEF GameRow, TaskRow, Version
    <3>4. bundle[task[f.t].version] = f.t
      BY <2>2, <3>1, <3>2, <3>3 DEF RowSound
    <3> QED
      BY <2>1, <3>1, <3>4 DEF Sound, Works, Ends, Carry, Looked
  <2>4. game'.status # "generating"
    BY <1>1, <2>2 DEF Base
  <2>5. alone => \A t \in Task : RowSound(t, task[t], bundle, game'.version)
    BY <1>1 DEF Held, Turns
  <2>6. f.pc \notin {"failTask", "failGame", "failWrite"}
    BY <1>1
  <2> HIDE DEF f
  <2> QED
    BY <1>1, <1>2, <1>6, <1>8, <2>1, <2>3, <2>4, <2>5, <2>6, GoHeld DEF f
<1> QED
  BY <1>5, <1>9, <1>10

\* The claim: the new task has a version that no bundle has, and no handler
\* is on it yet.
LEMMA ClaimHeld ==
    ASSUME IInv, Held, NEW h \in Handler, Claim(h)
    PROVE  Held'
<1> DEFINE f == run[h]
<1>1. f.pc = "claim" /\ UNCHANGED <<bundle, up, relay, alone, faults>>
  BY DEF Claim, In, engine
<1>2. f \in Frame /\ f # Idle
  BY <1>1, Framed DEF Idle
<1>3. Idle.pc = "idle" /\ ~Cleared(Idle) /\ Idle \in Frame \cup {Idle}
      /\ \A rows, b : Sound(Idle, rows, b)
  BY IdleSound DEF Idle, Cleared, Ends, Looked
<1>4. CASE Goes(h, Idle) /\ UNCHANGED <<game, task>>
  <2>1. Ran(h, Idle)
    BY <1>4 DEF Ran, Goes
  <2>2. f.pc \notin {"failTask", "failGame", "failWrite"}
    BY <1>1
  <2>3. alone => \A t \in Task : RowSound(t, task[t], bundle, game'.version)
    BY <1>4 DEF Held, Turns
  <2> HIDE DEF f
  <2> QED
    BY <1>1, <1>2, <1>3, <1>4, <2>1, <2>2, <2>3, GoHeld DEF f
<1>5. ASSUME NEW t \in Task, NextVersion(f) \in Version, task[t] = NoTask,
             task' = [task EXCEPT ![t] = [NoTask EXCEPT !.status = "queued",
                                !.version = NextVersion(f), !.base = BaseStatus]],
             WriteGame(h, Idle, [game EXCEPT !.status = InFlight(BaseStatus)])
      PROVE  Held'
  <2>1. Ran(h, Idle) /\ game'.version = game.version
    BY <1>5 DEF WriteGame, Ran, IInv, Rows, GameRow
  <2>2. /\ task'[t].status = "queued" /\ task'[t].version = NextVersion(f)
        /\ \A s \in Task : s # t => task'[s] = task[s]
    BY <1>5 DEF NoTask, IInv, Rows
  <2>3. task[t].status = "none"
    BY <1>5 DEF NoTask
  <2>4. AllBorn'
    <3>1. \A s \in Task : task[s].status # "none" => task'[s].status # "none"
      BY <2>2, <2>3
    <3> QED
      BY <1>1, <1>3, <2>1, <3>1, BornGo DEF Held
  <2>5. Turns'
    <3>1. alone' => alone /\ \A k \in Handler : k = h \/ run[k] = Idle
      BY <1>1, <1>2 DEF Held, Turns
    <3>2. ASSUME alone, NEW s \in Task PROVE RowSound(s, task'[s], bundle', game'.version)
      <4>1. RowSound(s, task[s], bundle, game.version)
        BY <3>2 DEF Held, Turns
      <4>2. CASE s # t
        BY <1>1, <2>1, <2>2, <4>1, <4>2 DEF RowSound
      <4>3. CASE s = t
        <5>1. \A v \in Version : bundle[v] # "none" => v <= f.top
          BY <1>1, <3>2 DEF Held, Turns, Sound
        <5>2. f.top \in Int /\ game.version \in Int
          BY <1>2, ConstantsAssumption DEF Frame, Version, IInv, Rows, GameRow
        <5>3. NextVersion(f) > f.top /\ NextVersion(f) > game.version
          BY <5>2 DEF NextVersion
        <5>4. NextVersion(f) \in Int
          BY <5>2 DEF NextVersion
        <5>5. bundle[NextVersion(f)] = "none"
          BY <1>5, <5>1, <5>2, <5>3, <5>4
        <5>6. game.version < NextVersion(f)
          BY <5>2, <5>3, <5>4
        <5> QED
          BY <1>1, <2>1, <2>2, <4>3, <5>5, <5>6 DEF RowSound
      <4> QED
        BY <4>2, <4>3
    <3> QED
      BY <1>1, <1>3, <2>1, <3>1, <3>2, TurnsGo DEF Held
  <2>6. Owed'
    <3>1. t \in ActiveTasks'
      BY <2>2 DEF ActiveTasks, Active
    <3>2. ASSUME NEW k \in Handler, Cleared(run'[k]) PROVE run'[k].t # t
      <4> DEFINE w == IF k = h THEN Idle ELSE run[k]
      <4>1. Cleared(w) /\ (w # Idle => run'[k].t = w.t)
        BY <2>1, <3>2, <1>3, RanFrames
      <4>2. w # Idle /\ k # h /\ w = run[k]
        BY <1>3, <4>1
      <4>3. Cleared(run[k]) => run[k].pc \notin Free \cup {"idle"}
        BY DEF Cleared, Ends, Looked, Free
      <4>4. task[run[k].t].status # "none"
        BY <4>1, <4>2, <4>3 DEF Held, AllBorn, Born
      <4> HIDE DEF w
      <4> QED
        BY <2>3, <4>1, <4>2, <4>4
    <3> QED
      BY <3>1, <3>2 DEF Owed, OwedBy
  <2> QED
    BY <2>4, <2>5, <2>6 DEF Held
<1> QED
  BY <1>4, <1>5 DEF Claim
-----------------------------------------------------------------------------
(* Beginnings, the engine and crashes.                                     *)

LEMMA BegunHeld ==
    ASSUME IInv, Held, NEW h \in Handler,
           NEW op \in {"iterate", "publish", "delete", "deliver", "status", "cancel", "relay"},
           NEW t \in Task \cup {"none"}, NEW pc \in {"game", "ban", "readTask", "markRead"},
           Begin(h, op, t, pc), relay' \subseteq relay,
           pc \in {"readTask", "markRead"} => t \in Task /\ task[t].status # "none",
           op \in Edit => pc = "game", pc = "markRead" => op = "relay"
    PROVE  Held'
<1> DEFINE n == [pc |-> pc, op |-> op, t |-> t, row |-> NoTask, g |-> Unread, seen |-> Unread,
                 fresh |-> FALSE, top |-> 1,
                 goal |-> IF op = "relay" THEN "relayed" ELSE "failed",
                 via |-> "upstream", try |-> 1]
<1>1. n \in Frame
  BY Values DEF Frame, Program
<1>2. n.pc = pc /\ n.t = t /\ n.op = op /\ (op = "relay" => n.goal = "relayed")
  OBVIOUS
<1>3. Goes(h, n) /\ UNCHANGED <<game, bundle, task, up, faults>>
      /\ alone' = (alone /\ \A k \in Handler : run[k] = Idle) /\ run[h] = Idle
  BY DEF Begin
<1> HIDE DEF n
<1>4. Ran(h, n) /\ n \in Frame \cup {Idle}
  BY <1>1, <1>3 DEF Ran, Goes
<1>5. ~Cleared(n)
  BY <1>2 DEF Cleared, Ends, Looked
<1>6. Sound(n, task, bundle)
  BY <1>2 DEF Sound, Works, Ends, Carry, Looked
<1>7. AllBorn'
  <2>1. n.pc \notin Free \cup {"idle"} => n.t \in Task /\ task'[n.t].status # "none"
    BY <1>2, <1>3 DEF Free
  <2>2. \A s \in Task : s \in relay' \/ up'[s] # "none" =>
              s \in relay \/ up[s] # "none" \/ task[s].status # "none"
    BY <1>3
  <2> QED
    BY <1>3, <1>4, <2>1, <2>2, BornGo DEF Held
<1>8. Turns'
  <2>1. alone' => alone /\ \A k \in Handler : k = h \/ run[k] = Idle
    BY <1>3
  <2>2. alone' => \A s \in Task : RowSound(s, task'[s], bundle', game'.version)
    BY <1>3 DEF Held, Turns
  <2> QED
    BY <1>3, <1>4, <1>6, <2>1, <2>2, TurnsGo DEF Held
<1>9. Owed'
  <2>1. \A s \in Task : OwedBy(s) =>
           \/ task'[s].status \in Active
           \/ \E k \in Handler : k # h /\ Pays(run[k], s, task')
    <3>1. \A s \in Task : ~Pays(run[h], s, task)
      BY <1>3 DEF Pays, Idle
    <3> QED
      BY <1>3, <3>1 DEF OwedBy, ActiveTasks
  <2> QED
    BY <1>3, <1>4, <1>5, <2>1, OwedGo DEF Held
<1> QED
  BY <1>7, <1>8, <1>9 DEF Held

LEMMA BeginHeld ==
    ASSUME IInv, Held, NEW h \in Handler, BeginAny(h)
    PROVE  Held'
<1>1. ASSUME NEW t \in ActiveTasks PROVE t \in Task /\ task[t].status # "none"
  BY <1>1 DEF ActiveTasks, Active
<1>2. CASE BeginEdit(h)
  <2>1. PICK op \in {"iterate", "publish"} : Begin(h, op, "none", "game")
    BY <1>2 DEF BeginEdit
  <2>2. relay' \subseteq relay
    BY <1>2 DEF BeginEdit
  <2> QED
    BY <2>1, <2>2, BegunHeld
<1>3. CASE BeginDelete(h)
  <2>1. relay' \subseteq relay /\ "delete" \notin Edit
    BY <1>3 DEF BeginDelete, Edit
  <2>2. CASE Begin(h, "delete", "none", "ban")
    BY <2>1, <2>2, BegunHeld
  <2>3. ASSUME NEW t \in ActiveTasks, Begin(h, "delete", t, "readTask") PROVE Held'
    BY <1>1, <2>1, <2>3, BegunHeld
  <2> QED
    BY <1>3, <2>2, <2>3 DEF BeginDelete
<1>4. ASSUME NEW t \in Task, BeginOnTask(h, t) PROVE Held'
  <2>1. PICK op \in {"status", "cancel", "deliver"} : Begin(h, op, t, "readTask")
    BY <1>4 DEF BeginOnTask
  <2>2. relay' \subseteq relay /\ op \notin Edit /\ task[t].status # "none"
    BY <1>4, <2>1 DEF BeginOnTask, Edit, Active
  <2> QED
    BY <2>1, <2>2, BegunHeld
<1>5. ASSUME NEW t \in Task, BeginRelay(h, t) PROVE Held'
  <2>1. Begin(h, "relay", t, "markRead") /\ relay' \subseteq relay /\ "relay" \notin Edit
    BY <1>5 DEF BeginRelay, Edit
  <2>2. task[t].status # "none"
    BY <1>5 DEF BeginRelay, Held, AllBorn, Born
  <2> QED
    BY <2>1, <2>2, BegunHeld
<1> QED
  BY <1>2, <1>3, <1>4, <1>5 DEF BeginAny

\* The engine's reports: a task that is active stays so.
LEMMA ProgressHeld ==
    ASSUME IInv, Held, NEW t \in Task, Progress(t)
    PROVE  Held'
<1>1. PICK s \in {task[t].stored, TRUE} :
         task' = [task EXCEPT ![t] = [Started(@) EXCEPT !.stored = s]]
  BY DEF Progress
<1> DEFINE row == [Started(task[t]) EXCEPT !.stored = s]
<1>2. /\ UNCHANGED <<game, bundle, run, up, relay, alone, calls, faults>>
      /\ task[t].status \in Active
  BY DEF Progress, engine
<1>3. task[t] \in TaskRow
  BY DEF IInv, Rows
<1>4. row.version = task[t].version /\ row.status = Started(task[t]).status
  <2>1. Started(task[t]) \in TaskRow /\ Started(task[t]).version = task[t].version
    BY <1>3, RowKept
  <2> QED
    BY <2>1 DEF TaskRow
<1>5. row.status \in Active
  BY <1>2, <1>3, <1>4, RowKept
<1>6. task'[t] = row /\ \A r \in Task : r # t => task'[r] = task[r]
  BY <1>1 DEF IInv, Rows
<1> HIDE DEF row
<1>7. \A r \in Task : /\ task'[r].version = task[r].version
                      /\ task'[r].status \in Active <=> task[r].status \in Active
                      /\ task'[r].status = task[r].status \/ r = t
  BY <1>2, <1>4, <1>5, <1>6
<1>8. ActiveTasks' = ActiveTasks /\ ActiveIn(task') = ActiveIn(task)
  BY <1>7 DEF ActiveTasks, ActiveIn
<1>9. \A k \in Handler : run[k].pc \notin Free \cup {"idle"} => run[k].t \in Task
  BY DEF IInv, Good, Idle
<1>10. AllBorn'
  <2>1. \A r \in Task : task[r].status # "none" => task'[r].status # "none"
    BY <1>5, <1>7, <1>6 DEF Active
  <2> QED
    BY <1>2, <1>9, <2>1 DEF Held, AllBorn, Born
<1>11. Turns'
  <2> SUFFICES ASSUME alone
               PROVE  /\ \A k \in Handler : Sound(run[k], task', bundle)
                      /\ \A r \in Task : RowSound(r, task'[r], bundle, game.version)
    BY <1>2 DEF Held, Turns
  <2>1. ASSUME NEW k \in Handler PROVE Sound(run[k], task', bundle)
    <3>1. Sound(run[k], task, bundle)
      BY DEF Held, Turns
    <3>2. CASE run[k].pc \in Free \cup {"idle"}
      BY <1>8, <3>1, <3>2 DEF Sound, Works, Ends, Carry, Looked, Free
    <3>3. CASE run[k].pc \notin Free \cup {"idle"}
      <4>1. LET s1 == task[run[k].t] s2 == task'[run[k].t] IN
               s2.version = s1.version /\ (s2.status \in Active <=> s1.status \in Active)
        BY <1>7, <1>9, <3>3
      <4> QED
        BY <1>8, <3>1, <4>1 DEF Sound
    <3> QED
      BY <3>2, <3>3
  <2>2. ASSUME NEW r \in Task PROVE RowSound(r, task'[r], bundle, game.version)
    <3>1. RowSound(r, task[r], bundle, game.version)
      BY DEF Held, Turns
    <3>2. task'[r].status = "succeeded" => task[r].status = "succeeded"
      BY <1>5, <1>6, <1>7 DEF Active
    <3> QED
      BY <1>7, <3>1, <3>2 DEF RowSound
  <2> QED
    BY <2>1, <2>2
<1>12. Owed'
  <2>1. ASSUME NEW r \in Task, NEW k \in Handler, Pays(run[k], r, task) PROVE Pays(run[k], r, task')
    BY <1>5, <1>6, <1>7, <2>1 DEF Pays, Active
  <2> QED
    BY <1>2, <1>8, <2>1 DEF Held, Owed, OwedBy
<1> QED
  BY <1>10, <1>11, <1>12 DEF Held

LEMMA CrashHeld ==
    ASSUME IInv, Held, Engine, NEW h \in Handler, Crash(h)
    PROVE  Held'
<1>1. /\ run' = [run EXCEPT ![h] = Idle] /\ faults' = faults + 1 /\ run[h] # Idle
      /\ UNCHANGED <<game, bundle, task, up, relay, alone, calls>>
  BY DEF Crash, Goes
<1>2. Ran(h, Idle) /\ Idle \in Frame \cup {Idle} /\ Idle.pc = "idle"
  BY <1>1 DEF Ran, Idle
<1>3. AllBorn'
  BY <1>1, <1>2, BornGo DEF Held
<1>4. Turns'
  <2>1. alone' => alone /\ \A k \in Handler : k = h \/ run[k] = Idle
    BY <1>1 DEF Held, Turns
  <2>2. Sound(Idle, task', bundle')
    BY IdleSound
  <2>3. alone' => \A t \in Task : RowSound(t, task'[t], bundle', game'.version)
    BY <1>1 DEF Held, Turns
  <2> QED
    BY <1>2, <2>1, <2>2, <2>3, TurnsGo DEF Held
<1>5. Owed'
  <2>1. faults' # 0
    BY <1>1 DEF Engine
  <2> QED
    BY <2>1 DEF Owed
<1> QED
  BY <1>3, <1>4, <1>5 DEF Held

\* Where game, tasks, bundles and handlers rest.
LEMMA StillHeld ==
    ASSUME IInv, Held, UNCHANGED <<game, task, bundle, run, alone>>,
           faults' = 0 => faults = 0,
           \A t \in Task : t \in relay' \/ up'[t] # "none" => t \in relay \/ up[t] # "none"
    PROVE  Held'
<1>1. AllBorn'
  BY DEF Held, AllBorn, Born
<1>2. Turns'
  BY DEF Held, Turns
<1>3. Owed'
  BY DEF Held, Owed, OwedBy, ActiveTasks
<1> QED
  BY <1>1, <1>2, <1>3 DEF Held

LEMMA HeldInit == Init => Held
<1> SUFFICES ASSUME Init PROVE Held
  OBVIOUS
<1>1. AllBorn
  BY DEF Init, AllBorn, Idle
<1>2. Turns
  <2>1. \A h \in Handler : run[h] = Idle /\ Sound(run[h], task, bundle)
    BY IdleSound DEF Init
  <2>2. \A t \in Task : RowSound(t, task[t], bundle, game.version)
    BY DEF Init, RowSound, NoTask, Active
  <2> QED
    BY <2>1, <2>2 DEF Turns
<1>3. Owed
  <2>1. game.status # "generating"
    BY DEF Init, Base
  <2> QED
    BY <2>1 DEF Owed
<1> QED
  BY <1>1, <1>2, <1>3 DEF Held

LEMMA HeldStep == IInv /\ Engine /\ Held /\ [Next]_vars => Held'
<1> SUFFICES ASSUME IInv, Engine, Held, [Next]_vars PROVE Held'
  OBVIOUS
<1>1. ASSUME NEW h \in Handler, Step(h) PROVE Held'
  BY <1>1, PlainHeld, PublishReadHeld, PublishBundleHeld, PublishSwapHeld, SucceedReadHeld,
     StartHeld, EndHeld, EditHeld, WriteHeld, ReadTaskHeld, ReadGameHeld, ClaimHeld DEF Step
<1>2. ASSUME NEW h \in Handler, BeginAny(h) \/ Crash(h) PROVE Held'
  BY <1>2, BeginHeld, CrashHeld
<1>3. ASSUME NEW t \in Task, Progress(t) PROVE Held'
  BY <1>3, ProgressHeld
<1>4. ASSUME NEW t \in Task, UpEnds(t) PROVE Held'
  <2>1. /\ UNCHANGED <<game, task, bundle, run, alone, faults>>
        /\ \A s \in Task : s \in relay' \/ up'[s] # "none" => s \in relay \/ up[s] # "none"
    BY <1>4 DEF UpEnds, Engine
  <2> QED
    BY <2>1, StillHeld
<1>5. ASSUME NEW t \in Task, UpLost(t) PROVE Held'
  <2>1. /\ UNCHANGED <<game, task, bundle, run, alone>> /\ faults' = faults + 1
        /\ \A s \in Task : s \in relay' \/ up'[s] # "none" => s \in relay \/ up[s] # "none"
    BY <1>5 DEF UpLost, Engine
  <2>2. faults' # 0
    BY <2>1 DEF Engine
  <2> QED
    BY <2>1, <2>2, StillHeld
<1>6. CASE UNCHANGED vars
  <2>1. UNCHANGED <<game, task, bundle, run, alone, faults, relay, up>>
    BY <1>6 DEF vars
  <2> QED
    BY <2>1, StillHeld
<1> QED
  BY <1>1, <1>2, <1>3, <1>4, <1>5, <1>6 DEF Next
-----------------------------------------------------------------------------
(* Game, tasks and bundles agree.                                          *)

LEMMA AgreeInv == IInv /\ Held => RowsAgree
<1> SUFFICES ASSUME IInv, Held PROVE RowsAgree
  OBVIOUS
<1>1. Stored(game.version)
  BY DEF IInv
<1>2. alone => \A t \in Task : task[t].status = "succeeded" => bundle[task[t].version] = t
  BY DEF Held, Turns, RowSound
<1>3. ASSUME Quiet, faults = 0, game.status = "generating" PROVE ActiveTasks # {}
  <2>1. \A h \in Handler, t \in Task : ~Pays(run[h], t, task)
    BY <1>3 DEF Quiet, Pays, Idle
  <2> QED
    BY <1>3, <2>1 DEF Held, Owed, OwedBy
<1> QED
  BY <1>1, <1>2, <1>3 DEF RowsAgree

\* A succeeded task has stored its own version, as long as handlers took
\* turns; and however they interleave, a game is in generation between them
\* only while a task is active, unless the service crashed or the engine lost
\* a record: for any number of tasks, versions, handlers and calls.
THEOREM RowsAgreeAlways == Spec => []RowsAgree
<1>1. Init => Engine
  BY ConstantsAssumption DEF Init, Engine
<1> QED
  BY <1>1, AgreeInv, EngineStep, InvAlways, HeldInit, HeldStep, PTL DEF Spec
=============================================================================
