------------------------- MODULE GenerationTaskProofs -------------------------
(***************************************************************************)
(* That an ended task stays ended, the free quota is never oversold and no *)
(* unit of it is lost, and that no task ends without its game: for any     *)
(* number of games, handlers that overlap on them, tries and faults.       *)
(*                                                                         *)
(* The argument: nothing but create() looks at a game that has no task yet, *)
(* so the one statement that makes a task active finds none; every other    *)
(* statement that writes a task writes a final status or starts a queued    *)
(* task.  A grant is given once and then only taken away, so a refund's     *)
(* transaction has seen every grant that is still there.  What a handler    *)
(* has read may be out of date when it writes, but a bundle stays saved and *)
(* a game that has left generation never goes back: the last part carries   *)
(* these two facts from the reads of a handler to its writes.               *)
(***************************************************************************)
EXTENDS GenerationTask, FiniteSetTheorems, TLAPS

Creating == {"quota", "insert"}
Refunding == {"refundWrite", "cancelWrite"}

Born(g) == task[g].status # "none"

\* A game that has no task yet is known to nobody.
Unknown(g) ==
    /\ game[g].status = "none" /\ ~game[g].grant
    /\ job[g] = "absent" /\ up[g] = "none" /\ g \notin relay

\* A creation is alone with its game; every other handler has a task.
Placed(h) ==
    run[h] # Idle =>
        IF run[h].pc \in Creating
        THEN /\ ~Born(run[h].g) /\ run[h].op = "create"
             /\ \A k \in Handler \ {h} : run[k] # Idle => run[k].g # run[h].g
        ELSE Born(run[h].g)

IInv ==
    /\ TypeOK
    /\ \A g \in Game : ~Born(g) => Unknown(g)
    /\ \A h \in Handler : Placed(h)

\* What a step may do to the tasks.
Ends == \A g \in Game : task[g].status \in Final => task'[g].status \in Final
-----------------------------------------------------------------------------
(* Frames.                                                                 *)

\* What a step makes of the frame f of its handler, but for the transactions.
Moved(f, n) ==
    \/ n = Idle
    \/ n \in Frame /\ n.g = f.g /\ n.pc \notin Creating \cup Refunding

\* A frame on its way, or one that has read what it will give back.
Onward(f, n) ==
    \/ Moved(f, n)
    \/ /\ n \in Frame /\ n.g = f.g /\ n.pc \in Refunding
       /\ n.grant = game[f.g].grant

\* Values that a frame starts from.
LEMMA Values == 1 \in 1..MaxAttempts /\ NoTask \in TaskRow
BY ConstantsAssumption DEF NoTask, TaskRow

\* A frame that goes elsewhere is a frame on the same game.
LEMMA AtTyped ==
    ASSUME NEW f \in Frame, NEW pc \in Program
    PROVE  /\ At(f, pc) \in Frame
           /\ At(f, pc).g = f.g /\ At(f, pc).pc = pc /\ At(f, pc).op = f.op
           /\ pc \notin Tail => At(f, pc).try = f.try
<1>1. CASE pc \notin Tail
  BY <1>1 DEF At, Frame
<1>2. CASE pc \in Tail
  BY <1>2, Values DEF At, Frame, GameStatus
<1> QED
  BY <1>1, <1>2

\* The same with a status the frame is to write.
LEMMA AimTyped ==
    ASSUME NEW f \in Frame, NEW pc \in Program,
           NEW goal \in {"canceled", "failed", "timed_out", "relayed"}
    PROVE  Aim(f, pc, goal) \in Frame /\ Aim(f, pc, goal).g = f.g /\ Aim(f, pc, goal).pc = pc
<1> DEFINE a == At(f, pc)
<1>1. a \in Frame /\ a.g = f.g /\ a.pc = pc
  BY AtTyped
<1>2. Aim(f, pc, goal) = [a EXCEPT !.goal = goal]
  BY DEF Aim
<1> QED
  BY <1>1, <1>2 DEF Frame

\* Outside a creation's and a refund's transaction such a frame has moved.
LEMMA AtMoved ==
    ASSUME NEW f \in Frame, NEW pc \in Program \ (Creating \cup Refunding)
    PROVE  /\ Moved(f, At(f, pc))
           /\ \A goal \in {"canceled", "failed", "timed_out", "relayed"} : Moved(f, Aim(f, pc, goal))
BY AtTyped, AimTyped DEF Moved

\* A handler that returns, or goes on to ban the game.
LEMMA DoneMoved == ASSUME NEW f \in Frame PROVE Moved(f, Done(f))
<1>1. Moved(f, At(f, "ban"))
  BY AtMoved DEF Program, Creating, Refunding
<1> QED
  BY <1>1 DEF Done, Moved

\* A handler that turns to completePipelineTask.
LEMMA CompleteMoved ==
    ASSUME NEW f \in Frame, NEW via \in {"none", "timed_out", "missing", "running"}
    PROVE  Moved(f, Complete(f, via))
BY DEF Complete, Moved, Frame, Program, Creating, Refunding

\* A handler that found no record at the AI engine.
LEMMA LostMoved == ASSUME NEW f \in Frame, NEW n \in Lost(f) PROVE Moved(f, n)
BY DoneMoved, AtMoved DEF Lost, Program, Creating, Refunding

\* What became of a completion that threw.
LEMMA ThrownMoved ==
    ASSUME NEW f \in Frame, NEW aborted \in BOOLEAN, NEW n \in Thrown(f, aborted)
    PROVE  Moved(f, n)
<1>1. Moved(f, At(f, "stop")) /\ Moved(f, Aim(f, "failTask", "failed"))
  BY AtMoved DEF Program, Creating, Refunding
<1>2. f.via \in {"none", "timed_out", "missing", "running"}
  BY DEF Frame
<1>3. n \in {Done(f), At(f, "stop"), Aim(f, "failTask", "failed")} \/ n \in Lost(f)
  BY <1>2 DEF Thrown
<1> QED
  BY <1>1, <1>3, DoneMoved, LostMoved

\* How reconcileGenerationTask goes on once it has read task and game.
LEMMA SettleMoved ==
    ASSUME NEW f \in Frame, NEW r \in {"canceled", "failed", "succeeded", "timed_out"}
    PROVE  Moved(f, Settle(f, r))
<1> DEFINE a == Aim(f, "mayTask", "timed_out")
<1>1. /\ Moved(f, Aim(f, "stop", "canceled")) /\ Moved(f, Aim(f, "stop", "timed_out"))
      /\ Moved(f, Aim(f, "markRead", "failed")) /\ Moved(f, At(f, "succRead"))
  BY AtMoved DEF Program, Creating, Refunding
<1>2. a \in Frame /\ a.g = f.g
  BY AimTyped DEF Program
<1>3. Moved(a, Complete(a, "timed_out"))
  BY <1>2, CompleteMoved
<1>4. Moved(f, Complete(a, "timed_out"))
  BY <1>2, <1>3 DEF Moved
<1> QED
  BY <1>1, <1>4 DEF Settle

\* reconcileGenerationTask after its reads.
LEMMA DecideMoved == ASSUME NEW f \in Frame PROVE Moved(f, Decide(f))
<1>1. \A r \in {"canceled", "failed", "succeeded", "timed_out"} : Moved(f, Settle(f, r))
  BY SettleMoved
<1>2. Moved(f, At(f, "run")) /\ Moved(f, At(f, "fetch")) /\ Moved(f, At(f, "enqueue"))
  BY AtMoved DEF Program, Creating, Refunding
<1>3. Resolution(f) \in {"none", "canceled", "failed", "succeeded", "timed_out"}
  BY DEF Resolution
<1>4. Resolution(f) # "none" => Moved(f, Settle(f, Resolution(f)))
  BY <1>1, <1>3
<1>5. Moved(f, Settle(f, "canceled"))
  BY <1>1
<1> QED
  BY <1>2, <1>4, <1>5, DoneMoved DEF Decide
-----------------------------------------------------------------------------
(* Steps.                                                                  *)

\* A step that concerns one game, which has a task and keeps it.
Concerns(g) ==
    /\ task' \in [Game -> TaskRow]
    /\ \A k \in Game \ {g} : task'[k] = task[k]
    /\ task'[g].status # "none"
    /\ task[g].status \in Final => task'[g].status \in Final
    /\ game' \in [Game -> [status : GameStatus, grant : BOOLEAN]]
    /\ \A k \in Game \ {g} : game'[k] = game[k]
    /\ job' \in [Game -> {"absent", "waiting", "kept"}]
    /\ \A k \in Game \ {g} : job'[k] = job[k]
    /\ up' \in [Game -> {"none", "running", "failing", "succeeded", "failed", "canceled", "gone"}]
    /\ \A k \in Game \ {g} : up'[k] = up[k]
    /\ relay' \subseteq relay \cup {g}
    /\ used' \in Nat /\ faults' \in 0..MaxFaults
    /\ bundle' \subseteq Game /\ late' \subseteq Game /\ poor' \subseteq Game

\* Handlers may stop, or go on with that game.
LEMMA Kept ==
    ASSUME IInv, NEW g \in Game, Born(g), Concerns(g),
           run' \in [Handler -> Frame \cup {Idle}],
           \A h \in Handler :
               \/ run'[h] = run[h] \/ run'[h] = Idle
               \/ run'[h] \in Frame /\ run'[h].g = g /\ run'[h].pc \notin Creating
    PROVE  IInv' /\ Ends
<1>1. TypeOK'
  BY DEF IInv, TypeOK, Concerns
<1>2. \A k \in Game : Born(k)' <=> Born(k)
  BY DEF Concerns, Born
<1>3. ASSUME NEW k \in Game, ~Born(k)' PROVE Unknown(k)'
  BY <1>2, <1>3 DEF IInv, Unknown, Concerns, Born
<1>4. ASSUME NEW h \in Handler PROVE Placed(h)'
  <2>1. CASE run'[h] = Idle
    BY <2>1 DEF Placed
  <2>2. CASE run'[h] \in Frame /\ run'[h].g = g /\ run'[h].pc \notin Creating
    BY <1>2, <2>2 DEF Placed
  <2>3. CASE run'[h] = run[h] /\ run[h] # Idle
    <3>1. run[h] \in Frame /\ run[h].g \in Game /\ Placed(h)
      BY <2>3 DEF IInv, TypeOK, Frame
    <3>2. CASE run[h].pc \in Creating
      BY <1>2, <2>3, <3>1, <3>2 DEF Placed
    <3>3. CASE run[h].pc \notin Creating
      BY <1>2, <2>3, <3>1, <3>3 DEF Placed
    <3> QED
      BY <3>2, <3>3
  <2> QED
    BY <2>1, <2>2, <2>3
<1>5. Ends
  BY DEF Ends, Concerns
<1> QED
  BY <1>1, <1>3, <1>4, <1>5 DEF IInv

\* A handler that is somewhere has a frame, and past its creation a task.
LEMMA Framed ==
    ASSUME IInv, NEW h \in Handler, run[h].pc # "idle"
    PROVE  /\ run[h] \in Frame /\ run[h].g \in Game /\ run[h] # Idle
           /\ run[h].pc \notin Creating => Born(run[h].g)
BY DEF IInv, TypeOK, Idle, Frame, Placed

\* A handler past its creation that takes a step on its own game.
LEMMA GoesOn ==
    ASSUME IInv, NEW h \in Handler, run[h].pc \notin Creating \cup {"idle"},
           NEW n, Onward(run[h], n), Goes(h, n), Concerns(run[h].g)
    PROVE  IInv' /\ Ends
<1>1. run[h] \in Frame /\ run[h].g \in Game /\ Born(run[h].g)
  BY Framed
<1>2. n = Idle \/ (n \in Frame /\ n.g = run[h].g /\ n.pc \notin Creating)
  BY DEF Onward, Moved, Creating, Refunding
<1>3. /\ run' \in [Handler -> Frame \cup {Idle}] /\ run'[h] = n
      /\ \A k \in Handler \ {h} : run'[k] = run[k]
  BY <1>2 DEF Goes, IInv, TypeOK
<1> QED
  BY <1>1, <1>2, <1>3, Kept

\* Steps that leave every row but perhaps the engine's and the job alone.
LEMMA Resting ==
    ASSUME IInv, NEW g \in Game, Born(g), UNCHANGED <<task, game, used, bundle, late, poor, faults>>,
           UNCHANGED job, UNCHANGED <<up, relay>>
    PROVE  Concerns(g)
BY DEF IInv, TypeOK, Concerns, Born

\* The same for a step that writes no row.
LEMMA GoesOnResting ==
    ASSUME IInv, NEW h \in Handler, run[h].pc \notin Creating \cup {"idle"},
           NEW n, Onward(run[h], n), Goes(h, n), UNCHANGED <<db, late, job, engine, faults>>
    PROVE  IInv' /\ Ends
BY Framed, Resting, GoesOn DEF db, engine
-----------------------------------------------------------------------------
(* Handlers that read.                                                     *)

\* A frame that has moved from another one on the same game.
LEMMA SameGame ==
    ASSUME NEW f \in Frame, NEW a \in Frame, a.g = f.g, NEW n, Moved(a, n)
    PROVE  Moved(f, n)
BY DEF Moved

\* The reads of the task and of the game.
LEMMA ReadRows ==
    ASSUME IInv, NEW h \in Handler, ReadTask(h) \/ ReadGame(h)
    PROVE  /\ IInv' /\ Ends /\ UNCHANGED <<game, used>>
           /\ \E n : Goes(h, n) /\ Moved(run[h], n)
<1>0. /\ run[h] \in Frame /\ run[h].g \in Game
      /\ run[h].pc \notin Creating \cup {"idle"}
      /\ UNCHANGED <<db, late, job, engine, faults>>
  BY Framed DEF ReadTask, ReadGame, In, Creating
<1> SUFFICES \E n : Goes(h, n) /\ Moved(run[h], n)
  BY <1>0, GoesOnResting DEF Onward, db
<1>1. task[run[h].g] \in TaskRow /\ game[run[h].g].status \in GameStatus
  BY <1>0 DEF IInv, TypeOK
<1>2. ASSUME NEW a \in Frame, a.g = run[h].g,
             \/ Goes(h, Decide(a)) \/ Goes(h, At(a, "game")) \/ Goes(h, At(a, "task"))
      PROVE  \E n : Goes(h, n) /\ Moved(run[h], n)
  <2>1. Moved(a, Decide(a)) /\ Moved(a, At(a, "game")) /\ Moved(a, At(a, "task"))
    BY DecideMoved, AtMoved DEF Program, Creating, Refunding
  <2> QED
    BY <1>0, <1>2, <2>1, SameGame
<1>3. CASE ReadTask(h)
  <2> DEFINE a == [run[h] EXCEPT !.t = task[run[h].g]]
  <2>1. a \in Frame /\ a.g = run[h].g
    BY <1>0, <1>1 DEF Frame
  <2>2. Goes(h, Decide(a)) \/ Goes(h, At(a, "game"))
    BY <1>3 DEF ReadTask
  <2> QED
    BY <1>2, <2>1, <2>2
<1>4. CASE ReadGame(h)
  <2> DEFINE a == [run[h] EXCEPT !.gs = game[run[h].g].status]
  <2>1. a \in Frame /\ a.g = run[h].g
    BY <1>0, <1>1 DEF Frame
  <2>2. Goes(h, Decide(a)) \/ Goes(h, At(a, "task"))
    BY <1>4 DEF ReadGame
  <2> QED
    BY <1>2, <2>1, <2>2
<1> QED
  BY <1>3, <1>4

\* A transaction that has read what it will give back.
LEMMA ReadGrant ==
    ASSUME IInv, NEW h \in Handler, CancelRead(h) \/ RefundRead(h)
    PROVE  /\ IInv' /\ Ends /\ UNCHANGED <<game, used>>
           /\ run' = [run EXCEPT ![h] = run'[h]]
           /\ run'[h].g = run[h].g /\ run'[h].grant = game[run[h].g].grant
<1>1. PICK pc \in {"cancelRead", "refundRead"}, next \in Refunding : ReadInTransaction(h, pc, next)
  BY DEF CancelRead, RefundRead, Refunding
<1>2. run[h] \in Frame /\ run[h].g \in Game /\ run[h].pc \notin Creating \cup {"idle"}
  BY <1>1, Framed DEF ReadInTransaction, In, Creating
<1> DEFINE a == At(run[h], next)
           n == [a EXCEPT !.gs = game[run[h].g].status, !.grant = game[run[h].g].grant]
<1>3. a \in Frame /\ a.g = run[h].g /\ a.pc = next
  BY <1>2, AtTyped DEF Program, Refunding
<1>4. game[run[h].g].status \in GameStatus /\ game[run[h].g].grant \in BOOLEAN
  BY <1>2 DEF IInv, TypeOK
<1>5. n \in Frame /\ n.g = run[h].g /\ n.pc = next /\ n.grant = game[run[h].g].grant
  BY <1>3, <1>4 DEF Frame
<1>6. Goes(h, n) /\ UNCHANGED <<db, late, job, engine, faults>>
  BY <1>1 DEF ReadInTransaction
<1>7. IInv' /\ Ends
  BY <1>2, <1>5, <1>6, GoesOnResting DEF Onward
<1>8. run' = [run EXCEPT ![h] = n] /\ run'[h] = n
  BY <1>6 DEF Goes, IInv, TypeOK
<1> QED
  BY <1>5, <1>6, <1>7, <1>8 DEF db

\* Checks before something is written.
LEMMA CheckStep ==
    ASSUME IInv, NEW h \in Handler,
           \/ FailTask(h) \/ FailGameRead(h) \/ MarkRead(h) \/ MayTask(h)
           \/ MayGame(h) \/ PublishRead(h) \/ PublishRetry(h) \/ SucceedRead(h)
    PROVE  /\ IInv' /\ Ends /\ UNCHANGED <<game, used>>
           /\ \E n : Goes(h, n) /\ Moved(run[h], n)
<1>0. /\ run[h] \in Frame /\ run[h].g \in Game
      /\ run[h].pc \notin Creating \cup {"idle"}
      /\ UNCHANGED <<db, late, job, engine, faults>>
  BY Framed DEF FailTask, FailGameRead, MarkRead, MayTask, MayGame, PublishRead,
                PublishRetry, SucceedRead, In, Creating
<1> SUFFICES \E n : Goes(h, n) /\ Moved(run[h], n)
  BY <1>0, GoesOnResting DEF Onward, db
<1>1. \A pc \in {"failGame", "refundRead", "markWrite", "mayGame", "pubGame", "succWrite"} :
         Moved(run[h], At(run[h], pc))
  BY <1>0, AtMoved DEF Program, Creating, Refunding
<1>2. Moved(run[h], Done(run[h])) /\ Moved(run[h], Aim(run[h], "failTask", "failed"))
  BY <1>0, DoneMoved, AtMoved DEF Program, Creating, Refunding
<1>3. \A b \in BOOLEAN : \A n \in Thrown(run[h], b) : Moved(run[h], n)
  BY <1>0, ThrownMoved
<1>4. CASE FailTask(h) \/ FailGameRead(h)
  BY <1>1, <1>2, <1>4 DEF FailTask, FailGameRead
<1>5. CASE MarkRead(h) \/ SucceedRead(h)
  BY <1>1, <1>2, <1>5 DEF MarkRead, SucceedRead, Marked
<1>6. CASE MayTask(h) \/ MayGame(h)
  BY <1>1, <1>3, <1>6 DEF MayTask, MayGame
<1>7. CASE PublishRead(h)
  <2> DEFINE a == At(run[h], "pubBundle")
             n == [a EXCEPT !.base = game[run[h].g].status]
  <2>1. a \in Frame /\ a.g = run[h].g /\ a.pc = "pubBundle"
    BY <1>0, AtTyped DEF Program
  <2>2. game[run[h].g].status \in GameStatus
    BY <1>0 DEF IInv, TypeOK
  <2>3. n \in Frame /\ n.g = run[h].g /\ n.pc = "pubBundle"
    BY <2>1, <2>2 DEF Frame
  <2> QED
    BY <1>7, <2>3 DEF PublishRead, Moved, Creating, Refunding
<1>8. CASE PublishRetry(h)
  <2> DEFINE a == At(run[h], "pubGame")
             n == [a EXCEPT !.try = @ + 1]
  <2>1. a \in Frame /\ a.g = run[h].g /\ a.pc = "pubGame" /\ a.try = run[h].try
    BY <1>0, AtTyped DEF Program, Tail
  <2>2. CASE run[h].try < MaxAttempts
    <3>1. a.try + 1 \in 1..MaxAttempts
      BY <2>1, <2>2, ConstantsAssumption DEF Frame
    <3>2. n \in Frame /\ n.g = run[h].g /\ n.pc = "pubGame"
      BY <2>1, <3>1 DEF Frame
    <3> QED
      BY <1>8, <2>2, <3>2 DEF PublishRetry, Moved, Creating, Refunding
  <2> QED
    BY <1>3, <1>8, <2>2 DEF PublishRetry
<1> QED
  BY <1>4, <1>5, <1>6, <1>7, <1>8
-----------------------------------------------------------------------------
(* Handlers that write.                                                    *)

\* No unit changes hands, and no game fails that still holds one.
GrantsKept ==
    /\ used' = used /\ \A g \in Game : game'[g].grant = game[g].grant
    /\ \A g \in Game : game'[g].status = "failed" =>
          game[g].status = "failed" \/ ~game[g].grant \/ used = 0

\* A row of a table that is written, and the others.
LEMMA RowWritten ==
    ASSUME NEW R, NEW old \in [Game -> R], NEW new, NEW g \in Game,
           new = old \/ \E r \in R : new = [old EXCEPT ![g] = r]
    PROVE  new \in [Game -> R] /\ \A k \in Game \ {g} : new[k] = old[k]
<1>1. ASSUME NEW r \in R, new = [old EXCEPT ![g] = r]
      PROVE  new \in [Game -> R] /\ \A k \in Game \ {g} : new[k] = old[k]
  BY <1>1
<1> QED
  BY <1>1

\* What a step that concerns one game has to say of each row it writes.
LEMMA Writing ==
    ASSUME IInv, NEW g \in Game, Born(g), UNCHANGED <<relay, poor, late, faults>>, used' \in Nat,
           bundle' \in {bundle, bundle \cup {g}},
           \/ UNCHANGED task
           \/ \E r \in TaskRow : /\ task' = [task EXCEPT ![g] = r] /\ r.status # "none"
                                 /\ task[g].status \in Final => r.status \in Final,
           \/ UNCHANGED game
           \/ \E r \in [status : GameStatus, grant : BOOLEAN] : game' = [game EXCEPT ![g] = r],
           \/ UNCHANGED job
           \/ \E j \in {"absent", "waiting", "kept"} : job' = [job EXCEPT ![g] = j],
           \/ UNCHANGED up
           \/ \E u \in {"running", "canceled"} : up' = [up EXCEPT ![g] = u]
    PROVE  Concerns(g)
<1>0. TypeOK
  BY DEF IInv
<1>1. /\ task' \in [Game -> TaskRow] /\ \A k \in Game \ {g} : task'[k] = task[k]
      /\ task'[g].status # "none" /\ (task[g].status \in Final => task'[g].status \in Final)
  <2>1. task \in [Game -> TaskRow]
    BY <1>0 DEF TypeOK
  <2>2. CASE UNCHANGED task
    BY <2>1, <2>2 DEF Born
  <2>3. ASSUME NEW r \in TaskRow, task' = [task EXCEPT ![g] = r], r.status # "none",
               task[g].status \in Final => r.status \in Final
        PROVE  <1>1
    BY <2>1, <2>3
  <2> QED
    BY <2>2, <2>3
<1>2. /\ game' \in [Game -> [status : GameStatus, grant : BOOLEAN]]
      /\ \A k \in Game \ {g} : game'[k] = game[k]
  <2>1. game \in [Game -> [status : GameStatus, grant : BOOLEAN]]
    BY <1>0 DEF TypeOK
  <2> QED
    BY <2>1, RowWritten
<1>3. /\ job' \in [Game -> {"absent", "waiting", "kept"}]
      /\ \A k \in Game \ {g} : job'[k] = job[k]
  <2>1. job \in [Game -> {"absent", "waiting", "kept"}]
    BY <1>0 DEF TypeOK
  <2> QED
    BY <2>1, RowWritten
<1>4. /\ up' \in [Game -> {"none", "running", "failing", "succeeded", "failed", "canceled", "gone"}]
      /\ \A k \in Game \ {g} : up'[k] = up[k]
  <2>1. up \in [Game -> {"none", "running", "failing", "succeeded", "failed", "canceled", "gone"}]
    BY <1>0 DEF TypeOK
  <2>2. \/ up' = up
        \/ \E u \in {"none", "running", "failing", "succeeded", "failed", "canceled", "gone"} :
              up' = [up EXCEPT ![g] = u]
    OBVIOUS
  <2> QED
    BY <2>1, <2>2, RowWritten
<1>5. /\ relay' \subseteq relay \cup {g} /\ faults' \in 0..MaxFaults
      /\ bundle' \subseteq Game /\ late' \subseteq Game /\ poor' \subseteq Game
  BY <1>0 DEF TypeOK
<1> QED
  BY <1>1, <1>2, <1>3, <1>4, <1>5 DEF Concerns

\* A task that is started, or ends.
LEMMA StatusWritten ==
    ASSUME IInv, NEW g \in Game, Born(g), NEW s \in Final \cup {Started(task[g].status)},
           task' = [task EXCEPT ![g].status = s]
    PROVE  \E r \in TaskRow : /\ task' = [task EXCEPT ![g] = r] /\ r.status # "none"
                              /\ task[g].status \in Final => r.status \in Final
<1> DEFINE r == [task[g] EXCEPT !.status = s]
<1>1. task[g] \in TaskRow
  BY DEF IInv, TypeOK
<1>2. s \in Active \cup Final /\ (task[g].status \in Final => s \in Final)
  BY <1>1 DEF Started, Born, TaskRow, Active, Final
<1>3. r \in TaskRow /\ r.status = s
  BY <1>1, <1>2 DEF TaskRow
<1>4. task' = [task EXCEPT ![g] = r]
  BY DEF IInv, TypeOK
<1>5. s # "none"
  BY <1>2 DEF Active, Final
<1> QED
  BY <1>2, <1>3, <1>4, <1>5

\* The statements that write the task alone.
LEMMA TaskStep ==
    ASSUME IInv, NEW h \in Handler,
           \/ Fetch(h) \/ MarkRunning(h) \/ Bind(h) \/ MarkWrite(h) \/ SucceedWrite(h)
    PROVE  /\ IInv' /\ Ends /\ GrantsKept
           /\ \E n : Goes(h, n) /\ Moved(run[h], n)
<1> DEFINE g == run[h].g
<1>0. /\ run[h] \in Frame /\ g \in Game /\ Born(g)
      /\ run[h].pc \notin Creating \cup {"idle"}
      /\ UNCHANGED <<game, used, bundle, late, job, engine, faults>>
  BY Framed DEF Fetch, MarkRunning, Bind, MarkWrite, SucceedWrite, In, Creating
<1>1. GrantsKept
  BY <1>0 DEF GrantsKept
<1>2. \E n : Goes(h, n) /\ Moved(run[h], n)
  <2>1. Moved(run[h], Done(run[h])) /\ Moved(run[h], Aim(run[h], "failTask", "failed"))
        /\ Moved(run[h], At(run[h], "cancelRead")) /\ Moved(run[h], At(run[h], "launch"))
    BY <1>0, DoneMoved, AtMoved DEF Program, Creating, Refunding
  <2>2. CASE Fetch(h)
    <3>1. /\ \A via \in {"none", "missing", "running"} : Moved(run[h], Complete(run[h], via))
          /\ \A n \in Lost(run[h]) : Moved(run[h], n)
      BY <1>0, CompleteMoved, LostMoved
    <3> QED
      BY <2>1, <2>2, <3>1 DEF Fetch
  <2>3. CASE MarkRunning(h) \/ Bind(h)
    BY <2>1, <2>3 DEF MarkRunning, Bind
  <2>4. CASE MarkWrite(h) \/ SucceedWrite(h)
    BY <2>1, <2>4 DEF MarkWrite, SucceedWrite, Marked
  <2> QED
    BY <2>2, <2>3, <2>4
<1>3. \/ UNCHANGED task
      \/ \E r \in TaskRow : /\ task' = [task EXCEPT ![g] = r] /\ r.status # "none"
                            /\ task[g].status \in Final => r.status \in Final
  <2>1. CASE Bind(h)
    <3>1. task[g] \in TaskRow
      BY <1>0 DEF IInv, TypeOK
    <3> DEFINE r == [task[g] EXCEPT !.bound = TRUE]
    <3>2. r \in TaskRow /\ r.status = task[g].status
      BY <3>1 DEF TaskRow
    <3>3. task' = task \/ task' = [task EXCEPT ![g] = r]
      BY <1>0, <2>1 DEF Bind, IInv, TypeOK
    <3> QED
      BY <1>0, <3>2, <3>3 DEF Born
  <2>2. CASE Fetch(h) \/ MarkRunning(h)
    <3>1. task' = task \/ task' = [task EXCEPT ![g].status = Started(task[g].status)]
      BY <1>0, <2>2 DEF Fetch, MarkRunning, IInv, TypeOK
    <3> QED
      BY <1>0, <3>1, StatusWritten
  <2>3. CASE MarkWrite(h) \/ SucceedWrite(h)
    <3>1. \E s \in Final : task' = [task EXCEPT ![g].status = s]
      BY <2>3 DEF MarkWrite, SucceedWrite, Final
    <3> QED
      BY <1>0, <3>1, StatusWritten
  <2> QED
    BY <2>1, <2>2, <2>3
<1>4. Concerns(g)
  <2>1. used' \in Nat
    BY <1>0 DEF IInv, TypeOK
  <2> QED
    BY <1>0, <1>3, <2>1, Writing DEF engine
<1> QED
  BY <1>0, <1>1, <1>2, <1>4, GoesOn DEF Onward

\* The statements that write the game's status, its bundle, its job or the engine.
LEMMA RowStep ==
    ASSUME IInv, NEW h \in Handler,
           \/ Enqueue(h) \/ Stop(h) \/ Launch(h) \/ PublishBundle(h) \/ PublishSwap(h) \/ Ban(h)
    PROVE  /\ IInv' /\ Ends /\ GrantsKept
           /\ \E n : Goes(h, n) /\ Moved(run[h], n)
<1> DEFINE g == run[h].g
<1>0. /\ run[h] \in Frame /\ g \in Game /\ Born(g)
      /\ run[h].pc \notin Creating \cup {"idle"}
      /\ UNCHANGED <<task, used, late, relay, poor, faults>>
  BY Framed DEF Enqueue, Stop, Launch, PublishBundle, PublishSwap, Ban, In, Creating, db, engine
<1>2. \E n : Goes(h, n) /\ Moved(run[h], n)
  <2>1. /\ Moved(run[h], Done(run[h])) /\ Moved(run[h], Aim(run[h], "failTask", "failed"))
        /\ Moved(run[h], Idle)
        /\ \A pc \in {"cancelRead", "refundRead", "markRead", "bind", "pubSwap", "succRead"} :
              Moved(run[h], At(run[h], pc))
    BY <1>0, DoneMoved, AtMoved DEF Program, Creating, Refunding, Moved
  <2>2. CASE Enqueue(h) \/ Ban(h) \/ PublishBundle(h) \/ PublishSwap(h)
    BY <2>1, <2>2 DEF Enqueue, Ban, PublishBundle, PublishSwap
  <2>3. CASE Stop(h) \/ Launch(h)
    BY <2>1, <2>3 DEF Stop, Launch
  <2> QED
    BY <2>2, <2>3
<1>3. /\ bundle' \in {bundle, bundle \cup {g}}
      /\ UNCHANGED job \/ \E j \in {"absent", "waiting", "kept"} : job' = [job EXCEPT ![g] = j]
      /\ UNCHANGED up \/ \E u \in {"running", "canceled"} : up' = [up EXCEPT ![g] = u]
  BY DEF Enqueue, Stop, Launch, Launched, PublishBundle, PublishSwap, Ban, db, engine
<1>4. /\ UNCHANGED game \/ \E r \in [status : GameStatus, grant : BOOLEAN] :
                              game' = [game EXCEPT ![g] = r]
      /\ GrantsKept
  <2>1. CASE UNCHANGED game
    BY <1>0, <2>1 DEF GrantsKept
  <2>2. ASSUME NEW s \in {"draft", "banned"}, game' = [game EXCEPT ![g].status = s]
        PROVE  <1>4!1 /\ GrantsKept
    <3> DEFINE r == [game[g] EXCEPT !.status = s]
    <3>1. game[g] \in [status : GameStatus, grant : BOOLEAN]
      BY <1>0 DEF IInv, TypeOK
    <3>2. r \in [status : GameStatus, grant : BOOLEAN] /\ r.grant = game[g].grant /\ r.status # "failed"
      BY <3>1 DEF GameStatus
    <3>3. game' = [game EXCEPT ![g] = r]
      BY <2>2, <1>0 DEF IInv, TypeOK
    <3> QED
      BY <1>0, <3>2, <3>3 DEF GrantsKept, IInv, TypeOK
  <2>3. UNCHANGED game \/ \E s \in {"draft", "banned"} : game' = [game EXCEPT ![g].status = s]
    BY DEF Enqueue, Stop, Launch, PublishBundle, PublishSwap, Ban, db
  <2> QED
    BY <2>1, <2>2, <2>3
<1>5. Concerns(g)
  <2>1. used' \in Nat
    BY <1>0 DEF IInv, TypeOK
  <2> QED
    BY <1>0, <1>3, <1>4, <2>1, Writing
<1> QED
  BY <1>0, <1>2, <1>4, <1>5, GoesOn DEF Onward
-----------------------------------------------------------------------------
(* Refunds.                                                                *)

\* One unit is given back, and with it the grant of one game.
Returned(f) ==
    /\ f.grant /\ used > 0 /\ used' = used - 1
    /\ game'[f.g].grant = FALSE
    /\ \A k \in Game \ {f.g} : game'[k] = game[k]

\* A game fails whose transaction saw nothing to give back.
Unpaid(f) ==
    /\ ~f.grant /\ used' = used
    /\ game'[f.g].grant = game[f.g].grant
    /\ \A k \in Game \ {f.g} : game'[k] = game[k]

\* persistFailureState gives a unit back only with the grant it takes away.
LEMMA Failing ==
    ASSUME IInv, NEW f \in Frame, FailGame(f)
    PROVE  /\ \E r \in [status : GameStatus, grant : BOOLEAN] : game' = [game EXCEPT ![f.g] = r]
           /\ used' \in Nat
           /\ GrantsKept \/ Returned(f) \/ Unpaid(f)
<1> DEFINE b == game[f.g].grant /\ ~Refunds(f)
           r == [status |-> "failed", grant |-> b]
<1>1. /\ game \in [Game -> [status : GameStatus, grant : BOOLEAN]] /\ used \in Nat
      /\ f.g \in Game /\ game[f.g].grant \in BOOLEAN
  BY DEF IInv, TypeOK, Frame
<1>2. b \in BOOLEAN /\ r \in [status : GameStatus, grant : BOOLEAN]
  BY DEF GameStatus
<1>3. game' = [game EXCEPT ![f.g] = r]
  BY <1>1 DEF FailGame
<1>4. \A k \in Game \ {f.g} : game'[k] = game[k]
  BY <1>1, <1>3
<1>5. game'[f.g].grant = b
  BY <1>1, <1>3
<1>6. CASE Refunds(f)
  <2>1. used' = used - 1 /\ f.grant /\ used > 0 /\ b = FALSE
    BY <1>6 DEF FailGame, Refunds
  <2>2. used' \in Nat
    BY <1>1, <2>1
  <2> QED
    BY <1>2, <1>3, <1>4, <1>5, <2>1, <2>2 DEF Returned
<1>7. CASE ~Refunds(f)
  <2>1. used' = used /\ b = game[f.g].grant
    BY <1>1, <1>7 DEF FailGame
  <2>2. CASE f.grant
    <3>1. used = 0
      BY <1>1, <1>7, <2>2 DEF Refunds
    <3>2. GrantsKept
      BY <1>4, <1>5, <2>1, <3>1 DEF GrantsKept
    <3> QED
      BY <1>1, <1>2, <1>3, <2>1, <3>2
  <2>3. CASE ~f.grant
    <3>1. Unpaid(f)
      BY <1>4, <1>5, <2>1, <2>3 DEF Unpaid
    <3> QED
      BY <1>1, <1>2, <1>3, <2>1, <3>1
  <2> QED
    BY <2>2, <2>3
<1> QED
  BY <1>6, <1>7

\* The transactions that fail a game and give its grant back.
LEMMA RefundStep ==
    ASSUME IInv, NEW h \in Handler, CancelWrite(h) \/ RefundWrite(h)
    PROVE  /\ IInv' /\ Ends
           /\ GrantsKept \/ Returned(run[h]) \/ Unpaid(run[h])
           /\ run[h].pc \in Refunding
           /\ \E n : Goes(h, n) /\ Moved(run[h], n)
<1> DEFINE g == run[h].g
<1>0. /\ run[h] \in Frame /\ g \in Game /\ Born(g) /\ run[h].pc \in Refunding
      /\ run[h].pc \notin Creating \cup {"idle"}
      /\ UNCHANGED <<bundle, late, job, engine, faults>>
  BY Framed DEF CancelWrite, RefundWrite, In, Creating, Refunding
<1>1. \E n : Goes(h, n) /\ Moved(run[h], n)
  <2>1. Moved(run[h], Done(run[h])) /\ Moved(run[h], At(run[h], "markRead"))
    BY <1>0, DoneMoved, AtMoved DEF Program, Creating, Refunding
  <2> QED
    BY <2>1 DEF CancelWrite, RefundWrite
<1>2. FailGame(run[h]) \/ UNCHANGED <<game, used>>
  BY DEF CancelWrite, RefundWrite
<1>3. /\ \/ UNCHANGED game
         \/ \E r \in [status : GameStatus, grant : BOOLEAN] : game' = [game EXCEPT ![g] = r]
      /\ used' \in Nat
      /\ GrantsKept \/ Returned(run[h]) \/ Unpaid(run[h])
  <2>1. CASE FailGame(run[h])
    BY <1>0, <2>1, Failing
  <2>2. CASE UNCHANGED <<game, used>>
    BY <2>2 DEF GrantsKept, IInv, TypeOK
  <2> QED
    BY <1>2, <2>1, <2>2
<1>4. \/ UNCHANGED task
      \/ \E r \in TaskRow : /\ task' = [task EXCEPT ![g] = r] /\ r.status # "none"
                            /\ task[g].status \in Final => r.status \in Final
  <2>1. CASE CancelWrite(h)
    <3>1. \E s \in Final : task' = [task EXCEPT ![g].status = s]
      BY <2>1 DEF CancelWrite, Final
    <3> QED
      BY <1>0, <3>1, StatusWritten
  <2>2. CASE RefundWrite(h)
    BY <2>2 DEF RefundWrite
  <2> QED
    BY <2>1, <2>2
<1>5. Concerns(g)
  <2>1. /\ UNCHANGED <<relay, poor, late, faults>> /\ bundle' \in {bundle, bundle \cup {g}}
        /\ UNCHANGED job /\ UNCHANGED up
    BY <1>0 DEF engine
  <2> QED
    BY <1>0, <1>3, <1>4, <2>1, Writing
<1> QED
  BY <1>0, <1>1, <1>3, <1>5, GoesOn DEF Onward
-----------------------------------------------------------------------------
(* Creation.                                                               *)

\* One unit is taken for a game that held no grant.
Taken(g) ==
    /\ used < TotalQuota /\ used' = used + 1
    /\ ~game[g].grant /\ game'[g].grant = TRUE /\ game'[g].status = "generating"
    /\ \A k \in Game \ {g} : game'[k] = game[k]

\* A handler that begins a creation, goes on with it or gives it up.
LEMMA StaysUnborn ==
    ASSUME IInv, NEW h \in Handler, NEW g \in Game, ~Born(g),
           \A k \in Handler \ {h} : run[k] # Idle => run[k].g # g,
           NEW n, n = Idle \/ (n \in Frame /\ n.g = g /\ n.pc \in Creating /\ n.op = "create"),
           Goes(h, n), UNCHANGED <<db, late, job, engine>>, faults' \in 0..MaxFaults
    PROVE  IInv' /\ Ends
<1>1. /\ run' \in [Handler -> Frame \cup {Idle}] /\ run'[h] = n
      /\ \A k \in Handler \ {h} : run'[k] = run[k]
  BY DEF Goes, IInv, TypeOK
<1>2. UNCHANGED <<task, game, used, bundle, late, job, up, relay, poor>>
  BY DEF db, engine
<1>3. TypeOK'
  BY <1>1, <1>2 DEF IInv, TypeOK
<1>4. \A k \in Game : ~Born(k)' => Unknown(k)'
  BY <1>2 DEF IInv, Born, Unknown
<1>5. ASSUME NEW k \in Handler PROVE Placed(k)'
  <2>1. CASE k = h
    BY <1>1, <1>2, <2>1 DEF Placed, Born
  <2>2. CASE k # h
    <3>1. Placed(k) /\ run'[k] = run[k] /\ (run[k] # Idle => run[k].g # g)
      BY <1>1, <2>2 DEF IInv
    <3>2. n = Idle \/ n.g = g
      OBVIOUS
    <3> QED
      BY <1>1, <1>2, <3>1, <3>2 DEF Placed, Born
  <2> QED
    BY <2>1, <2>2
<1>6. Ends
  BY <1>2 DEF Ends
<1> QED
  BY <1>3, <1>4, <1>5, <1>6 DEF IInv

\* The insertion of the rows: nobody else knows the game.
LEMMA Inserted ==
    ASSUME IInv, NEW h \in Handler, NEW g \in Game, ~Born(g), Concerns(g),
           \A k \in Handler \ {h} : run[k] # Idle => run[k].g # g,
           NEW n \in Frame, n.g = g, n.pc \notin Creating, Goes(h, n)
    PROVE  IInv' /\ Ends
<1>1. /\ run' \in [Handler -> Frame \cup {Idle}] /\ run'[h] = n
      /\ \A k \in Handler \ {h} : run'[k] = run[k]
  BY DEF Goes, IInv, TypeOK
<1>2. TypeOK'
  BY <1>1 DEF IInv, TypeOK, Concerns
<1>3. Born(g)' /\ \A k \in Game \ {g} : Born(k)' <=> Born(k)
  BY DEF Concerns, Born
<1>4. ASSUME NEW k \in Game, ~Born(k)' PROVE Unknown(k)'
  <2>1. k # g /\ Unknown(k)
    BY <1>3, <1>4 DEF IInv
  <2> QED
    BY <2>1 DEF Unknown, Concerns
<1>5. ASSUME NEW k \in Handler PROVE Placed(k)'
  <2>1. CASE k = h
    BY <1>1, <1>3, <2>1 DEF Placed
  <2>2. CASE k # h
    <3>1. Placed(k) /\ run'[k] = run[k] /\ (run[k] # Idle => run[k] \in Frame /\ run[k].g # g)
      BY <1>1, <2>2 DEF IInv, TypeOK
    <3>2. run[k] # Idle => run[k].g \in Game \ {g}
      BY <3>1 DEF Frame
    <3> QED
      BY <1>1, <1>3, <3>1, <3>2 DEF Placed
  <2> QED
    BY <2>1, <2>2
<1>6. Ends
  BY DEF Ends, Concerns
<1> QED
  BY <1>2, <1>4, <1>5, <1>6 DEF IInv

\* create(): the read of the quota, and the transaction that may conflict.
LEMMA CreateStep ==
    ASSUME IInv, NEW h \in Handler, ReadQuota(h) \/ Insert(h)
    PROVE  /\ IInv' /\ Ends
           /\ GrantsKept \/ Taken(run[h].g)
           /\ \E n : Goes(h, n) /\ (n = Idle \/ n.pc \notin Refunding)
<1> DEFINE f == run[h]
           g == run[h].g
<1>0. f \in Frame /\ g \in Game /\ f # Idle /\ f.pc \in Creating
  BY Framed DEF ReadQuota, Insert, In, Creating
<1>1. /\ ~Born(g) /\ f.op = "create"
      /\ \A k \in Handler \ {h} : run[k] # Idle => run[k].g # g
  BY <1>0 DEF IInv, Placed
<1>2. game[g].grant = FALSE /\ task[g] \in TaskRow /\ used \in Nat
  BY <1>0, <1>1 DEF IInv, TypeOK, Unknown
<1>3. faults \in 0..MaxFaults /\ TypeOK
  BY DEF IInv, TypeOK
<1>4. CASE ReadQuota(h)
  <2> DEFINE a == At(f, "insert")
             n == [a EXCEPT !.seen = used]
  <2>1. a \in Frame /\ a.g = g /\ a.pc = "insert" /\ a.op = f.op
    BY <1>0, AtTyped DEF Program
  <2>2. n \in Frame /\ n.g = g /\ n.pc = "insert" /\ n.op = "create"
    BY <1>1, <1>2, <2>1 DEF Frame
  <2>3. Goes(h, n) /\ UNCHANGED <<db, late, job, engine, faults>>
    BY <1>4 DEF ReadQuota
  <2>4. IInv' /\ Ends
    BY <1>0, <1>1, <1>3, <2>2, <2>3, StaysUnborn DEF Creating
  <2> QED
    BY <2>2, <2>3, <2>4 DEF GrantsKept, Refunding, db
<1>5. CASE Insert(h) /\ QuotaMoved(f)
  <2>1. UNCHANGED <<db, late, job, engine, faults>>
    BY <1>5 DEF Insert, db
  <2> DEFINE a == At(f, "quota")
             n == [a EXCEPT !.try = @ + 1]
  <2>2. a \in Frame /\ a.g = g /\ a.pc = "quota" /\ a.op = f.op /\ a.try = f.try
    BY <1>0, AtTyped DEF Program, Tail
  <2>3. CASE f.try < MaxAttempts
    <3>1. a.try + 1 \in 1..MaxAttempts
      BY <1>0, <2>2, <2>3, ConstantsAssumption DEF Frame
    <3>2. n \in Frame /\ n.g = g /\ n.pc = "quota" /\ n.op = "create"
      BY <1>1, <2>2, <3>1 DEF Frame
    <3>3. Goes(h, n)
      BY <1>5, <2>3 DEF Insert
    <3>4. IInv' /\ Ends
      BY <1>0, <1>1, <1>3, <2>1, <3>2, <3>3, StaysUnborn DEF Creating
    <3> QED
      BY <2>1, <3>2, <3>3, <3>4 DEF GrantsKept, Refunding, db
  <2>4. CASE ~(f.try < MaxAttempts)
    <3>1. Goes(h, Idle)
      BY <1>5, <2>4 DEF Insert
    <3>2. IInv' /\ Ends
      BY <1>0, <1>1, <1>3, <2>1, <3>1, StaysUnborn
    <3> QED
      BY <2>1, <3>1, <3>2 DEF GrantsKept, db
  <2> QED
    BY <2>3, <2>4
<1>6. CASE Insert(h) /\ ~QuotaMoved(f)
  <2> DEFINE granted == f.seen < TotalQuota
             r == [status |-> "generating", grant |-> granted]
             t == [task[g] EXCEPT !.status = "queued"]
             n == At(f, "enqueue")
  <2>1. /\ game' = [game EXCEPT ![g] = r] /\ task' = [task EXCEPT ![g].status = "queued"]
        /\ used' = (IF granted THEN used + 1 ELSE used) /\ Goes(h, n)
        /\ UNCHANGED <<bundle, late, job, up, relay, poor, faults>>
    BY <1>6 DEF Insert, engine
  <2>2. granted \in BOOLEAN /\ r \in [status : GameStatus, grant : BOOLEAN]
    BY DEF GameStatus
  <2>3. t \in TaskRow /\ t.status = "queued" /\ task' = [task EXCEPT ![g] = t]
    BY <1>0, <1>2, <1>3, <2>1 DEF TaskRow, Active, TypeOK
  <2>4. game \in [Game -> [status : GameStatus, grant : BOOLEAN]] /\ task \in [Game -> TaskRow]
    BY <1>3 DEF TypeOK
  <2>5. /\ task' \in [Game -> TaskRow] /\ \A k \in Game \ {g} : task'[k] = task[k]
        /\ task'[g] = t
    BY <1>0, <2>3, <2>4
  <2>6. /\ game' \in [Game -> [status : GameStatus, grant : BOOLEAN]]
        /\ \A k \in Game \ {g} : game'[k] = game[k]
        /\ game'[g] = r
    BY <1>0, <2>1, <2>2, <2>4
  <2>7. task[g].status \notin Final
    BY <1>1 DEF Born, Final
  <2>8. used' \in Nat
    BY <1>2, <2>1
  <2>9. Concerns(g)
    BY <1>3, <2>1, <2>3, <2>5, <2>6, <2>7, <2>8 DEF Concerns, TypeOK
  <2>10. n \in Frame /\ n.g = g /\ n.pc = "enqueue"
    BY <1>0, AtTyped DEF Program
  <2>11. IInv' /\ Ends
    BY <1>0, <1>1, <2>1, <2>9, <2>10, Inserted DEF Creating
  <2>12. /\ granted => game'[g].grant = TRUE
         /\ ~granted => game'[g].grant = FALSE
    <3>1. game'[g].grant = granted
      BY <2>6
    <3> QED
      BY <2>2, <3>1
  <2>13. CASE granted
    <3>1. game'[g].grant = TRUE
      BY <2>13, <2>12
    <3>2. used < TotalQuota /\ used' = used + 1
      BY <1>6, <2>1, <2>13 DEF QuotaMoved
    <3>3. Taken(g)
      BY <1>2, <2>6, <3>1, <3>2 DEF Taken
    <3> QED
      BY <2>1, <2>10, <2>11, <3>3 DEF Refunding
  <2>14. CASE ~granted
    <3>1. game'[g].grant = FALSE /\ used' = used
      BY <2>1, <2>14, <2>12
    <3>2. GrantsKept
      BY <1>2, <2>6, <3>1 DEF GrantsKept
    <3> QED
      BY <2>1, <2>10, <2>11, <3>2 DEF Refunding
  <2> QED
    BY <2>13, <2>14
<1> QED
  BY <1>4, <1>5, <1>6
-----------------------------------------------------------------------------
(* Handlers begin, and everything else that happens.                       *)

\* The frame of a handler that begins.
LEMMA BeginFrame ==
    ASSUME IInv, NEW h \in Handler, NEW op, NEW g \in Game, NEW pc \in Program, Begin(h, op, g, pc)
    PROVE  \E n \in Frame : n.g = g /\ n.pc = pc /\ n.op = op /\ Goes(h, n)
<1> DEFINE n == [pc |-> pc, op |-> op, g |-> g, t |-> NoTask, gs |-> "none",
                 grant |-> FALSE, seen |-> 0, base |-> "none", via |-> "none", try |-> 1,
                 goal |-> IF op = "relay" THEN "relayed" ELSE "failed"]
<1>1. op \in Op /\ Goes(h, n)
  BY ConstantsAssumption DEF Begin, Op
<1>2. n \in Frame
  BY <1>1, Values DEF Frame, GameStatus
<1> QED
  BY <1>1, <1>2

\* A handler on a game that has its task.
LEMMA Begins ==
    ASSUME IInv, NEW h \in Handler, NEW g \in Game, Born(g),
           NEW n \in Frame, n.g = g, n.pc \in {"task", "game", "markRead"}, Goes(h, n),
           Concerns(g), UNCHANGED <<game, used>>
    PROVE  /\ IInv' /\ Ends /\ GrantsKept
           /\ n.pc \notin Refunding
<1>1. /\ run' \in [Handler -> Frame \cup {Idle}] /\ run'[h] = n
      /\ \A k \in Handler \ {h} : run'[k] = run[k]
  BY DEF Goes, IInv, TypeOK
<1>2. IInv' /\ Ends
  BY <1>1, Kept DEF Creating
<1> QED
  BY <1>2 DEF GrantsKept, Refunding

\* A request, a job, the sweep or a relayed failure begins: on a game with a task,
\* but for a creation.
LEMMA BeginStep ==
    ASSUME IInv, NEW h \in Handler, NEW g \in Game,
           \/ BeginCreate(h, g) \/ BeginDeliver(h, g) \/ BeginRelay(h, g)
           \/ h = Sweeper /\ BeginSweep(g)
           \/ \E op \in Op : BeginRequest(h, op, g)
    PROVE  /\ IInv' /\ Ends /\ GrantsKept
           /\ \E n : Goes(h, n) /\ (n = Idle \/ n.pc \notin Refunding)
<1>1. CASE BeginCreate(h, g)
  <2>1. PICK n \in Frame : n.g = g /\ n.pc = "quota" /\ n.op = "create" /\ Goes(h, n)
    BY <1>1, BeginFrame DEF BeginCreate, Program
  <2>2. ~Born(g) /\ \A k \in Handler \ {h} : run[k] # Idle => run[k].g # g
    BY <1>1 DEF BeginCreate, Born, NoTask
  <2>3. faults' \in 0..MaxFaults /\ UNCHANGED <<db, late, job, engine>>
    BY <1>1 DEF BeginCreate, IInv, TypeOK
  <2>4. IInv' /\ Ends
    BY <2>1, <2>2, <2>3, StaysUnborn DEF Creating
  <2> QED
    BY <2>1, <2>3, <2>4 DEF GrantsKept, Refunding, db
<1>2. CASE BeginDeliver(h, g)
  <2>1. PICK n \in Frame : n.g = g /\ n.pc = "task" /\ Goes(h, n)
    BY <1>2, BeginFrame DEF BeginDeliver, Program
  <2>2. Born(g)
    BY <1>2 DEF BeginDeliver, IInv, Unknown
  <2>3. Concerns(g) /\ UNCHANGED <<game, used>>
    BY <1>2, <2>2 DEF BeginDeliver, IInv, TypeOK, Concerns, Born, db, engine
  <2> QED
    BY <2>1, <2>2, <2>3, Begins
<1>3. CASE BeginRelay(h, g)
  <2>1. PICK n \in Frame : n.g = g /\ n.pc = "markRead" /\ Goes(h, n)
    BY <1>3, BeginFrame DEF BeginRelay, Program
  <2>2. Born(g)
    BY <1>3 DEF BeginRelay, IInv, Unknown
  <2>3. Concerns(g) /\ UNCHANGED <<game, used>>
    BY <1>3, <2>2 DEF BeginRelay, IInv, TypeOK, Concerns, Born, db
  <2> QED
    BY <2>1, <2>2, <2>3, Begins
<1>4. CASE h = Sweeper /\ BeginSweep(g)
  <2>1. PICK n \in Frame : n.g = g /\ n.pc = "task" /\ Goes(h, n)
    BY <1>4, BeginFrame DEF BeginSweep, Program
  <2>2. Born(g)
    BY <1>4 DEF BeginSweep, Born, Active
  <2>3. Concerns(g) /\ UNCHANGED <<game, used>>
    BY <1>4, <2>2, Resting DEF BeginSweep, db, engine
  <2> QED
    BY <2>1, <2>2, <2>3, Begins
<1>5. ASSUME NEW op \in Op, BeginRequest(h, op, g)
      PROVE  /\ IInv' /\ Ends /\ GrantsKept
             /\ \E n : Goes(h, n) /\ (n = Idle \/ n.pc \notin Refunding)
  <2>1. PICK n \in Frame : n.g = g /\ n.pc \in {"task", "game"} /\ Goes(h, n)
    BY <1>5, BeginFrame DEF BeginRequest, Program
  <2>2. Born(g)
    BY <1>5 DEF BeginRequest, IInv, Unknown
  <2>3. Concerns(g) /\ UNCHANGED <<game, used>>
    BY <1>5, <2>2, Resting DEF BeginRequest, db, engine
  <2> QED
    BY <2>1, <2>2, <2>3, Begins
<1> QED
  BY <1>1, <1>2, <1>3, <1>4, <1>5

\* The AI engine, time and BullMQ's retention.
LEMMA OutsideStep ==
    ASSUME IInv, NEW g \in Game,
           \/ Progress(g) \/ UpFails(g) \/ UpEnds(g) \/ UpLost(g) \/ Deadline(g) \/ Evict(g)
    PROVE  IInv' /\ Ends /\ GrantsKept /\ UNCHANGED run
<1>1. UNCHANGED <<run, game, used, bundle, poor>>
  BY DEF Progress, UpFails, UpEnds, UpLost, Deadline, Evict, db, engine
<1>2. Born(g)
  BY DEF Progress, UpFails, UpEnds, UpLost, Deadline, Evict, IInv, Unknown, Born, Active
<1>3. CASE Progress(g)
  <2>1. task[g] \in TaskRow /\ task[g].status \in Active
    BY <1>3 DEF Progress, IInv, TypeOK
  <2>2. PICK stored \in {task[g].stored, TRUE} :
           task' = [task EXCEPT ![g].status = Started(@), ![g].stored = stored]
    BY <1>3 DEF Progress
  <2> DEFINE r == [task[g] EXCEPT !.status = "running", !.stored = stored]
  <2>3. Started(task[g].status) = "running"
    BY <2>1 DEF Started, Active
  <2>4. stored \in BOOLEAN
    BY <2>1 DEF TaskRow
  <2>5. r \in TaskRow /\ r.status = "running"
    BY <2>1, <2>4 DEF TaskRow, Active
  <2>6. task' = [task EXCEPT ![g] = r]
    <3>1. task' = [task EXCEPT ![g].status = "running", ![g].stored = stored]
      BY <2>2, <2>3
    <3> QED
      BY <3>1 DEF IInv, TypeOK
  <2>7. task[g].status \notin Final
    BY <2>1 DEF Active, Final
  <2>8. /\ UNCHANGED <<relay, poor, late, faults, game, job, up>> /\ used' \in Nat
        /\ bundle' \in {bundle, bundle \cup {g}}
    BY <1>1, <1>3 DEF Progress, engine, IInv, TypeOK
  <2>9. Concerns(g)
    BY <1>2, <2>5, <2>6, <2>7, <2>8, Writing
  <2> QED
    BY <1>1, <1>2, <2>9, Kept DEF GrantsKept, IInv, TypeOK
<1>4. CASE UpFails(g) \/ UpEnds(g) \/ UpLost(g)
  <2>1. /\ \E u \in {"failing", "failed", "succeeded", "gone"} : up' = [up EXCEPT ![g] = u]
        /\ relay' \in {relay, relay \cup {g}} /\ UNCHANGED <<task, late, job>>
    BY <1>4 DEF UpFails, UpEnds, UpLost, db, IInv, TypeOK
  <2>2. faults' \in 0..MaxFaults
    BY <1>4, ConstantsAssumption DEF UpFails, UpEnds, UpLost, IInv, TypeOK
  <2>3. /\ up' \in [Game -> {"none", "running", "failing", "succeeded", "failed", "canceled", "gone"}]
        /\ \A k \in Game \ {g} : up'[k] = up[k]
    <3>1. up \in [Game -> {"none", "running", "failing", "succeeded", "failed", "canceled", "gone"}]
      BY DEF IInv, TypeOK
    <3> QED
      BY <2>1, <3>1
  <2>4. Concerns(g)
    BY <1>1, <1>2, <2>1, <2>2, <2>3 DEF Concerns, Born, IInv, TypeOK
  <2> QED
    BY <1>1, <1>2, <2>4, Kept DEF GrantsKept, IInv, TypeOK
<1>5. CASE Deadline(g) \/ Evict(g)
  <2>1. /\ UNCHANGED <<task, up, relay, faults>> /\ late' \subseteq late \cup {g}
        /\ job' = job \/ job' = [job EXCEPT ![g] = "absent"]
    BY <1>5 DEF Deadline, Evict, db, engine
  <2>2. job' \in [Game -> {"absent", "waiting", "kept"}] /\ \A k \in Game \ {g} : job'[k] = job[k]
    BY <2>1 DEF IInv, TypeOK
  <2>3. Concerns(g)
    BY <1>1, <1>2, <2>1, <2>2 DEF Concerns, Born, IInv, TypeOK
  <2> QED
    BY <1>1, <1>2, <2>3, Kept DEF GrantsKept, IInv, TypeOK
<1> QED
  BY <1>3, <1>4, <1>5

\* A crash: a job of a game that has its task may be delivered again.
LEMMA CrashStep ==
    ASSUME IInv, NEW h \in Handler, Crash(h)
    PROVE  IInv' /\ Ends /\ GrantsKept /\ Goes(h, Idle)
<1> DEFINE g == run[h].g
<1>1. /\ UNCHANGED <<db, late, engine>> /\ Goes(h, Idle) /\ faults' \in 0..MaxFaults
      /\ run[h] \in Frame /\ g \in Game
  BY ConstantsAssumption DEF Crash, Goes, IInv, TypeOK, Frame
<1>2. GrantsKept
  BY <1>1 DEF GrantsKept, db
<1>3. CASE run[h].pc \in Creating
  <2>1. /\ ~Born(g) /\ run[h].op = "create"
        /\ \A k \in Handler \ {h} : run[k] # Idle => run[k].g # g
    BY <1>3 DEF Crash, IInv, Placed
  <2>2. UNCHANGED job
    BY <2>1 DEF Crash
  <2> QED
    BY <1>1, <1>2, <2>1, <2>2, StaysUnborn
<1>4. CASE run[h].pc \notin Creating
  <2>1. Born(g)
    BY <1>4 DEF Crash, IInv, Placed
  <2>2. job' = job \/ job' = [job EXCEPT ![g] = "waiting"]
    BY DEF Crash
  <2>3. job' \in [Game -> {"absent", "waiting", "kept"}] /\ \A k \in Game \ {g} : job'[k] = job[k]
    BY <2>2 DEF IInv, TypeOK
  <2>4. Concerns(g)
    BY <1>1, <2>1, <2>3 DEF Concerns, Born, IInv, TypeOK, db, engine
  <2>5. /\ run' \in [Handler -> Frame \cup {Idle}]
        /\ \A k \in Handler : run'[k] = run[k] \/ run'[k] = Idle
    BY <1>1 DEF Goes, IInv, TypeOK
  <2> QED
    BY <1>1, <1>2, <2>1, <2>4, <2>5, Kept
<1> QED
  BY <1>3, <1>4
-----------------------------------------------------------------------------
(* Every step.                                                             *)

\* What a step of a handler does to the quota, the grants and its own frame.
Counted(h) ==
    \/ GrantsKept /\ run'[h].pc \notin Refunding
    \/ UNCHANGED <<game, used>> /\ run'[h].grant = game[run'[h].g].grant
    \/ run'[h].pc \notin Refunding /\ run[h].pc \in Creating /\ Taken(run[h].g)
    \/ /\ run'[h].pc \notin Refunding /\ run[h].pc \in Refunding
       /\ run[h].g \in Game /\ (Returned(run[h]) \/ Unpaid(run[h]))

\* A step that leaves a handler outside a refund's transaction.
LEMMA Gone ==
    ASSUME IInv, NEW h \in Handler, NEW n, Goes(h, n), n = Idle \/ n.pc \notin Refunding
    PROVE  Goes(h, run'[h]) /\ run'[h].pc \notin Refunding
<1>1. run'[h] = n
  BY DEF Goes, IInv, TypeOK
<1>2. n.pc \notin Refunding
  BY DEF Idle, Refunding
<1> QED
  BY <1>1, <1>2

\* A frame that has moved is in no refund.
LEMMA MovedAway == ASSUME NEW f, NEW n, Moved(f, n) PROVE n = Idle \/ n.pc \notin Refunding
BY DEF Moved

\* Every statement keeps the invariant, ends no end and counts the quota.
LEMMA HandlerStep ==
    ASSUME IInv, NEW h \in Handler, Step(h)
    PROVE  IInv' /\ Ends /\ Goes(h, run'[h]) /\ Counted(h)
<1>1. CASE ReadTask(h) \/ ReadGame(h)
  <2>1. GrantsKept
    BY <1>1, ReadRows DEF GrantsKept
  <2> QED
    BY <1>1, <2>1, ReadRows, MovedAway, Gone DEF Counted
<1>2. CASE CancelRead(h) \/ RefundRead(h)
  <2>1. run'[h].g = run[h].g /\ run'[h].grant = game[run[h].g].grant
    BY <1>2, ReadGrant
  <2> QED
    BY <1>2, <2>1, ReadGrant DEF Counted, Goes
<1>3. CASE \/ FailTask(h) \/ FailGameRead(h) \/ MarkRead(h) \/ MayTask(h)
           \/ MayGame(h) \/ PublishRead(h) \/ PublishRetry(h) \/ SucceedRead(h)
  <2>1. IInv' /\ Ends /\ GrantsKept /\ \E n : Goes(h, n) /\ Moved(run[h], n)
    BY <1>3, CheckStep DEF GrantsKept
  <2> QED
    BY <2>1, MovedAway, Gone DEF Counted
<1>4. CASE Fetch(h) \/ MarkRunning(h) \/ Bind(h) \/ MarkWrite(h) \/ SucceedWrite(h)
  BY <1>4, TaskStep, MovedAway, Gone DEF Counted
<1>5. CASE Enqueue(h) \/ Stop(h) \/ Launch(h) \/ PublishBundle(h) \/ PublishSwap(h) \/ Ban(h)
  BY <1>5, RowStep, MovedAway, Gone DEF Counted
<1>6. CASE CancelWrite(h) \/ RefundWrite(h)
  <2>1. run[h] \in Frame /\ run[h].g \in Game
    BY <1>6, Framed DEF CancelWrite, RefundWrite, In
  <2> QED
    BY <1>6, <2>1, RefundStep, MovedAway, Gone DEF Counted
<1>7. CASE ReadQuota(h) \/ Insert(h)
  <2>1. run[h].pc \in Creating
    BY <1>7 DEF ReadQuota, Insert, In, Creating
  <2> QED
    BY <1>7, <2>1, CreateStep, Gone DEF Counted
<1> QED
  BY <1>1, <1>2, <1>3, <1>4, <1>5, <1>6, <1>7 DEF Step

\* The same of every step of the system.
LEMMA EveryStep ==
    ASSUME IInv, Next
    PROVE  /\ IInv' /\ Ends
           /\ \/ GrantsKept /\ UNCHANGED run
              \/ \E h \in Handler : Goes(h, run'[h]) /\ Counted(h)
<1>1. ASSUME NEW h \in Handler, NEW g \in Game,
             \/ BeginCreate(h, g) \/ BeginDeliver(h, g) \/ BeginRelay(h, g)
             \/ h = Sweeper /\ BeginSweep(g)
             \/ \E op \in Op : BeginRequest(h, op, g)
      PROVE  IInv' /\ Ends /\ Goes(h, run'[h]) /\ Counted(h)
  BY <1>1, BeginStep, Gone DEF Counted
<1>2. ASSUME NEW h \in Handler, Crash(h)
      PROVE  IInv' /\ Ends /\ Goes(h, run'[h]) /\ Counted(h)
  BY <1>2, CrashStep, Gone DEF Counted
<1>3. Sweeper \in Handler
  BY ConstantsAssumption
<1> QED
  BY <1>1, <1>2, <1>3, HandlerStep, OutsideStep DEF Next

\* And of none.
LEMMA Stuttering == ASSUME IInv, UNCHANGED vars PROVE IInv' /\ Ends /\ GrantsKept /\ UNCHANGED run
BY DEF IInv, TypeOK, Born, Unknown, Placed, Ends, GrantsKept, vars, Frame, TaskRow

\* Nothing is known of any game at first.
LEMMA Initially == Init => IInv
BY ConstantsAssumption, Values DEF Init, IInv, TypeOK, Born, Unknown, Placed, NoTask, TaskRow, GameStatus

\* The invariant holds throughout.
LEMMA Inductive == Spec => []IInv
<1>1. IInv /\ [Next]_vars => IInv'
  BY EveryStep, Stuttering
<1> QED
  BY <1>1, Initially, PTL DEF Spec
-----------------------------------------------------------------------------
(* What holds of every behaviour.                                          *)

\* The rows and the handlers have the shapes the code gives them.
THEOREM TypeCorrect == Spec => []TypeOK
<1>1. IInv => TypeOK
  BY DEF IInv
<1> QED
  BY <1>1, Inductive, PTL

\* No handler, however late, and no message of the AI engine makes a task that
\* has succeeded, failed, timed out or been canceled active again.
THEOREM NoResurrectionAlways == Spec => NoResurrection
<1>1. IInv /\ [Next]_vars =>
        [\A g \in Game : task[g].status \in Final => task'[g].status \in Final]_vars
  BY EveryStep DEF Ends
<1> QED
  BY <1>1, Inductive, PTL DEF Spec, NoResurrection

\* However many creations compete for it, the free quota is never oversold.
THEOREM QuotaCapAlways == Spec => []QuotaCap
<1>1. Init => QuotaCap
  BY ConstantsAssumption DEF Init, QuotaCap
<1>2. ASSUME IInv, QuotaCap, [Next]_vars PROVE QuotaCap'
  <2>1. used \in Nat /\ TotalQuota \in Nat
    BY <1>2, ConstantsAssumption DEF IInv, TypeOK
  <2>2. \/ used' = used
        \/ used < TotalQuota /\ used' = used + 1
        \/ used > 0 /\ used' = used - 1
    BY <1>2, EveryStep, Stuttering DEF GrantsKept, Counted, Taken, Returned, Unpaid
  <2> QED
    BY <1>2, <2>1, <2>2 DEF QuotaCap
<1> QED
  BY <1>1, <1>2, Inductive, PTL DEF Spec

\* The games that hold a unit and have not failed.
Holding == {g \in Game : game[g].grant /\ game[g].status # "failed"}

\* A refund's transaction has seen every grant that is still there.
Accounted ==
    /\ used <= Cardinality(Holding)
    /\ \A h \in Handler : run[h].pc \in Refunding /\ game[run[h].g].grant => run[h].grant

\* A step that takes no unit, gives none back and fails nothing that has one.
LEMMA HoldingKept ==
    ASSUME IInv, IsFiniteSet(Game), used <= Cardinality(Holding), used' = used,
           used # 0 => Holding \subseteq Holding'
    PROVE  used' <= Cardinality(Holding')
<1>1. IsFiniteSet(Holding) /\ IsFiniteSet(Holding')
  BY FS_Subset DEF Holding
<1>2. used \in Nat /\ Cardinality(Holding) \in Nat /\ Cardinality(Holding') \in Nat
  BY <1>1, FS_CardinalityType DEF IInv, TypeOK
<1>3. CASE used = 0
  BY <1>2, <1>3
<1>4. CASE used # 0
  <2>1. Cardinality(Holding) <= Cardinality(Holding')
    BY <1>1, <1>4, FS_Subset
  <2> QED
    BY <1>2, <2>1
<1> QED
  BY <1>3, <1>4

\* One unit more with one game more, or one less with at most one game less.
LEMMA HoldingMoves ==
    ASSUME IInv, IsFiniteSet(Game), used <= Cardinality(Holding), NEW g \in Game
    PROVE  /\ Taken(g) => used' <= Cardinality(Holding')
           /\ used' = used - 1 /\ (\A k \in Game \ {g} : game'[k] = game[k])
              => used' <= Cardinality(Holding')
<1>1. IsFiniteSet(Holding) /\ IsFiniteSet(Holding') /\ IsFiniteSet(Holding \ {g})
  BY FS_Subset DEF Holding
<1>2. /\ used \in Nat /\ Cardinality(Holding) \in Nat /\ Cardinality(Holding') \in Nat
      /\ Cardinality(Holding \ {g}) \in Nat
  BY <1>1, FS_CardinalityType DEF IInv, TypeOK
<1>3. ASSUME Taken(g) PROVE used' <= Cardinality(Holding')
  <2>1. Holding' = Holding \cup {g} /\ g \notin Holding
    BY <1>3 DEF Taken, Holding
  <2>2. Cardinality(Holding') = Cardinality(Holding) + 1
    BY <1>1, <2>1, FS_AddElement
  <2> QED
    BY <1>2, <1>3, <2>2 DEF Taken
<1>4. ASSUME used' = used - 1, \A k \in Game \ {g} : game'[k] = game[k]
      PROVE  used' <= Cardinality(Holding')
  <2>1. Holding \ {g} \subseteq Holding'
    BY <1>4 DEF Holding
  <2>2. Cardinality(Holding \ {g}) <= Cardinality(Holding')
    BY <1>1, <2>1, FS_Subset
  <2>3. Cardinality(Holding \ {g}) >= Cardinality(Holding) - 1
    <3>1. CASE g \in Holding
      BY <1>1, <1>2, <3>1, FS_RemoveElement
    <3>2. CASE g \notin Holding
      <4>1. Holding \ {g} = Holding
        BY <3>2
      <4> QED
        BY <1>2, <4>1
    <3> QED
      BY <3>1, <3>2
  <2> QED
    BY <1>2, <1>4, <2>2, <2>3
<1> QED
  BY <1>3, <1>4

\* Every unit in use is held by a game that has not failed, whatever handlers
\* overlap, crash or are lost: a failure gives the unit back, and no creation
\* takes one without giving it to its game.
THEOREM NoUnitLostAlways ==
    ASSUME IsFiniteSet(Game)
    PROVE  Spec => []NoUnitLost
<1>1. Init => Accounted
  <2> SUFFICES ASSUME Init PROVE Accounted
    OBVIOUS
  <2>1. Holding = {}
    BY DEF Init, Holding
  <2>2. \A h \in Handler : run[h].pc \notin Refunding
    BY DEF Init, Idle, Refunding
  <2> QED
    BY <2>1, <2>2, FS_EmptySet DEF Accounted, Init
<1>2. ASSUME IInv, Accounted, [Next]_vars PROVE Accounted'
  <2>1. used <= Cardinality(Holding)
    BY <1>2 DEF Accounted
  <2>2. ASSUME NEW k \in Handler, run[k].pc \in Refunding
        PROVE  run[k] # Idle /\ run[k].g \in Game /\ (game[run[k].g].grant => run[k].grant)
    BY <1>2, <2>2 DEF IInv, TypeOK, Accounted, Idle, Refunding, Frame
  <2>3. ASSUME GrantsKept PROVE used' <= Cardinality(Holding')
    <3>1. used # 0 => Holding \subseteq Holding'
      BY <2>3 DEF GrantsKept, Holding
    <3> QED
      BY <1>2, <2>1, <2>3, <3>1, HoldingKept DEF GrantsKept
  <2>4. CASE GrantsKept /\ UNCHANGED run
    BY <2>2, <2>3, <2>4 DEF Accounted, GrantsKept
  <2>5. ASSUME NEW h \in Handler, Goes(h, run'[h]), Counted(h) PROVE Accounted'
    <3>1. \A k \in Handler \ {h} : run'[k] = run[k]
      BY <1>2, <2>5 DEF Goes, IInv, TypeOK
    <3>2. CASE GrantsKept /\ run'[h].pc \notin Refunding
      BY <2>2, <2>3, <3>1, <3>2 DEF Accounted, GrantsKept
    <3>3. CASE UNCHANGED <<game, used>> /\ run'[h].grant = game[run'[h].g].grant
      <4>1. Holding \subseteq Holding'
        BY <3>3 DEF Holding
      <4>2. used' <= Cardinality(Holding')
        BY <1>2, <2>1, <3>3, <4>1, HoldingKept
      <4> QED
        BY <2>2, <3>1, <3>3, <4>2 DEF Accounted
    <3>4. CASE run'[h].pc \notin Refunding /\ run[h].pc \in Creating /\ Taken(run[h].g)
      <4>1. /\ run[h].g \in Game
            /\ \A k \in Handler \ {h} : run[k] # Idle => run[k].g # run[h].g
        BY <1>2, <3>4, Framed DEF Creating, IInv, Placed
      <4>2. used' <= Cardinality(Holding')
        BY <1>2, <2>1, <3>4, <4>1, HoldingMoves
      <4> QED
        BY <2>2, <3>1, <3>4, <4>1, <4>2 DEF Accounted, Taken
    <3>5. CASE /\ run'[h].pc \notin Refunding /\ run[h].pc \in Refunding
               /\ run[h].g \in Game /\ Returned(run[h])
      <4>1. used' <= Cardinality(Holding')
        BY <1>2, <2>1, <3>5, HoldingMoves DEF Returned
      <4> QED
        BY <2>2, <3>1, <3>5, <4>1 DEF Accounted, Returned
    <3>6. CASE /\ run'[h].pc \notin Refunding /\ run[h].pc \in Refunding
               /\ run[h].g \in Game /\ Unpaid(run[h])
      <4>1. ~game[run[h].g].grant
        BY <2>2, <3>6 DEF Unpaid
      <4>2. Holding \subseteq Holding'
        BY <3>6, <4>1 DEF Unpaid, Holding
      <4>3. used' <= Cardinality(Holding')
        BY <1>2, <2>1, <3>6, <4>2, HoldingKept DEF Unpaid
      <4>4. \A k \in Game : game'[k].grant = game[k].grant
        BY <3>6 DEF Unpaid
      <4> QED
        BY <2>2, <3>1, <3>6, <4>3, <4>4 DEF Accounted
    <3> QED
      BY <2>5, <3>2, <3>3, <3>4, <3>5, <3>6 DEF Counted
  <2> QED
    BY <1>2, <2>4, <2>5, EveryStep, Stuttering
<1>3. Accounted => NoUnitLost
  BY DEF Accounted, NoUnitLost, Holding
<1> QED
  BY <1>1, <1>2, <1>3, Inductive, PTL DEF Spec
-----------------------------------------------------------------------------
(* No task ends without its game.                                          *)

Completing == {"mayTask", "mayGame", "pubGame", "pubBundle", "pubSwap"}
Succeeding == {"succRead", "succWrite"}
Marking == {"markRead", "markWrite"}
Telling == {"failTask", "failGame", "refundRead", "refundWrite"}

\* Where a handler still knows the game as it has read it.
Knowing == {"stop", "fetch", "cancelWrite"} \cup Completing

\* A game that has come out of generation never goes back.
Left(s) == s \notin {"none", "generating"}

\* What the frame of a handler says of its game, whose status is s and whose
\* bundle is saved or not: all of it stays true whatever the others do.
Sound(f, s, saved) ==
    /\ f.pc \notin Creating => s # "none"
    /\ f.gs = "draft" => saved
    /\ Left(f.gs) => Left(s)
    /\ f.pc \in Knowing \/ (f.pc = "task" /\ f.op = "status") => f.gs # "none"
    /\ f.pc = "stop" => f.goal \in {"canceled", "timed_out"}
    /\ f.via # "none" => f.pc \in Completing \cup {"stop"}
    /\ f.via = "timed_out" => f.goal = "timed_out"
    /\ f.pc \in Marking => f.goal = "relayed" \/ Left(s)
    /\ f.pc = "pubSwap" => saved
    /\ f.pc \in Succeeding => saved /\ Left(s)

\* How the rows of a game agree: t is the status of its task.
RowLaw(t, s, saved) ==
    /\ t # "none" => s # "none"
    /\ t = "succeeded" \/ s = "draft" => saved
    /\ t \in {"succeeded", "canceled", "timed_out"} => Left(s)

Told(g) == \E h \in Handler : run[h].pc \in Telling /\ run[h].g = g

Sane ==
    /\ \A g \in Game : RowLaw(task[g].status, game[g].status, g \in bundle)
    /\ \A g \in Game : task[g].status = "failed" /\ game[g].status = "generating"
                         => faults # 0 \/ Told(g)
    /\ \A h \in Handler : run[h] # Idle =>
          Sound(run[h], game[run[h].g].status, run[h].g \in bundle)

\* A step on game g: the other rows keep what matters here, and nothing that
\* handlers rely on is taken back.
Apart(g) ==
    /\ \A k \in Game \ {g} :
          /\ task'[k].status = task[k].status /\ game'[k].status = game[k].status
          /\ k \in bundle' <=> k \in bundle
    /\ faults' = 0 => faults = 0
    /\ g \in bundle => g \in bundle'
    /\ Left(game[g].status) => Left(game'[g].status)
    /\ game[g].status # "none" => game'[g].status # "none"

\* Of a step of one handler, only its game and its own frame matter.
LEMMA Settling ==
    ASSUME IInv, Sane, NEW h \in Handler, NEW g \in Game, run[h] # Idle => run[h].g = g,
           NEW next, Goes(h, next), Apart(g),
           next = Idle \/ (next.g = g /\ Sound(next, game'[g].status, g \in bundle')),
           RowLaw(task'[g].status, game'[g].status, g \in bundle'),
           task'[g].status = "failed" /\ game'[g].status = "generating" =>
              \/ next.pc \in Telling
              \/ task[g].status = "failed" /\ game[g].status = "generating" /\ run[h].pc \notin Telling
    PROVE  Sane'
<1>1. run'[h] = next /\ \A k \in Handler \ {h} : run'[k] = run[k]
  BY DEF Goes, IInv, TypeOK
<1>2. ASSUME NEW k \in Game
      PROVE  RowLaw(task[k].status, game[k].status, k \in bundle)'
  <2>1. CASE k = g
    BY <2>1
  <2>2. CASE k # g
    <3>1. RowLaw(task[k].status, game[k].status, k \in bundle)
      BY DEF Sane
    <3> QED
      BY <2>2, <3>1 DEF RowLaw, Apart
  <2> QED
    BY <2>1, <2>2
<1>3. \A f : f.pc \in Telling => f # Idle
  BY DEF Idle, Telling
<1>4. ASSUME NEW k \in Game, task'[k].status = "failed", game'[k].status = "generating"
      PROVE  faults' # 0 \/ Told(k)'
  <2>1. CASE k = g /\ next.pc \in Telling
    <3>1. next.g = g
      BY <1>3, <2>1
    <3> QED
      BY <1>1, <2>1, <3>1 DEF Told
  <2>2. CASE /\ task[k].status = "failed" /\ game[k].status = "generating"
             /\ k # g \/ run[h].pc \notin Telling
    <3>1. faults # 0 \/ Told(k)
      BY <2>2 DEF Sane
    <3>2. ASSUME NEW j \in Handler, run[j].pc \in Telling, run[j].g = k
          PROVE  Told(k)'
      <4>1. j # h
        BY <1>3, <2>2, <3>2
      <4> QED
        BY <1>1, <3>2, <4>1 DEF Told
    <3> QED
      BY <3>1, <3>2 DEF Apart, Told
  <2> QED
    BY <1>4, <2>1, <2>2 DEF Apart
<1>5. ASSUME NEW k \in Handler, run'[k] # Idle
      PROVE  Sound(run'[k], game'[run'[k].g].status, run'[k].g \in bundle')
  <2>1. CASE k = h
    BY <1>1, <1>5, <2>1
  <2>2. CASE k # h
    <3>1. run'[k] = run[k] /\ run[k].g \in Game
      BY <1>1, <1>5, <2>2 DEF IInv, TypeOK, Frame
    <3> DEFINE saved == run[k].g \in bundle
               kept == run[k].g \in bundle'
    <3>2. Sound(run[k], game[run[k].g].status, saved)
      BY <1>5, <3>1 DEF Sane
    <3>4. saved \in BOOLEAN /\ kept \in BOOLEAN
      OBVIOUS
    <3>3. /\ run[k].g \in bundle => run[k].g \in bundle'
          /\ Left(game[run[k].g].status) => Left(game'[run[k].g].status)
          /\ game[run[k].g].status # "none" => game'[run[k].g].status # "none"
      BY <3>1 DEF Apart
    <3>5. saved => kept
      BY <3>3
    <3> HIDE DEF saved, kept
    <3>6. \A f, old, new : /\ Sound(f, old, saved) /\ (Left(old) => Left(new))
                          /\ (old # "none" => new # "none")
                          => Sound(f, new, kept)
      BY <3>4, <3>5 DEF Sound
    <3>7. Sound(run[k], game'[run[k].g].status, kept)
      BY <3>2, <3>3, <3>6
    <3> QED
      BY <3>1, <3>7 DEF kept
  <2> QED
    BY <2>1, <2>2
<1> QED
  BY <1>2, <1>4, <1>5 DEF Sane

\* A step that writes none of the rows.
LEMMA SettlingRead ==
    ASSUME IInv, Sane, NEW h \in Handler, NEW g \in Game, run[h] # Idle => run[h].g = g,
           NEW next, Goes(h, next), UNCHANGED <<task, game, bundle, faults>>,
           next = Idle \/ (next.g = g /\ Sound(next, game[g].status, g \in bundle)),
           run[h].pc \in Telling => \/ next.pc \in Telling
                                    \/ task[g].status # "failed" \/ game[g].status # "generating"
    PROVE  Sane'
<1>1. Apart(g)
  BY DEF Apart
<1>2. RowLaw(task'[g].status, game'[g].status, g \in bundle')
  BY DEF Sane
<1> QED
  BY <1>1, <1>2, Settling

\* What a handler under way may rely on.
LEMMA Relying ==
    ASSUME IInv, Sane, NEW h \in Handler, run[h].pc # "idle"
    PROVE  LET g == run[h].g IN
           /\ run[h] \in Frame /\ g \in Game
           /\ Sound(run[h], game[g].status, g \in bundle)
           /\ RowLaw(task[g].status, game[g].status, g \in bundle)
BY Framed DEF Sane
-----------------------------------------------------------------------------
(* Frames that stay sound.                                                 *)

\* The fields of a frame that goes elsewhere.
LEMMA AimFields ==
    ASSUME NEW f \in Frame, NEW pc \in Program,
           NEW goal \in {"canceled", "failed", "timed_out", "relayed"}
    PROVE  /\ Aim(f, pc, goal) \in Frame
           /\ Aim(f, pc, goal).g = f.g
           /\ Aim(f, pc, goal).pc = pc
           /\ Aim(f, pc, goal).goal = goal
<1> DEFINE a == At(f, pc)
<1>1. a \in Frame /\ a.g = f.g /\ a.pc = pc
  BY AtTyped
<1>2. Aim(f, pc, goal) = [a EXCEPT !.goal = goal]
  BY DEF Aim
<1> HIDE DEF a
<1> QED
  BY <1>1, <1>2 DEF Frame

\* What the frame knows of the game goes with it, except to a tail.
LEMMA AimKnows ==
    ASSUME NEW f \in Frame, NEW pc \in Program, NEW goal,
           pc \notin Tail
    PROVE  Aim(f, pc, goal).gs = f.gs /\ Aim(f, pc, goal).via = f.via
  BY AtTyped DEF Aim, At, Frame

LEMMA AimForgets ==
    ASSUME NEW f \in Frame, NEW pc \in Program, NEW goal,
           pc \in Tail
    PROVE  Aim(f, pc, goal).gs = "none" /\ Aim(f, pc, goal).via = "none"
  BY AtTyped DEF Aim, At, Frame

\* Going elsewhere is aiming at what one aimed at.
LEMMA AtIsAim ==
    ASSUME NEW f \in Frame, NEW pc \in Program
    PROVE  At(f, pc) = Aim(f, pc, f.goal) /\ f.goal \in {"canceled", "failed", "timed_out", "relayed"}
<1> DEFINE a == At(f, pc)
<1>1. a \in Frame
  BY AtTyped
<1>2. a.goal = f.goal
  BY DEF At, Frame
<1>3. Aim(f, pc, f.goal) = [a EXCEPT !.goal = f.goal]
  BY DEF Aim
<1>4. f.goal \in {"canceled", "failed", "timed_out", "relayed"}
  BY DEF Frame
<1> HIDE DEF a
<1>5. [a EXCEPT !.goal = a.goal] = a
  BY <1>1 DEF Frame
<1> QED
  BY <1>2, <1>3, <1>4, <1>5 DEF a

\* A sound frame stays sound where it goes if it has what it needs there.
Fit(f, pc, goal, s, saved) ==
    /\ pc \in Program \ Creating
    /\ pc \in Knowing \cup {"task"} => pc \notin Tail /\ f.gs # "none"
    /\ pc = "stop" => goal \in {"canceled", "timed_out"}
    /\ pc \notin Tail /\ f.via # "none" => pc \in Completing \cup {"stop"} /\ goal = f.goal
    /\ pc \in Marking => goal = "relayed" \/ Left(s)
    /\ pc = "pubSwap" => saved
    /\ pc \in Succeeding => saved /\ Left(s)

LEMMA AimSound ==
    ASSUME NEW f \in Frame, NEW s, NEW saved \in BOOLEAN, Sound(f, s, saved), s # "none",
           NEW pc, NEW goal \in {"canceled", "failed", "timed_out", "relayed"},
           Fit(f, pc, goal, s, saved)
    PROVE  Aim(f, pc, goal).g = f.g /\ Sound(Aim(f, pc, goal), s, saved)
<1> DEFINE a == Aim(f, pc, goal)
<1>0. pc \in Program
  BY DEF Fit
<1>a. /\ a.g = f.g
      /\ a.pc = pc
      /\ a.goal = goal
  BY <1>0, AimFields
<1>b. pc \notin Tail => a.gs = f.gs /\ a.via = f.via
  BY <1>0, AimKnows
<1>c. pc \in Tail => a.gs = "none" /\ a.via = "none"
  BY <1>0, AimForgets
<1>1. /\ a.g = f.g /\ a.pc = pc /\ a.goal = goal
      /\ pc \notin Tail => a.gs = f.gs /\ a.via = f.via
      /\ pc \in Tail => a.gs = "none" /\ a.via = "none"
  BY <1>a, <1>b, <1>c
<1> HIDE DEF a
<1>2. /\ a.pc \notin Creating => s # "none"
      /\ a.pc = "stop" => a.goal \in {"canceled", "timed_out"}
      /\ a.pc \in Marking => a.goal = "relayed" \/ Left(s)
      /\ a.pc = "pubSwap" => saved
      /\ a.pc \in Succeeding => saved /\ Left(s)
  BY <1>1 DEF Fit
<1>3. a.pc \in Knowing \/ (a.pc = "task" /\ a.op = "status") => a.gs # "none"
  <2>1. pc \in Knowing \cup {"task"} => a.gs # "none"
    BY <1>1 DEF Fit
  <2> QED
    BY <1>1, <2>1
<1>4. /\ a.gs = "draft" => saved
      /\ Left(a.gs) => Left(s)
  BY <1>1 DEF Sound, Left
<1>5. /\ a.via # "none" => a.pc \in Completing \cup {"stop"}
      /\ a.via = "timed_out" => a.goal = "timed_out"
  BY <1>1 DEF Sound, Fit
<1>6. Sound(a, s, saved)
  BY <1>2, <1>3, <1>4, <1>5 DEF Sound
<1> QED
  BY <1>1, <1>6 DEF a

\* The same of a frame that keeps its aim.
LEMMA AtSound ==
    ASSUME NEW f \in Frame, NEW s, NEW saved \in BOOLEAN, Sound(f, s, saved), s # "none",
           NEW pc, Fit(f, pc, f.goal, s, saved)
    PROVE  At(f, pc).g = f.g /\ Sound(At(f, pc), s, saved)
BY AtIsAim, AimSound DEF Fit

\* Where a handler may go from a frame: it returns, or goes on with its game.
Goal(f, n, s, saved) == n = Idle \/ (n.g = f.g /\ Sound(n, s, saved))

\* A handler that returns, or goes on to ban the game.
LEMMA DoneSound ==
    ASSUME NEW f \in Frame, NEW s, NEW saved \in BOOLEAN, Sound(f, s, saved), s # "none"
    PROVE  Goal(f, Done(f), s, saved)
<1>1. Fit(f, "ban", f.goal, s, saved)
  BY DEF Fit, Program, Creating, Knowing, Completing, Tail, Marking, Succeeding
<1> QED
  BY <1>1, AtSound DEF Done, Goal

\* A handler that fails the task.
LEMMA FailSound ==
    ASSUME NEW f \in Frame, NEW s, NEW saved \in BOOLEAN, Sound(f, s, saved), s # "none"
    PROVE  Goal(f, Aim(f, "failTask", "failed"), s, saved)
<1>1. Fit(f, "failTask", "failed", s, saved)
  BY DEF Fit, Program, Creating, Knowing, Completing, Tail, Marking, Succeeding
<1> QED
  BY <1>1, AimSound DEF Goal

\* A handler that turns to completePipelineTask knows its game.
LEMMA CompleteSound ==
    ASSUME NEW f \in Frame, NEW s, NEW saved \in BOOLEAN, Sound(f, s, saved), s # "none",
           f.gs # "none", NEW via \in {"none", "timed_out", "missing", "running"},
           via = "timed_out" => f.goal = "timed_out"
    PROVE  Goal(f, Complete(f, via), s, saved)
<1> DEFINE a == Complete(f, via)
<1>1. a.g = f.g /\ a.pc = "mayTask" /\ a.gs = f.gs /\ a.goal = f.goal /\ a.via = via
  BY DEF Complete, Frame
<1> HIDE DEF a
<1>2. Sound(a, s, saved)
  BY <1>1 DEF Sound, Creating, Knowing, Completing, Marking, Succeeding
<1> QED
  BY <1>1, <1>2 DEF a, Goal

\* What became of a completion that threw.
LEMMA ThrownSound ==
    ASSUME NEW f \in Frame, NEW s, NEW saved \in BOOLEAN, Sound(f, s, saved), s # "none",
           f.pc \in Completing, NEW aborted \in BOOLEAN, NEW n \in Thrown(f, aborted)
    PROVE  Goal(f, n, s, saved)
<1>1. f.via \in {"none", "timed_out", "missing", "running"}
  BY DEF Frame
<1>2. CASE f.via # "timed_out"
  <2>1. n \in {Done(f), Aim(f, "failTask", "failed")}
    BY <1>1, <1>2 DEF Thrown, Lost
  <2> QED
    BY <2>1, DoneSound, FailSound
<1>3. CASE f.via = "timed_out"
  <2>1. n = At(f, "stop")
    BY <1>3 DEF Thrown
  <2>2. Fit(f, "stop", f.goal, s, saved)
    BY <1>3 DEF Fit, Sound, Program, Creating, Knowing, Completing, Tail, Marking, Succeeding
  <2> QED
    BY <2>1, <2>2, AtSound DEF Goal
<1> QED
  BY <1>2, <1>3

\* How a handler goes on once it has read task and game.
LEMMA SettleSound ==
    ASSUME NEW f \in Frame, NEW s, NEW saved \in BOOLEAN, Sound(f, s, saved), s # "none",
           f.gs # "none", f.via = "none",
           NEW r, r = "canceled" \/ (r = Resolution(f) /\ r # "none")
    PROVE  Goal(f, Settle(f, r), s, saved)
<1>1. CASE r = "canceled"
  <2>1. Fit(f, "stop", "canceled", s, saved)
    BY DEF Fit, Program, Creating, Knowing, Completing, Tail, Marking, Succeeding
  <2> QED
    BY <1>1, <2>1, AimSound DEF Settle, Goal
<1>2. CASE r = "failed" /\ r = Resolution(f)
  <2>1. f.gs = "failed"
    BY <1>2 DEF Resolution
  <2>2. Fit(f, "markRead", "failed", s, saved)
    BY <2>1 DEF Fit, Sound, Left, Program, Creating, Knowing, Completing, Tail, Marking, Succeeding
  <2> QED
    BY <1>2, <2>2, AimSound DEF Settle, Goal
<1>3. CASE r = "succeeded" /\ r = Resolution(f)
  <2>1. f.gs = "draft"
    BY <1>3 DEF Resolution
  <2>2. Fit(f, "succRead", f.goal, s, saved)
    BY <2>1 DEF Fit, Sound, Left, Program, Creating, Knowing, Completing, Tail, Marking, Succeeding
  <2> QED
    BY <1>3, <2>2, AtSound DEF Settle, Goal
<1>4. CASE r = "timed_out"
  <2> DEFINE a == Aim(f, "mayTask", "timed_out")
  <2>1. Fit(f, "stop", "timed_out", s, saved) /\ Fit(f, "mayTask", "timed_out", s, saved)
    BY DEF Fit, Program, Creating, Knowing, Completing, Tail, Marking, Succeeding
  <2>2. Goal(f, Aim(f, "stop", "timed_out"), s, saved)
    BY <2>1, AimSound DEF Goal
  <2>3. a \in Frame /\ a.g = f.g /\ a.gs = f.gs /\ a.goal = "timed_out"
    BY AimFields, AimKnows DEF Program, Tail
  <2>4. Sound(a, s, saved)
    BY <2>1, AimSound
  <2>5. Goal(a, Complete(a, "timed_out"), s, saved)
    BY <2>3, <2>4, CompleteSound
  <2>6. Goal(f, Complete(a, "timed_out"), s, saved)
    BY <2>3, <2>5 DEF Goal
  <2> QED
    BY <1>4, <2>2, <2>6 DEF Settle
<1> QED
  BY <1>1, <1>2, <1>3, <1>4 DEF Resolution

LEMMA DecideSound ==
    ASSUME NEW f \in Frame, NEW s, NEW saved \in BOOLEAN, Sound(f, s, saved), s # "none",
           f.gs # "none", f.via = "none"
    PROVE  Goal(f, Decide(f), s, saved)
<1>1. Goal(f, Settle(f, "canceled"), s, saved)
  BY SettleSound
<1>2. Resolution(f) # "none" => Goal(f, Settle(f, Resolution(f)), s, saved)
  BY SettleSound
<1>3. \A pc \in {"run", "fetch", "enqueue"} : Fit(f, pc, f.goal, s, saved)
  BY DEF Fit, Program, Creating, Knowing, Completing, Tail, Marking, Succeeding
<1>4. \A pc \in {"run", "fetch", "enqueue"} : Goal(f, At(f, pc), s, saved)
  BY <1>3, AtSound DEF Goal
<1> QED
  BY <1>1, <1>2, <1>4, DoneSound DEF Decide
-----------------------------------------------------------------------------
(* Each statement of a handler.                                            *)

\* Going elsewhere from a frame, or failing the task, as far as it is sound.
LEMMA GoalAt ==
    ASSUME NEW f \in Frame, NEW s, NEW saved \in BOOLEAN, Sound(f, s, saved), s # "none",
           NEW pc, Fit(f, pc, f.goal, s, saved)
    PROVE  Goal(f, At(f, pc), s, saved)
BY AtSound DEF Goal

\* A statement that reads leads to a frame that is sound of the rows as they are.
LEMMA ReadSane ==
    ASSUME IInv, Sane, NEW h \in Handler, run[h].pc \notin Creating \cup {"idle"},
           UNCHANGED <<task, game, bundle, faults>>,
           NEW next, Goes(h, next),
           Goal(run[h], next, game[run[h].g].status, run[h].g \in bundle),
           run[h].pc \in Telling =>
              \/ next.pc \in Telling
              \/ task[run[h].g].status # "failed" \/ game[run[h].g].status # "generating"
    PROVE  Sane'
BY Relying, SettlingRead DEF Goal

\* The reads of the task and of the game.
LEMMA SaneRows ==
    ASSUME IInv, Sane, NEW h \in Handler, ReadTask(h) \/ ReadGame(h)
    PROVE  Sane'
<1> DEFINE g == run[h].g
           s == game[g].status
           saved == g \in bundle
<1>0. /\ run[h] \in Frame /\ g \in Game /\ run[h].pc \in {"task", "game"}
      /\ Sound(run[h], s, saved) /\ RowLaw(task[g].status, s, saved)
      /\ UNCHANGED <<task, game, bundle, faults>>
  BY Relying DEF ReadTask, ReadGame, In, db
<1>1. run[h].pc \notin Creating \cup {"idle"} \cup Telling
  BY <1>0 DEF Creating, Telling
<1>2. s # "none" /\ s \in GameStatus /\ task[g] \in TaskRow /\ saved \in BOOLEAN
      /\ (s = "draft" => saved) /\ run[h].via = "none"
  BY <1>0 DEF Sound, RowLaw, IInv, TypeOK, Creating, Completing
<1> HIDE DEF s, saved
<1>3. ASSUME NEW a \in Frame, a.g = g, Sound(a, s, saved), a.via = "none", a.gs # "none"
      PROVE  Goal(run[h], Decide(a), s, saved) /\ Goal(run[h], At(a, "task"), s, saved)
  <2>1. Goal(a, Decide(a), s, saved)
    BY <1>2, <1>3, DecideSound
  <2>2. Fit(a, "task", a.goal, s, saved)
    BY <1>3 DEF Fit, Program, Creating, Knowing, Completing, Tail, Marking, Succeeding
  <2>3. Goal(a, At(a, "task"), s, saved)
    BY <1>2, <1>3, <2>2, GoalAt
  <2> QED
    BY <1>3, <2>1, <2>3 DEF Goal
<1>4. CASE ReadTask(h)
  <2> DEFINE a == [run[h] EXCEPT !.t = task[run[h].g]]
  <2>1. a \in Frame
    BY <1>0, <1>2 DEF Frame
  <2>2. /\ a.g = g /\ a.pc = run[h].pc /\ a.op = run[h].op /\ a.gs = run[h].gs
        /\ a.goal = run[h].goal /\ a.via = run[h].via
    BY <1>0 DEF Frame
  <2>3. run[h].pc = "task" /\ Goes(h, IF a.op = "status" THEN Decide(a) ELSE At(a, "game"))
    BY <1>4 DEF ReadTask, In
  <2> HIDE DEF a
  <2>4. Sound(a, s, saved)
    BY <1>0, <2>2 DEF Sound
  <2>5. CASE a.op = "status"
    <3>1. a.gs # "none"
      BY <1>0, <2>2, <2>3, <2>5 DEF Sound
    <3>2. Goal(run[h], Decide(a), s, saved)
      BY <1>2, <1>3, <2>1, <2>2, <2>4, <3>1
    <3> QED
      BY <1>0, <1>1, <2>3, <2>5, <3>2, ReadSane DEF s, saved
  <2>6. CASE a.op # "status"
    <3>1. Fit(a, "game", a.goal, s, saved)
      BY <1>2, <2>2 DEF Fit, Program, Creating, Knowing, Completing, Tail, Marking, Succeeding
    <3>2. Goal(a, At(a, "game"), s, saved)
      BY <1>2, <2>1, <2>4, <3>1, GoalAt
    <3>3. Goal(run[h], At(a, "game"), s, saved)
      BY <2>2, <3>2 DEF Goal
    <3> QED
      BY <1>0, <1>1, <2>3, <2>6, <3>3, ReadSane DEF s, saved
  <2> QED
    BY <2>5, <2>6
<1>5. CASE ReadGame(h)
  <2> DEFINE a == [run[h] EXCEPT !.gs = game[run[h].g].status]
  <2>1. a \in Frame
    BY <1>0, <1>2 DEF Frame, s
  <2>2. /\ a.g = g /\ a.pc = run[h].pc /\ a.op = run[h].op /\ a.gs = s
        /\ a.goal = run[h].goal /\ a.via = run[h].via
    BY <1>0 DEF Frame, s
  <2>3. Goes(h, IF a.op = "status" THEN At(a, "task") ELSE Decide(a))
    BY <1>5 DEF ReadGame
  <2> HIDE DEF a
  <2>4. Sound(a, s, saved)
    BY <1>0, <1>2, <2>2 DEF Sound
  <2>5. Goal(run[h], Decide(a), s, saved) /\ Goal(run[h], At(a, "task"), s, saved)
    BY <1>2, <1>3, <2>1, <2>2, <2>4
  <2> QED
    BY <1>0, <1>1, <2>3, <2>5, ReadSane DEF s, saved
<1> QED
  BY <1>4, <1>5

\* The reads of a refund's or a cancellation's transaction.
LEMMA SaneTransaction ==
    ASSUME IInv, Sane, NEW h \in Handler, CancelRead(h) \/ RefundRead(h)
    PROVE  Sane'
<1> DEFINE g == run[h].g
           s == game[g].status
           saved == g \in bundle
<1>1. PICK pc \in {"cancelRead", "refundRead"}, next \in Refunding :
         /\ ReadInTransaction(h, pc, next) /\ (pc = "refundRead" => next = "refundWrite")
  BY DEF CancelRead, RefundRead, Refunding
<1>2. /\ run[h] \in Frame /\ g \in Game /\ run[h].pc = pc
      /\ Sound(run[h], s, saved) /\ RowLaw(task[g].status, s, saved)
      /\ UNCHANGED <<task, game, bundle, faults>>
  BY <1>1, Relying DEF ReadInTransaction, In, db
<1>3. run[h].pc \notin Creating \cup {"idle"}
  BY <1>2 DEF Creating
<1> DEFINE a == At(run[h], next)
           n == [a EXCEPT !.gs = game[run[h].g].status, !.grant = game[run[h].g].grant]
<1>4. Goes(h, n)
  BY <1>1 DEF ReadInTransaction
<1>11. next \in Program /\ next \notin Tail
  BY DEF Refunding, Program, Tail
<1>5. a \in Frame /\ a.g = g /\ a.pc = next
  BY <1>2, <1>11, AtTyped
<1>6. a.via = run[h].via
  BY <1>2, <1>11 DEF At, Frame
<1> HIDE DEF a
<1>7. n.g = g /\ n.pc = next /\ n.via = run[h].via /\ n.gs = s
  BY <1>5, <1>6 DEF Frame
<1> HIDE DEF n
<1>8. run[h].via = "none" /\ s # "none" /\ (s = "draft" => saved)
  BY <1>2 DEF Sound, Creating, Completing, RowLaw
<1>9. Sound(n, s, saved)
  BY <1>7, <1>8 DEF Sound, Refunding, Marking, Succeeding
<1>10. run[h].pc \in Telling => n.pc \in Telling
  BY <1>1, <1>2, <1>7 DEF Telling
<1> QED
  BY <1>2, <1>3, <1>4, <1>7, <1>9, <1>10, ReadSane DEF Goal

\* The checks before something is written.
LEMMA SaneCheck ==
    ASSUME IInv, Sane, NEW h \in Handler,
           FailTask(h) \/ FailGameRead(h) \/ MarkRead(h) \/ SucceedRead(h)
    PROVE  Sane'
<1> DEFINE f == run[h]
           g == run[h].g
           s == game[g].status
           saved == g \in bundle
<1>0. /\ f \in Frame /\ g \in Game /\ f.pc \in {"failTask", "failGame", "markRead", "succRead"}
      /\ Sound(f, s, saved) /\ RowLaw(task[g].status, s, saved)
      /\ UNCHANGED <<task, game, bundle, faults>>
  BY Relying DEF FailTask, FailGameRead, MarkRead, SucceedRead, In, db
<1>1. f.pc \notin Creating \cup {"idle"}
  BY <1>0 DEF Creating
<1>2. s # "none" /\ saved \in BOOLEAN /\ f.via = "none"
  BY <1>0 DEF Sound, Creating, Completing
<1>3. Goal(f, Done(f), s, saved) /\ Goal(f, Aim(f, "failTask", "failed"), s, saved)
  BY <1>0, <1>2, DoneSound, FailSound
<1>4. \A pc \in {"failGame", "refundRead", "markWrite", "succWrite"} :
         Fit(f, pc, f.goal, s, saved) => Goal(f, At(f, pc), s, saved)
  BY <1>0, <1>2, GoalAt
<1>5. CASE FailTask(h)
  <2>1. Fit(f, "failGame", f.goal, s, saved) /\ At(f, "failGame").pc \in Telling
    BY <1>0, <1>2, AtTyped DEF Fit, Program, Creating, Knowing, Completing, Tail, Marking, Succeeding, Telling
  <2> QED
    BY <1>0, <1>1, <1>3, <1>4, <1>5, <2>1, ReadSane DEF FailTask
<1>6. CASE FailGameRead(h)
  <2>1. Fit(f, "refundRead", f.goal, s, saved) /\ At(f, "refundRead").pc \in Telling
    BY <1>0, <1>2, AtTyped DEF Fit, Program, Creating, Knowing, Completing, Tail, Marking, Succeeding, Telling
  <2> QED
    BY <1>0, <1>1, <1>3, <1>4, <1>6, <2>1, ReadSane DEF FailGameRead
<1>7. CASE MarkRead(h)
  <2>1. f.pc = "markRead"
    BY <1>7 DEF MarkRead, In
  <2>2. Fit(f, "markWrite", f.goal, s, saved) /\ f.pc \notin Telling
    BY <1>0, <1>2, <2>1 DEF Fit, Sound, Program, Creating, Knowing, Completing, Tail, Marking, Succeeding, Telling
  <2> QED
    BY <1>0, <1>1, <1>3, <1>4, <1>7, <2>2, ReadSane DEF MarkRead, Marked
<1>8. CASE SucceedRead(h)
  <2>1. f.pc = "succRead"
    BY <1>8 DEF SucceedRead, In
  <2>2. Fit(f, "succWrite", f.goal, s, saved) /\ f.pc \notin Telling
    BY <1>0, <1>2, <2>1 DEF Fit, Sound, Program, Creating, Knowing, Completing, Tail, Marking, Succeeding, Telling
  <2> QED
    BY <1>0, <1>1, <1>3, <1>4, <1>8, <2>2, ReadSane DEF SucceedRead
<1> QED
  BY <1>5, <1>6, <1>7, <1>8

\* The checks and tries of a completion.
LEMMA SaneCompletion ==
    ASSUME IInv, Sane, NEW h \in Handler,
           MayTask(h) \/ MayGame(h) \/ PublishRead(h) \/ PublishRetry(h)
    PROVE  Sane'
<1> DEFINE f == run[h]
           g == run[h].g
           s == game[g].status
           saved == g \in bundle
<1>0. /\ f \in Frame /\ g \in Game /\ f.pc \in Completing
      /\ Sound(f, s, saved) /\ RowLaw(task[g].status, s, saved)
      /\ UNCHANGED <<task, game, bundle, faults>>
  BY Relying DEF MayTask, MayGame, PublishRead, PublishRetry, In, db, Completing
<1>1. f.pc \notin Creating \cup {"idle"} \cup Telling
  BY <1>0 DEF Creating, Telling, Completing
<1>2. s # "none" /\ saved \in BOOLEAN /\ f.gs # "none"
  BY <1>0, <1>1 DEF Sound, Knowing
<1>3. \A b \in BOOLEAN : \A n \in Thrown(f, b) : Goal(f, n, s, saved)
  BY <1>0, <1>2, ThrownSound
<1>4. \A pc \in {"mayGame", "pubGame", "pubBundle"} :
         /\ Fit(f, pc, f.goal, s, saved) /\ Goal(f, At(f, pc), s, saved)
         /\ At(f, pc) \in Frame
  <2>1. \A pc \in {"mayGame", "pubGame", "pubBundle"} : Fit(f, pc, f.goal, s, saved)
    BY <1>2 DEF Fit, Program, Creating, Knowing, Completing, Tail, Marking, Succeeding
  <2>2. \A pc \in {"mayGame", "pubGame", "pubBundle"} : Goal(f, At(f, pc), s, saved)
    BY <1>0, <1>2, <2>1, GoalAt
  <2>3. \A pc \in {"mayGame", "pubGame", "pubBundle"} : At(f, pc) \in Frame
    BY <1>0, AtTyped DEF Program
  <2> QED
    BY <2>1, <2>2, <2>3
<1>5. CASE MayTask(h) \/ MayGame(h)
  BY <1>0, <1>1, <1>3, <1>4, <1>5, ReadSane DEF MayTask, MayGame
<1>6. CASE PublishRead(h)
  <2> DEFINE a == At(f, "pubBundle")
             n == [a EXCEPT !.base = game[run[h].g].status]
  <2>1. a \in Frame /\ Goal(f, a, s, saved) /\ Goes(h, n)
    BY <1>4, <1>6 DEF PublishRead
  <2> HIDE DEF a
  <2>2. /\ n.g = a.g /\ n.pc = a.pc /\ n.op = a.op /\ n.gs = a.gs /\ n.goal = a.goal /\ n.via = a.via
    BY <2>1 DEF Frame
  <2>3. a # Idle
    BY <2>1 DEF Frame, Idle, Program
  <2> HIDE DEF n
  <2>4. Goal(f, n, s, saved)
    BY <2>1, <2>2, <2>3 DEF Goal, Sound
  <2> QED
    BY <1>0, <1>1, <2>1, <2>4, ReadSane
<1>7. CASE PublishRetry(h)
  <2> DEFINE a == At(f, "pubGame")
             n == [a EXCEPT !.try = @ + 1]
  <2>1. CASE f.try < MaxAttempts
    <3>1. a \in Frame /\ Goal(f, a, s, saved) /\ Goes(h, n)
      BY <1>4, <1>7, <2>1 DEF PublishRetry
    <3> HIDE DEF a
    <3>2. /\ n.g = a.g /\ n.pc = a.pc /\ n.op = a.op /\ n.gs = a.gs /\ n.goal = a.goal /\ n.via = a.via
      BY <3>1 DEF Frame
    <3>3. a # Idle
      BY <3>1 DEF Frame, Idle, Program
    <3> HIDE DEF n
    <3>4. Goal(f, n, s, saved)
      BY <3>1, <3>2, <3>3 DEF Goal, Sound
    <3> QED
      BY <1>0, <1>1, <3>1, <3>4, ReadSane
  <2>2. CASE ~(f.try < MaxAttempts)
    BY <1>0, <1>1, <1>3, <1>7, <2>2, ReadSane DEF PublishRetry
  <2> QED
    BY <2>1, <2>2
<1> QED
  BY <1>5, <1>6, <1>7

\* The statements that write the job or the engine's record only.
LEMMA SaneEngine ==
    ASSUME IInv, Sane, NEW h \in Handler, Enqueue(h) \/ Stop(h) \/ Launch(h)
    PROVE  Sane'
<1> DEFINE f == run[h]
           g == run[h].g
           s == game[g].status
           saved == g \in bundle
<1>0. /\ f \in Frame /\ g \in Game /\ f.pc \in {"enqueue", "stop", "launch"}
      /\ Sound(f, s, saved) /\ RowLaw(task[g].status, s, saved)
      /\ UNCHANGED <<task, game, bundle, faults>>
  BY Relying DEF Enqueue, Stop, Launch, In, db
<1>1. f.pc \notin Creating \cup {"idle"} \cup Telling
  BY <1>0 DEF Creating, Telling
<1>2. s # "none" /\ saved \in BOOLEAN
  BY <1>0, <1>1 DEF Sound
<1>3. Goal(f, Done(f), s, saved) /\ Goal(f, Aim(f, "failTask", "failed"), s, saved)
  BY <1>0, <1>2, DoneSound, FailSound
<1>4. CASE Enqueue(h)
  BY <1>0, <1>1, <1>3, <1>4, ReadSane DEF Enqueue
<1>5. CASE Launch(h)
  <2>1. f.pc = "launch" /\ f.via = "none"
    BY <1>0, <1>5 DEF Launch, In, Sound, Completing
  <2>2. Fit(f, "bind", f.goal, s, saved)
    BY <2>1 DEF Fit, Program, Creating, Knowing, Completing, Tail, Marking, Succeeding
  <2>3. Goal(f, At(f, "bind"), s, saved)
    BY <1>0, <1>2, <2>2, GoalAt
  <2> QED
    BY <1>0, <1>1, <1>3, <1>5, <2>3, ReadSane DEF Launch
<1>6. CASE Stop(h)
  <2>1. f.pc = "stop" /\ f.goal \in {"canceled", "timed_out"} /\ f.gs # "none" /\ (Left(f.gs) => Left(s))
    BY <1>0, <1>6 DEF Stop, In, Sound, Knowing
  <2>2. /\ Fit(f, "cancelRead", f.goal, s, saved) /\ Fit(f, "refundRead", f.goal, s, saved)
        /\ Left(s) => Fit(f, "markRead", f.goal, s, saved)
    BY DEF Fit, Program, Creating, Knowing, Completing, Tail, Marking, Succeeding
  <2>3. /\ Goal(f, At(f, "cancelRead"), s, saved) /\ Goal(f, At(f, "refundRead"), s, saved)
        /\ Left(s) => Goal(f, At(f, "markRead"), s, saved)
    BY <1>0, <1>2, <2>2, GoalAt
  <2>4. /\ f.goal = "canceled" => Goes(h, At(f, "cancelRead"))
        /\ f.goal = "timed_out" /\ f.gs = "generating" => Goes(h, At(f, "refundRead"))
        /\ f.goal = "timed_out" /\ f.gs # "generating" => Goes(h, At(f, "markRead"))
    BY <1>6 DEF Stop
  <2>5. \E n : Goes(h, n) /\ Goal(f, n, s, saved)
    BY <2>1, <2>3, <2>4 DEF Left
  <2> QED
    BY <1>0, <1>1, <2>5, ReadSane
<1> QED
  BY <1>4, <1>5, <1>6

\* A statement that writes the task's status, and no other row.
LEMMA TaskSane ==
    ASSUME IInv, Sane, NEW h \in Handler, run[h].pc \notin Creating \cup {"idle"} \cup Telling,
           NEW t, task'[run[h].g].status = t,
           \A k \in Game \ {run[h].g} : task'[k].status = task[k].status,
           UNCHANGED <<game, bundle, faults>>,
           NEW next, Goes(h, next),
           Goal(run[h], next, game[run[h].g].status, run[h].g \in bundle),
           RowLaw(t, game[run[h].g].status, run[h].g \in bundle),
           t = "failed" => \/ task[run[h].g].status = "failed"
                           \/ game[run[h].g].status # "generating" \/ next.pc \in Telling
    PROVE  Sane'
<1>1. run[h] \in Frame /\ run[h].g \in Game /\ run[h] # Idle
  BY Framed
<1>2. Apart(run[h].g)
  BY DEF Apart
<1>3. RowLaw(task'[run[h].g].status, game'[run[h].g].status, run[h].g \in bundle')
  OBVIOUS
<1> QED
  BY <1>1, <1>2, <1>3, Settling DEF Goal

\* The answers of the AI engine, the start and the binding of a task.
LEMMA SaneStart ==
    ASSUME IInv, Sane, NEW h \in Handler, Fetch(h) \/ MarkRunning(h) \/ Bind(h)
    PROVE  Sane'
<1> DEFINE f == run[h]
           g == run[h].g
           s == game[g].status
           saved == g \in bundle
<1>0. /\ f \in Frame /\ g \in Game /\ f.pc \in {"fetch", "run", "bind"}
      /\ Sound(f, s, saved) /\ RowLaw(task[g].status, s, saved)
      /\ UNCHANGED <<game, bundle, faults>>
  BY Relying DEF Fetch, MarkRunning, Bind, In
<1>1. f.pc \notin Creating \cup {"idle"} \cup Telling
  BY <1>0 DEF Creating, Telling
<1>2. s # "none" /\ saved \in BOOLEAN /\ f.via = "none"
  BY <1>0, <1>1 DEF Sound, Completing
<1>3. Goal(f, Done(f), s, saved) /\ Goal(f, Aim(f, "failTask", "failed"), s, saved)
  BY <1>0, <1>2, DoneSound, FailSound
<1>4. \E n : Goes(h, n) /\ Goal(f, n, s, saved)
  <2>1. CASE Fetch(h)
    <3>1. f.gs # "none"
      BY <1>0, <2>1 DEF Fetch, In, Sound, Knowing
    <3>2. \A via \in {"none", "missing", "running"} : Goal(f, Complete(f, via), s, saved)
      BY <1>0, <1>2, <3>1, CompleteSound
    <3>3. \A n \in Lost(f) : Goal(f, n, s, saved)
      BY <1>3 DEF Lost
    <3>4. Fit(f, "cancelRead", f.goal, s, saved)
      BY DEF Fit, Program, Creating, Knowing, Completing, Tail, Marking, Succeeding
    <3>5. Goal(f, At(f, "cancelRead"), s, saved)
      BY <1>0, <1>2, <3>4, GoalAt
    <3> QED
      BY <1>3, <2>1, <3>2, <3>3, <3>5 DEF Fetch
  <2>2. CASE MarkRunning(h) \/ Bind(h)
    <3>1. Fit(f, "launch", f.goal, s, saved)
      BY <1>2 DEF Fit, Program, Creating, Knowing, Completing, Tail, Marking, Succeeding
    <3>2. Goal(f, At(f, "launch"), s, saved)
      BY <1>0, <1>2, <3>1, GoalAt
    <3> QED
      BY <1>3, <2>2, <3>2 DEF MarkRunning, Bind
  <2> QED
    BY <2>1, <2>2
<1>5. task \in [Game -> TaskRow]
  BY DEF IInv, TypeOK
<1>6. /\ task'[g].status \in {task[g].status, Started(task[g].status)}
      /\ \A k \in Game \ {g} : task'[k].status = task[k].status
  <2>1. \/ task' = task \/ task' = [task EXCEPT ![g].status = Started(task[g].status)]
        \/ task' = [task EXCEPT ![g].bound = TRUE]
    BY <1>0, <1>5 DEF Fetch, MarkRunning, Bind
  <2> QED
    BY <1>0, <1>5, <2>1 DEF TaskRow
<1>7. RowLaw(task'[g].status, s, saved) /\ (task'[g].status = "failed" => task[g].status = "failed")
  BY <1>0, <1>2, <1>6 DEF RowLaw, Started
<1> HIDE DEF s, saved
<1> QED
  BY <1>0, <1>1, <1>4, <1>6, <1>7, TaskSane DEF s, saved

\* markFailed and markSucceeded.
LEMMA SaneMark ==
    ASSUME IInv, Sane, NEW h \in Handler, MarkWrite(h) \/ SucceedWrite(h)
    PROVE  Sane'
<1> DEFINE f == run[h]
           g == run[h].g
           s == game[g].status
           saved == g \in bundle
<1>0. /\ f \in Frame /\ g \in Game /\ f.pc \in {"markWrite", "succWrite"}
      /\ Sound(f, s, saved) /\ RowLaw(task[g].status, s, saved)
      /\ UNCHANGED <<game, bundle, faults>>
  BY Relying DEF MarkWrite, SucceedWrite, In
<1>1. f.pc \notin Creating \cup {"idle"} \cup Telling
  BY <1>0 DEF Creating, Telling
<1>2. s # "none" /\ saved \in BOOLEAN
  BY <1>0, <1>1 DEF Sound
<1>3. Goal(f, Done(f), s, saved) /\ Goal(f, Aim(f, "failTask", "failed"), s, saved)
  BY <1>0, <1>2, DoneSound, FailSound
<1>4. task \in [Game -> TaskRow]
  BY DEF IInv, TypeOK
<1>5. CASE MarkWrite(h)
  <2> DEFINE t == IF f.goal = "timed_out" THEN "timed_out" ELSE "failed"
  <2>1. f.goal = "relayed" \/ Left(s)
    BY <1>0, <1>5 DEF MarkWrite, In, Sound, Marking
  <2>2. task' = [task EXCEPT ![g].status = t] /\ Goes(h, Marked(f))
    BY <1>5 DEF MarkWrite
  <2>3. task'[g].status = t /\ \A k \in Game \ {g} : task'[k].status = task[k].status
    BY <1>0, <1>4, <2>2 DEF TaskRow
  <2>4. RowLaw(t, s, saved)
    BY <1>0, <1>2, <2>1 DEF RowLaw
  <2>5. Goal(f, Marked(f), s, saved)
    BY <1>3 DEF Marked
  <2>6. f.goal = "relayed" => Marked(f).pc \in Telling
    BY <1>0, AimFields DEF Marked, Program, Telling
  <2> HIDE DEF t
  <2> QED
    BY <1>0, <1>1, <2>1, <2>2, <2>3, <2>4, <2>5, <2>6, TaskSane DEF Left
<1>6. CASE SucceedWrite(h)
  <2>1. saved /\ Left(s)
    BY <1>0, <1>6 DEF SucceedWrite, In, Sound, Succeeding
  <2>2. task' = [task EXCEPT ![g].status = "succeeded"] /\ Goes(h, Done(f))
    BY <1>6 DEF SucceedWrite
  <2>3. task'[g].status = "succeeded" /\ \A k \in Game \ {g} : task'[k].status = task[k].status
    BY <1>0, <1>4, <2>2 DEF TaskRow
  <2>4. RowLaw("succeeded", s, saved)
    BY <1>2, <2>1 DEF RowLaw
  <2> QED
    BY <1>0, <1>1, <1>3, <2>2, <2>3, <2>4, TaskSane
<1> QED
  BY <1>5, <1>6

\* The statements that write the game or its bundle: a game leaves generation.
LEMMA SaneGame ==
    ASSUME IInv, Sane, NEW h \in Handler,
           PublishBundle(h) \/ PublishSwap(h) \/ Ban(h) \/ RefundWrite(h) \/ CancelWrite(h)
    PROVE  Sane'
<1> DEFINE f == run[h]
           g == run[h].g
           s == game[g].status
           saved == g \in bundle
           r == game'[g].status
           kept == g \in bundle'
<1>0. /\ f \in Frame /\ g \in Game /\ f # Idle
      /\ f.pc \in {"pubBundle", "pubSwap", "ban", "refundWrite", "cancelWrite"}
      /\ Sound(f, s, saved) /\ RowLaw(task[g].status, s, saved)
      /\ UNCHANGED faults
  BY Relying, Framed DEF PublishBundle, PublishSwap, Ban, RefundWrite, CancelWrite, In
<1>1. f.pc \notin Creating
  BY <1>0 DEF Creating
<1>2. s # "none" /\ saved \in BOOLEAN /\ kept \in BOOLEAN
  BY <1>0, <1>1 DEF Sound
<1>3. /\ task \in [Game -> TaskRow] /\ game \in [Game -> [status : GameStatus, grant : BOOLEAN]]
      /\ bundle \subseteq Game
  BY DEF IInv, TypeOK
<1>4. /\ (\A k \in Game \ {g} : /\ task'[k].status = task[k].status
                               /\ game'[k].status = game[k].status
                               /\ (k \in bundle' <=> k \in bundle))
      /\ task'[g].status \in {task[g].status, "canceled"}
      /\ saved => kept
  <2>1. /\ task' = task \/ task' = [task EXCEPT ![g].status = "canceled"]
        /\ bundle' = bundle \/ bundle' = bundle \cup {g}
    BY DEF PublishBundle, PublishSwap, Ban, RefundWrite, CancelWrite
  <2>2. \/ game' = game
        \/ \E v \in {"draft", "banned"} : game' = [game EXCEPT ![g].status = v]
        \/ \E b : game' = [game EXCEPT ![g] = [status |-> "failed", grant |-> b]]
    BY <1>0, <1>3 DEF PublishBundle, PublishSwap, Ban, RefundWrite, CancelWrite, FailGame
  <2>3. \A k \in Game \ {g} : task'[k].status = task[k].status
    BY <1>3, <2>1
  <2>4. task'[g].status \in {task[g].status, "canceled"}
    BY <1>0, <1>3, <2>1 DEF TaskRow
  <2>5. \A k \in Game \ {g} : game'[k].status = game[k].status
    BY <1>3, <2>2
  <2> QED
    BY <2>1, <2>3, <2>4, <2>5
<1>5. r = s \/ r \in {"draft", "banned", "failed"}
  <2>1. \/ game' = game
        \/ \E v \in {"draft", "banned"} : game' = [game EXCEPT ![g].status = v]
        \/ \E b : game' = [game EXCEPT ![g] = [status |-> "failed", grant |-> b]]
    BY <1>0, <1>3 DEF PublishBundle, PublishSwap, Ban, RefundWrite, CancelWrite, FailGame
  <2>2. ASSUME NEW b, game' = [game EXCEPT ![g] = [status |-> "failed", grant |-> b]]
        PROVE  r = "failed"
    BY <1>0, <1>3, <2>2
  <2>3. ASSUME NEW v \in {"draft", "banned"}, game' = [game EXCEPT ![g].status = v]
        PROVE  r = v
    BY <1>0, <1>3, <2>3
  <2> QED
    BY <2>1, <2>2, <2>3
<1>6. PICK next : Goes(h, next)
  BY DEF PublishBundle, PublishSwap, Ban, RefundWrite, CancelWrite, Goes
<1> HIDE DEF s, saved, r, kept
<1>7. Sound(f, r, kept) /\ r # "none"
  <2>1. Left(s) => Left(r)
    BY <1>5 DEF Left
  <2>2. r # "none"
    BY <1>2, <1>5
  <2> QED
    BY <1>0, <1>2, <1>4, <2>1, <2>2 DEF Sound
<1>8. Goal(f, Done(f), r, kept) /\ f.goal \in {"canceled", "failed", "timed_out", "relayed"}
  BY <1>0, <1>2, <1>7, DoneSound DEF Frame
<1>9. /\ \E n : Goes(h, n) /\ Goal(f, n, r, kept)
      /\ RowLaw(task'[g].status, r, kept)
      /\ \/ r # "generating"
         \/ task'[g].status = task[g].status /\ r = s /\ f.pc \notin Telling
  <2>1. CASE PublishBundle(h)
    <3>1. task' = task /\ r = s /\ kept = TRUE /\ f.pc = "pubBundle"
      BY <2>1 DEF PublishBundle, In, r, s, kept
    <3>2. Fit(f, "pubSwap", f.goal, r, kept)
      BY <1>0, <3>1 DEF Fit, Sound, Program, Creating, Knowing, Completing, Tail, Marking, Succeeding
    <3>3. Goal(f, At(f, "pubSwap"), r, kept)
      BY <1>0, <1>2, <1>7, <3>2, GoalAt
    <3>4. Goes(h, At(f, "pubSwap"))
      BY <2>1 DEF PublishBundle
    <3>5. RowLaw(task'[g].status, r, kept)
      BY <1>0, <3>1 DEF RowLaw
    <3> QED
      BY <3>1, <3>3, <3>4, <3>5 DEF Telling
  <2>2. CASE PublishSwap(h)
    <3>1. task' = task /\ r = "draft" /\ kept = saved /\ f.pc = "pubSwap"
      BY <1>0, <1>3, <2>2 DEF PublishSwap, In, r, saved, kept
    <3>2. kept
      BY <1>0, <3>1 DEF Sound
    <3>3. Fit(f, "succRead", f.goal, r, kept)
      BY <3>1, <3>2 DEF Fit, Left, Program, Creating, Knowing, Completing, Tail, Marking, Succeeding
    <3>4. Goal(f, At(f, "succRead"), r, kept)
      BY <1>0, <1>2, <1>7, <3>3, GoalAt
    <3>5. Goes(h, At(f, "succRead"))
      BY <2>2 DEF PublishSwap
    <3>6. RowLaw(task'[g].status, r, kept)
      BY <3>1, <3>2 DEF RowLaw, Left
    <3> QED
      BY <3>1, <3>4, <3>5, <3>6
  <2>3. CASE Ban(h)
    <3>1. task' = task /\ r = "banned" /\ kept = saved /\ Goes(h, Idle)
      BY <1>0, <1>3, <2>3 DEF Ban, r, saved, kept
    <3>2. RowLaw(task'[g].status, r, kept)
      BY <1>0, <3>1 DEF RowLaw, Left
    <3> QED
      BY <3>1, <3>2 DEF Goal
  <2>4. CASE RefundWrite(h)
    <3>1. task' = task /\ r = "failed" /\ kept = saved /\ Goes(h, At(f, "markRead"))
      BY <1>0, <1>3, <2>4 DEF RefundWrite, FailGame, r, saved, kept
    <3>2. Fit(f, "markRead", f.goal, r, kept)
      BY <3>1 DEF Fit, Left, Program, Creating, Knowing, Completing, Tail, Marking, Succeeding
    <3>3. Goal(f, At(f, "markRead"), r, kept)
      BY <1>0, <1>2, <1>7, <3>2, GoalAt
    <3>4. RowLaw(task'[g].status, r, kept)
      BY <1>0, <3>1 DEF RowLaw, Left
    <3> QED
      BY <3>1, <3>3, <3>4
  <2>5. CASE CancelWrite(h)
    <3>1. /\ f.pc = "cancelWrite" /\ kept = saved /\ Goes(h, Done(f))
          /\ f.gs = "generating" => r = "failed"
          /\ f.gs # "generating" => r = s
      BY <1>0, <1>3, <2>5 DEF CancelWrite, In, FailGame, r, s, saved, kept
    <3>2. Left(r)
      BY <1>0, <3>1 DEF Sound, Left, Knowing
    <3>3. RowLaw(task'[g].status, r, kept)
      <4>1. task'[g].status = "canceled"
        BY <1>0, <1>3, <2>5 DEF CancelWrite, TaskRow
      <4>2. r = "draft" => kept
        BY <1>0, <3>1 DEF RowLaw
      <4> QED
        BY <3>2, <4>1, <4>2 DEF RowLaw, Left
    <3> QED
      BY <1>8, <3>1, <3>2, <3>3 DEF Left
  <2> QED
    BY <2>1, <2>2, <2>3, <2>4, <2>5
<1>10. Apart(g)
  <2>1. Left(s) => Left(r)
    BY <1>5 DEF Left
  <2>2. faults' = 0 => faults = 0
    BY <1>0
  <2>3. g \in bundle => g \in bundle'
    BY <1>4 DEF saved, kept
  <2>4. Left(game[g].status) => Left(game'[g].status)
    BY <2>1 DEF s, r
  <2>5. game'[g].status # "none"
    BY <1>7 DEF r
  <2>6. \A k \in Game \ {g} : /\ task'[k].status = task[k].status
                              /\ game'[k].status = game[k].status
                              /\ (k \in bundle' <=> k \in bundle)
    BY <1>4
  <2> QED
    BY <2>2, <2>3, <2>4, <2>5, <2>6 DEF Apart
<1>11. PICK n : Goes(h, n) /\ Goal(f, n, r, kept)
  BY <1>9
<1> QED
  BY <1>0, <1>9, <1>10, <1>11, Settling DEF Goal, s, r, saved, kept

\* create(): nobody else knows the game.
LEMMA SaneCreate ==
    ASSUME IInv, Sane, NEW h \in Handler, ReadQuota(h) \/ Insert(h)
    PROVE  Sane'
<1> DEFINE f == run[h]
           g == run[h].g
           s == game[g].status
           saved == g \in bundle
<1>0. /\ f \in Frame /\ g \in Game /\ f # Idle /\ f.pc \in Creating
      /\ Sound(f, s, saved) /\ RowLaw(task[g].status, s, saved)
      /\ UNCHANGED <<bundle, faults>>
  BY Relying, Framed DEF ReadQuota, Insert, In, Creating, db
<1>1. s = "none" /\ task[g].status = "none"
  BY <1>0 DEF IInv, Placed, Born, Unknown
<1>2. f.pc \notin Telling /\ saved \in BOOLEAN /\ f.via = "none" /\ f.gs # "draft" /\ ~Left(f.gs)
  BY <1>0, <1>1 DEF Sound, Creating, Telling, Completing, Left
<1>3. \A pc \in {"quota", "insert"} : \A a \in Frame :
         /\ a.g = g /\ a.pc = pc /\ a.gs = f.gs /\ a.via = f.via
         => Goal(f, a, s, saved)
  BY <1>2 DEF Goal, Sound, Creating, Knowing, Completing, Marking, Succeeding
<1>4. \A pc \in {"quota", "insert"} :
         LET a == At(f, pc) IN
         a \in Frame /\ a.g = g /\ a.pc = pc /\ a.gs = f.gs /\ a.via = f.via
  <2>1. ASSUME NEW pc \in {"quota", "insert"}
        PROVE  /\ At(f, pc) \in Frame /\ At(f, pc).g = g /\ At(f, pc).pc = pc
               /\ At(f, pc).gs = f.gs /\ At(f, pc).via = f.via
    <3>1. pc \in Program /\ pc \notin Tail
      BY DEF Program, Tail
    <3>2. At(f, pc) = [f EXCEPT !.pc = pc]
      BY <3>1 DEF At
    <3> QED
      BY <1>0, <3>1, <3>2 DEF Frame
  <2> QED
    BY <2>1
<1>5. CASE ReadQuota(h) \/ (Insert(h) /\ QuotaMoved(f))
  <2>1. UNCHANGED <<task, game, bundle, faults>>
    BY <1>5 DEF ReadQuota, Insert, db
  <2>2. \E n : Goes(h, n) /\ Goal(f, n, s, saved)
    <3>1. CASE ReadQuota(h)
      <4> DEFINE a == At(f, "insert")
                 n == [a EXCEPT !.seen = used]
      <4>1. a \in Frame /\ a.g = g /\ a.pc = "insert" /\ a.gs = f.gs /\ a.via = f.via
        BY <1>4
      <4> HIDE DEF a
      <4>2. n \in Frame /\ n.g = g /\ n.pc = "insert" /\ n.gs = f.gs /\ n.via = f.via
        BY <4>1 DEF Frame, IInv, TypeOK
      <4>3. Goes(h, n)
        BY <3>1 DEF ReadQuota, a
      <4> QED
        BY <1>3, <4>2, <4>3
    <3>2. CASE Insert(h) /\ QuotaMoved(f) /\ f.try < MaxAttempts
      <4> DEFINE a == At(f, "quota")
                 n == [a EXCEPT !.try = @ + 1]
      <4>1. /\ a \in Frame /\ a.g = g /\ a.pc = "quota" /\ a.gs = f.gs /\ a.via = f.via
            /\ a.try + 1 \in 1..MaxAttempts
        <5>1. a.try = f.try
          BY <1>0, AtTyped DEF Program, Tail
        <5>2. f.try + 1 \in 1..MaxAttempts
          BY <1>0, <3>2, ConstantsAssumption DEF Frame
        <5> QED
          BY <1>4, <5>1, <5>2
      <4> HIDE DEF a
      <4>2. n \in Frame /\ n.g = g /\ n.pc = "quota" /\ n.gs = f.gs /\ n.via = f.via
        BY <4>1 DEF Frame
      <4>3. Goes(h, n)
        BY <3>2 DEF Insert, a
      <4> QED
        BY <1>3, <4>2, <4>3
    <3>3. CASE Insert(h) /\ QuotaMoved(f) /\ ~(f.try < MaxAttempts)
      BY <3>3 DEF Insert, Goal
    <3> QED
      BY <1>5, <3>1, <3>2, <3>3
  <2> QED
    BY <1>0, <1>2, <2>1, <2>2, SettlingRead DEF Goal
<1>6. CASE Insert(h) /\ ~QuotaMoved(f)
  <2> DEFINE n == At(f, "enqueue")
             granted == f.seen < TotalQuota
  <2>1. /\ game' = [game EXCEPT ![g] = [status |-> "generating", grant |-> granted]]
        /\ task' = [task EXCEPT ![g].status = "queued"] /\ Goes(h, n)
    BY <1>6 DEF Insert
  <2>2. /\ task \in [Game -> TaskRow] /\ game \in [Game -> [status : GameStatus, grant : BOOLEAN]]
    BY DEF IInv, TypeOK
  <2> HIDE DEF granted
  <2>3. /\ game'[g].status = "generating" /\ task'[g].status = "queued"
        /\ \A k \in Game \ {g} : task'[k].status = task[k].status /\ game'[k].status = game[k].status
    BY <1>0, <2>1, <2>2 DEF TaskRow
  <2>4. Apart(g)
    BY <1>0, <1>1, <2>3 DEF Apart, Left
  <2>5. RowLaw(task'[g].status, game'[g].status, g \in bundle')
    BY <2>3 DEF RowLaw
  <2>6. n.g = g /\ n.pc = "enqueue" /\ n.gs = "none" /\ n.via = "none"
    <3>1. n = Aim(f, "enqueue", f.goal) /\ f.goal \in {"canceled", "failed", "timed_out", "relayed"}
      BY <1>0, AtIsAim DEF Program
    <3> QED
      BY <1>0, <3>1, AimFields, AimForgets DEF Program, Tail
  <2> HIDE DEF n
  <2>7. Sound(n, game'[g].status, g \in bundle')
    BY <2>3, <2>6 DEF Sound, Left, Creating, Knowing, Completing, Marking, Succeeding
  <2> QED
    BY <1>0, <2>1, <2>3, <2>4, <2>5, <2>6, <2>7, Settling
<1> QED
  BY <1>5, <1>6
-----------------------------------------------------------------------------
(* Every step, and what follows.                                           *)

\* A handler that begins knows nothing yet.
LEMMA SaneBegin ==
    ASSUME IInv, Sane, NEW h \in Handler, NEW g \in Game,
           \/ BeginCreate(h, g) \/ BeginDeliver(h, g) \/ BeginRelay(h, g)
           \/ h = Sweeper /\ BeginSweep(g)
           \/ \E op \in Op : BeginRequest(h, op, g)
    PROVE  Sane'
<1> DEFINE Begun(op, pc) ==
              /\ Begin(h, op, g, pc) /\ (pc # "quota" => Born(g))
              /\ (pc = "markRead" => op = "relay") /\ (pc = "task" => op # "status")
              /\ UNCHANGED <<task, game, bundle, faults>>
           Starting == {"quota", "task", "game", "markRead"}
<1>1. PICK op \in Op, pc \in Starting : Begun(op, pc)
  <2>1. CASE BeginCreate(h, g)
    <3>1. Begun("create", "quota")
      BY <2>1 DEF BeginCreate, db
    <3> QED
      BY <3>1 DEF Op
  <2>2. CASE BeginDeliver(h, g)
    <3>1. Born(g)
      BY <2>2 DEF BeginDeliver, IInv, Unknown
    <3>2. Begun("deliver", "task")
      BY <2>2, <3>1 DEF BeginDeliver, db
    <3> QED
      BY <3>2 DEF Op
  <2>3. CASE BeginRelay(h, g)
    <3>1. Born(g)
      BY <2>3 DEF BeginRelay, IInv, Unknown
    <3>2. Begun("relay", "markRead")
      BY <2>3, <3>1 DEF BeginRelay, db
    <3> QED
      BY <3>2 DEF Op
  <2>4. CASE h = Sweeper /\ BeginSweep(g)
    <3>1. Born(g)
      BY <2>4 DEF BeginSweep, Born, Active
    <3>2. Begun("sweep", "task")
      BY <2>4, <3>1 DEF BeginSweep, db
    <3> QED
      BY <3>2 DEF Op
  <2>5. ASSUME NEW o \in Op, BeginRequest(h, o, g)
        PROVE  \E op \in Op, pc \in Starting : Begun(op, pc)
    <3>1. Born(g)
      BY <2>5 DEF BeginRequest, IInv, Unknown
    <3>2. CASE o = "status"
      <4>1. Begun("status", "game")
        BY <2>5, <3>1, <3>2 DEF BeginRequest, db
      <4> QED
        BY <4>1 DEF Op
    <3>3. CASE o # "status"
      <4>1. Begun(o, "task")
        BY <2>5, <3>1, <3>3 DEF BeginRequest, db
      <4> QED
        BY <4>1
    <3> QED
      BY <3>2, <3>3
  <2> QED
    BY <2>1, <2>2, <2>3, <2>4, <2>5
<1> DEFINE n == [pc |-> pc, op |-> op, g |-> g, t |-> NoTask, gs |-> "none",
                 grant |-> FALSE, seen |-> 0, base |-> "none", via |-> "none", try |-> 1,
                 goal |-> IF op = "relay" THEN "relayed" ELSE "failed"]
<1>2. Goes(h, n) /\ run[h] = Idle
  BY <1>1 DEF Begin
<1>3. /\ n.g = g /\ n.pc = pc /\ n.op = op /\ n.gs = "none" /\ n.via = "none"
      /\ op = "relay" => n.goal = "relayed"
  OBVIOUS
<1> HIDE DEF n
<1>4. pc # "quota" => game[g].status # "none"
  BY <1>1 DEF Sane, RowLaw, Born
<1>5. Sound(n, game[g].status, g \in bundle)
  BY <1>1, <1>3, <1>4 DEF Sound, Left, Creating, Knowing, Completing, Marking, Succeeding
<1>6. run[h].pc \notin Telling
  BY <1>2 DEF Idle, Telling
<1> QED
  BY <1>1, <1>2, <1>3, <1>5, <1>6, SettlingRead

\* The AI engine, time, BullMQ, and handlers that do nothing.
LEMMA SaneOutside ==
    ASSUME IInv, Sane, UNCHANGED <<run, game, bundle>>, faults' = 0 => faults = 0,
           \A g \in Game : task'[g].status = task[g].status \/ (task'[g].status = "running" /\ Born(g))
    PROVE  Sane'
<1>1. ASSUME NEW g \in Game
      PROVE  RowLaw(task[g].status, game[g].status, g \in bundle)'
  <2>1. RowLaw(task[g].status, game[g].status, g \in bundle)
    BY DEF Sane
  <2> QED
    BY <2>1 DEF RowLaw, Born
<1>2. ASSUME NEW g \in Game, task'[g].status = "failed", game'[g].status = "generating"
      PROVE  faults' # 0 \/ Told(g)'
  BY <1>2 DEF Sane, Told
<1> QED
  BY <1>1, <1>2 DEF Sane

\* Every step keeps the rows and the frames in agreement.
LEMMA SaneStep == ASSUME IInv, Sane, [Next]_vars PROVE Sane'
<1>1. ASSUME NEW h \in Handler, Step(h) PROVE Sane'
  BY <1>1, SaneRows, SaneTransaction, SaneCheck, SaneCompletion, SaneEngine, SaneStart,
     SaneMark, SaneGame, SaneCreate DEF Step
<1>2. ASSUME NEW h \in Handler, NEW g \in Game,
             \/ BeginCreate(h, g) \/ BeginDeliver(h, g) \/ BeginRelay(h, g)
             \/ h = Sweeper /\ BeginSweep(g)
             \/ \E op \in Op : BeginRequest(h, op, g)
      PROVE  Sane'
  BY <1>2, SaneBegin
<1>3. ASSUME NEW g \in Game,
             \/ Progress(g) \/ UpFails(g) \/ UpEnds(g) \/ UpLost(g) \/ Deadline(g) \/ Evict(g)
      PROVE  Sane'
  <2>1. UNCHANGED <<run, game, bundle>>
    BY <1>3 DEF Progress, UpFails, UpEnds, UpLost, Deadline, Evict, db
  <2>2. faults' = 0 => faults = 0
    <3>1. faults \in Nat
      BY ConstantsAssumption DEF IInv, TypeOK
    <3> QED
      BY <1>3, <3>1 DEF Progress, UpFails, UpEnds, UpLost, Deadline, Evict
  <2>3. \A k \in Game : task'[k].status = task[k].status \/ (task'[k].status = "running" /\ Born(k))
    <3>1. task \in [Game -> TaskRow]
      BY DEF IInv, TypeOK
    <3>2. CASE Progress(g)
      <4>1. PICK stored : task' = [task EXCEPT ![g].status = Started(@), ![g].stored = stored]
        BY <3>2 DEF Progress
      <4>2. task'[g].status = Started(task[g].status) /\ \A k \in Game \ {g} : task'[k] = task[k]
        BY <3>1, <4>1 DEF TaskRow
      <4>3. task[g].status \in Active
        BY <3>2 DEF Progress
      <4>4. task'[g].status = "running" /\ Born(g)
        BY <4>2, <4>3 DEF Started, Active, Born
      <4> QED
        BY <4>2, <4>4
    <3>3. CASE ~Progress(g)
      <4>1. task' = task
        BY <1>3, <3>3 DEF UpFails, UpEnds, UpLost, Deadline, Evict, db
      <4> QED
        BY <4>1
    <3> QED
      BY <3>2, <3>3
  <2> QED
    BY <2>1, <2>2, <2>3, SaneOutside
<1>4. ASSUME NEW h \in Handler, Crash(h) PROVE Sane'
  <2>1. /\ Goes(h, Idle) /\ faults' = faults + 1 /\ UNCHANGED <<task, game, bundle>>
        /\ faults \in Nat /\ run \in [Handler -> Frame \cup {Idle}]
    BY <1>4, ConstantsAssumption DEF Crash, Goes, db, IInv, TypeOK
  <2>2. faults' # 0
    BY <2>1
  <2>3. \A k \in Handler : run'[k] # Idle => run'[k] = run[k]
    BY <2>1 DEF Goes
  <2> QED
    BY <2>1, <2>2, <2>3 DEF Sane
<1>5. ASSUME UNCHANGED vars PROVE Sane'
  BY <1>5 DEF vars, Sane, Told
<1>6. Sweeper \in Handler
  BY ConstantsAssumption
<1> QED
  BY <1>1, <1>2, <1>3, <1>4, <1>5, <1>6 DEF Next

\* A succeeded task and a draft have their bundle; and a game that is still in
\* generation once its task has ended is failed by the handler that relayed the
\* failure, unless there was a fault: however the handlers of a game overlap.
THEOREM EndedIsSettledAlways == Spec => []EndedIsSettled
<1>1. Init => Sane
  BY DEF Init, Sane, RowLaw, NoTask
<1>2. IInv /\ Sane /\ [Next]_vars => Sane'
  BY SaneStep
<1>3. IInv /\ Sane => EndedIsSettled
  <2> SUFFICES ASSUME Sane, NEW g \in Game
               PROVE  /\ task[g].status = "succeeded" \/ game[g].status = "draft" => g \in bundle
                      /\ task[g].status \in Final /\ game[g].status = "generating" =>
                           task[g].status = "failed" /\ (faults # 0 \/ Told(g))
    BY ConstantsAssumption DEF EndedIsSettled, Told, Telling, IInv, TypeOK
  <2>1. RowLaw(task[g].status, game[g].status, g \in bundle)
    BY DEF Sane
  <2>2. task[g].status \in Final /\ game[g].status = "generating" => task[g].status = "failed"
    BY <2>1 DEF RowLaw, Left, Final
  <2>3. task[g].status = "failed" /\ game[g].status = "generating" => faults # 0 \/ Told(g)
    BY DEF Sane
  <2> QED
    BY <2>1, <2>2, <2>3 DEF RowLaw
<1> QED
  BY <1>1, <1>2, <1>3, Inductive, PTL DEF Spec
=============================================================================
