------------------------ MODULE CreationSessionProofs ------------------------
(***************************************************************************)
(* That a creation session has one live game and generates the prompt that *)
(* was shown, for any number of requests, games, prompts and crashes.      *)
(*                                                                         *)
(* The argument: who may open the session again, or has a live game in it, *)
(* is alone.  That is a handler between its claim and the end of create or *)
(* of the rollback, a live game, or a failed game that has not reported.   *)
(* While there is one, the session is closed to new requests, and the      *)
(* requests that were accepted earlier hold a revision the claim has left  *)
(* behind.                                                                 *)
(***************************************************************************)
EXTENDS CreationSession, TLAPS

Waiting(h) == run[h].pc \in {"rewrite", "claim"}
Holding(h) == run[h].pc \in {"create", "rollback"}
Open(g) == Live(g) \/ (game[g].status = "failed" /\ sync[g] # "none")

Past ==
    /\ \A h \in Handler : Waiting(h) => run[h].revision < MaxRevision
    /\ \A h \in Handler : run[h] # Idle => run[h].revision <= row.revision
    /\ \A g \in Game : game[g] # NoGame => game[g].revision <= row.revision

Quiet == \A g \in Game : game[g].status \in {"none", "active"} => sync[g] = "none"

Alone ==
    /\ \A h, k \in Handler : Holding(h) /\ Holding(k) => h = k
    /\ \A g, i \in Game : Open(g) /\ Open(i) => g = i
    /\ \A h \in Handler, g \in Game : ~(Holding(h) /\ Open(g))

Closed ==
    (\E h \in Handler : Holding(h)) \/ (\E g \in Game : Open(g)) =>
        /\ row.status \in {"generating", "completed", "abandoned"}
        /\ \A h \in Handler : Waiting(h) => run[h].revision # row.revision

Shown ==
    /\ row.status = "ready" => row.prompt = shown[row.revision]
    /\ \A h \in Handler :
          /\ run[h].pc = "claim" => run[h].prompt = shown[run[h].revision]
          /\ Holding(h) => run[h].revision = row.revision
                           /\ run[h].prompt = shown[row.revision]
    /\ \A g \in Game : game[g] # NoGame => game[g].prompt = shown[game[g].revision]

IInv == TypeOK /\ Past /\ Quiet /\ (slips = 0 => Alone /\ Closed /\ Shown)
-----------------------------------------------------------------------------
\* The session starts with its types.
LEMMA TypeInit == Init => TypeOK
BY ConstantsAssumption DEF Init, TypeOK, Status, Revision, NoGame, Idle

\* What the type says of a request that is under way.
LEMMA Frames ==
    ASSUME TypeOK, NEW h \in Handler, run[h].pc # "idle"
    PROVE  run[h] \in Frame
BY DEF TypeOK, Idle

\* A request stays a request: the frame it moves to is one.
LEMMA RunTyped ==
    ASSUME TypeOK, NEW h \in Handler, NEW f \in Frame \cup {Idle},
           run' = [run EXCEPT ![h] = f]
    PROVE  run' \in [Handler -> Frame \cup {Idle}]
BY DEF TypeOK

\* Overwriting status and metadata leaves a row.
LEMMA RowTyped ==
    ASSUME TypeOK, NEW s \in Status, NEW p \in Prompt, Overwrite(s, p)
    PROVE  row' \in [status : Status, revision : Revision, prompt : Prompt]
BY DEF TypeOK, Overwrite

\* The statements that write status and metadata.
LEMMA Written ==
    ASSUME TypeOK, NEW h \in Handler, Finish(h) \/ Rollback(h) \/ AbandonWrite(h)
    PROVE  /\ run[h] \in Frame
           /\ \E s \in {"completed", "ready", "abandoned"} : Overwrite(s, run[h].prompt)
           /\ run' = [run EXCEPT ![h] = Idle]
           /\ UNCHANGED <<game, sync, slips, crashes, shown>>
BY Frames DEF Finish, Rollback, AbandonWrite, Return

\* No step of a request, a task or a report breaks the types.
LEMMA TypeStep == TypeOK /\ Past /\ Quiet /\ [Next]_vars => TypeOK'
<1> USE ConstantsAssumption
<1> SUFFICES ASSUME TypeOK, Past, Quiet, [Next]_vars PROVE TypeOK'
  OBVIOUS
<1>r. row.status \in Status /\ row.revision \in Revision /\ row.prompt \in Prompt
  BY DEF TypeOK
<1>1. ASSUME NEW h \in Handler, Request(h) PROVE TypeOK'
  <2>1. PICK pc \in {"rewrite", "claim", "abandon"}, p \in Prompt : Start(h, pc, p)
    BY <1>1, <1>r DEF Request, Append, Skip, Generate, Abandon
  <2>2. [pc |-> pc, revision |-> row.revision, prompt |-> p] \in Frame
    BY <1>r DEF Frame
  <2>3. run' \in [Handler -> Frame \cup {Idle}]
    BY <2>1, <2>2, RunTyped DEF Start
  <2> QED
    BY <2>1, <2>3 DEF Start, TypeOK
<1>2. ASSUME NEW h \in Handler, Rewrite(h) PROVE TypeOK'
  <2>1. run[h] \in Frame /\ run[h].revision < MaxRevision
    BY <1>2, Frames DEF Rewrite, Waiting, Past
  <2>2. run' \in [Handler -> Frame \cup {Idle}]
    BY <1>2, RunTyped DEF Rewrite, Return
  <2>3. run[h].prompt \in Prompt /\ (row.revision = run[h].revision => row.revision + 1 \in Revision)
    BY <2>1, <1>r DEF Frame, Revision
  <2> QED
    BY <1>2, <2>2, <2>3, <1>r DEF Rewrite, TypeOK, Status
<1>3. ASSUME NEW h \in Handler, Claim(h) PROVE TypeOK'
  <2>1. run[h] \in Frame /\ run[h].revision < MaxRevision
    BY <1>3, Frames DEF Claim, ClaimWhere, Waiting, Past
  <2>2. run[h].prompt \in Prompt /\ (row.revision = run[h].revision => row.revision + 1 \in Revision)
    BY <2>1, <1>r DEF Frame, Revision
  <2>3. row.revision = run[h].revision =>
          [run[h] EXCEPT !.pc = "create", !.revision = row.revision + 1] \in Frame
    BY <2>1, <2>2 DEF Frame
  <2>4. CASE row.revision = run[h].revision /\ row.status = "ready"
    <3>1. run' = [run EXCEPT ![h] = [run[h] EXCEPT !.pc = "create",
                                                  !.revision = row.revision + 1]]
      BY <1>3, <2>4 DEF Claim, ClaimWhere
    <3>2. run' \in [Handler -> Frame \cup {Idle}]
      BY <3>1, <2>3, <2>4, RunTyped
    <3> QED
      BY <1>3, <3>2, <2>2, <2>4, <1>r DEF Claim, ClaimWhere, TypeOK, Status
  <2>5. CASE ~(row.revision = run[h].revision /\ row.status = "ready")
    <3>1. run' \in [Handler -> Frame \cup {Idle}]
      BY <1>3, <2>5, RunTyped DEF Claim, ClaimWhere, Return
    <3> QED
      BY <1>3, <3>1, <2>5 DEF Claim, ClaimWhere, TypeOK
  <2> QED
    BY <2>4, <2>5
<1>4. ASSUME NEW h \in Handler, Create(h) PROVE TypeOK'
  <2>1. run[h] \in Frame
    BY <1>4, Frames DEF Create
  <2>2. PICK pc \in {"finish", "rollback"} : Goto(h, pc)
    BY <1>4 DEF Create
  <2>3. [run[h] EXCEPT !.pc = pc] \in Frame
    BY <2>1 DEF Frame
  <2>4. run' = [run EXCEPT ![h] = [run[h] EXCEPT !.pc = pc]]
    BY <2>2 DEF Goto
  <2>5. run' \in [Handler -> Frame \cup {Idle}]
    BY <2>3, <2>4, RunTyped
  <2>6. [status |-> "active", revision |-> run[h].revision, prompt |-> run[h].prompt] \in GameRow
    BY <2>1 DEF Frame, GameRow
  <2>7. game' \in [Game -> GameRow \cup {NoGame}]
    BY <1>4, <2>6 DEF Create, TypeOK
  <2> QED
    BY <1>4, <2>5, <2>7 DEF Create, TypeOK
<1>5. ASSUME NEW h \in Handler, Finish(h) \/ Rollback(h) \/ AbandonWrite(h) PROVE TypeOK'
  <2>1. run[h].prompt \in Prompt /\ run' = [run EXCEPT ![h] = Idle]
    BY <1>5, Written DEF Frame
  <2>2. row' \in [status : Status, revision : Revision, prompt : Prompt]
    BY <1>5, <2>1, Written, RowTyped DEF Status
  <2>3. run' \in [Handler -> Frame \cup {Idle}]
    BY <2>1, RunTyped
  <2> QED
    BY <1>5, <2>2, <2>3, Written DEF TypeOK
<1>6. ASSUME NEW h \in Handler, StatementFails(h) \/ Crash(h) PROVE TypeOK'
  <2>1. slips' \in 0..MaxSlips /\ crashes' \in 0..MaxCrashes
    BY <1>6 DEF StatementFails, Crash, TypeOK
  <2>2. CASE run' = [run EXCEPT ![h] = Idle]
    BY <1>6, <2>1, <2>2, RunTyped DEF StatementFails, Crash, TypeOK
  <2>3. CASE run[h].pc = "finish" /\ Goto(h, "rollback") /\ StatementFails(h)
    <3>1. run[h] \in Frame
      BY <2>3, Frames
    <3>2. [run[h] EXCEPT !.pc = "rollback"] \in Frame
      BY <3>1 DEF Frame
    <3>3. run' = [run EXCEPT ![h] = [run[h] EXCEPT !.pc = "rollback"]]
      BY <2>3 DEF Goto
    <3>4. run' \in [Handler -> Frame \cup {Idle}]
      BY <3>2, <3>3, RunTyped
    <3> QED
      BY <2>1, <2>3, <3>4 DEF StatementFails, TypeOK
  <2> QED
    BY <1>6, <2>2, <2>3 DEF StatementFails, Crash, Return
<1>7. ASSUME NEW g \in Game, TaskEnds(g) PROVE TypeOK'
  <2>1. game[g] \in GameRow
    BY <1>7 DEF TaskEnds, TypeOK, NoGame
  <2>2. PICK how \in Outcome : game' = [game EXCEPT ![g].status = how]
    BY <1>7 DEF TaskEnds
  <2>3. [game[g] EXCEPT !.status = how] \in GameRow
    BY <2>1 DEF GameRow
  <2>4. game' \in [Game -> GameRow \cup {NoGame}]
    BY <2>2, <2>3 DEF TypeOK
  <2> QED
    BY <1>7, <2>4 DEF TaskEnds, TypeOK
<1>8. ASSUME NEW g \in Game, FailedAgain(g) \/ SyncRead(g) PROVE TypeOK'
  BY <1>8, <1>r DEF FailedAgain, SyncRead, TypeOK
<1>9. ASSUME NEW g \in Game, SyncWrite(g) PROVE TypeOK'
  <2>1. game[g].status \in Outcome
    BY <1>9 DEF SyncWrite, Quiet, TypeOK, GameRow, NoGame
  <2>2. StatusOf[game[g].status] \in Status
    BY <2>1 DEF StatusOf, Outcome, Status
  <2>3. row' \in [status : Status, revision : Revision, prompt : Prompt]
    BY <1>9, <2>2, RowTyped DEF SyncWrite
  <2> QED
    BY <1>9, <2>3 DEF SyncWrite, TypeOK
<1>10. CASE UNCHANGED vars
  BY <1>10 DEF vars, TypeOK
<1> QED
  BY <1>1, <1>2, <1>3, <1>4, <1>5, <1>6, <1>7, <1>8, <1>9, <1>10
  DEF Next, Statement, Report
-----------------------------------------------------------------------------
(* What the steps change, point by point.                                  *)

\* A request that returns leaves the others where they are.
LEMMA Returned ==
    ASSUME TypeOK, NEW h \in Handler, run' = [run EXCEPT ![h] = Idle]
    PROVE  /\ run'[h] = Idle /\ run'[h].pc = "idle"
           /\ \A k \in Handler : k # h => run'[k] = run[k]
BY DEF TypeOK, Idle

\* An append or skip that hits shows its prompt under a new revision.
LEMMA RewriteMoves ==
    ASSUME TypeOK, Past, NEW h \in Handler, Rewrite(h),
           row.revision = run[h].revision
    PROVE  /\ row'.status = "ready" /\ row'.revision = row.revision + 1
           /\ row'.prompt = run[h].prompt
           /\ shown'[row'.revision] = row'.prompt
           /\ \A r \in Revision : r <= row.revision => shown'[r] = shown[r]
<1>1. row.revision + 1 \in Revision /\ row.revision \in Nat
  BY ConstantsAssumption DEF TypeOK, Past, Waiting, Revision, Rewrite
<1>2. /\ row' = [status |-> "ready", revision |-> row.revision + 1,
                 prompt |-> run[h].prompt]
      /\ shown' = [shown EXCEPT ![row.revision + 1] = run[h].prompt]
  BY DEF Rewrite
<1> QED
  BY <1>1, <1>2, ConstantsAssumption DEF TypeOK, Revision

\* A claim that hits takes the shown prompt to a new revision.
LEMMA ClaimMoves ==
    ASSUME TypeOK, Past, NEW h \in Handler, Claim(h),
           row.revision = run[h].revision, row.status = "ready"
    PROVE  /\ row'.status = "generating" /\ row'.revision = row.revision + 1
           /\ row'.prompt = run[h].prompt
           /\ shown'[row'.revision] = shown[row.revision]
           /\ \A r \in Revision : r <= row.revision => shown'[r] = shown[r]
           /\ run'[h].pc = "create" /\ run'[h].revision = row'.revision
           /\ run'[h].prompt = run[h].prompt
           /\ \A k \in Handler : k # h => run'[k] = run[k]
<1>1. row.revision + 1 \in Revision /\ row.revision \in Nat
  BY ConstantsAssumption DEF TypeOK, Past, Waiting, Revision, Claim, ClaimWhere
<1>2. run[h] \in Frame
  BY Frames DEF Claim, ClaimWhere
<1>3. run' = [run EXCEPT ![h] = [run[h] EXCEPT !.pc = "create",
                                              !.revision = row.revision + 1]]
  BY DEF Claim, ClaimWhere
<1>4. /\ run'[h].pc = "create" /\ run'[h].revision = row.revision + 1
      /\ run'[h].prompt = run[h].prompt
      /\ \A k \in Handler : k # h => run'[k] = run[k]
  BY <1>2, <1>3 DEF TypeOK, Frame
<1>5. /\ row' = [status |-> "generating", revision |-> row.revision + 1,
                 prompt |-> run[h].prompt]
      /\ shown' = [shown EXCEPT ![row.revision + 1] = shown[row.revision]]
  BY DEF Claim, ClaimWhere
<1> QED
  BY <1>1, <1>4, <1>5, ConstantsAssumption DEF TypeOK, Revision

\* A creation commits one new game or is rolled back, and leaves the row alone.
LEMMA CreateMoves ==
    ASSUME TypeOK, NEW h \in Handler, Create(h)
    PROVE  /\ run[h].pc = "create"
           /\ run'[h].pc \in {"finish", "rollback"}
           /\ run'[h].revision = run[h].revision /\ run'[h].prompt = run[h].prompt
           /\ \A k \in Handler : k # h => run'[k] = run[k]
           /\ \/ run'[h].pc = "rollback" /\ game' = game
              \/ /\ run'[h].pc = "finish"
                 /\ \E g \in Game :
                       /\ game[g] = NoGame
                       /\ game'[g] = [status |-> "active", revision |-> run[h].revision,
                                     prompt |-> run[h].prompt]
                       /\ \A i \in Game : i # g => game'[i] = game[i]
           /\ UNCHANGED <<row, sync, slips, crashes, shown>>
<1>1. run[h] \in Frame /\ run[h].pc = "create"
  BY Frames DEF Create
<1>2. ASSUME NEW pc \in {"finish", "rollback"}, Goto(h, pc)
      PROVE  /\ run'[h].pc = pc
             /\ run'[h].revision = run[h].revision /\ run'[h].prompt = run[h].prompt
             /\ \A k \in Handler : k # h => run'[k] = run[k]
  <2>1. run' = [run EXCEPT ![h] = [run[h] EXCEPT !.pc = pc]]
    BY <1>2 DEF Goto
  <2> QED
    BY <1>1, <2>1 DEF TypeOK, Frame
<1>3. UNCHANGED <<row, sync, slips, crashes, shown>>
  BY DEF Create
<1>4. CASE Goto(h, "rollback") /\ UNCHANGED game
  BY <1>1, <1>2, <1>3, <1>4
<1>5. CASE \E g \in Game :
             /\ game[g] = NoGame
             /\ game' = [game EXCEPT ![g] = [status |-> "active",
                                             revision |-> run[h].revision,
                                             prompt |-> run[h].prompt]]
             /\ Goto(h, "finish")
  <2>1. PICK g \in Game :
             /\ game[g] = NoGame
             /\ game' = [game EXCEPT ![g] = [status |-> "active",
                                             revision |-> run[h].revision,
                                             prompt |-> run[h].prompt]]
             /\ Goto(h, "finish")
    BY <1>5
  <2>2. /\ game'[g] = [status |-> "active", revision |-> run[h].revision,
                       prompt |-> run[h].prompt]
        /\ \A i \in Game : i # g => game'[i] = game[i]
    BY <2>1 DEF TypeOK
  <2> QED
    BY <1>1, <1>2, <1>3, <2>1, <2>2
<1> QED
  BY <1>4, <1>5 DEF Create

\* A create under way is the one thing that could open the session again.
LEMMA CreateAlone ==
    ASSUME TypeOK, Quiet, Alone, NEW h \in Handler, Create(h)
    PROVE  /\ Holding(h)
           /\ \A k \in Handler : Holding(k)' => k = h /\ run'[h].pc = "rollback"
           /\ \/ run'[h].pc = "rollback" /\ \A i \in Game : ~Open(i)'
              \/ run'[h].pc = "finish" /\ \E g \in Game : \A i \in Game : Open(i)' => i = g
<1>1. Holding(h) /\ \A i \in Game : ~Open(i)
  BY CreateMoves DEF Holding, Alone
<1>2. \A k \in Handler : Holding(k)' => k = h /\ run'[h].pc = "rollback"
  BY <1>1, CreateMoves DEF Holding, Alone
<1>3. CASE run'[h].pc = "rollback"
  <2>1. game' = game /\ sync' = sync
    BY <1>3, CreateMoves
  <2> QED
    BY <1>1, <1>2, <1>3, <2>1 DEF Open, Live
<1>4. CASE run'[h].pc = "finish"
  <2>1. PICK g \in Game : \A i \in Game : i # g => game'[i] = game[i]
    BY <1>4, CreateMoves
  <2>2. sync' = sync
    BY CreateMoves
  <2>3. \A i \in Game : Open(i)' => i = g
    BY <1>1, <2>1, <2>2 DEF Open, Live
  <2> QED
    BY <1>1, <1>2, <1>4, <2>3
<1> QED
  BY <1>3, <1>4, CreateMoves

\* The new game has the revision and the prompt of its claim.
LEMMA Created ==
    ASSUME TypeOK, NEW h \in Handler, Create(h), NEW g \in Game, game'[g] # game[g]
    PROVE  /\ game'[g].status = "active"
           /\ game'[g].revision = run[h].revision /\ game'[g].prompt = run[h].prompt
<1>1. PICK i \in Game :
         game' = [game EXCEPT ![i] = [status |-> "active", revision |-> run[h].revision,
                                      prompt |-> run[h].prompt]]
  BY DEF Create
<1> QED
  BY <1>1 DEF TypeOK

\* Only a rollback opens the session.
LEMMA WriteMoves ==
    ASSUME TypeOK, NEW h \in Handler, Finish(h) \/ Rollback(h) \/ AbandonWrite(h)
    PROVE  /\ \/ run[h].pc \in {"finish", "abandon"}
                 /\ row'.status \in {"completed", "abandoned"}
              \/ run[h].pc = "rollback" /\ row'.status = "ready"
           /\ row'.revision = row.revision /\ row'.prompt = run[h].prompt
BY DEF TypeOK, Finish, Rollback, AbandonWrite, Overwrite

\* Only the report of a failure opens it otherwise.
LEMMA SyncMoves ==
    ASSUME TypeOK, Quiet, NEW g \in Game, SyncWrite(g)
    PROVE  /\ row'.revision = row.revision
           /\ \/ row'.status \in {"completed", "abandoned"}
              \/ row'.status = "failed" /\ game[g].status = "failed"
           /\ sync[g] # "none" /\ sync'[g] = "none"
           /\ \A i \in Game : i # g => sync'[i] = sync[i]
<1>1. game[g].status \in Outcome /\ sync[g] # "none"
  BY ConstantsAssumption DEF SyncWrite, Quiet, TypeOK, GameRow, NoGame
<1> QED
  BY <1>1 DEF TypeOK, SyncWrite, Overwrite, StatusOf, Outcome
-----------------------------------------------------------------------------
\* Requests and games never hold a revision the row has not reached.
LEMMA PastStep == TypeOK /\ Past /\ [Next]_vars => Past'
<1> USE ConstantsAssumption DEF TypeOK, Past, Waiting, Revision, NoGame, Idle, Frame
<1> SUFFICES ASSUME TypeOK, Past, [Next]_vars PROVE Past'
  OBVIOUS
<1>1. ASSUME NEW h \in Handler, Request(h) PROVE Past'
  BY <1>1 DEF Request, Append, Skip, Generate, Abandon, Start, Mutable
<1>2. ASSUME NEW h \in Handler, Rewrite(h) PROVE Past'
  <2>1. \A k \in Handler : run'[k] # Idle => run'[k] = run[k]
    BY <1>2, Returned DEF Rewrite, Return
  <2>2. \A k \in Handler : Waiting(k)' => Waiting(k) /\ run'[k] = run[k]
    BY <1>2, Returned DEF Rewrite, Return
  <2>3. row'.revision \in Nat /\ row.revision \in Nat /\ row'.revision >= row.revision
    BY <1>2, RewriteMoves DEF Rewrite
  <2>4. \A k \in Handler : run[k] # Idle => run[k].revision \in Nat
    OBVIOUS
  <2>5. \A g \in Game : game[g] # NoGame => game[g].revision \in Nat
    BY DEF GameRow
  <2>6. game' = game
    BY <1>2 DEF Rewrite
  <2> QED
    BY <2>1, <2>2, <2>3, <2>4, <2>5, <2>6
<1>3. ASSUME NEW h \in Handler, Claim(h) PROVE Past'
  BY <1>3 DEF Claim, ClaimWhere, Return
<1>4. ASSUME NEW h \in Handler, Create(h) PROVE Past'
  <2>1. run[h].revision <= row.revision /\ row' = row
    BY <1>4 DEF Create
  <2>2. \A k \in Handler : Waiting(k)' => k # h /\ run'[k] = run[k]
    BY <1>4, CreateMoves
  <2>3. \A k \in Handler : run'[k] # Idle => run'[k].revision <= row'.revision
    BY <1>4, <2>1, CreateMoves
  <2>4. ASSUME NEW g \in Game, game'[g] # NoGame
        PROVE  game'[g] = game[g] \/ game'[g].revision = run[h].revision
    BY <1>4, Created
  <2>5. \A g \in Game : game'[g] # NoGame => game'[g].revision <= row'.revision
    BY <2>1, <2>4
  <2> QED
    BY <2>2, <2>3, <2>5
<1>5. ASSUME NEW h \in Handler, Finish(h) \/ Rollback(h) \/ AbandonWrite(h) PROVE Past'
  <2>1. \A k \in Handler : run'[k].pc # "idle" => k # h /\ run'[k] = run[k]
    BY <1>5, Returned, Written
  <2> QED
    BY <1>5, <2>1, Written, WriteMoves
<1>6. ASSUME NEW h \in Handler, StatementFails(h) \/ Crash(h) PROVE Past'
  BY <1>6 DEF StatementFails, Crash, Goto, Return
<1>7. ASSUME NEW g \in Game, TaskEnds(g) PROVE Past'
  BY <1>7 DEF TaskEnds, Outcome
<1>8. ASSUME NEW g \in Game, FailedAgain(g) \/ SyncRead(g) PROVE Past'
  BY <1>8 DEF FailedAgain, SyncRead
<1>9. ASSUME NEW g \in Game, SyncWrite(g) PROVE Past'
  BY <1>9 DEF SyncWrite, Overwrite, StatusOf
<1>10. CASE UNCHANGED vars
  BY <1>10 DEF vars
<1> QED
  BY <1>1, <1>2, <1>3, <1>4, <1>5, <1>6, <1>7, <1>8, <1>9, <1>10
  DEF Next, Statement, Report

\* A task reports when it has ended, not before.
LEMMA QuietStep == TypeOK /\ Quiet /\ [Next]_vars => Quiet'
<1> USE ConstantsAssumption DEF TypeOK, Quiet, NoGame
<1> SUFFICES ASSUME TypeOK, Quiet, [Next]_vars PROVE Quiet'
  OBVIOUS
<1>1. ASSUME NEW h \in Handler, Request(h) PROVE Quiet'
  BY <1>1 DEF Request, Append, Skip, Generate, Abandon, Start, Mutable
<1>2. ASSUME NEW h \in Handler, Rewrite(h) PROVE Quiet'
  BY <1>2 DEF Rewrite, Return
<1>3. ASSUME NEW h \in Handler, Claim(h) PROVE Quiet'
  BY <1>3 DEF Claim, ClaimWhere, Return
<1>4. ASSUME NEW h \in Handler, Create(h) PROVE Quiet'
  BY <1>4 DEF Create, Goto
<1>5. ASSUME NEW h \in Handler, Finish(h) \/ Rollback(h) \/ AbandonWrite(h) PROVE Quiet'
  BY <1>5 DEF Finish, Rollback, AbandonWrite, Overwrite, Return
<1>6. ASSUME NEW h \in Handler, StatementFails(h) \/ Crash(h) PROVE Quiet'
  BY <1>6 DEF StatementFails, Crash, Goto, Return
<1>7. ASSUME NEW g \in Game, TaskEnds(g) PROVE Quiet'
  BY <1>7 DEF TaskEnds, Outcome
<1>8. ASSUME NEW g \in Game, FailedAgain(g) \/ SyncRead(g) PROVE Quiet'
  BY <1>8 DEF FailedAgain, SyncRead
<1>9. ASSUME NEW g \in Game, SyncWrite(g) PROVE Quiet'
  BY <1>9 DEF SyncWrite, Overwrite, StatusOf
<1>10. CASE UNCHANGED vars
  BY <1>10 DEF vars
<1> QED
  BY <1>1, <1>2, <1>3, <1>4, <1>5, <1>6, <1>7, <1>8, <1>9, <1>10
  DEF Next, Statement, Report

\* There is one claim, live game or unreported failure at a time.
LEMMA AloneStep ==
    TypeOK /\ Quiet /\ Alone /\ Closed /\ slips' = 0 /\ [Next]_vars => Alone'
<1> USE ConstantsAssumption DEF TypeOK, Quiet, Alone, Closed, Holding, Waiting, Open, Live, NoGame, Idle
<1> SUFFICES ASSUME TypeOK, Quiet, Alone, Closed, slips' = 0, [Next]_vars PROVE Alone'
  OBVIOUS
<1>1. ASSUME NEW h \in Handler, Request(h) PROVE Alone'
  BY <1>1 DEF Request, Append, Skip, Generate, Abandon, Start, Mutable
<1>2. ASSUME NEW h \in Handler, Rewrite(h) PROVE Alone'
  BY <1>2 DEF Rewrite, Return
<1>3. ASSUME NEW h \in Handler, Claim(h) PROVE Alone'
  BY <1>3 DEF Claim, ClaimWhere, Return
<1>4. ASSUME NEW h \in Handler, Create(h) PROVE Alone'
  BY <1>4, CreateAlone
<1>5. ASSUME NEW h \in Handler, Finish(h) \/ Rollback(h) \/ AbandonWrite(h) PROVE Alone'
  BY <1>5 DEF Finish, Rollback, AbandonWrite, Overwrite, Return
<1>6. ASSUME NEW h \in Handler, StatementFails(h) \/ Crash(h) PROVE Alone'
  BY <1>6 DEF StatementFails, Crash, Goto, Return
<1>7. ASSUME NEW g \in Game, TaskEnds(g) PROVE Alone'
  BY <1>7 DEF TaskEnds, Outcome
<1>8. ASSUME NEW g \in Game, FailedAgain(g) \/ SyncRead(g) PROVE Alone'
  BY <1>8 DEF FailedAgain, SyncRead
<1>9. ASSUME NEW g \in Game, SyncWrite(g) PROVE Alone'
  BY <1>9 DEF SyncWrite, Overwrite, StatusOf
<1>10. CASE UNCHANGED vars
  BY <1>10 DEF vars
<1> QED
  BY <1>1, <1>2, <1>3, <1>4, <1>5, <1>6, <1>7, <1>8, <1>9, <1>10
  DEF Next, Statement, Report

\* While there is one, the session is closed to new and to earlier requests.
LEMMA ClosedStep ==
    TypeOK /\ Past /\ Quiet /\ Alone /\ Closed /\ slips' = 0 /\ [Next]_vars => Closed'
<1> USE ConstantsAssumption DEF TypeOK, Past, Quiet, Alone, Closed, Holding, Waiting, Open, Live, NoGame, Idle
<1> SUFFICES ASSUME TypeOK, Past, Quiet, Alone, Closed, slips' = 0, [Next]_vars PROVE Closed'
  OBVIOUS
<1>1. ASSUME NEW h \in Handler, Request(h) PROVE Closed'
  BY <1>1 DEF Request, Append, Skip, Generate, Abandon, Start, Mutable
<1>2. ASSUME NEW h \in Handler, Rewrite(h) PROVE Closed'
  BY <1>2 DEF Rewrite, Return
<1>3. ASSUME NEW h \in Handler, Claim(h) PROVE Closed'
  <2>1. CASE row.revision = run[h].revision /\ row.status = "ready"
    <3>1. row'.status = "generating" /\ row'.revision = row.revision + 1
      BY <1>3, <2>1, ClaimMoves
    <3>2. \A k \in Handler : Waiting(k)' => k # h /\ run'[k] = run[k]
      BY <1>3, <2>1, ClaimMoves
    <3>3. \A k \in Handler : Waiting(k) => run[k].revision # row.revision + 1
      BY Frames DEF Frame, Revision
    <3> QED
      BY <3>1, <3>2, <3>3
  <2>2. CASE ~(row.revision = run[h].revision /\ row.status = "ready")
    BY <1>3, <2>2, Returned DEF Claim, ClaimWhere, Return
  <2> QED
    BY <2>1, <2>2
<1>4. ASSUME NEW h \in Handler, Create(h) PROVE Closed'
  <2>1. Holding(h) /\ row' = row
    BY <1>4, CreateAlone, CreateMoves
  <2>2. \A k \in Handler : Waiting(k)' => Waiting(k) /\ run'[k] = run[k]
    BY <1>4, CreateMoves
  <2> QED
    BY <2>1, <2>2
<1>5. ASSUME NEW h \in Handler, Finish(h) \/ Rollback(h) \/ AbandonWrite(h) PROVE Closed'
  <2>1. \A k \in Handler : run'[k].pc # "idle" => k # h /\ run'[k] = run[k]
    BY <1>5, Returned, Written
  <2> QED
    BY <1>5, <2>1, Written, WriteMoves
<1>6. ASSUME NEW h \in Handler, StatementFails(h) \/ Crash(h) PROVE Closed'
  BY <1>6 DEF StatementFails, Crash, Goto, Return
<1>7. ASSUME NEW g \in Game, TaskEnds(g) PROVE Closed'
  BY <1>7 DEF TaskEnds, Outcome
<1>8. ASSUME NEW g \in Game, FailedAgain(g) \/ SyncRead(g) PROVE Closed'
  BY <1>8 DEF FailedAgain, SyncRead
<1>9. ASSUME NEW g \in Game, SyncWrite(g) PROVE Closed'
  BY <1>9, SyncMoves DEF SyncWrite
<1>10. CASE UNCHANGED vars
  BY <1>10 DEF vars
<1> QED
  BY <1>1, <1>2, <1>3, <1>4, <1>5, <1>6, <1>7, <1>8, <1>9, <1>10
  DEF Next, Statement, Report

\* Claims, rollbacks and games carry the prompt shown for their revision.
LEMMA ShownStep ==
    TypeOK /\ Past /\ Quiet /\ Alone /\ Closed /\ Shown /\ slips' = 0 /\ [Next]_vars => Shown'
<1> USE ConstantsAssumption DEF TypeOK, Past, Quiet, Alone, Closed, Shown, Holding, Waiting, Open, Live, NoGame, Idle
<1> SUFFICES ASSUME TypeOK, Past, Quiet, Alone, Closed, Shown, slips' = 0, [Next]_vars PROVE Shown'
  OBVIOUS
<1>1. ASSUME NEW h \in Handler, Request(h) PROVE Shown'
  BY <1>1 DEF Request, Append, Skip, Generate, Abandon, Start, Mutable
<1>2. ASSUME NEW h \in Handler, Rewrite(h) PROVE Shown'
  <2>1. \A k \in Handler : run'[k].pc # "idle" => k # h /\ run'[k] = run[k]
    BY <1>2, Returned DEF Rewrite, Return
  <2>2. CASE row.revision = run[h].revision
    <3>1. \A k \in Handler : ~Holding(k)
      BY <1>2, <2>2 DEF Rewrite
    <3>2. row'.prompt = shown'[row'.revision]
      BY <1>2, <2>2, RewriteMoves
    <3>3. \A r \in Revision : r <= row.revision => shown'[r] = shown[r]
      BY <1>2, <2>2, RewriteMoves
    <3>4. \A k \in Handler : ~Holding(k)'
      BY <2>1, <3>1
    <3>5. \A k \in Handler : run'[k].pc = "claim" => run'[k].prompt = shown'[run'[k].revision]
      BY <2>1, <3>3, Frames DEF Frame
    <3>6. \A g \in Game : game[g] # NoGame => game[g].prompt = shown'[game[g].revision]
      BY <3>3 DEF GameRow
    <3> QED
      BY <1>2, <3>2, <3>4, <3>5, <3>6 DEF Rewrite
  <2>3. CASE row.revision # run[h].revision
    BY <1>2, <2>1, <2>3 DEF Rewrite
  <2> QED
    BY <2>2, <2>3
<1>3. ASSUME NEW h \in Handler, Claim(h) PROVE Shown'
  <2>1. CASE row.revision = run[h].revision /\ row.status = "ready"
    <3>1. \A k \in Handler : ~Holding(k)
      BY <2>1
    <3>2. row'.status = "generating"
      BY <1>3, <2>1, ClaimMoves
    <3>3. \A r \in Revision : r <= row.revision => shown'[r] = shown[r]
      BY <1>3, <2>1, ClaimMoves
    <3>4. \A k \in Handler : k # h => run'[k] = run[k]
      BY <1>3, <2>1, ClaimMoves
    <3>5. /\ run'[h].pc = "create" /\ run'[h].revision = row'.revision
          /\ run'[h].prompt = run[h].prompt
          /\ shown'[row'.revision] = shown[row.revision]
      BY <1>3, <2>1, ClaimMoves
    <3>10. run'[h].prompt = shown'[row'.revision]
      BY <1>3, <2>1, <3>5 DEF Claim, ClaimWhere
    <3>6. \A k \in Handler : run'[k].pc = "claim" => run'[k].prompt = shown'[run'[k].revision]
      BY <3>3, <3>4, <3>5, Frames DEF Frame
    <3>7. \A k \in Handler : Holding(k)' => k = h
      BY <3>1, <3>4
    <3>8. \A g \in Game : game[g] # NoGame => game[g].prompt = shown'[game[g].revision]
      BY <3>3 DEF GameRow
    <3>9. game' = game
      BY <1>3 DEF Claim, ClaimWhere
    <3> QED
      BY <3>2, <3>5, <3>6, <3>7, <3>8, <3>9, <3>10
  <2>2. CASE ~(row.revision = run[h].revision /\ row.status = "ready")
    BY <1>3, <2>2, Returned DEF Claim, ClaimWhere, Return
  <2> QED
    BY <2>1, <2>2
<1>4. ASSUME NEW h \in Handler, Create(h) PROVE Shown'
  <2>1. /\ run[h].revision = row.revision /\ run[h].prompt = shown[row.revision]
        /\ row' = row /\ shown' = shown
    BY <1>4 DEF Create
  <2>2. \A k \in Handler : run'[k].pc = "claim" => run'[k] = run[k]
    BY <1>4, CreateMoves
  <2>3. /\ \A k \in Handler : Holding(k)' => k = h
        /\ run'[h].revision = run[h].revision /\ run'[h].prompt = run[h].prompt
    BY <1>4, CreateAlone, CreateMoves
  <2>4. ASSUME NEW g \in Game, game'[g] # game[g]
        PROVE  game'[g].revision = run[h].revision /\ game'[g].prompt = run[h].prompt
    BY <1>4, <2>4, Created
  <2>5. \A g \in Game : game'[g] # NoGame => game'[g].prompt = shown'[game'[g].revision]
    BY <2>1, <2>4
  <2> QED
    BY <2>1, <2>2, <2>3, <2>5
<1>5. ASSUME NEW h \in Handler, Finish(h) \/ Rollback(h) \/ AbandonWrite(h) PROVE Shown'
  <2>1. \A k \in Handler : run'[k].pc # "idle" => k # h /\ run'[k] = run[k]
    BY <1>5, Returned, Written
  <2> QED
    BY <1>5, <2>1, Written, WriteMoves
<1>6. ASSUME NEW h \in Handler, StatementFails(h) \/ Crash(h) PROVE Shown'
  BY <1>6 DEF StatementFails, Crash, Goto, Return
<1>7. ASSUME NEW g \in Game, TaskEnds(g) PROVE Shown'
  BY <1>7 DEF TaskEnds, Outcome
<1>8. ASSUME NEW g \in Game, FailedAgain(g) \/ SyncRead(g) PROVE Shown'
  BY <1>8 DEF FailedAgain, SyncRead
<1>9. ASSUME NEW g \in Game, SyncWrite(g) PROVE Shown'
  <2>1. /\ row'.revision = row.revision /\ row'.status # "ready"
        /\ UNCHANGED <<run, game, shown>>
    BY <1>9, SyncMoves DEF SyncWrite
  <2> QED
    BY <2>1
<1>10. CASE UNCHANGED vars
  BY <1>10 DEF vars
<1> QED
  BY <1>1, <1>2, <1>3, <1>4, <1>5, <1>6, <1>7, <1>8, <1>9, <1>10
  DEF Next, Statement, Report
-----------------------------------------------------------------------------
\* The invariant holds at the start.
LEMMA InvInit == Init => IInv
<1> SUFFICES ASSUME Init PROVE IInv
  OBVIOUS
<1>1. /\ \A h \in Handler : run[h].pc = "idle" /\ run[h] = Idle
      /\ \A g \in Game : game[g] = NoGame /\ game[g].status = "none" /\ sync[g] = "none"
      /\ row.prompt = shown[row.revision]
  BY ConstantsAssumption DEF Init, Idle, NoGame, Revision
<1> QED
  BY <1>1, TypeInit
  DEF IInv, Past, Quiet, Alone, Closed, Shown, Waiting, Holding, Open, Live

\* No step takes a slip back.
LEMMA SlipsCount == TypeOK /\ [Next]_vars /\ slips' = 0 => slips = 0
<1> SUFFICES ASSUME TypeOK, [Next]_vars PROVE slips' = slips \/ slips' = slips + 1
  BY DEF TypeOK
<1>1. ASSUME NEW h \in Handler, Request(h) PROVE slips' = slips
  BY <1>1 DEF Request, Append, Skip, Generate, Abandon, Start
<1>2. ASSUME NEW h \in Handler, Statement(h) PROVE slips' = slips
  BY <1>2 DEF Statement, Rewrite, Claim, ClaimWhere, Create, Finish, Rollback, AbandonWrite
<1>3. ASSUME NEW h \in Handler, StatementFails(h) \/ Crash(h)
      PROVE  slips' = slips \/ slips' = slips + 1
  BY <1>3 DEF StatementFails, Crash
<1>4. ASSUME NEW g \in Game, TaskEnds(g) \/ FailedAgain(g) \/ Report(g)
      PROVE  slips' = slips \/ slips' = slips + 1
  BY <1>4 DEF TaskEnds, FailedAgain, Report, SyncRead, SyncWrite
<1> QED
  BY <1>1, <1>2, <1>3, <1>4 DEF Next, vars

\* Every step keeps it.
LEMMA InvStep == IInv /\ [Next]_vars => IInv'
<1> SUFFICES ASSUME IInv, [Next]_vars PROVE IInv'
  OBVIOUS
<1>1. TypeOK' /\ Past' /\ Quiet'
  BY TypeStep, PastStep, QuietStep DEF IInv
<1>2. ASSUME slips' = 0 PROVE Alone' /\ Closed' /\ Shown'
  BY <1>2, SlipsCount, AloneStep, ClosedStep, ShownStep DEF IInv
<1> QED
  BY <1>1, <1>2 DEF IInv

\* The invariant holds in every behaviour.
THEOREM InvAlways == Spec => []IInv
BY InvInit, InvStep, PTL DEF Spec

\* Every variable has its type: no request is under way with a revision or a
\* prompt that was never in the row, and a report writes a status a session has.
THEOREM TypeCorrect == Spec => []TypeOK
<1>1. IInv => TypeOK
  BY DEF IInv
<1> QED
  BY <1>1, InvAlways, PTL

\* A session has at most one game that is live, for any number of requests,
\* games and crashes, as long as no statement after a creation fails and no
\* failure is reported twice.
THEOREM OneLiveGameAlways == Spec => []OneLiveGame
<1>1. IInv => OneLiveGame
  BY DEF IInv, Alone, Open, OneLiveGame, AtMostOneLive
<1> QED
  BY <1>1, InvAlways, PTL

\* What is generated is the prompt that was shown for the claimed revision.
THEOREM GeneratesShownAlways == Spec => []GeneratesShown
<1>1. IInv => GeneratesShown
  BY DEF IInv, Shown, GeneratesShown
<1> QED
  BY <1>1, InvAlways, PTL
=============================================================================
