--------------------------- MODULE CreationSession ---------------------------
(***************************************************************************)
(* The creation session of a user: a prompt edited in a chat and turned    *)
(* into a game (packages/game-service/src/game/creation-session.service.ts *)
(* and the two functions of game.service.ts by which the session follows   *)
(* its generation task).                                                   *)
(*                                                                         *)
(* A request reads the row, decides, and writes it in a later statement;   *)
(* appends, skips and claims compare the revision they read, everything    *)
(* else overwrites status and metadata and leaves the revision alone.  The *)
(* session's prompt (metadata.userPrompt) is part of that metadata.  A     *)
(* client may leave the revision out of its request, so that the check     *)
(* against the client's copy never refuses anything here.  currentQuestion *)
(* is null in every row this code writes.                                  *)
(***************************************************************************)
EXTENDS Naturals, FiniteSets

CONSTANTS Handler,      \* requests on the session under way at a time
          Game,         \* ids of the games it may create
          Prompt,
          MaxRevision,  \* bound of the model
          MaxSlips,     \* bound: failed statements and failures reported again
          MaxCrashes    \* bound: handlers that die

ASSUME ConstantsAssumption ==
    /\ "none" \notin Prompt /\ "due" \notin Prompt
    /\ MaxRevision \in Nat \ {0} /\ MaxSlips \in Nat /\ MaxCrashes \in Nat

VARIABLES row,      \* game_creation_sessions row
          game,     \* the games created from it and how their tasks ended
          sync,     \* games whose task reports to the session, and how far it is
          run,      \* where each request is
          slips, crashes,
          shown     \* ghost: the prompt the user was shown for each revision

vars == <<row, game, sync, run, slips, crashes, shown>>

\* "initializing" rows are no longer written; "collecting" ones are legacy.
Status == {"collecting", "ready", "generating", "completed", "failed", "abandoned"}
Mutable == {"collecting", "ready", "failed"}           \* assertSessionMutable
Revision == 1..MaxRevision

Outcome == {"succeeded", "failed", "canceled"}
NoGame == [status |-> "none"]
GameRow == [status : {"active"} \cup Outcome, revision : Revision, prompt : Prompt]

Idle == [pc |-> "idle"]
Frame == [pc : {"rewrite", "claim", "create", "finish", "rollback", "abandon"},
          revision : Revision,      \* as read; the claimed one after the claim
          prompt : Prompt]          \* to be written

TypeOK ==
    /\ row \in [status : Status, revision : Revision, prompt : Prompt]
    /\ game \in [Game -> GameRow \cup {NoGame}]
    /\ sync \in [Game -> {"none", "due"} \cup Prompt]
    /\ run \in [Handler -> Frame \cup {Idle}]
    /\ slips \in 0..MaxSlips /\ crashes \in 0..MaxCrashes
    /\ shown \in [Revision -> Prompt]

Init ==
    \E p \in Prompt, s \in {"ready", "collecting"} :
       /\ row = [status |-> s, revision |-> 1, prompt |-> p]
       /\ game = [g \in Game |-> NoGame]
       /\ sync = [g \in Game |-> "none"]
       /\ run = [h \in Handler |-> Idle]
       /\ slips = 0 /\ crashes = 0
       /\ shown = [r \in Revision |-> p]
-----------------------------------------------------------------------------
(* Requests: the read and its checks.                                      *)

Start(h, pc, p) ==
    /\ run[h] = Idle
    /\ run' = [run EXCEPT ![h] = [pc |-> pc, revision |-> row.revision, prompt |-> p]]
    /\ UNCHANGED <<row, game, sync, slips, crashes, shown>>

Append(h) ==
    /\ row.status \in Mutable /\ row.revision < MaxRevision
    /\ \E p \in Prompt : Start(h, "rewrite", p)

\* A skip on a session that is ready returns it as it is.
Skip(h) ==
    /\ row.status \in Mutable \ {"ready"} /\ row.revision < MaxRevision
    /\ Start(h, "rewrite", row.prompt)

Generate(h) ==
    /\ row.status = "ready" /\ row.revision < MaxRevision
    /\ Start(h, "claim", row.prompt)

Abandon(h) ==
    /\ row.status \notin {"completed", "abandoned"}
    /\ Start(h, "abandon", row.prompt)
-----------------------------------------------------------------------------
(* Requests: the statements that follow.                                   *)

Goto(h, pc) == run' = [run EXCEPT ![h].pc = pc]
Return(h) == run' = [run EXCEPT ![h] = Idle]

\* update: status and metadata, whatever the row has become meanwhile.
Overwrite(status, p) == row' = [row EXCEPT !.status = status, !.prompt = p]

\* updateMany of appendMessage and skipCurrentQuestion; a miss is a conflict.
Rewrite(h) ==
    /\ run[h].pc = "rewrite"
    /\ \/ /\ row.revision = run[h].revision
          /\ row' = [status |-> "ready", revision |-> row.revision + 1,
                     prompt |-> run[h].prompt]
          /\ shown' = [shown EXCEPT ![row.revision + 1] = run[h].prompt]
       \/ row.revision # run[h].revision /\ UNCHANGED <<row, shown>>
    /\ Return(h)
    /\ UNCHANGED <<game, sync, slips, crashes>>

\* updateMany of generateFromSession, by revision and status.
ClaimWhere(h, matches) ==
    /\ run[h].pc = "claim"
    /\ \/ /\ matches
          /\ row' = [status |-> "generating", revision |-> row.revision + 1,
                     prompt |-> run[h].prompt]
          /\ shown' = [shown EXCEPT ![row.revision + 1] = shown[row.revision]]
          /\ run' = [run EXCEPT ![h].pc = "create",
                                ![h].revision = row.revision + 1]
       \/ ~matches /\ Return(h) /\ UNCHANGED <<row, shown>>
    /\ UNCHANGED <<game, sync, slips, crashes>>

ClaimById(h) == ClaimWhere(h, row.revision < MaxRevision)  \* a broken Claim
ClaimReady(h) == ClaimWhere(h, row.status = "ready")        \* another

Claim(h) == ClaimWhere(h, row.revision = run[h].revision /\ row.status = "ready")

\* GameService.create: commits the game with its queued task, or throws.
Create(h) ==
    /\ run[h].pc = "create"
    /\ \/ \E g \in Game :
             /\ game[g] = NoGame
             /\ game' = [game EXCEPT ![g] = [status |-> "active",
                                             revision |-> run[h].revision,
                                             prompt |-> run[h].prompt]]
             /\ Goto(h, "finish")
       \/ Goto(h, "rollback") /\ UNCHANGED game
    /\ UNCHANGED <<row, sync, slips, crashes, shown>>

Finish(h) ==
    /\ run[h].pc = "finish"
    /\ Overwrite("completed", run[h].prompt)
    /\ Return(h)
    /\ UNCHANGED <<game, sync, slips, crashes, shown>>

\* The catch of generateFromSession.
RollbackMetadata(h) ==                          \* a broken Rollback
    /\ run[h].pc = "rollback"
    /\ Overwrite(row.status, run[h].prompt)
    /\ Return(h)
    /\ UNCHANGED <<game, sync, slips, crashes, shown>>

Rollback(h) ==
    /\ run[h].pc = "rollback"
    /\ Overwrite("ready", run[h].prompt)
    /\ Return(h)
    /\ UNCHANGED <<game, sync, slips, crashes, shown>>

AbandonWrite(h) ==
    /\ run[h].pc = "abandon"
    /\ Overwrite("abandoned", run[h].prompt)
    /\ Return(h)
    /\ UNCHANGED <<game, sync, slips, crashes, shown>>

\* The write of completed fails and is caught, although the game is queued;
\* a rollback that fails is swallowed.
StatementFails(h) ==
    /\ run[h].pc \in {"finish", "rollback"} /\ slips < MaxSlips
    /\ slips' = slips + 1
    /\ \/ run[h].pc = "finish" /\ Goto(h, "rollback")
       \/ run[h].pc = "rollback" /\ Return(h)
    /\ UNCHANGED <<row, game, sync, crashes, shown>>

Crash(h) ==
    /\ run[h] # Idle /\ crashes < MaxCrashes
    /\ crashes' = crashes + 1
    /\ Return(h)
    /\ UNCHANGED <<row, game, sync, slips, shown>>
-----------------------------------------------------------------------------
(* The generation task.                                                    *)

\* A task ends and reports to the session, now or when the engine's answer
\* arrives; a task that runs into its deadline need not report at all.
TaskEnds(g) ==
    /\ game[g].status = "active"
    /\ \E how \in Outcome :
          /\ game' = [game EXCEPT ![g].status = how]
          /\ sync' = [sync EXCEPT ![g] = "due"]
          /\ UNCHANGED <<row, run, slips, crashes, shown>>

\* failPipelineTask runs again for a task it has failed before: a repeated
\* call of the engine, or its answer after the sweep has given the task up.
FailedAgain(g) ==
    /\ game[g].status = "failed" /\ sync[g] = "none" /\ slips < MaxSlips
    /\ sync' = [sync EXCEPT ![g] = "due"]
    /\ slips' = slips + 1
    /\ UNCHANGED <<row, game, run, crashes, shown>>

\* patchCreationSession: metadata is read, merged and written later.
SyncRead(g) ==
    /\ sync[g] = "due"
    /\ sync' = [sync EXCEPT ![g] = row.prompt]
    /\ UNCHANGED <<row, game, run, slips, crashes, shown>>

StatusOf == [succeeded |-> "completed", failed |-> "failed", canceled |-> "abandoned"]

SyncTaskStatus(g) ==                            \* a broken SyncWrite
    /\ sync[g] \in Prompt
    /\ Overwrite(game[g].status, sync[g])
    /\ sync' = [sync EXCEPT ![g] = "none"]
    /\ UNCHANGED <<game, run, slips, crashes, shown>>

SyncWrite(g) ==
    /\ sync[g] \in Prompt
    /\ Overwrite(StatusOf[game[g].status], sync[g])
    /\ sync' = [sync EXCEPT ![g] = "none"]
    /\ UNCHANGED <<game, run, slips, crashes, shown>>

Request(h) == Append(h) \/ Skip(h) \/ Generate(h) \/ Abandon(h)
Statement(h) ==
    Rewrite(h) \/ Claim(h) \/ Create(h) \/ Finish(h) \/ Rollback(h) \/ AbandonWrite(h)
Report(g) == SyncRead(g) \/ SyncWrite(g)

Next ==
    \/ \E h \in Handler :
          Request(h) \/ Statement(h) \/ StatementFails(h) \/ Crash(h)
    \/ \E g \in Game : TaskEnds(g) \/ FailedAgain(g) \/ Report(g)

\* A request that has been accepted runs on; nobody has to make one.
Fairness == \A h \in Handler : WF_vars(Statement(h))

Spec == Init /\ [][Next]_vars /\ Fairness
-----------------------------------------------------------------------------
(* Properties.                                                             *)

Live(g) == game[g].status \in {"active", "succeeded"}

\* However its requests, its tasks' reports and crashes interleave, a session
\* has at most one game that is being generated or has been: a new one only
\* after the last has failed or was canceled.  Not so once a statement after
\* the creation has failed or a failure has been reported a second time.
AtMostOneLive == \A g, h \in Game : Live(g) /\ Live(h) => g = h
OneLiveGame == slips = 0 => AtMostOneLive

\* A game is generated from the prompt its user was shown for the revision
\* the generation claimed, whatever prompts stale requests and reports write
\* back with the rest of the metadata.
GeneratesShown ==
    slips = 0 => \A g \in Game : game[g] # NoGame => game[g].prompt = shown[game[g].revision]

\* A session does not stay in generation: each claim ends in a game or is
\* rolled back, unless the process dies or a statement fails in between.
SessionSettles ==
    row.status = "generating" ~>
        (row.status # "generating" \/ slips > 0 \/ crashes > 0)
=============================================================================
