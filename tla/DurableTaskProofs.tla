--------------------------- MODULE DurableTaskProofs ---------------------------
(***************************************************************************)
(* Theorems about DurableTask, for every number of commands, processes,    *)
(* ticks, faults and every clock skew.                                     *)
(***************************************************************************)
EXTENDS DurableTask, FiniteSetTheorems, TLAPS

USE ConstantsAssumption

LEMMA NowIsNat == ASSUME TypeOK, NEW now \in Now PROVE now \in Nat
  BY DEF TypeOK, Now

LEMMA StoreType ==
  ASSUME TypeOK, NEW t \in Task, NEW new \in Record, Store(t, new)
  PROVE  /\ rec' \in [Task -> Record]
         /\ active' \in [Task -> Int]
         /\ expires' \in [Task -> Nat]
<1>1. rec' \in [Task -> Record]
  BY DEF Store, TypeOK
<1>2. active' \in [Task -> Int]
  <2>1. new.lease \in Int
    BY DEF Record
  <2>2. QED
    BY <2>1 DEF Store, TypeOK, NoScore
<1>3. expires' \in [Task -> Nat]
  BY DEF Store, TypeOK, Smaller
<1>4. QED
  BY <1>1, <1>2, <1>3

LEMMA AbsentType == Absent \in Record
  BY DEF Absent, Record

LEMMA LeaseType == ASSUME NEW now \in Nat PROVE LeaseUntil(now) \in Nat
  BY DEF LeaseUntil, Smaller

\* What a new copy of a record keeps its type through, field by field.
LEMMA RecordUpdates ==
  ASSUME NEW old \in Record
  PROVE  /\ \A s \in {"queued", "running", "succeeded", "failed", "canceled"} :
              [old EXCEPT !.status = s] \in Record
         /\ \A l \in Nat : [old EXCEPT !.lease = l] \in Record
         /\ \A f \in SUBSET Fingerprint :
              [old EXCEPT !.saved = old.saved \cup f] \in Record
         /\ \A s \in Terminal, a \in 0 .. MaxAttempts :
              [old EXCEPT !.status = s, !.by = a] \in Record
         /\ \A d \in Nat : [old EXCEPT !.status = "queued", !.deadline = d] \in Record
         /\ old.attempt < MaxAttempts =>
              \A o \in Token, l \in Nat :
                [old EXCEPT !.status = "running", !.owner = o, !.lease = l,
                            !.attempt = old.attempt + 1] \in Record
<1>1. \A s \in {"queued", "running", "succeeded", "failed", "canceled"} :
        [old EXCEPT !.status = s] \in Record
  BY DEF Record, Open, Terminal
<1>2. \A l \in Nat : [old EXCEPT !.lease = l] \in Record
  BY DEF Record
<1>3. \A f \in SUBSET Fingerprint : [old EXCEPT !.saved = old.saved \cup f] \in Record
  BY DEF Record
<1>4. \A s \in Terminal, a \in 0 .. MaxAttempts :
        [old EXCEPT !.status = s, !.by = a] \in Record
  BY DEF Record, Terminal
<1>5. \A d \in Nat : [old EXCEPT !.status = "queued", !.deadline = d] \in Record
  BY DEF Record, Open
<1>6. ASSUME old.attempt < MaxAttempts, NEW o \in Token, NEW l \in Nat
      PROVE  [old EXCEPT !.status = "running", !.owner = o, !.lease = l,
                         !.attempt = old.attempt + 1] \in Record
  <2>1. old.attempt + 1 \in 0 .. MaxAttempts
    BY <1>6 DEF Record
  <2>2. QED
    BY <1>6, <2>1 DEF Record, Open
<1>7. QED
  BY <1>1, <1>2, <1>3, <1>4, <1>5, <1>6

LEMMA FreshType ==
  ASSUME TypeOK, NEW op \in {"claim", "renew", "save", "finish"}, NEW t \in Task,
         NEW own \in Token, NEW new \in Record
  PROVE  Fresh(op, t, own, new) \in Txn
  BY DEF TypeOK, Fresh, Txn
-----------------------------------------------------------------------------
(* Type correctness.                                                       *)

LEMMA TypeInit == Init => TypeOK
  BY AbsentType DEF Init, TypeOK, NoScore, Loop, Polling

\* Executions and pending updates that are only removed keep their types.
LEMMA CloseType ==
  ASSUME TypeOK, NEW r \in runs, Close(r)
  PROVE  runs' \subseteq Run /\ txn' \subseteq Txn
  BY DEF TypeOK, Close

LEMMA SweepTypes ==
  ASSUME TypeOK, NEW w \in Worker
  PROVE  /\ SweepPoll(w) => TypeOK'
         /\ \A t \in Task : SweepGet(w, t) \/ SweepZrem(w, t) => TypeOK'
         /\ SweepFault(w) => TypeOK'
         /\ Crash(w) => TypeOK'
<1>1. ASSUME SweepPoll(w) PROVE TypeOK'
  <2>1. PICK ids \in SUBSET Task : sweep' = [sweep EXCEPT ![w].todo = ids]
    BY <1>1 DEF SweepPoll
  <2>2. sweep' \in [Worker -> Loop]
    BY <2>1 DEF TypeOK, Loop
  <2>3. QED
    BY <1>1, <2>2 DEF SweepPoll, TypeOK
<1>2. ASSUME NEW t \in Task, SweepGet(w, t) PROVE TypeOK'
  BY <1>2 DEF SweepGet, TypeOK, Loop
<1>3. ASSUME NEW t \in Task, SweepZrem(w, t) PROVE TypeOK'
  BY <1>3 DEF SweepZrem, TypeOK, Loop, NoScore
<1>4. ASSUME SweepFault(w) PROVE TypeOK'
  BY <1>4 DEF SweepFault, TypeOK, Loop, Polling
<1>5. ASSUME Crash(w) PROVE TypeOK'
  BY <1>5 DEF Crash, TypeOK, Loop, Polling
<1>6. QED
  BY <1>1, <1>2, <1>3, <1>4, <1>5

LEMMA ClaimReadType ==
  ASSUME TypeOK, NEW w \in Worker, NEW t \in Task, ClaimRead(w, t)
  PROVE  TypeOK'
<1> DEFINE own == <<w, issued[t] + 1>>
<1>1. own \in Token /\ rec[t] \in Record
  BY DEF TypeOK, Token
<1>2. PICK now \in Now :
        \/ sweep' = [sweep EXCEPT ![w].claim = {}] /\ UNCHANGED txn
        \/ /\ txn' = txn \cup
                {Fresh("claim", t, own, [rec[t] EXCEPT !.status = "failed"])}
           /\ UNCHANGED sweep
        \/ /\ ~Exhausted(rec[t], now)
           /\ txn' = txn \cup
                {Fresh("claim", t, own,
                   [rec[t] EXCEPT !.status = "running", !.owner = own,
                                  !.lease = LeaseUntil(now),
                                  !.attempt = rec[t].attempt + 1])}
           /\ UNCHANGED sweep
  BY DEF ClaimRead
<1>3. CASE sweep' = [sweep EXCEPT ![w].claim = {}] /\ UNCHANGED txn
  BY <1>3 DEF ClaimRead, TypeOK, Loop
<1>4. CASE /\ txn' = txn \cup
                {Fresh("claim", t, own, [rec[t] EXCEPT !.status = "failed"])}
           /\ UNCHANGED sweep
  <2>1. Fresh("claim", t, own, [rec[t] EXCEPT !.status = "failed"]) \in Txn
    BY <1>1, RecordUpdates, FreshType
  <2>2. QED
    BY <1>4, <2>1 DEF ClaimRead, TypeOK
<1>5. CASE /\ ~Exhausted(rec[t], now)
           /\ txn' = txn \cup
                {Fresh("claim", t, own,
                   [rec[t] EXCEPT !.status = "running", !.owner = own,
                                  !.lease = LeaseUntil(now),
                                  !.attempt = rec[t].attempt + 1])}
           /\ UNCHANGED sweep
  <2>1. LeaseUntil(now) \in Nat
    BY NowIsNat, LeaseType
  <2>2. rec[t].attempt < MaxAttempts
    BY <1>1, <1>5 DEF Exhausted, Record
  <2>3. [rec[t] EXCEPT !.status = "running", !.owner = own, !.lease = LeaseUntil(now),
                       !.attempt = rec[t].attempt + 1] \in Record
    BY <1>1, <2>1, <2>2, RecordUpdates
  <2>4. QED
    BY <1>1, <1>5, <2>3, FreshType DEF ClaimRead, TypeOK
<1>6. QED
  BY <1>2, <1>3, <1>4, <1>5

LEMMA ClaimExecType ==
  ASSUME TypeOK, NEW x \in txn, ClaimExec(x)
  PROVE  TypeOK'
<1>1. x \in Txn /\ x.t \in Task /\ x.new \in Record /\ x.own \in Token
  BY DEF TypeOK, Txn
<1>2. /\ rec' \in [Task -> Record] /\ active' \in [Task -> Int]
      /\ expires' \in [Task -> Nat]
  BY <1>1, StoreType DEF ClaimExec
<1>3. NewRun(x) \in Run
  BY <1>1 DEF NewRun, Run, Record
<1>4. Replaced(x) \subseteq Run
  <2>1. \A r \in Run : [r EXCEPT !.tracked = FALSE] \in Run
    BY DEF Run
  <2>2. QED
    BY <2>1 DEF Replaced, TypeOK
<1>5. x.own[1] \in Worker
  BY <1>1 DEF Token
<1>6. sweep' \in [Worker -> Loop]
  BY <1>5 DEF ClaimExec, TypeOK, Loop
<1>7. runs' \subseteq Run /\ issued' \in [Task -> Nat]
  BY <1>1, <1>3, <1>4 DEF ClaimExec, TypeOK
<1>8. QED
  BY <1>2, <1>6, <1>7 DEF ClaimExec, TypeOK

LEMMA BeatTypes ==
  ASSUME TypeOK, NEW r \in runs
  PROVE  /\ BeatRead(r) => TypeOK'
         /\ \A x \in txn : RenewExec(x) => TypeOK'
<1>1. ASSUME BeatRead(r) PROVE TypeOK'
  <2>1. r \in Run /\ r.t \in Task /\ r.own \in Token /\ rec[r.t] \in Record
    BY DEF TypeOK, Run
  <2>2. PICK now \in Now :
          \/ /\ txn' = txn \cup {Fresh("renew", r.t, r.own,
                                  [rec[r.t] EXCEPT !.lease = LeaseUntil(now)])}
             /\ UNCHANGED runs
          \/ Becomes(r, [r EXCEPT !.beat = "lost"]) /\ UNCHANGED txn
    BY <1>1 DEF BeatRead
  <2>3. [rec[r.t] EXCEPT !.lease = LeaseUntil(now)] \in Record
    BY <2>1, NowIsNat, LeaseType, RecordUpdates
  <2>4. Fresh("renew", r.t, r.own, [rec[r.t] EXCEPT !.lease = LeaseUntil(now)]) \in Txn
    BY <2>1, <2>3, FreshType
  <2>5. [r EXCEPT !.beat = "lost"] \in Run
    BY <2>1 DEF Run
  <2>6. QED
    BY <1>1, <2>2, <2>4, <2>5 DEF BeatRead, Becomes, TypeOK
<1>2. ASSUME NEW x \in txn, RenewExec(x) PROVE TypeOK'
  <2>1. x.t \in Task /\ x.new \in Record
    BY DEF TypeOK, Txn
  <2>2. QED
    BY <1>2, <2>1, StoreType DEF RenewExec, TypeOK
<1>3. QED
  BY <1>1, <1>2

LEMMA RunnerTypes ==
  ASSUME TypeOK, NEW r \in runs
  PROVE  /\ \A f \in Fingerprint : LookUp(r, f) => TypeOK'
         /\ SaveRead(r) => TypeOK'
         /\ \A x \in txn : SaveExec(x, r) => TypeOK'
         /\ RunnerReturns(r) => TypeOK'
<1>0. r \in Run /\ r.t \in Task /\ r.own \in Token /\ rec[r.t] \in Record
  BY DEF TypeOK, Run
<1>1. ASSUME NEW f \in Fingerprint, LookUp(r, f) PROVE TypeOK'
  <2>1. /\ [r EXCEPT !.work = "aborted"] \in Run
        /\ [r EXCEPT !.known = r.known \cup {f}] \in Run
        /\ [r EXCEPT !.call = {f}] \in Run
    BY <1>0 DEF Run
  <2>2. runs' \subseteq Run
    BY <1>1, <2>1 DEF LookUp, Becomes, TypeOK
  <2>3. QED
    BY <1>1, <2>2 DEF LookUp, TypeOK
<1>2. ASSUME SaveRead(r) PROVE TypeOK'
  <2>1. r.call \in SUBSET Fingerprint
    BY <1>0 DEF Run
  <2>2. Fresh("save", r.t, r.own,
              [rec[r.t] EXCEPT !.saved = rec[r.t].saved \cup r.call]) \in Txn
    BY <1>0, <2>1, RecordUpdates, FreshType
  <2>3. [r EXCEPT !.work = "aborted", !.call = {}] \in Run
    BY <1>0 DEF Run
  <2>4. runs' \subseteq Run /\ txn' \subseteq Txn
    BY <1>2, <2>2, <2>3 DEF SaveRead, Becomes, TypeOK
  <2>5. QED
    BY <1>2, <2>4 DEF SaveRead, TypeOK
<1>3. ASSUME NEW x \in txn, SaveExec(x, r) PROVE TypeOK'
  <2>1. x.t \in Task /\ x.new \in Record
    BY DEF TypeOK, Txn
  <2>2. [r EXCEPT !.known = r.known \cup r.call, !.call = {}] \in Run
    BY <1>0 DEF Run
  <2>3. runs' \subseteq Run
    BY <1>3, <2>2 DEF SaveExec, Becomes, TypeOK
  <2>4. QED
    BY <1>3, <2>1, <2>3, StoreType DEF SaveExec, TypeOK
<1>4. ASSUME RunnerReturns(r) PROVE TypeOK'
  <2>1. /\ [r EXCEPT !.work = "ok"] \in Run
        /\ [r EXCEPT !.work = "error", !.call = {}] \in Run
    BY <1>0 DEF Run
  <2>2. runs' \subseteq Run
    BY <1>4, <2>1 DEF RunnerReturns, Becomes, TypeOK
  <2>3. QED
    BY <1>4, <2>2 DEF RunnerReturns, TypeOK
<1>5. QED
  BY <1>1, <1>2, <1>3, <1>4

LEMMA MainTypes ==
  ASSUME TypeOK, NEW r \in runs
  PROVE  /\ MainWakes(r) => TypeOK'
         /\ FinishRead(r) => TypeOK'
         /\ \A x \in txn : FinishExec(x, r) => TypeOK'
         /\ Interrupt(r) => TypeOK'
<1>0. r \in Run /\ r.t \in Task /\ r.own \in Token /\ rec[r.t] \in Record
  BY DEF TypeOK, Run
<1>1. ASSUME MainWakes(r) PROVE TypeOK'
  <2>1. /\ r.work \in {"ok", "error"} => [r EXCEPT !.out = r.work] \in Run
        /\ [r EXCEPT !.out = "timeout"] \in Run
    BY <1>0 DEF Run
  <2>2. runs' \subseteq Run /\ txn' \subseteq Txn
    BY <1>1, <2>1, CloseType DEF MainWakes, Becomes, TypeOK
  <2>3. QED
    BY <1>1, <2>2 DEF MainWakes, TypeOK
<1>2. ASSUME FinishRead(r) PROVE TypeOK'
  <2>1. r.attempt \in 0 .. MaxAttempts
    BY <1>0 DEF Run
  <2>2. \A s \in Terminal : Fresh("finish", r.t, r.own,
              [rec[r.t] EXCEPT !.status = s, !.by = r.attempt]) \in Txn
    BY <1>0, <2>1, RecordUpdates, FreshType
  <2>3. runs' \subseteq Run /\ txn' \subseteq Txn
    BY <1>2, <2>2, CloseType DEF FinishRead, TypeOK, Terminal
  <2>4. QED
    BY <1>2, <2>3 DEF FinishRead, TypeOK
<1>3. ASSUME NEW x \in txn, FinishExec(x, r) PROVE TypeOK'
  <2>1. x.t \in Task /\ x.new \in Record
    BY DEF TypeOK, Txn
  <2>2. QED
    BY <1>3, <2>1, StoreType, CloseType DEF FinishExec, TypeOK
<1>4. ASSUME Interrupt(r) PROVE TypeOK'
  BY <1>4, CloseType DEF Interrupt, TypeOK
<1>5. QED
  BY <1>1, <1>2, <1>3, <1>4

LEMMA ClientTypes ==
  ASSUME TypeOK, NEW t \in Task
  PROVE  /\ Submit(t) => TypeOK'
         /\ Expire(t) => TypeOK'
         /\ \A w \in Worker : Cancel(w, t) => TypeOK'
<1>1. ASSUME Submit(t) PROVE TypeOK'
  <2>1. PICK now \in Now : Store(t, [Absent EXCEPT !.status = "queued",
                                                 !.deadline = now + TimeoutS])
    BY <1>1 DEF Submit
  <2>2. now + TimeoutS \in Nat
    BY NowIsNat
  <2>3. [Absent EXCEPT !.status = "queued", !.deadline = now + TimeoutS] \in Record
    BY <2>2, AbsentType, RecordUpdates
  <2>4. QED
    BY <1>1, <2>1, <2>3, StoreType DEF Submit, TypeOK
<1>2. ASSUME Expire(t) PROVE TypeOK'
  BY <1>2, AbsentType DEF Expire, TypeOK
<1>3. ASSUME NEW w \in Worker, Cancel(w, t) PROVE TypeOK'
  <2>1. [rec[t] EXCEPT !.status = "canceled"] \in Record
    BY RecordUpdates DEF TypeOK
  <2>2. QED
    BY <1>3, <2>1, StoreType DEF Cancel, TypeOK
<1>4. QED
  BY <1>1, <1>2, <1>3

LEMMA RetryType == ASSUME TypeOK, NEW x \in txn, Retry(x) PROVE TypeOK'
  BY DEF Retry, TypeOK

LEMMA TypeStep == TypeOK /\ [Next]_vars => TypeOK'
<1> SUFFICES ASSUME TypeOK, [Next]_vars PROVE TypeOK'
  OBVIOUS
<1>1. CASE Tick
  BY <1>1 DEF Tick, TypeOK
<1>2. CASE \E t \in Task : Submit(t) \/ Expire(t)
  BY <1>2, ClientTypes
<1>3. CASE \E w \in Worker : SweepStep(w) \/ SweepFault(w) \/ Crash(w)
  BY <1>3, SweepTypes, ClaimReadType, ClaimExecType, RetryType DEF SweepStep
<1>4. CASE \E w \in Worker, t \in Task : Cancel(w, t)
  BY <1>4, ClientTypes
<1>5. CASE \E r \in runs : BeatStep(r) \/ RunnerStep(r) \/ MainStep(r) \/ Interrupt(r)
  BY <1>5, BeatTypes, RunnerTypes, MainTypes, RetryType
     DEF BeatStep, RunnerStep, MainStep, TxnsOf
<1>6. CASE UNCHANGED vars
  BY <1>6 DEF vars, TypeOK
<1>7. QED
  BY <1>1, <1>2, <1>3, <1>4, <1>5, <1>6 DEF Next

\* The record, the pending set, the executions and the updates in flight keep
\* their types in every reachable state; in particular no command is claimed
\* more than MaxAttempts times (max_attempts of the executor).
THEOREM TypeCorrect == Spec => []TypeOK
<1>1. QED
  BY TypeInit, TypeStep, PTL DEF Spec
-----------------------------------------------------------------------------
(* What one step can do to the records.                                    *)

Untouched(t) ==
    rec'[t].attempt = rec[t].attempt /\ rec'[t].owner = rec[t].owner

Accepted(t) ==
    /\ rec[t] = Absent
    /\ rec'[t].status = "queued" /\ rec'[t].owner = NoOwner
    /\ rec'[t].attempt = 0 /\ rec'[t].by = 0
    /\ \E now \in Now : rec'[t].deadline = now + TimeoutS
Forgotten(t) ==
    rec[t].status # "absent" /\ expires[t] <= clock /\ rec'[t] = Absent
GivenUp(t) ==
    /\ rec'[t].status \in {"failed", "canceled"}
    /\ Untouched(t) /\ rec'[t].by = rec[t].by
Begun(t) ==
    /\ rec'[t].status = "running"
    /\ rec[t].attempt < MaxAttempts /\ rec'[t].attempt = rec[t].attempt + 1
    /\ rec'[t].by = rec[t].by
Touched(t) ==
    /\ rec[t].status = "running" /\ rec'[t].status = "running"
    /\ Untouched(t) /\ rec'[t].by = rec[t].by
Delivered(t) ==
    /\ rec[t].status = "running" /\ rec'[t].status \in {"succeeded", "failed"}
    /\ Untouched(t) /\ rec'[t].by = rec[t].attempt

Effect(t) ==
    /\ \A u \in Task \ {t} : rec'[u] = rec[u]
    /\ \/ Accepted(t)
       \/ Forgotten(t)
       \/ /\ rec[t].status \in Open /\ rec[t].saved \subseteq rec'[t].saved
          /\ rec'[t].deadline = rec[t].deadline
          /\ GivenUp(t) \/ Begun(t) \/ Touched(t) \/ Delivered(t)

LEMMA StoreEffect ==
  ASSUME TypeOK, NEW t \in Task, NEW new, Store(t, new)
  PROVE  rec'[t] = new /\ \A u \in Task \ {t} : rec'[u] = rec[u]
  BY DEF Store, TypeOK

LEMMA ClientEffects ==
  ASSUME TypeOK, RecordsLawful, NEW t \in Task
  PROVE  /\ Submit(t) => Effect(t)
         /\ Expire(t) => Effect(t)
         /\ \A w \in Worker : Cancel(w, t) => Effect(t)
<1>1. ASSUME Submit(t) PROVE Effect(t)
  <2>1. PICK now \in Now : Store(t, [Absent EXCEPT !.status = "queued",
                                                 !.deadline = now + TimeoutS])
    BY <1>1 DEF Submit
  <2>2. rec[t] = Absent
    BY <1>1 DEF Submit, RecordsLawful
  <2>3. /\ rec'[t] = [Absent EXCEPT !.status = "queued", !.deadline = now + TimeoutS]
        /\ \A u \in Task \ {t} : rec'[u] = rec[u]
    BY <2>1, StoreEffect
  <2>4. Accepted(t)
    BY <2>2, <2>3 DEF Accepted, Absent
  <2>5. QED
    BY <2>3, <2>4 DEF Effect
<1>2. ASSUME Expire(t) PROVE Effect(t)
  BY <1>2 DEF Expire, Effect, Forgotten, TypeOK
<1>3. ASSUME NEW w \in Worker, Cancel(w, t) PROVE Effect(t)
  <2>1. rec[t] \in Record /\ rec[t].status \in Open
    BY <1>3 DEF Cancel, TypeOK
  <2>2. Store(t, [rec[t] EXCEPT !.status = "canceled"])
    BY <1>3 DEF Cancel
  <2>3. /\ GivenUp(t) /\ rec[t].saved \subseteq rec'[t].saved
        /\ rec'[t].deadline = rec[t].deadline
    BY <2>1, <2>2, StoreEffect DEF GivenUp, Untouched, Record
  <2>4. QED
    BY <2>1, <2>2, <2>3, StoreEffect DEF Effect
<1>4. QED
  BY <1>1, <1>2, <1>3

LEMMA ExecEffects ==
  ASSUME TypeOK, UpdatesLawful, NEW x \in txn, Unwatched(x), Store(x.t, x.new),
         x.op \in {"claim", "renew", "save", "finish"}
  PROVE  Effect(x.t)
<1>1. x.t \in Task /\ x.old \in Record /\ x.new \in Record
  BY DEF TypeOK, Txn
<1>2. /\ rec[x.t] = x.old /\ rec'[x.t] = x.new
      /\ \A u \in Task \ {x.t} : rec'[u] = rec[u]
  BY <1>1, StoreEffect DEF Unwatched
<1>3. /\ x.old.status \in Open /\ x.old.saved \subseteq x.new.saved
      /\ x.new.deadline = x.old.deadline
  BY DEF UpdatesLawful, Lawful
<1>4. CASE x.op = "claim" /\ x.new = [x.old EXCEPT !.status = "failed"]
  <2>1. GivenUp(x.t)
    BY <1>1, <1>2, <1>4 DEF GivenUp, Untouched, Record
  <2>2. QED
    BY <1>2, <1>3, <2>1 DEF Effect
<1>5. CASE x.op = "claim" /\ x.new # [x.old EXCEPT !.status = "failed"]
  <2>1. Begun(x.t)
    BY <1>2, <1>5 DEF Begun, UpdatesLawful, Lawful
  <2>2. QED
    BY <1>2, <1>3, <2>1 DEF Effect
<1>6. CASE x.op \in {"renew", "save"}
  <2>1. Touched(x.t)
    BY <1>2, <1>6 DEF Touched, Untouched, UpdatesLawful, Lawful
  <2>2. QED
    BY <1>2, <1>3, <2>1 DEF Effect
<1>7. CASE x.op = "finish"
  <2>1. Delivered(x.t)
    BY <1>2, <1>7 DEF Delivered, Untouched, UpdatesLawful, Lawful
  <2>2. QED
    BY <1>2, <1>3, <2>1 DEF Effect
<1>8. QED
  BY <1>4, <1>5, <1>6, <1>7

\* Every step leaves all records alone or has one of the effects on one of them.
LEMMA Effects ==
  TypeOK /\ UpdatesLawful /\ RecordsLawful /\ [Next]_vars
    => UNCHANGED rec \/ \E t \in Task : Effect(t)
<1> SUFFICES ASSUME TypeOK, UpdatesLawful, RecordsLawful, [Next]_vars
             PROVE  UNCHANGED rec \/ \E t \in Task : Effect(t)
  OBVIOUS
<1>0. \A x \in txn : x.t \in Task
  BY DEF TypeOK, Txn
<1>1. CASE \E t \in Task : Submit(t) \/ Expire(t)
  BY <1>1, ClientEffects
<1>2. CASE \E w \in Worker, t \in Task : Cancel(w, t)
  BY <1>2, ClientEffects
<1>3. CASE \E w \in Worker : SweepStep(w) \/ SweepFault(w) \/ Crash(w)
  <2>1. CASE \E x \in txn : ClaimExec(x)
    BY <1>0, <2>1, ExecEffects DEF ClaimExec
  <2>2. CASE ~\E x \in txn : ClaimExec(x)
    BY <1>3, <2>2 DEF SweepStep, SweepPoll, SweepGet, SweepZrem, ClaimRead, Retry,
                      SweepFault, Crash
  <2>3. QED
    BY <2>1, <2>2
<1>4. CASE \E r \in runs : BeatStep(r) \/ RunnerStep(r) \/ MainStep(r) \/ Interrupt(r)
  <2>1. CASE \E r \in runs, x \in txn : RenewExec(x) \/ SaveExec(x, r) \/ FinishExec(x, r)
    BY <1>0, <2>1, ExecEffects DEF RenewExec, SaveExec, FinishExec
  <2>2. CASE ~\E r \in runs, x \in txn : RenewExec(x) \/ SaveExec(x, r) \/ FinishExec(x, r)
    BY <1>4, <2>2 DEF BeatStep, RunnerStep, MainStep, Interrupt, BeatRead, LookUp,
                      SaveRead, RunnerReturns, MainWakes, FinishRead, Retry, TxnsOf
  <2>3. QED
    BY <2>1, <2>2
<1>5. CASE Tick \/ UNCHANGED vars
  BY <1>5 DEF Tick, vars
<1>6. QED
  BY <1>1, <1>2, <1>3, <1>4, <1>5 DEF Next
-----------------------------------------------------------------------------
(* Fencing.                                                                *)

LEMMA FencedInit == Init => Fenced
  BY DEF Init, Fenced, UpdatesLawful, RecordsLawful, TokensLawful, Absent

LEMMA RecordsStep ==
  TypeOK /\ UpdatesLawful /\ RecordsLawful /\ [Next]_vars => RecordsLawful'
<1> SUFFICES ASSUME TypeOK, UpdatesLawful, RecordsLawful, [Next]_vars,
                    NEW t \in Task
             PROVE  /\ rec'[t].status = "queued" => rec'[t].owner = NoOwner
                    /\ rec'[t].status = "absent" => rec'[t] = Absent
  BY DEF RecordsLawful
<1>1. CASE rec'[t] = rec[t]
  BY <1>1 DEF RecordsLawful
<1>2. CASE Effect(t)
  BY <1>2 DEF Effect, Accepted, Forgotten, GivenUp, Begun, Touched, Delivered, Absent
<1>3. QED
  BY <1>1, <1>2, Effects DEF Effect

\* Who owns a record is running it: an unclaimed record has no owner at all.
LEMMA OwnerRuns ==
  ASSUME TypeOK, RecordsLawful, NEW r \in runs, NEW now \in Now, Owned(r, now)
  PROVE  rec[r.t].status = "running" /\ rec[r.t].owner = r.own
<1>1. r.t \in Task /\ r.own \in Token /\ rec[r.t] \in Record
  BY DEF TypeOK, Run
<1>2. r.own # NoOwner
  BY <1>1 DEF Token
<1>3. rec[r.t].owner = r.own /\ rec[r.t].status \notin Terminal
  BY DEF Owned
<1>4. QED
  BY <1>1, <1>2, <1>3 DEF Record, Open, RecordsLawful, Absent

LEMMA ClaimReadLawful ==
  ASSUME TypeOK, NEW w \in Worker, NEW t \in Task, ClaimRead(w, t)
  PROVE  \A x \in txn' \ txn : /\ x.op = "claim" /\ x.t = t
                               /\ x.own = <<w, issued[t] + 1>> /\ Lawful(x)
<1> DEFINE own == <<w, issued[t] + 1>>
<1>1. rec[t] \in Record
  BY DEF TypeOK
<1>2. PICK now \in Now :
        \/ UNCHANGED txn
        \/ /\ Claimable(rec[t], now)
           /\ txn' = txn \cup
                {Fresh("claim", t, own, [rec[t] EXCEPT !.status = "failed"])}
        \/ /\ Claimable(rec[t], now) /\ ~Exhausted(rec[t], now)
           /\ txn' = txn \cup
                {Fresh("claim", t, own,
                   [rec[t] EXCEPT !.status = "running", !.owner = own,
                                  !.lease = LeaseUntil(now),
                                  !.attempt = rec[t].attempt + 1])}
  BY DEF ClaimRead
<1>3. CASE UNCHANGED txn
  BY <1>3
<1>4. CASE /\ Claimable(rec[t], now)
           /\ txn' = txn \cup
                {Fresh("claim", t, own, [rec[t] EXCEPT !.status = "failed"])}
  BY <1>1, <1>4 DEF Fresh, Lawful, Claimable, Record
<1>5. CASE /\ Claimable(rec[t], now) /\ ~Exhausted(rec[t], now)
           /\ txn' = txn \cup
                {Fresh("claim", t, own,
                   [rec[t] EXCEPT !.status = "running", !.owner = own,
                                  !.lease = LeaseUntil(now),
                                  !.attempt = rec[t].attempt + 1])}
  <2> DEFINE new == [rec[t] EXCEPT !.status = "running", !.owner = own,
                                   !.lease = LeaseUntil(now),
                                   !.attempt = rec[t].attempt + 1]
  <2>1. rec[t].attempt < MaxAttempts /\ rec[t].status \in Open
    BY <1>1, <1>5 DEF Claimable, Exhausted, Record
  <2>2. /\ new.status = "running" /\ new.owner = own /\ new.saved = rec[t].saved
        /\ new.attempt = rec[t].attempt + 1 /\ new.by = rec[t].by
        /\ new.deadline = rec[t].deadline
    BY <1>1 DEF Record
  <2>3. txn' = txn \cup {Fresh("claim", t, own, new)}
    BY <1>5
  <2>4. Lawful(Fresh("claim", t, own, new))
    <3> HIDE DEF new
    <3> QED
      BY <2>1, <2>2 DEF Fresh, Lawful
  <2>5. QED
    BY <2>3, <2>4 DEF Fresh
<1>6. QED
  BY <1>2, <1>3, <1>4, <1>5

LEMMA OwnerReadsLawful ==
  ASSUME TypeOK, RecordsLawful, TokensLawful, NEW r \in runs,
         BeatRead(r) \/ SaveRead(r) \/ FinishRead(r)
  PROVE  \A x \in txn' \ txn : x.op # "claim" /\ Lawful(x)
<1>1. r \in Run /\ rec[r.t] \in Record
  BY DEF TypeOK, Run
<1>2. CASE BeatRead(r)
  <2>1. PICK now \in Now :
          \/ /\ Owned(r, now)
             /\ txn' = txn \cup {Fresh("renew", r.t, r.own,
                                   [rec[r.t] EXCEPT !.lease = LeaseUntil(now)])}
          \/ UNCHANGED txn
    BY <1>2 DEF BeatRead
  <2>2. QED
    BY <1>1, <2>1, OwnerRuns DEF Fresh, Lawful, Open, Record
<1>3. CASE SaveRead(r)
  <2>1. PICK now \in Now :
          \/ /\ Owned(r, now)
             /\ txn' = txn \cup {Fresh("save", r.t, r.own,
                                   [rec[r.t] EXCEPT !.saved = rec[r.t].saved \cup r.call])}
          \/ UNCHANGED txn
    BY <1>3 DEF SaveRead
  <2>2. QED
    BY <1>1, <2>1, OwnerRuns DEF Fresh, Lawful, Open, Record
<1>4. CASE FinishRead(r)
  <2>1. PICK now \in Now :
          \/ /\ Owned(r, now)
             /\ \E s \in {"succeeded", "failed"} :
                  txn' = txn \cup {Fresh("finish", r.t, r.own,
                           [rec[r.t] EXCEPT !.status = s, !.by = r.attempt])}
          \/ txn' \subseteq txn
    BY <1>4 DEF FinishRead, Close
  <2>2. CASE txn' \subseteq txn
    BY <2>2
  <2>3. CASE Owned(r, now)
    <3>1. rec[r.t].status = "running" /\ rec[r.t].owner = r.own
      BY <2>3, OwnerRuns
    <3>2. r.attempt = rec[r.t].attempt
      BY <3>1 DEF TokensLawful
    <3>3. \A s \in {"succeeded", "failed"} :
            Lawful(Fresh("finish", r.t, r.own,
                         [rec[r.t] EXCEPT !.status = s, !.by = r.attempt]))
      BY <1>1, <3>1, <3>2 DEF Fresh, Lawful, Open, Record
    <3>4. QED
      BY <2>1, <3>3 DEF Fresh
  <2>4. QED
    BY <2>1, <2>2, <2>3
<1>5. QED
  BY <1>2, <1>3, <1>4

LEMMA UpdatesStep ==
  TypeOK /\ Fenced /\ [Next]_vars => UpdatesLawful'
<1> SUFFICES ASSUME TypeOK, UpdatesLawful, RecordsLawful, TokensLawful, [Next]_vars,
                    NEW x \in txn' \ txn
             PROVE  Lawful(x)
  BY DEF Fenced, UpdatesLawful
<1>1. CASE \E w \in Worker, t \in Task : ClaimRead(w, t)
  BY <1>1, ClaimReadLawful
<1>2. CASE \E r \in runs : BeatRead(r) \/ SaveRead(r) \/ FinishRead(r)
  BY <1>2, OwnerReadsLawful
<1>3. CASE /\ ~\E w \in Worker, t \in Task : ClaimRead(w, t)
           /\ ~\E r \in runs : BeatRead(r) \/ SaveRead(r) \/ FinishRead(r)
  BY <1>3 DEF Next, Tick, Submit, Expire, Cancel, SweepStep, SweepPoll, SweepGet,
              SweepZrem, ClaimExec, Retry, SweepFault, Crash, BeatStep, RenewExec,
              RunnerStep, LookUp, SaveExec, RunnerReturns, MainStep, MainWakes,
              FinishExec, Interrupt, Close, vars
<1>4. QED
  BY <1>1, <1>2, <1>3

\* A step that grants no token, starts no execution and computes no claim.
Quiet ==
    /\ UNCHANGED issued
    /\ \A s \in runs' : \E r \in runs :
         s.t = r.t /\ s.own = r.own /\ s.attempt = r.attempt
    /\ \A x \in txn' : x.op = "claim" => x \in txn
    /\ \A t \in Task : \/ rec'[t].owner = NoOwner
                       \/ Untouched(t)

LEMMA QuietTokens ==
  ASSUME TypeOK, TypeOK', TokensLawful, Quiet
  PROVE  TokensLawful'
<1>1. ASSUME NEW s \in runs'
      PROVE  /\ s.own[2] <= issued'[s.t]
             /\ rec'[s.t].owner = s.own => rec'[s.t].attempt = s.attempt
  <2>1. PICK r \in runs : s.t = r.t /\ s.own = r.own /\ s.attempt = r.attempt
    BY DEF Quiet
  <2>2. r.t \in Task /\ r.own # NoOwner
    BY DEF TypeOK, Run, Token
  <2>3. rec'[r.t].owner = NoOwner \/ Untouched(r.t)
    BY <2>2 DEF Quiet
  <2>4. QED
    BY <2>1, <2>2, <2>3 DEF Quiet, TokensLawful, Untouched
<1>2. ASSUME NEW x \in txn', x.op = "claim"
      PROVE  /\ x.own[2] <= issued'[x.t] + 1
             /\ \A s \in runs' : s.t = x.t => s.own # x.own
  <2>1. x \in txn
    BY <1>2 DEF Quiet
  <2>2. x.own[2] <= issued'[x.t] + 1
    BY <1>2, <2>1 DEF Quiet, TokensLawful
  <2>3. ASSUME NEW s \in runs', s.t = x.t PROVE s.own # x.own
    <3>1. PICK r \in runs : s.t = r.t /\ s.own = r.own
      BY DEF Quiet
    <3>2. QED
      BY <1>2, <2>1, <2>3, <3>1 DEF TokensLawful
  <2>4. QED
    BY <2>2, <2>3
<1>3. ASSUME NEW x \in txn', NEW y \in txn',
             x.op = "claim", y.op = "claim", x.own[1] = y.own[1]
      PROVE  x = y
  BY <1>3 DEF Quiet, TokensLawful
<1>4. QED
  BY <1>1, <1>2, <1>3 DEF TokensLawful

LEMMA ClaimReadTokens ==
  ASSUME TypeOK, TokensLawful, NEW w \in Worker, NEW t \in Task, ClaimRead(w, t)
  PROVE  TokensLawful'
<1>1. UNCHANGED <<rec, runs, issued>> /\ ~\E x \in txn : x.op = "claim" /\ x.own[1] = w
  BY DEF ClaimRead
<1>2. \A x \in txn' \ txn : x.op = "claim" /\ x.t = t /\ x.own = <<w, issued[t] + 1>>
  BY ClaimReadLawful
<1>3. \A x, y \in txn' \ txn : x = y
  BY DEF ClaimRead
<1>4. \A r \in runs : r.own[2] \in Nat /\ r.t \in Task /\ issued[r.t] \in Nat
  BY DEF TypeOK, Run, Token
<1>5. ASSUME NEW x \in txn' \ txn
      PROVE  /\ x.own[2] <= issued[x.t] + 1
             /\ \A r \in runs : r.t = x.t => r.own # x.own
  <2>1. x.t = t /\ x.own = <<w, issued[t] + 1>> /\ issued[t] \in Nat
    BY <1>2 DEF TypeOK
  <2>2. x.own[2] = issued[t] + 1
    BY <2>1
  <2>3. ASSUME NEW r \in runs, r.t = t PROVE r.own # x.own
    <3>1. r.own[2] <= issued[t]
      BY <2>3 DEF TokensLawful
    <3>2. r.own[2] # x.own[2]
      BY <1>4, <2>1, <2>2, <3>1
    <3>3. QED
      BY <3>2
  <2>4. QED
    BY <2>1, <2>2, <2>3
<1>6. ASSUME NEW x \in txn', NEW y \in txn',
             x.op = "claim", y.op = "claim", x.own[1] = y.own[1]
      PROVE  x = y
  <2>1. CASE x \in txn /\ y \in txn
    BY <1>6, <2>1 DEF TokensLawful
  <2>2. CASE x \notin txn /\ y \notin txn
    BY <1>3, <2>2
  <2>3. CASE x \in txn /\ y \notin txn
    BY <1>1, <1>2, <1>6, <2>3
  <2>4. CASE x \notin txn /\ y \in txn
    BY <1>1, <1>2, <1>6, <2>4
  <2>5. QED
    BY <2>1, <2>2, <2>3, <2>4
<1>7. QED
  BY <1>1, <1>5, <1>6 DEF TokensLawful

LEMMA ClaimExecTokens ==
  ASSUME TypeOK, TypeOK', UpdatesLawful, TokensLawful, NEW x \in txn, ClaimExec(x)
  PROVE  TokensLawful'
<1>1. /\ x.op = "claim" /\ x.t \in Task /\ x.new \in Record /\ x.own \in Token
      /\ issued[x.t] \in Nat
  BY DEF ClaimExec, TypeOK, Txn
<1>2. /\ rec[x.t] = x.old /\ rec'[x.t] = x.new
      /\ \A u \in Task \ {x.t} : rec'[u] = rec[u]
  BY <1>1, StoreEffect DEF ClaimExec, Unwatched
<1>3. txn' = txn \ {x}
  BY DEF ClaimExec
<1>4. CASE x.new.status # "running"
  <2>1. x.new = [x.old EXCEPT !.status = "failed"]
    BY <1>1, <1>4 DEF UpdatesLawful, Lawful
  <2>2. \A t \in Task : Untouched(t)
    BY <1>1, <1>2, <2>1 DEF Untouched, TypeOK, Record
  <2>3. UNCHANGED <<runs, issued>>
    BY <1>4 DEF ClaimExec
  <2>4. QED
    BY <1>3, <2>2, <2>3, QuietTokens DEF Quiet
<1>5. CASE x.new.status = "running"
  <2> DEFINE n == NewRun(x)
  <2>1. runs' = Replaced(x) \cup {n} /\ issued' = [issued EXCEPT ![x.t] = issued[x.t] + 1]
    BY <1>5 DEF ClaimExec
  <2>2. n.t = x.t /\ n.own = x.own /\ n.attempt = x.new.attempt
    BY DEF NewRun
  <2> HIDE DEF n
  <2>3. \A s \in Replaced(x) : \E r \in runs :
          s.t = r.t /\ s.own = r.own /\ s.attempt = r.attempt
    <3>1. \A r \in runs : LET s == [r EXCEPT !.tracked = FALSE] IN
            s.t = r.t /\ s.own = r.own /\ s.attempt = r.attempt
      BY DEF TypeOK, Run
    <3>2. QED
      BY <3>1 DEF Replaced
  <2>4. /\ issued'[x.t] = issued[x.t] + 1
        /\ \A t \in Task \ {x.t} : issued'[t] = issued[t]
    BY <1>1, <2>1 DEF TypeOK
  <2>5. x.new = [x.old EXCEPT !.status = "failed"] => FALSE
    BY <1>1, <1>2, <1>5 DEF TypeOK, Record
  <2>6. x.own[2] <= issued'[x.t] /\ x.new.owner = x.own
    BY <1>1, <2>4, <2>5 DEF UpdatesLawful, Lawful, TokensLawful, Token
  <2>7. \A r \in runs : r.t = x.t => r.own # x.own
    BY <1>1 DEF TokensLawful
  <2>8. \A r \in runs : /\ r.t \in Task /\ r.own \in Token
                        /\ r.own[2] \in Nat /\ issued[r.t] \in Nat
    BY DEF TypeOK, Run, Token
  <2>9. ASSUME NEW s \in runs'
        PROVE  /\ s.own[2] <= issued'[s.t]
               /\ rec'[s.t].owner = s.own => rec'[s.t].attempt = s.attempt
    <3>1. CASE s = n
      BY <1>2, <2>2, <2>6, <3>1
    <3>2. CASE s \in Replaced(x)
      <4>1. PICK r \in runs : s.t = r.t /\ s.own = r.own /\ s.attempt = r.attempt
        BY <2>3, <3>2
      <4>2. r.own[2] <= issued'[r.t]
        BY <1>1, <2>4, <2>8 DEF TokensLawful
      <4>3. rec'[r.t].owner = r.own => rec'[r.t].attempt = r.attempt
        BY <1>2, <2>6, <2>7, <2>8 DEF TokensLawful
      <4>4. QED
        BY <4>1, <4>2, <4>3
    <3>3. QED
      BY <2>1, <3>1, <3>2
  <2>10. ASSUME NEW y \in txn', y.op = "claim"
         PROVE  /\ y.own[2] <= issued'[y.t] + 1
                /\ \A s \in runs' : s.t = y.t => s.own # y.own
    <3>1. y \in txn /\ y # x /\ y.t \in Task /\ y.own \in Token
      BY <1>3 DEF TypeOK, Txn
    <3>2. y.own[2] \in Nat /\ issued[y.t] \in Nat
      BY <3>1 DEF TypeOK, Token
    <3>3. y.own[2] <= issued[y.t] + 1
      BY <2>10, <3>1 DEF TokensLawful
    <3>4. y.own[2] <= issued'[y.t] + 1
      BY <1>1, <2>4, <3>1, <3>2, <3>3
    <3>5. y.own[1] # x.own[1]
      BY <1>1, <2>10, <3>1 DEF TokensLawful
    <3>6. ASSUME NEW s \in runs', s.t = y.t PROVE s.own # y.own
      <4>1. CASE s = n
        BY <2>2, <3>5, <4>1
      <4>2. CASE s \in Replaced(x)
        BY <2>3, <2>10, <3>1, <3>6, <4>2 DEF TokensLawful
      <4>3. QED
        BY <2>1, <4>1, <4>2
    <3>7. QED
      BY <3>4, <3>6
  <2>11. \A y, z \in txn' :
           y.op = "claim" /\ z.op = "claim" /\ y.own[1] = z.own[1] => y = z
    BY <1>3 DEF TokensLawful
  <2>12. QED
    BY <2>9, <2>10, <2>11 DEF TokensLawful
<1>6. QED
  BY <1>4, <1>5

LEMMA SweepQuiet ==
  ASSUME TypeOK, NEW w \in Worker
  PROVE  /\ SweepPoll(w) \/ SweepFault(w) \/ Crash(w) => Quiet
         /\ \A t \in Task : SweepGet(w, t) \/ SweepZrem(w, t) => Quiet
<1>1. \A r \in runs : \E s \in runs : r.t = s.t /\ r.own = s.own /\ r.attempt = s.attempt
  OBVIOUS
<1>2. QED
  BY <1>1 DEF SweepPoll, SweepFault, Crash, SweepGet, SweepZrem, Quiet, Untouched

LEMMA ClientQuiet ==
  ASSUME TypeOK, RecordsLawful, NEW t \in Task
  PROVE  /\ Submit(t) => Quiet
         /\ Expire(t) => Quiet
         /\ \A w \in Worker : Cancel(w, t) => Quiet
<1>1. ASSUME Effect(t), Accepted(t) \/ Forgotten(t) \/ GivenUp(t)
      PROVE  \A u \in Task : rec'[u].owner = NoOwner \/ Untouched(u)
  BY <1>1 DEF Effect, Accepted, Forgotten, GivenUp, Untouched, Absent
<1>2. ASSUME Submit(t) PROVE Quiet
  <2>1. rec[t].status = "absent"
    BY <1>2 DEF Submit
  <2>2. Effect(t) /\ (Accepted(t) \/ Forgotten(t))
    BY <1>2, <2>1, ClientEffects DEF Effect, Open
  <2>3. QED
    BY <1>1, <1>2, <2>2 DEF Submit, Quiet
<1>3. ASSUME Expire(t) PROVE Quiet
  <2>1. \A u \in Task : rec'[u].owner = NoOwner \/ Untouched(u)
    BY <1>3 DEF Expire, Untouched, Absent, TypeOK
  <2>2. QED
    BY <1>3, <2>1 DEF Expire, Quiet
<1>4. ASSUME NEW w \in Worker, Cancel(w, t) PROVE Quiet
  <2>1. \A u \in Task : Untouched(u)
    BY <1>4, StoreEffect DEF Cancel, Untouched, TypeOK, Record
  <2>2. runs' \subseteq runs /\ txn' \subseteq txn /\ UNCHANGED issued
    BY <1>4 DEF Cancel
  <2>3. QED
    BY <2>1, <2>2 DEF Quiet
<1>5. QED
  BY <1>2, <1>3, <1>4

\* What an execution does to its own entry keeps its command, token and attempt.
LEMMA RunnerQuiet ==
  ASSUME TypeOK, RecordsLawful, TokensLawful, NEW r \in runs,
         \/ BeatRead(r) \/ SaveRead(r) \/ FinishRead(r)
         \/ \E f \in Fingerprint : LookUp(r, f)
         \/ RunnerReturns(r) \/ MainWakes(r) \/ Interrupt(r)
  PROVE  Quiet
<1>1. r \in Run
  BY DEF TypeOK
<1>2. /\ UNCHANGED <<rec, issued>>
      /\ runs' \subseteq runs \/ \E new : Becomes(r, new)
                                   /\ new.t = r.t /\ new.own = r.own
                                   /\ new.attempt = r.attempt
  <2>1. /\ UNCHANGED <<rec, issued>>
        /\ \/ runs' \subseteq runs
           \/ Becomes(r, [r EXCEPT !.beat = "lost"])
           \/ Becomes(r, [r EXCEPT !.work = "aborted", !.call = {}])
           \/ Becomes(r, [r EXCEPT !.work = "aborted"])
           \/ \E f \in Fingerprint : \/ Becomes(r, [r EXCEPT !.known = r.known \cup {f}])
                                     \/ Becomes(r, [r EXCEPT !.call = {f}])
           \/ Becomes(r, [r EXCEPT !.work = "ok"])
           \/ Becomes(r, [r EXCEPT !.work = "error", !.call = {}])
           \/ r.work \in {"ok", "error"} /\ Becomes(r, [r EXCEPT !.out = r.work])
           \/ Becomes(r, [r EXCEPT !.out = "timeout"])
    BY DEF BeatRead, SaveRead, FinishRead, LookUp, RunnerReturns, MainWakes, Interrupt,
           Close
  <2>2. \A new : \/ \E b : new = [r EXCEPT !.beat = b]
                 \/ \E w : new = [r EXCEPT !.work = w]
                 \/ \E w : new = [r EXCEPT !.work = w, !.call = {}]
                 \/ \E k : new = [r EXCEPT !.known = k]
                 \/ \E k : new = [r EXCEPT !.call = k]
                 \/ \E o : new = [r EXCEPT !.out = o]
                 => new.t = r.t /\ new.own = r.own /\ new.attempt = r.attempt
    BY <1>1 DEF Run
  <2>3. QED
    BY <2>1, <2>2
<1>3. \A x \in txn' : x.op = "claim" => x \in txn
  BY OwnerReadsLawful DEF LookUp, RunnerReturns, MainWakes, Interrupt, Close
<1>4. QED
  BY <1>2, <1>3 DEF Quiet, Becomes, Untouched

LEMMA WriteQuiet ==
  ASSUME TypeOK, UpdatesLawful, NEW r \in runs, NEW x \in TxnsOf(r),
         RenewExec(x) \/ SaveExec(x, r) \/ FinishExec(x, r)
  PROVE  Quiet
<1>1. x \in txn /\ x.t \in Task /\ x.op # "claim" /\ r \in Run
  BY DEF TypeOK, Txn, TxnsOf, RenewExec, SaveExec, FinishExec
<1>2. /\ rec[x.t] = x.old /\ rec'[x.t] = x.new
      /\ \A u \in Task \ {x.t} : rec'[u] = rec[u]
  BY <1>1, StoreEffect DEF RenewExec, SaveExec, FinishExec, Unwatched
<1>3. \A u \in Task : Untouched(u)
  <2>1. x.new.attempt = x.old.attempt /\ x.new.owner = x.old.owner
    BY <1>1 DEF UpdatesLawful, Lawful
  <2>2. QED
    BY <1>2, <2>1 DEF Untouched
<1>4. UNCHANGED issued /\ txn' \subseteq txn
  BY DEF RenewExec, SaveExec, FinishExec, Close
<1>5. runs' \subseteq runs \/ Becomes(r, [r EXCEPT !.known = r.known \cup r.call, !.call = {}])
  BY DEF RenewExec, SaveExec, FinishExec, Close
<1>6. QED
  BY <1>1, <1>3, <1>4, <1>5 DEF Quiet, Becomes, Run

LEMMA RetryQuiet == ASSUME TypeOK, NEW x \in txn, Retry(x) PROVE Quiet
  BY DEF Retry, Quiet, Untouched

LEMMA TokensStep ==
  TypeOK /\ TypeOK' /\ Fenced /\ [Next]_vars => TokensLawful'
<1> SUFFICES ASSUME TypeOK, TypeOK', UpdatesLawful, RecordsLawful, TokensLawful, [Next]_vars
             PROVE  TokensLawful'
  BY DEF Fenced
<1>1. CASE \E w \in Worker, t \in Task : ClaimRead(w, t)
  BY <1>1, ClaimReadTokens
<1>2. CASE \E x \in txn : ClaimExec(x)
  BY <1>2, ClaimExecTokens
<1>3. CASE /\ ~\E w \in Worker, t \in Task : ClaimRead(w, t)
           /\ ~\E x \in txn : ClaimExec(x)
           /\ \E w \in Worker : SweepStep(w) \/ SweepFault(w) \/ Crash(w)
  <2>1. Quiet
    BY <1>3, SweepQuiet, RetryQuiet DEF SweepStep
  <2>2. QED
    BY <2>1, QuietTokens
<1>4. CASE \E t \in Task : Submit(t) \/ Expire(t) \/ \E w \in Worker : Cancel(w, t)
  <2>1. Quiet
    BY <1>4, ClientQuiet
  <2>2. QED
    BY <2>1, QuietTokens
<1>5. CASE \E r \in runs : BeatStep(r) \/ RunnerStep(r) \/ MainStep(r) \/ Interrupt(r)
  <2>1. Quiet
    BY <1>5, RunnerQuiet, WriteQuiet, RetryQuiet
       DEF BeatStep, RunnerStep, MainStep, TxnsOf
  <2>2. QED
    BY <2>1, QuietTokens
<1>6. CASE Tick \/ UNCHANGED vars
  BY <1>6 DEF Tick, vars, TokensLawful
<1>7. QED
  BY <1>1, <1>2, <1>3, <1>4, <1>5, <1>6 DEF Next

\* Whoever writes a record is its current owner (or a claim of an expired lease)
\* and computed the write from the record's current content: the docs' "only the
\* current holder may update the state", for every interleaving of processes.
THEOREM FencedAlways == Spec => []Fenced
<1>1. TypeOK /\ Fenced /\ [Next]_vars => Fenced'
  <2> SUFFICES ASSUME TypeOK, Fenced, [Next]_vars PROVE Fenced'
    OBVIOUS
  <2>1. TypeOK'
    BY TypeStep
  <2>2. QED
    BY <2>1, UpdatesStep, RecordsStep, TokensStep DEF Fenced
<1>2. QED
  BY <1>1, FencedInit, TypeCorrect, PTL DEF Spec
-----------------------------------------------------------------------------
(* What follows from fencing.                                              *)

LEMMA StepEffects ==
  TypeOK /\ Fenced /\ [Next]_vars => UNCHANGED rec \/ \E t \in Task : Effect(t)
  BY Effects DEF Fenced

\* An outcome is final: no late claim, cancel, renewal, checkpoint or finish of
\* any process rewrites a terminal record.
THEOREM OutcomesFinal == Spec => TerminalIsFinal
<1>1. TypeOK /\ Fenced /\ [Next]_vars =>
        [\A t \in Task : rec[t].status \in Terminal => rec'[t] \in {rec[t], Absent}]_vars
  <2> SUFFICES ASSUME TypeOK, Fenced, [Next]_vars,
                      NEW t \in Task, rec[t].status \in Terminal
               PROVE  rec'[t] \in {rec[t], Absent}
    OBVIOUS
  <2>1. CASE UNCHANGED rec
    BY <2>1
  <2>2. CASE \E u \in Task : Effect(u)
    BY <2>2 DEF Effect, Accepted, Forgotten, Terminal, Open, Absent
  <2>3. QED
    BY <2>1, <2>2, StepEffects
<1>2. QED
  BY <1>1, TypeCorrect, FencedAlways, PTL DEF Spec, TerminalIsFinal

\* A checkpointed model output is in every later version of its record.
THEOREM CheckpointsSurvive == Spec => CheckpointsKept
<1>1. TypeOK /\ Fenced /\ [Next]_vars =>
        [\A t \in Task : rec'[t].status # "absent" => rec[t].saved \subseteq rec'[t].saved]_vars
  <2> SUFFICES ASSUME TypeOK, Fenced, [Next]_vars,
                      NEW t \in Task, rec'[t].status # "absent"
               PROVE  rec[t].saved \subseteq rec'[t].saved
    OBVIOUS
  <2>1. CASE UNCHANGED rec
    BY <2>1
  <2>2. CASE \E u \in Task : Effect(u)
    BY <2>2 DEF Effect, Accepted, Forgotten, Absent
  <2>3. QED
    BY <2>1, <2>2, StepEffects
<1>2. QED
  BY <1>1, TypeCorrect, FencedAlways, PTL DEF Spec, CheckpointsKept
-----------------------------------------------------------------------------
(* The handles.                                                            *)

Same(s, r) ==
    /\ s.t = r.t /\ s.own = r.own /\ s.attempt = r.attempt
    /\ s.deadline = r.deadline /\ s.tracked = r.tracked

\* A step that starts no execution: some end, or one of them moves on.
Continues ==
    \/ runs' \subseteq runs
    \/ \E r \in runs : \E new : Becomes(r, new) /\ Same(new, r)

\* Only the EXEC of a claim starts an execution.
LEMMA RunsContinue ==
  ASSUME TypeOK, [Next]_vars, ~\E x \in txn : ClaimExec(x)
  PROVE  Continues
<1>1. CASE UNCHANGED runs
  BY <1>1 DEF Continues
<1>2. CASE /\ ~UNCHANGED runs
           /\ \E r \in runs : BeatStep(r) \/ RunnerStep(r) \/ MainStep(r) \/ Interrupt(r)
  <2>1. PICK r \in runs : BeatStep(r) \/ RunnerStep(r) \/ MainStep(r) \/ Interrupt(r)
    BY <1>2
  <2>2. r \in Run
    BY DEF TypeOK
  <2>3. \/ runs' \subseteq runs
        \/ Becomes(r, [r EXCEPT !.beat = "lost"])
        \/ Becomes(r, [r EXCEPT !.work = "aborted", !.call = {}])
        \/ Becomes(r, [r EXCEPT !.work = "aborted"])
        \/ \E f \in Fingerprint : \/ Becomes(r, [r EXCEPT !.known = r.known \cup {f}])
                                  \/ Becomes(r, [r EXCEPT !.call = {f}])
        \/ Becomes(r, [r EXCEPT !.known = r.known \cup r.call, !.call = {}])
        \/ Becomes(r, [r EXCEPT !.work = "ok"])
        \/ Becomes(r, [r EXCEPT !.work = "error", !.call = {}])
        \/ r.work \in {"ok", "error"} /\ Becomes(r, [r EXCEPT !.out = r.work])
        \/ Becomes(r, [r EXCEPT !.out = "timeout"])
    BY <1>2, <2>1
       DEF BeatStep, BeatRead, RenewExec, Retry, RunnerStep, LookUp, SaveRead, SaveExec,
           RunnerReturns, MainStep, MainWakes, FinishRead, FinishExec, Interrupt, Close
  <2>4. \A new : \/ \E b : new = [r EXCEPT !.beat = b]
                 \/ \E w : new = [r EXCEPT !.work = w]
                 \/ \E w : new = [r EXCEPT !.work = w, !.call = {}]
                 \/ \E k : new = [r EXCEPT !.known = k]
                 \/ \E k, c : new = [r EXCEPT !.known = k, !.call = c]
                 \/ \E k : new = [r EXCEPT !.call = k]
                 \/ \E o : new = [r EXCEPT !.out = o]
                 => Same(new, r)
    BY <2>2 DEF Run, Same
  <2>5. QED
    BY <2>3, <2>4 DEF Continues
<1>3. CASE \E w \in Worker : Crash(w)
  BY <1>3 DEF Crash, Continues
<1>4. CASE \E w \in Worker, t \in Task : Cancel(w, t)
  BY <1>4 DEF Cancel, Continues
<1>5. CASE /\ ~UNCHANGED runs
           /\ ~\E r \in runs : BeatStep(r) \/ RunnerStep(r) \/ MainStep(r) \/ Interrupt(r)
           /\ ~\E w \in Worker : Crash(w)
           /\ ~\E w \in Worker, t \in Task : Cancel(w, t)
  BY <1>5 DEF Next, Tick, Submit, Expire, SweepStep, SweepPoll, SweepGet, SweepZrem,
              ClaimRead, Retry, SweepFault, vars
<1>6. QED
  BY <1>1, <1>2, <1>3, <1>4, <1>5

\* The ids a pass of the polling loop still holds room for.
Queue(w) == sweep[w].todo \cup sweep[w].claim

\* A pass holds one place for each id that it has not dealt with yet, and the
\* update of a claim on its way stands for the place of its id.
RoomHeld ==
    /\ IsFiniteSet(runs)
    /\ \A w \in Worker :
         /\ IsFiniteSet(Queue(w))
         /\ Cardinality(Tracked(w)) + Cardinality(Queue(w)) <= Concurrency
         /\ sweep[w].todo \cap sweep[w].claim = {}
    /\ \A x \in txn : x.op = "claim" => x.t \in sweep[x.own[1]].claim

LEMMA OneMore ==
  ASSUME NEW S, IsFiniteSet(S), NEW x
  PROVE  /\ IsFiniteSet(S \cup {x})
         /\ Cardinality(S \cup {x}) <= Cardinality(S) + 1
         /\ Cardinality(S \cup {x}) \in Nat /\ Cardinality(S) \in Nat
<1>1. IsFiniteSet(S \cup {x})
  BY FS_AddElement
<1>2. Cardinality(S \cup {x}) \in Nat /\ Cardinality(S) \in Nat
  BY <1>1, FS_CardinalityType
<1>3. Cardinality(S \cup {x}) = IF x \in S THEN Cardinality(S) ELSE Cardinality(S) + 1
  BY FS_AddElement
<1>4. QED
  BY <1>1, <1>2, <1>3

LEMMA OneLess ==
  ASSUME NEW S, IsFiniteSet(S), NEW x \in S
  PROVE  /\ IsFiniteSet(S \ {x})
         /\ Cardinality(S \ {x}) + 1 = Cardinality(S)
         /\ Cardinality(S \ {x}) \in Nat /\ Cardinality(S) \in Nat
<1>1. IsFiniteSet(S \ {x})
  BY FS_RemoveElement
<1>2. Cardinality(S \ {x}) \in Nat /\ Cardinality(S) \in Nat
  BY <1>1, FS_CardinalityType
<1>3. Cardinality(S \ {x}) = Cardinality(S) - 1
  BY FS_RemoveElement
<1>4. QED
  BY <1>1, <1>2, <1>3

LEMMA NoMore ==
  ASSUME NEW S, IsFiniteSet(S), NEW T, T \subseteq S
  PROVE  /\ IsFiniteSet(T) /\ Cardinality(T) <= Cardinality(S)
         /\ Cardinality(T) \in Nat /\ Cardinality(S) \in Nat
<1>1. IsFiniteSet(T) /\ Cardinality(T) <= Cardinality(S)
  BY FS_Subset
<1>2. QED
  BY <1>1, FS_CardinalityType

\* Without a new execution, no process gets more handles than it had.
LEMMA HandlesContinue ==
  ASSUME TypeOK, IsFiniteSet(runs), Continues, NEW w \in Worker
  PROVE  IsFiniteSet(runs') /\ Cardinality(Tracked(w)') <= Cardinality(Tracked(w))
<1>0. Tracked(w) \subseteq runs /\ IsFiniteSet(Tracked(w))
  BY NoMore DEF Tracked
<1>1. CASE runs' \subseteq runs
  <2>1. Tracked(w)' \subseteq Tracked(w)
    BY <1>1 DEF Tracked
  <2>2. QED
    BY <1>0, <1>1, <2>1, NoMore
<1>2. CASE \E r \in runs : \E new : Becomes(r, new) /\ Same(new, r)
  <2>1. PICK r \in runs : \E new : Becomes(r, new) /\ Same(new, r)
    BY <1>2
  <2>2. PICK new : Becomes(r, new) /\ Same(new, r)
    BY <2>1
  <2>3. IsFiniteSet(runs \ {r}) /\ runs' = (runs \ {r}) \cup {new}
    BY <2>2, NoMore DEF Becomes
  <2>4. IsFiniteSet(runs')
    BY <2>3, OneMore
  <2>5. CASE r \in Tracked(w)
    <3>1. Tracked(w)' \subseteq (Tracked(w) \ {r}) \cup {new}
      BY <2>3 DEF Tracked
    <3>2. /\ IsFiniteSet(Tracked(w) \ {r})
          /\ Cardinality(Tracked(w) \ {r}) + 1 = Cardinality(Tracked(w))
      BY <1>0, <2>5, OneLess
    <3>3. /\ IsFiniteSet((Tracked(w) \ {r}) \cup {new})
          /\ Cardinality((Tracked(w) \ {r}) \cup {new}) <= Cardinality(Tracked(w))
      BY <3>2, OneMore
    <3>4. Cardinality(Tracked(w)') <= Cardinality((Tracked(w) \ {r}) \cup {new})
      BY <3>1, <3>3, NoMore
    <3>5. /\ Cardinality(Tracked(w)') \in Nat /\ Cardinality(Tracked(w)) \in Nat
          /\ Cardinality((Tracked(w) \ {r}) \cup {new}) \in Nat
      BY <1>0, <3>1, <3>3, NoMore
    <3>6. QED
      BY <2>4, <3>3, <3>4, <3>5
  <2>6. CASE r \notin Tracked(w)
    <3>1. Tracked(w)' \subseteq Tracked(w)
      BY <2>2, <2>3, <2>6 DEF Tracked, Same
    <3>2. QED
      BY <1>0, <2>4, <3>1, NoMore
  <2>7. QED
    BY <2>5, <2>6
<1>3. QED
  BY <1>1, <1>2 DEF Continues

Disjoint == \A w \in Worker : sweep[w].todo \cap sweep[w].claim = {}
ClaimsHeld == \A x \in txn : x.op = "claim" => x.t \in sweep[x.own[1]].claim
Within(w) ==
    /\ IsFiniteSet(Queue(w))
    /\ Cardinality(Tracked(w)) + Cardinality(Queue(w)) <= Concurrency

\* The room of a process with no more handles and no longer a queue is kept.
LEMMA WithinKept ==
  ASSUME TypeOK, IsFiniteSet(runs), Continues, NEW w \in Worker, Within(w),
         Queue(w)' \subseteq Queue(w)
  PROVE  Within(w)'
<1>1. /\ IsFiniteSet(runs')
      /\ Cardinality(Tracked(w)') <= Cardinality(Tracked(w))
  BY HandlesContinue
<1>2. /\ Cardinality(Tracked(w)) \in Nat
      /\ Cardinality(Tracked(w)') \in Nat
  BY <1>1, NoMore DEF Tracked
<1>3. /\ IsFiniteSet(Queue(w)')
      /\ Cardinality(Queue(w)') <= Cardinality(Queue(w))
      /\ Cardinality(Queue(w)') \in Nat /\ Cardinality(Queue(w)) \in Nat
  BY NoMore DEF Within
<1>4. Cardinality(Tracked(w)) + Cardinality(Queue(w)) <= Concurrency
  BY DEF Within
<1>5. Cardinality(Tracked(w)') + Cardinality(Queue(w)') <= Concurrency
  BY <1>1, <1>2, <1>3, <1>4
<1>6. QED
  BY <1>3, <1>5 DEF Within

LEMMA RunsStayFinite ==
  ASSUME IsFiniteSet(runs), Continues
  PROVE  IsFiniteSet(runs')
<1>1. CASE runs' \subseteq runs
  BY <1>1, NoMore
<1>2. CASE \E r \in runs : \E new : Becomes(r, new)
  <2>1. PICK r \in runs : \E new : Becomes(r, new)
    BY <1>2
  <2>2. IsFiniteSet(runs \ {r})
    BY NoMore
  <2>3. QED
    BY <2>1, <2>2, OneMore DEF Becomes
<1>3. QED
  BY <1>1, <1>2 DEF Continues

\* A new pass takes no more ids than there is room for.
LEMMA PollRoom ==
  ASSUME IsFiniteSet(Task), TypeOK, RoomHeld, NEW w \in Worker, SweepPoll(w)
  PROVE  Within(w)'
<1>1. /\ UNCHANGED runs
      /\ sweep[w] = Polling
  BY DEF SweepPoll
<1>2. PICK due \in SUBSET Task, ids \in SUBSET Task :
        /\ ids \subseteq due
        /\ Cardinality(ids) = Smaller(Room(w), Cardinality(due))
        /\ sweep' = [sweep EXCEPT ![w].todo = ids]
  <2>1. PICK now \in Now :
          LET due == {t \in Task : active[t] # NoScore /\ active[t] <= now}
          IN  \E ids \in SUBSET due :
                /\ Cardinality(ids) = Smaller(Room(w), Cardinality(due))
                /\ sweep' = [sweep EXCEPT ![w].todo = ids]
    BY DEF SweepPoll
  <2> DEFINE due == {t \in Task : active[t] # NoScore /\ active[t] <= now}
  <2>2. due \in SUBSET Task
    OBVIOUS
  <2>3. PICK ids \in SUBSET due :
          /\ Cardinality(ids) = Smaller(Room(w), Cardinality(due))
          /\ sweep' = [sweep EXCEPT ![w].todo = ids]
    BY <2>1
  <2> HIDE DEF due
  <2>4. QED
    BY <2>2, <2>3
<1>3. Queue(w)' = ids
  BY <1>1, <1>2 DEF Queue, TypeOK, Loop, Polling
<1>4. IsFiniteSet(ids) /\ Cardinality(ids) \in Nat
  BY NoMore
<1>5. Cardinality(Tracked(w)) \in Nat
  BY NoMore DEF Tracked, RoomHeld
<1>6. Cardinality(Tracked(w)) + Cardinality(ids) <= Concurrency
  <2>1. IsFiniteSet(due) /\ Cardinality(due) \in Nat
    BY NoMore
  <2>2. QED
    BY <1>2, <1>4, <1>5, <2>1 DEF Smaller, Room
<1>7. Tracked(w)' = Tracked(w)
  BY <1>1 DEF Tracked
<1>8. QED
  BY <1>3, <1>4, <1>6, <1>7 DEF Within

\* Polling, reading the next id and giving up a pass keep queue and claims apart.
LEMMA PassSteps ==
  ASSUME TypeOK, RoomHeld, NEW w \in Worker, NEW t \in Task,
         SweepGet(w, t) \/ SweepZrem(w, t) \/ ClaimRead(w, t)
  PROVE  /\ \A v \in Worker : Queue(v)' \subseteq Queue(v)
         /\ Disjoint' /\ ClaimsHeld'
<1>1. CASE SweepGet(w, t)
  <2>1. t \in sweep[w].todo /\ sweep[w].claim = {} /\ UNCHANGED txn
    BY <1>1 DEF SweepGet
  <2>2. PICK gone \in SUBSET {t}, claim \in SUBSET {t} :
          sweep' = [sweep EXCEPT ![w] = [todo |-> sweep[w].todo \ {t},
                                         gone |-> gone, claim |-> claim]]
    BY <1>1 DEF SweepGet
  <2>3. /\ sweep'[w].todo = sweep[w].todo \ {t} /\ sweep'[w].claim = claim
        /\ \A v \in Worker \ {w} : sweep'[v] = sweep[v]
    BY <2>2 DEF TypeOK
  <2>4. \A x \in txn : x.op = "claim" => x.own[1] \in Worker \ {w}
    BY <2>1 DEF RoomHeld, TypeOK, Txn, Token
  <2>5. ASSUME NEW x \in txn', x.op = "claim" PROVE x.t \in sweep'[x.own[1]].claim
    <3>1. x \in txn /\ x.own[1] \in Worker \ {w}
      BY <2>1, <2>4, <2>5
    <3>2. sweep'[x.own[1]] = sweep[x.own[1]]
      BY <2>3, <3>1
    <3>3. x.t \in sweep[x.own[1]].claim
      BY <2>5, <3>1 DEF RoomHeld
    <3>4. QED
      BY <3>2, <3>3
  <2>6. ClaimsHeld'
    BY <2>5 DEF ClaimsHeld
  <2>7. \A v \in Worker : Queue(v)' \subseteq Queue(v)
    BY <2>1, <2>3 DEF Queue
  <2>8. \A v \in Worker : sweep'[v].todo \cap sweep'[v].claim = {}
    BY <2>3 DEF RoomHeld
  <2>9. QED
    BY <2>6, <2>7, <2>8 DEF Disjoint
<1>2. CASE SweepZrem(w, t)
  <2>1. \A v \in Worker : sweep'[v].todo = sweep[v].todo /\ sweep'[v].claim = sweep[v].claim
    BY <1>2 DEF SweepZrem, TypeOK, Loop
  <2>2. UNCHANGED txn /\ \A x \in txn : x.own[1] \in Worker
    BY <1>2 DEF SweepZrem, TypeOK, Txn, Token
  <2>3. ClaimsHeld'
    BY <2>1, <2>2 DEF ClaimsHeld, RoomHeld
  <2>4. QED
    BY <2>1, <2>3 DEF Queue, Disjoint, RoomHeld
<1>3. CASE ClaimRead(w, t)
  <2>1. t \in sweep[w].claim /\ ~\E x \in txn : x.op = "claim" /\ x.own[1] = w
    BY <1>3 DEF ClaimRead
  <2>2. \/ sweep' = [sweep EXCEPT ![w].claim = {}] /\ UNCHANGED txn
        \/ UNCHANGED sweep
    BY <1>3 DEF ClaimRead
  <2>3. \A x \in txn' \ txn : x.t = t /\ x.own = <<w, issued[t] + 1>>
    BY <1>3, ClaimReadLawful
  <2>4. CASE UNCHANGED sweep
    <3>1. ClaimsHeld'
      BY <2>1, <2>3, <2>4 DEF ClaimsHeld, RoomHeld
    <3>2. QED
      BY <2>4, <3>1 DEF Queue, Disjoint, RoomHeld
  <2>5. CASE sweep' = [sweep EXCEPT ![w].claim = {}] /\ UNCHANGED txn
    <3>1. /\ sweep'[w].todo = sweep[w].todo /\ sweep'[w].claim = {}
          /\ \A v \in Worker \ {w} : sweep'[v] = sweep[v]
      BY <2>5 DEF TypeOK, Loop
    <3>2. \A x \in txn : x.op = "claim" => x.own[1] \in Worker \ {w}
      BY <2>1 DEF TypeOK, Txn, Token
    <3>3. ClaimsHeld'
      BY <2>5, <3>1, <3>2 DEF ClaimsHeld, RoomHeld
    <3>4. QED
      BY <3>1, <3>3 DEF Queue, Disjoint, RoomHeld
  <2>6. QED
    BY <2>2, <2>4, <2>5
<1>4. QED
  BY <1>1, <1>2, <1>3

LEMMA PassEnds ==
  ASSUME TypeOK, RoomHeld, NEW w \in Worker, SweepFault(w) \/ Crash(w)
  PROVE  /\ \A v \in Worker : Queue(v)' \subseteq Queue(v)
         /\ Disjoint' /\ ClaimsHeld'
<1>1. sweep' = [sweep EXCEPT ![w] = Polling]
  BY DEF SweepFault, Crash
<1>2. /\ sweep'[w].todo = {} /\ sweep'[w].claim = {}
      /\ \A v \in Worker \ {w} : sweep'[v] = sweep[v]
  BY <1>1 DEF TypeOK, Polling
<1>3. \A x \in txn' : /\ x \in txn /\ x.own[1] \in Worker
                      /\ x.op = "claim" => x.own[1] # w
  BY DEF SweepFault, Crash, TypeOK, Txn, Token
<1>4. ClaimsHeld'
  BY <1>2, <1>3 DEF ClaimsHeld, RoomHeld
<1>5. QED
  BY <1>2, <1>4 DEF Queue, Disjoint, RoomHeld

\* The executions and the clients leave the polling loops alone.
LEMMA OthersKeepPasses ==
  ASSUME TypeOK, RecordsLawful, TokensLawful, RoomHeld, [Next]_vars,
         ~\E w \in Worker : \/ SweepPoll(w) \/ SweepFault(w) \/ Crash(w)
                            \/ \E t \in Task : \/ SweepGet(w, t) \/ SweepZrem(w, t)
                                               \/ ClaimRead(w, t),
         ~\E x \in txn : ClaimExec(x)
  PROVE  /\ \A v \in Worker : Queue(v)' \subseteq Queue(v)
         /\ Disjoint' /\ ClaimsHeld'
<1>1. UNCHANGED sweep
  BY DEF Next, Tick, Submit, Expire, Cancel, SweepStep, Retry, BeatStep, BeatRead,
         RenewExec, RunnerStep, LookUp, SaveRead, SaveExec, RunnerReturns, MainStep,
         MainWakes, FinishRead, FinishExec, Interrupt, vars
<1>2. \A x \in txn' : x.op = "claim" => x \in txn
  <2>1. CASE \E r \in runs : BeatRead(r) \/ SaveRead(r) \/ FinishRead(r)
    BY <2>1, OwnerReadsLawful
  <2>2. CASE ~\E r \in runs : BeatRead(r) \/ SaveRead(r) \/ FinishRead(r)
    BY <2>2 DEF Next, Tick, Submit, Expire, Cancel, SweepStep, Retry, BeatStep,
                RenewExec, RunnerStep, LookUp, SaveExec, RunnerReturns, MainStep,
                MainWakes, FinishExec, Interrupt, Close, vars
  <2>3. QED
    BY <2>1, <2>2
<1>3. QED
  BY <1>1, <1>2 DEF Queue, Disjoint, ClaimsHeld, RoomHeld

\* The EXEC of a claim trades the place of its id for a handle.
LEMMA ClaimExecRoom ==
  ASSUME TypeOK, UpdatesLawful, TokensLawful, RoomHeld, NEW x \in txn, ClaimExec(x)
  PROVE  RoomHeld'
<1> DEFINE w == x.own[1]
<1>1. x.op = "claim" /\ w \in Worker /\ x.t \in sweep[w].claim
  BY DEF ClaimExec, RoomHeld, TypeOK, Txn, Token
<1>2. /\ sweep' = [sweep EXCEPT ![w].claim = {}]
      /\ txn' = txn \ {x}
  BY DEF ClaimExec
<1>3. /\ sweep'[w].todo = sweep[w].todo /\ sweep'[w].claim = {}
      /\ \A v \in Worker \ {w} : sweep'[v] = sweep[v]
  BY <1>1, <1>2 DEF TypeOK, Loop
<1>4. Disjoint'
  BY <1>3 DEF Disjoint, RoomHeld
<1>5. ClaimsHeld'
  <2>1. \A y \in txn' : y.op = "claim" => y \in txn /\ y.own[1] \in Worker \ {w}
    BY <1>1, <1>2 DEF TokensLawful, TypeOK, Txn, Token
  <2>2. QED
    BY <1>3, <2>1 DEF ClaimsHeld, RoomHeld
<1>6. Queue(w)' \subseteq Queue(w) \ {x.t} /\ x.t \in Queue(w)
  BY <1>1, <1>3 DEF Queue, RoomHeld
<1>7. \A v \in Worker \ {w} : Queue(v)' = Queue(v)
  BY <1>3 DEF Queue
<1>8. CASE UNCHANGED runs
  <2>1. Continues
    BY <1>8 DEF Continues
  <2>2. \A v \in Worker : Queue(v)' \subseteq Queue(v)
    BY <1>6, <1>7
  <2>3. \A v \in Worker : Within(v)'
    BY <2>1, <2>2, WithinKept DEF RoomHeld, Within
  <2>4. QED
    BY <1>4, <1>5, <1>8, <2>3 DEF RoomHeld, Within, Disjoint, ClaimsHeld
<1>9. CASE runs' = Replaced(x) \cup {NewRun(x)}
  <2>1. NewRun(x).own = x.own
    BY DEF NewRun
  <2>2. \A r \in runs : /\ [r EXCEPT !.tracked = FALSE].tracked = FALSE
                        /\ r \in Run
    BY DEF TypeOK, Run
  <2>3. \A r \in Replaced(x) : r.tracked => r \in runs
    BY <2>2 DEF Replaced
  <2>4. IsFiniteSet(Replaced(x)) /\ IsFiniteSet(runs')
    <3> DEFINE f == [r \in runs |-> IF r.t = x.t /\ r.own[1] = x.own[1]
                                     THEN [r EXCEPT !.tracked = FALSE] ELSE r]
    <3>0. f \in Surjection(runs, Replaced(x))
      BY DEF Surjection, Replaced
    <3>1. IsFiniteSet(Replaced(x))
      BY <3>0, FS_Surjection DEF RoomHeld
    <3>2. QED
      BY <1>9, <3>1, OneMore
  <2>5. \A v \in Worker \ {w} : Tracked(v)' \subseteq Tracked(v)
    BY <1>9, <2>1, <2>3 DEF Tracked
  <2>6. Tracked(w)' \subseteq Tracked(w) \cup {NewRun(x)}
    BY <1>9, <2>3 DEF Tracked
  <2>7. \A v \in Worker : IsFiniteSet(Tracked(v))
    BY NoMore DEF Tracked, RoomHeld
  <2>8. ASSUME NEW v \in Worker \ {w} PROVE Within(v)'
    <3>1. /\ Cardinality(Tracked(v)') <= Cardinality(Tracked(v))
          /\ Cardinality(Tracked(v)') \in Nat /\ Cardinality(Tracked(v)) \in Nat
      BY <2>5, <2>7, NoMore
    <3>2. IsFiniteSet(Queue(v)) /\ Cardinality(Queue(v)) \in Nat
      BY NoMore DEF RoomHeld
    <3>3. Cardinality(Tracked(v)) + Cardinality(Queue(v)) <= Concurrency
      BY DEF RoomHeld
    <3>4. Cardinality(Tracked(v)') + Cardinality(Queue(v)') <= Concurrency
      BY <1>7, <3>1, <3>2, <3>3
    <3>5. QED
      BY <1>7, <3>2, <3>4 DEF Within
  <2>9. Within(w)'
    <3>1. /\ Cardinality(Tracked(w)') <= Cardinality(Tracked(w)) + 1
          /\ Cardinality(Tracked(w)') \in Nat /\ Cardinality(Tracked(w)) \in Nat
      <4>1. /\ IsFiniteSet(Tracked(w) \cup {NewRun(x)})
            /\ Cardinality(Tracked(w) \cup {NewRun(x)}) <= Cardinality(Tracked(w)) + 1
            /\ Cardinality(Tracked(w) \cup {NewRun(x)}) \in Nat
            /\ Cardinality(Tracked(w)) \in Nat
        BY <1>1, <2>7, OneMore
      <4>2. /\ Cardinality(Tracked(w)') <= Cardinality(Tracked(w) \cup {NewRun(x)})
            /\ Cardinality(Tracked(w)') \in Nat
        BY <2>6, <4>1, NoMore
      <4>3. QED
        BY <4>1, <4>2
    <3>2. /\ IsFiniteSet(Queue(w) \ {x.t})
          /\ Cardinality(Queue(w) \ {x.t}) + 1 = Cardinality(Queue(w))
          /\ Cardinality(Queue(w) \ {x.t}) \in Nat /\ Cardinality(Queue(w)) \in Nat
      BY <1>1, <1>6, OneLess DEF RoomHeld
    <3>3. /\ IsFiniteSet(Queue(w)')
          /\ Cardinality(Queue(w)') <= Cardinality(Queue(w) \ {x.t})
          /\ Cardinality(Queue(w)') \in Nat
      BY <1>6, <3>2, NoMore
    <3>4. Cardinality(Tracked(w)) + Cardinality(Queue(w)) <= Concurrency
      BY <1>1 DEF RoomHeld
    <3>5. Cardinality(Tracked(w)') + Cardinality(Queue(w)') <= Concurrency
      BY <3>1, <3>2, <3>3, <3>4
    <3>6. QED
      BY <3>3, <3>5 DEF Within
  <2>10. QED
    BY <1>4, <1>5, <2>4, <2>8, <2>9 DEF RoomHeld, Within, Disjoint, ClaimsHeld
<1>10. QED
  BY <1>8, <1>9 DEF ClaimExec

LEMMA RoomStep ==
  ASSUME IsFiniteSet(Task), TypeOK, Fenced, RoomHeld, [Next]_vars
  PROVE  RoomHeld'
<1>0. UpdatesLawful /\ RecordsLawful /\ TokensLawful
  BY DEF Fenced
<1>1. CASE \E x \in txn : ClaimExec(x)
  BY <1>0, <1>1, ClaimExecRoom
<1>2. CASE /\ ~\E x \in txn : ClaimExec(x)
           /\ \E w \in Worker : SweepPoll(w)
  <2>1. PICK w \in Worker : SweepPoll(w)
    BY <1>2
  <2>2. /\ UNCHANGED <<runs, txn>>
        /\ sweep[w].claim = {}
    BY <2>1 DEF SweepPoll, Polling
  <2>3. /\ \A v \in Worker \ {w} : sweep'[v] = sweep[v]
        /\ sweep'[w].claim = {}
    BY <2>1, <2>2 DEF SweepPoll, TypeOK, Loop
  <2>4. \A v \in Worker \ {w} : Within(v)'
    BY <2>2, <2>3 DEF RoomHeld, Within, Queue, Tracked
  <2>5. Within(w)'
    BY <2>1, PollRoom
  <2>6. Disjoint'
    BY <2>3 DEF Disjoint, RoomHeld
  <2>7. ClaimsHeld'
    <3>1. \A x \in txn : x.op = "claim" => x.own[1] \in Worker \ {w}
      BY <2>2 DEF RoomHeld, TypeOK, Txn, Token
    <3>2. QED
      BY <2>2, <2>3, <3>1 DEF ClaimsHeld, RoomHeld
  <2>8. IsFiniteSet(runs')
    BY <2>2 DEF RoomHeld
  <2>9. QED
    BY <2>4, <2>5, <2>6, <2>7, <2>8 DEF RoomHeld, Within, Disjoint, ClaimsHeld
<1>3. CASE /\ ~\E x \in txn : ClaimExec(x)
           /\ ~\E w \in Worker : SweepPoll(w)
  <2>1. Continues
    BY <1>3, RunsContinue
  <2>2. IsFiniteSet(runs) /\ \A w \in Worker : Within(w)
    BY DEF RoomHeld, Within
  <2>3. (\A w \in Worker : Queue(w)' \subseteq Queue(w)) /\ Disjoint' /\ ClaimsHeld'
    BY <1>0, <1>3, PassSteps, PassEnds, OthersKeepPasses
  <2>4. \A w \in Worker : Within(w)'
    BY <2>1, <2>2, <2>3, WithinKept
  <2>5. IsFiniteSet(runs')
    BY <2>1, <2>2, RunsStayFinite
  <2>6. QED
    BY <2>3, <2>4, <2>5 DEF RoomHeld, Within, Disjoint, ClaimsHeld
<1>4. QED
  BY <1>1, <1>2, <1>3

\* A process never has more than Concurrency handles: the room that a pass of
\* sweep() computed once is still there when its claims go through one by one,
\* and an id claimed twice replaces its own handle.
THEOREM RoomAlways == ASSUME IsFiniteSet(Task) PROVE Spec => []RoomRespected
<1>1. Init => RoomHeld
  <2> SUFFICES ASSUME Init PROVE RoomHeld
    OBVIOUS
  <2>1. runs = {} /\ txn = {} /\ \A w \in Worker : Tracked(w) = {} /\ Queue(w) = {}
    BY DEF Init, Tracked, Queue, Polling
  <2>2. \A w \in Worker : sweep[w].todo = {}
    BY DEF Init, Polling
  <2>3. /\ IsFiniteSet(runs)
        /\ \A w \in Worker : /\ IsFiniteSet(Queue(w)) /\ Cardinality(Queue(w)) = 0
                            /\ Cardinality(Tracked(w)) = 0
    BY <2>1, FS_EmptySet
  <2>4. QED
    BY <2>1, <2>2, <2>3 DEF RoomHeld
<1>2. TypeOK /\ Fenced /\ RoomHeld /\ [Next]_vars => RoomHeld'
  BY RoomStep
<1>3. RoomHeld => RoomRespected
  <2> SUFFICES ASSUME RoomHeld, NEW w \in Worker
               PROVE  Cardinality(Tracked(w)) <= Concurrency
    BY DEF RoomRespected
  <2>1. Cardinality(Tracked(w)) \in Nat /\ Cardinality(Queue(w)) \in Nat
    BY NoMore DEF RoomHeld, Tracked
  <2>2. QED
    BY <2>1 DEF RoomHeld
<1>4. QED
  BY <1>1, <1>2, <1>3, TypeCorrect, FencedAlways, PTL DEF Spec
-----------------------------------------------------------------------------
(* Attempt numbers, through every life of a command id.                    *)

\* Records and their TTLs are written by Store, and removed when one runs out.
LEMMA RedisWrites ==
  ASSUME TypeOK, UpdatesLawful, [Next]_vars, ~\E t \in Task : Expire(t)
  PROVE  \/ \E t \in Task, new \in Record : Store(t, new) /\ new.status # "absent"
         \/ UNCHANGED <<rec, expires>>
<1>0. \A x \in txn : /\ x.t \in Task /\ x.new \in Record
                     /\ Unwatched(x) => x.new.status # "absent"
  BY DEF TypeOK, Txn, UpdatesLawful, Lawful, Record, Open
<1>1. CASE UNCHANGED <<rec, expires>>
  BY <1>1
<1>2. CASE \E t \in Task : Submit(t)
  <2>1. PICK t \in Task : Submit(t)
    BY <1>2
  <2>2. PICK now \in Now : Store(t, [Absent EXCEPT !.status = "queued",
                                                 !.deadline = now + TimeoutS])
    BY <2>1 DEF Submit
  <2>3. /\ [Absent EXCEPT !.status = "queued", !.deadline = now + TimeoutS] \in Record
        /\ [Absent EXCEPT !.status = "queued", !.deadline = now + TimeoutS].status # "absent"
    <3>1. now + TimeoutS \in Nat
      BY NowIsNat
    <3>2. QED
      BY <3>1, AbsentType, RecordUpdates DEF Absent
  <2>4. QED
    BY <2>2, <2>3
<1>3. CASE \E w \in Worker, t \in Task : Cancel(w, t)
  <2>1. PICK w \in Worker, t \in Task : Cancel(w, t)
    BY <1>3
  <2>2. rec[t] \in Record
    BY DEF TypeOK
  <2>3. [rec[t] EXCEPT !.status = "canceled"].status = "canceled"
    BY <2>2 DEF Record
  <2>4. Store(t, [rec[t] EXCEPT !.status = "canceled"])
    BY <2>1 DEF Cancel
  <2>5. QED
    BY <2>2, <2>3, <2>4, RecordUpdates
<1>4. CASE \E x \in txn : ClaimExec(x) \/ RenewExec(x)
  BY <1>0, <1>4 DEF ClaimExec, RenewExec
<1>5. CASE \E x \in txn, r \in runs : SaveExec(x, r) \/ FinishExec(x, r)
  BY <1>0, <1>5 DEF SaveExec, FinishExec
<1>6. CASE \E w \in Worker, t \in Task : SweepZrem(w, t)
  BY <1>6 DEF SweepZrem
<1>7. CASE \E w \in Worker : SweepStep(w) \/ SweepFault(w) \/ Crash(w)
  <2>1. \/ \E x \in txn : ClaimExec(x)
        \/ \E w \in Worker, t \in Task : SweepZrem(w, t)
        \/ UNCHANGED <<rec, expires>>
    BY <1>7 DEF SweepStep, SweepPoll, SweepGet, ClaimRead, Retry, SweepFault, Crash
  <2>2. QED
    BY <1>1, <1>4, <1>6, <2>1
<1>8. CASE \E r \in runs : BeatStep(r) \/ RunnerStep(r) \/ MainStep(r) \/ Interrupt(r)
  <2>1. \/ \E x \in txn : RenewExec(x)
        \/ \E x \in txn, r \in runs : SaveExec(x, r) \/ FinishExec(x, r)
        \/ UNCHANGED <<rec, expires>>
    BY <1>8 DEF BeatStep, BeatRead, RunnerStep, LookUp, SaveRead, RunnerReturns, Retry,
                MainStep, MainWakes, FinishRead, Interrupt, TxnsOf
  <2>2. QED
    BY <1>1, <1>4, <1>5, <2>1
<1>9. CASE Tick \/ UNCHANGED vars
  BY <1>1, <1>9 DEF Tick, vars
<1>10. QED
  BY <1>2, <1>3, <1>7, <1>8, <1>9 DEF Next

\* Time only passes, and the horizon is its end.
LEMMA ClockSteps ==
  ASSUME TypeOK, [Next]_vars, clock <= MaxClock
  PROVE  clock <= clock' /\ clock' <= MaxClock
<1>1. clock' = clock \/ Tick
  BY DEF Next, Submit, Expire, Cancel, SweepStep, SweepPoll, SweepGet, SweepZrem,
         ClaimRead, ClaimExec, Retry, SweepFault, Crash, BeatStep, BeatRead,
         RenewExec, RunnerStep, LookUp, SaveRead, SaveExec, RunnerReturns,
         MainStep, MainWakes, FinishRead, FinishExec, Interrupt, vars
<1>2. QED
  BY <1>1, ConstantsAssumption DEF Tick, TypeOK

\* A record's deadline is at most TimeoutS ahead of the clocks that were read, and
\* its TTL is counted from its latest write.
Lifetimes ==
    /\ clock <= MaxClock
    /\ \A t \in Task : rec[t].status # "absent" =>
         /\ rec[t].deadline <= clock + MaxSkew + TimeoutS
         /\ \/ expires[t] > MaxClock
            \/ rec[t].deadline + TtlS <= expires[t] + MaxSkew + TimeoutS

\* An execution with this deadline and attempt belongs to the record's past: to an
\* earlier life of the id, or to an attempt the record has counted.
Past(t, deadline, attempt) ==
    /\ rec[t].status = "absent" => deadline < clock + TimeoutS
    /\ rec[t].status # "absent" =>
         \/ deadline < rec[t].deadline
         \/ deadline = rec[t].deadline /\ attempt <= rec[t].attempt

Numbered == \A r \in runs : Past(r.t, r.deadline, r.attempt)
Distinct == Numbered /\ AttemptsDistinct

LEMMA LifetimesStep ==
  ASSUME TypeOK, TypeOK', Fenced, Lifetimes, [Next]_vars
  PROVE  Lifetimes'
<1>1. clock <= clock' /\ clock' <= MaxClock
  BY ClockSteps DEF Lifetimes
<1>2. /\ clock \in Nat /\ clock' \in Nat /\ MaxSkew \in Nat /\ TimeoutS \in Nat
      /\ TtlS \in Nat /\ MaxClock \in Nat
      /\ \A t \in Task : /\ rec[t].deadline \in Nat /\ rec'[t].deadline \in Nat
                        /\ expires[t] \in Nat /\ expires'[t] \in Nat
  BY ConstantsAssumption DEF TypeOK, Record
<1>3. ASSUME NEW t \in Task, rec'[t].status # "absent"
      PROVE  rec'[t].deadline <= clock + MaxSkew + TimeoutS
  <2>1. CASE rec'[t].deadline = rec[t].deadline /\ rec[t].status # "absent"
    BY <1>2, <2>1 DEF Lifetimes
  <2>2. CASE Accepted(t)
    <3>1. PICK now \in Now : rec'[t].deadline = now + TimeoutS
      BY <2>2 DEF Accepted
    <3>2. QED
      BY <1>2, <3>1 DEF Now
  <2>3. rec'[t] = rec[t] \/ Effect(t)
    BY StepEffects DEF Effect
  <2>4. QED
    BY <1>3, <2>1, <2>2, <2>3 DEF Effect, Forgotten, Absent, Open
<1>4. ASSUME NEW t \in Task, rec'[t].status # "absent"
      PROVE  \/ expires'[t] > MaxClock
             \/ rec'[t].deadline + TtlS <= expires'[t] + MaxSkew + TimeoutS
  <2>1. CASE rec'[t] = rec[t] /\ expires'[t] = expires[t]
    BY <1>4, <2>1 DEF Lifetimes
  <2>2. CASE expires'[t] = Smaller(clock + TtlS, MaxClock + 1)
    <3>1. \/ expires'[t] = clock + TtlS
          \/ expires'[t] = MaxClock + 1
      BY <2>2 DEF Smaller
    <3>2. QED
      BY <1>2, <1>3, <1>4, <3>1
  <2>3. CASE \E u \in Task : Expire(u)
    <3>1. PICK u \in Task : Expire(u)
      BY <2>3
    <3>2. rec' = [rec EXCEPT ![u] = Absent] /\ expires' = expires
      BY <3>1 DEF Expire
    <3>3. t # u
      BY <1>4, <3>2 DEF TypeOK, Absent
    <3>4. rec'[t] = rec[t]
      BY <3>2, <3>3 DEF TypeOK
    <3>5. QED
      BY <2>1, <3>2, <3>4
  <2>4. CASE \E u \in Task, new \in Record : Store(u, new)
    <3>1. PICK u \in Task, new \in Record : Store(u, new)
      BY <2>4
    <3>2. CASE t = u
      <4>1. expires'[t] = Smaller(clock + TtlS, MaxClock + 1)
        BY <3>1, <3>2 DEF Store, TypeOK
      <4>2. QED
        BY <2>2, <4>1
    <3>3. CASE t # u
      <4>1. rec'[t] = rec[t] /\ expires'[t] = expires[t]
        BY <3>1, <3>3 DEF Store, TypeOK
      <4>2. QED
        BY <2>1, <4>1
    <3>4. QED
      BY <3>2, <3>3
  <2>5. QED
    BY <2>1, <2>3, <2>4, RedisWrites DEF Fenced
<1>5. \A t \in Task : rec'[t].status # "absent" =>
        rec'[t].deadline <= clock' + MaxSkew + TimeoutS
  <2> SUFFICES ASSUME NEW t \in Task, rec'[t].status # "absent"
               PROVE  rec'[t].deadline <= clock' + MaxSkew + TimeoutS
    OBVIOUS
  <2>1. rec'[t].deadline <= clock + MaxSkew + TimeoutS
    BY <1>3
  <2>2. QED
    BY <1>1, <1>2, <2>1
<1>6. QED
  BY <1>1, <1>4, <1>5 DEF Lifetimes

\* What belongs to the past of a record stays there: a record counts upwards, and a
\* later life of its id has a later deadline, because the TTL outlasts the skew.
LEMMA PastStays ==
  ASSUME TtlS > MaxSkew, TypeOK, TypeOK', Fenced, Lifetimes, [Next]_vars,
         NEW t \in Task, NEW d \in Nat, NEW a \in Nat, Past(t, d, a)
  PROVE  Past(t, d, a)'
<1>1. clock <= clock' /\ clock' <= MaxClock
  BY ClockSteps DEF Lifetimes
<1>2. /\ clock \in Nat /\ clock' \in Nat /\ MaxSkew \in Nat /\ TimeoutS \in Nat
      /\ TtlS \in Nat /\ MaxClock \in Nat
      /\ rec[t].deadline \in Nat /\ rec'[t].deadline \in Nat /\ expires[t] \in Nat
      /\ rec[t].attempt \in Nat /\ rec'[t].attempt \in Nat
  BY ConstantsAssumption DEF TypeOK, Record
<1>3. CASE rec'[t] = rec[t]
  BY <1>1, <1>2, <1>3 DEF Past
<1>4. CASE Accepted(t)
  <2>1. rec[t].status = "absent" /\ rec'[t].status = "queued"
    BY <1>4 DEF Accepted, Absent
  <2>2. PICK now \in Now : rec'[t].deadline = now + TimeoutS
    BY <1>4 DEF Accepted
  <2>3. d < clock + TimeoutS
    BY <2>1 DEF Past
  <2>4. d < rec'[t].deadline
    BY <1>2, <2>2, <2>3 DEF Now
  <2>5. QED
    BY <2>1, <2>4 DEF Past
<1>5. CASE Forgotten(t)
  <2>1. rec[t].status # "absent" /\ rec'[t].status = "absent" /\ expires[t] <= clock
    BY <1>5 DEF Forgotten, Absent
  <2>2. rec[t].deadline + TtlS <= expires[t] + MaxSkew + TimeoutS
    BY <1>1, <1>2, <2>1 DEF Lifetimes
  <2>3. d <= rec[t].deadline
    BY <1>2, <2>1 DEF Past
  <2>4. d < clock' + TimeoutS
    <3>1. rec[t].deadline + TtlS <= clock + MaxSkew + TimeoutS
      BY <1>2, <2>1, <2>2
    <3>2. MaxSkew < TtlS
      BY <1>2
    <3>3. rec[t].deadline < clock + TimeoutS
      BY <1>2, <3>1, <3>2
    <3>4. d < clock + TimeoutS
      BY <1>2, <2>3, <3>3
    <3>5. \A later \in Nat : clock <= later => d < later + TimeoutS
      BY <1>2, <3>4
    <3>6. QED
      BY <1>1, <1>2, <3>5
  <2>5. QED
    BY <2>1, <2>4 DEF Past
<1>6. CASE /\ rec[t].status \in Open /\ rec'[t].deadline = rec[t].deadline
           /\ GivenUp(t) \/ Begun(t) \/ Touched(t) \/ Delivered(t)
  <2>1. /\ rec[t].status # "absent" /\ rec'[t].status # "absent"
        /\ rec[t].attempt <= rec'[t].attempt
    BY <1>2, <1>6 DEF GivenUp, Begun, Touched, Delivered, Untouched, Open
  <2>2. \/ d < rec[t].deadline
        \/ d = rec[t].deadline /\ a <= rec[t].attempt
    BY <2>1 DEF Past
  <2>3. \/ d < rec'[t].deadline
        \/ d = rec'[t].deadline /\ a <= rec'[t].attempt
    BY <1>2, <1>6, <2>1, <2>2
  <2>4. QED
    BY <2>1, <2>3 DEF Past
<1>7. rec'[t] = rec[t] \/ Effect(t)
  BY StepEffects DEF Effect
<1>8. QED
  BY <1>3, <1>4, <1>5, <1>6, <1>7 DEF Effect

LEMMA DistinctContinues ==
  ASSUME TypeOK, Distinct, Continues,
         \A t \in Task, d \in Nat, a \in Nat : Past(t, d, a) => Past(t, d, a)'
  PROVE  Distinct'
<1>1. \A r \in runs : r.t \in Task /\ r.attempt \in Nat /\ r.deadline \in Nat
  BY DEF TypeOK, Run
<1>2. \A s \in runs' : \E r \in runs :
        s.t = r.t /\ s.attempt = r.attempt /\ s.deadline = r.deadline
  BY DEF Continues, Becomes, Same
<1>3. Numbered'
  <2> SUFFICES ASSUME NEW s \in runs' PROVE Past(s.t, s.deadline, s.attempt)'
    BY DEF Numbered
  <2>1. PICK r \in runs : s.t = r.t /\ s.attempt = r.attempt /\ s.deadline = r.deadline
    BY <1>2
  <2>2. Past(r.t, r.deadline, r.attempt)
    BY DEF Distinct, Numbered
  <2>3. /\ rec'[r.t].status = "absent" => r.deadline < clock' + TimeoutS
        /\ rec'[r.t].status # "absent" =>
             \/ r.deadline < rec'[r.t].deadline
             \/ r.deadline = rec'[r.t].deadline /\ r.attempt <= rec'[r.t].attempt
    BY <1>1, <2>2 DEF Past
  <2>4. QED
    BY <2>1, <2>3 DEF Past
<1>4. AttemptsDistinct'
  BY DEF Continues, Becomes, Same, Distinct, AttemptsDistinct
<1>5. QED
  BY <1>3, <1>4 DEF Distinct

LEMMA DistinctClaim ==
  ASSUME TypeOK, TypeOK', UpdatesLawful, Distinct, NEW x \in txn, ClaimExec(x),
         \A t \in Task, d \in Nat, a \in Nat : Past(t, d, a) => Past(t, d, a)'
  PROVE  Distinct'
<1>1. /\ x.op = "claim" /\ x.t \in Task /\ x.new \in Record
      /\ rec[x.t] = x.old /\ rec'[x.t] = x.new
      /\ x.old.status \in Open /\ x.new.deadline = x.old.deadline
  BY StoreEffect DEF ClaimExec, Unwatched, TypeOK, Txn, UpdatesLawful, Lawful
<1>2. CASE UNCHANGED runs
  BY <1>2, DistinctContinues DEF Continues
<1>3. CASE x.new.status = "running" /\ runs' = Replaced(x) \cup {NewRun(x)}
  <2> DEFINE n == NewRun(x)
  <2>1. n.t = x.t /\ n.attempt = x.new.attempt /\ n.deadline = x.new.deadline
    BY DEF NewRun
  <2>2. x.new.attempt = x.old.attempt + 1
    <3>1. x.new # [x.old EXCEPT !.status = "failed"]
      BY <1>1, <1>3 DEF TypeOK, Txn, Record
    <3>2. QED
      BY <1>1, <3>1 DEF UpdatesLawful, Lawful
  <2>3. \A r \in runs : r.t \in Task /\ r.attempt \in Nat /\ r.deadline \in Nat
    BY DEF TypeOK, Run
  <2>4. \A r \in runs : LET s == [r EXCEPT !.tracked = FALSE]
                        IN  s.t = r.t /\ s.attempt = r.attempt /\ s.deadline = r.deadline
    BY DEF TypeOK, Run
  <2>5. \A s \in Replaced(x) : \E r \in runs :
          /\ s.t = r.t /\ s.attempt = r.attempt /\ s.deadline = r.deadline
          /\ s = IF r.t = x.t /\ r.own[1] = x.own[1] THEN [r EXCEPT !.tracked = FALSE] ELSE r
    BY <2>4 DEF Replaced
  <2> HIDE DEF n
  <2>6. \A s \in Replaced(x) : /\ Past(s.t, s.deadline, s.attempt)
                               /\ s.t \in Task /\ s.attempt \in Nat /\ s.deadline \in Nat
    <3> SUFFICES ASSUME NEW s \in Replaced(x)
                 PROVE  /\ Past(s.t, s.deadline, s.attempt)
                        /\ s.t \in Task /\ s.attempt \in Nat /\ s.deadline \in Nat
      OBVIOUS
    <3>1. PICK r \in runs : s.t = r.t /\ s.attempt = r.attempt /\ s.deadline = r.deadline
      BY <2>5
    <3>2. Past(r.t, r.deadline, r.attempt)
      BY DEF Distinct, Numbered
    <3>3. QED
      BY <2>3, <3>1, <3>2 DEF Past
  <2>7. \A s \in Replaced(x) :
          s.t = x.t /\ s.deadline = n.deadline => s.attempt # n.attempt
    <3> SUFFICES ASSUME NEW s \in Replaced(x), s.t = x.t, s.deadline = n.deadline
                 PROVE  s.attempt # n.attempt
      OBVIOUS
    <3>1. n.attempt = rec[x.t].attempt + 1 /\ s.deadline = rec[x.t].deadline
      BY <1>1, <2>1, <2>2
    <3>2. /\ rec[x.t].attempt \in Nat /\ rec[x.t].deadline \in Nat
          /\ rec[x.t].status # "absent"
      BY <1>1 DEF TypeOK, Record, Open
    <3>3. s.attempt <= rec[x.t].attempt /\ s.attempt \in Nat
      BY <2>6, <3>1, <3>2 DEF Past
    <3>4. QED
      BY <3>1, <3>2, <3>3
  <2>8. ASSUME NEW r \in Replaced(x), NEW s \in Replaced(x),
               r.t = s.t, r.attempt = s.attempt, r.deadline = s.deadline
        PROVE  r = s
    <3> DEFINE After(q) == IF q.t = x.t /\ q.own[1] = x.own[1]
                           THEN [q EXCEPT !.tracked = FALSE] ELSE q
    <3>1. PICK p \in runs :
            r.t = p.t /\ r.attempt = p.attempt /\ r.deadline = p.deadline /\ r = After(p)
      BY <2>5
    <3>2. PICK q \in runs :
            s.t = q.t /\ s.attempt = q.attempt /\ s.deadline = q.deadline /\ s = After(q)
      BY <2>5
    <3>3. p = q
      BY <2>8, <3>1, <3>2 DEF Distinct, AttemptsDistinct
    <3>4. QED
      BY <3>1, <3>2, <3>3
  <2>9. runs' = Replaced(x) \cup {n}
    BY <1>3 DEF n
  <2>10. AttemptsDistinct'
    BY <2>1, <2>7, <2>8, <2>9 DEF AttemptsDistinct
  <2>11. ASSUME NEW s \in runs' PROVE Past(s.t, s.deadline, s.attempt)'
    <3>1. CASE s = n
      <4>1. x.new.attempt \in Nat /\ x.new.status # "absent"
        BY <1>1, <1>3 DEF Record
      <4>2. QED
        BY <1>1, <2>1, <3>1, <4>1 DEF Past
    <3>2. CASE s \in Replaced(x)
      <4>1. /\ Past(s.t, s.deadline, s.attempt)
            /\ s.t \in Task /\ s.attempt \in Nat /\ s.deadline \in Nat
        BY <2>6, <3>2
      <4>2. /\ rec'[s.t].status = "absent" => s.deadline < clock' + TimeoutS
            /\ rec'[s.t].status # "absent" =>
                 \/ s.deadline < rec'[s.t].deadline
                 \/ s.deadline = rec'[s.t].deadline /\ s.attempt <= rec'[s.t].attempt
        BY <4>1 DEF Past
      <4>3. QED
        BY <4>2 DEF Past
    <3>3. QED
      BY <2>9, <3>1, <3>2
  <2>12. QED
    BY <2>10, <2>11 DEF Distinct, Numbered
<1>4. QED
  BY <1>2, <1>3 DEF ClaimExec

\* Two executions of a command, wherever they run, however stale one of them is and
\* however often its id has been submitted, never report under one attempt number
\* of one life: the claim of sweep() counts on the record it read, and a TTL longer
\* than the clocks are apart gives the next life of the id a later deadline.
THEOREM AttemptsAlwaysDistinct ==
  ASSUME TtlS > MaxSkew
  PROVE  Spec => []AttemptsDistinct
<1>1. Init => Lifetimes /\ Distinct
  BY ConstantsAssumption DEF Init, Absent, Lifetimes, Distinct, Numbered, AttemptsDistinct
<1>2. TypeOK /\ TypeOK' /\ Fenced /\ Lifetimes /\ Distinct /\ [Next]_vars
        => Lifetimes' /\ Distinct'
  <2> SUFFICES ASSUME TypeOK, TypeOK', Fenced, Lifetimes, Distinct, [Next]_vars
               PROVE  Lifetimes' /\ Distinct'
    OBVIOUS
  <2>1. \A t \in Task, d \in Nat, a \in Nat : Past(t, d, a) => Past(t, d, a)'
    BY PastStays
  <2>2. Distinct'
    <3>1. CASE \E x \in txn : ClaimExec(x)
      BY <2>1, <3>1, DistinctClaim DEF Fenced
    <3>2. CASE ~\E x \in txn : ClaimExec(x)
      BY <2>1, <3>2, RunsContinue, DistinctContinues
    <3>3. QED
      BY <3>1, <3>2
  <2>3. QED
    BY <2>2, LifetimesStep
<1>3. Distinct => AttemptsDistinct
  BY DEF Distinct
<1>4. QED
  BY <1>1, <1>2, <1>3, TypeCorrect, FencedAlways, PTL DEF Spec
-----------------------------------------------------------------------------
(* Refinement.                                                             *)

Statuses == [t \in Task |-> rec[t].status]
Attempts == [t \in Task |-> rec[t].attempt]
Producers == [t \in Task |-> rec[t].by]

LEMMA LifecycleStep ==
  ASSUME TypeOK, NEW t \in Task, Effect(t)
  PROVE  Lifecycle!LifecycleNext \/ UNCHANGED <<Statuses, Attempts, Producers>>
<1>1. /\ rec[t] \in Record
      /\ Statuses' = [Statuses EXCEPT ![t] = rec'[t].status]
      /\ Attempts' = [Attempts EXCEPT ![t] = rec'[t].attempt]
      /\ Producers' = [Producers EXCEPT ![t] = rec'[t].by]
  BY DEF TypeOK, Effect, Statuses, Attempts, Producers
<1>2. /\ Statuses[t] = rec[t].status /\ Attempts[t] = rec[t].attempt
      /\ Producers[t] = rec[t].by
  BY DEF Statuses, Attempts, Producers
<1>3. /\ rec'[t].attempt = rec[t].attempt => Attempts' = Attempts
      /\ rec'[t].by = rec[t].by => Producers' = Producers
      /\ rec'[t].status = rec[t].status => Statuses' = Statuses
  <2>1. \A u \in Task \ {t} : rec'[u] = rec[u]
    BY DEF Effect
  <2>2. QED
    BY <2>1 DEF Statuses, Attempts, Producers
<1>4. CASE Accepted(t)
  <2>1. Lifecycle!Accept(t)
    BY <1>1, <1>2, <1>3, <1>4
       DEF Accepted, Absent, Lifecycle!Accept, Statuses, Attempts, Producers
  <2>2. QED
    BY <2>1 DEF Lifecycle!LifecycleNext
<1>5. CASE Forgotten(t)
  <2>1. Lifecycle!Forget(t)
    BY <1>1, <1>2, <1>5
       DEF Forgotten, Absent, Lifecycle!Forget, Statuses, Attempts, Producers
  <2>2. QED
    BY <2>1 DEF Lifecycle!LifecycleNext
<1>6. CASE rec[t].status \in Open /\ GivenUp(t)
  <2>1. Lifecycle!Abandon(t)
    BY <1>1, <1>2, <1>3, <1>6
       DEF GivenUp, Untouched, Open, Lifecycle!Abandon, Statuses, Attempts, Producers
  <2>2. QED
    BY <2>1 DEF Lifecycle!LifecycleNext
<1>7. CASE rec[t].status \in Open /\ Begun(t)
  <2>1. Lifecycle!Begin(t)
    BY <1>1, <1>2, <1>3, <1>7
       DEF Begun, Open, Lifecycle!Begin, Statuses, Attempts, Producers
  <2>2. QED
    BY <2>1 DEF Lifecycle!LifecycleNext
<1>8. CASE Touched(t)
  BY <1>3, <1>8 DEF Touched, Untouched
<1>9. CASE Delivered(t)
  <2>1. Lifecycle!Deliver(t)
    BY <1>1, <1>2, <1>3, <1>9
       DEF Delivered, Untouched, Lifecycle!Deliver, Statuses, Attempts, Producers
  <2>2. QED
    BY <2>1 DEF Lifecycle!LifecycleNext
<1>10. QED
  BY <1>4, <1>5, <1>6, <1>7, <1>8, <1>9 DEF Effect

\* The executor with its leases, crashes and races implements the abstract life
\* of a command: it starts at most MaxAttempts times and only its latest start
\* delivers an outcome.
THEOREM LifecycleImplemented == Spec => ImplementsLifecycle
<1>1. Init => Lifecycle!LifecycleInit
  BY DEF Init, Absent, Lifecycle!LifecycleInit
<1>2. TypeOK /\ Fenced /\ [Next]_vars
        => [Lifecycle!LifecycleNext]_(Lifecycle!lifecycle)
  <2> SUFFICES ASSUME TypeOK, Fenced, [Next]_vars
               PROVE  Lifecycle!LifecycleNext \/ UNCHANGED <<Statuses, Attempts, Producers>>
    BY DEF Lifecycle!lifecycle, Statuses, Attempts, Producers
  <2>1. CASE UNCHANGED rec
    BY <2>1 DEF Statuses, Attempts, Producers
  <2>2. CASE \E t \in Task : Effect(t)
    BY <2>2, LifecycleStep
  <2>3. QED
    BY <2>1, <2>2, StepEffects
<1>3. QED
  BY <1>1, <1>2, TypeCorrect, FencedAlways, PTL
     DEF Spec, ImplementsLifecycle, Lifecycle!LifecycleSpec
=============================================================================
