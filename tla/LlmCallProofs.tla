--------------------------- MODULE LlmCallProofs ---------------------------
(***************************************************************************)
(* Proofs about LlmCall, for every number of callers and routes, every      *)
(* sequence of limits and every mix of arguments.  What a step does to one  *)
(* call depends on that call alone, so the invariant Good speaks of one     *)
(* caller, and each action is shown to keep it for the caller it belongs to. *)
(***************************************************************************)
EXTENDS LlmCall, FiniteSetTheorems, TLAPS

Unsent(a) == a.st \in {"admit", "queued", "busy"}

(* The shape of a call and its attempts.                                    *)
Typed(c) ==
    /\ call[c] \in CallState /\ att[c] \in [Routes -> Attempt]
    /\ saved[c] \in SUBSET (Routes \X Nat) /\ cancels[c] \in Nat
    /\ call[c].trunc <= prof[c].trunc /\ call[c].tmo <= prof[c].tmo
    /\ call[c].prov <= prof[c].prov /\ cancels[c] <= prof[c].cancels

(* Attempts live only on routes launched, none is sent once the call is on  *)
(* its way out, and a call that is not hedged has one at a time.            *)
Tidy(c) ==
    /\ call[c].pc = "prep" => call[c].launched < NRoutes
    /\ call[c].pc \in {"prep", "wait"} =>
          \A r \in Routes : Live(att[c][r]) => r <= call[c].launched
    /\ call[c].pc \notin {"prep", "wait"} => \A r \in Routes : ~Unsent(att[c][r])
    /\ ~prof[c].hedged /\ call[c].pc = "prep" => \A r \in Routes : ~Live(att[c][r])
    /\ ~prof[c].hedged /\ call[c].pc = "wait" =>
          \A r \in Routes : Live(att[c][r]) => r = call[c].launched
    /\ ~prof[c].hedged /\ call[c].pc = "prep" /\ call[c].launched > 0 =>
          att[c][call[c].launched].out # "forbidden"

(* An answer a durable call can return is saved under its key.              *)
Recorded(c) ==
    prof[c].durable =>
        /\ \A r \in Routes :
              att[c][r].st = "done" /\ att[c][r].out = "ok" => Key(c, r) \in saved[c]
        /\ call[c].pc \in {"cleanup", "ended"} /\ call[c].res = "ok" =>
              \E r \in Routes : Key(c, r) \in saved[c]

Good(c) == Typed(c) /\ Tidy(c) /\ Recorded(c)
Whole ==
    /\ prof \in Mixes
    /\ call \in [Callers -> CallState]
    /\ att \in [Callers -> [Routes -> Attempt]]
    /\ free \in [Sems -> Nat] /\ cur \in Sems
    /\ owned \in [Callers -> BOOLEAN]
    /\ saved \in [Callers -> SUBSET (Routes \X Nat)]
    /\ cancels \in [Callers -> Nat]
Inv == Whole /\ \A c \in Callers : Good(c)

(* A step that is not c's leaves c alone. *)
Untouched(c) ==
    /\ call'[c] = call[c] /\ att'[c] = att[c] /\ owned'[c] = owned[c]
    /\ saved'[c] = saved[c] /\ cancels'[c] = cancels[c]
Own(c) == prof' = prof /\ \A d \in Callers \ {c} : Untouched(d)

LEMMA ProfileOf == ASSUME Whole, NEW c \in Callers PROVE prof[c] \in Profile
  BY LlmCallAssumption DEF Whole

LEMMA StaysGood ==
  ASSUME Inv, NEW c \in Callers, Own(c), Whole', Good(c)'
  PROVE  Inv'
<1>1. ASSUME NEW d \in Callers, d # c PROVE Good(d)'
  <2>1. Good(d) /\ Untouched(d) /\ prof' = prof
    BY <1>1 DEF Inv, Own
  <2> QED
    BY <2>1 DEF Good, Untouched, Typed, Tidy, Recorded, Key
<1> QED
  BY <1>1 DEF Inv

(* What the except clauses make of an error. *)
CallOf(pc, launched, trunc, tmo, prov, res) ==
    [pc |-> pc, launched |-> launched, trunc |-> trunc, tmo |-> tmo, prov |-> prov, res |-> res]

LEMMA EndedIs ==
  ASSUME NEW k \in CallState, NEW e, NEW n, n = Ended(k, e)
  PROVE  n = CallOf("ended", k.launched, k.trunc, k.tmo, k.prov, e)
  BY DEF CallState, Ended, CallOf

LEMMA AgainIs ==
  ASSUME NEW k \in CallState, NEW n, n = Again(k)
  PROVE  n = CallOf("prep", 0, k.trunc, k.tmo, k.prov, "none")
  BY DEF CallState, Again, CallOf

LEMMA ErrorEffect ==
  ASSUME NEW k \in CallState, NEW p \in Profile, NEW e \in Outs,
         k.trunc <= p.trunc, k.tmo <= p.tmo, k.prov <= p.prov,
         NEW n, n = AfterError(k, p, e)
  PROVE  /\ n \in CallState
         /\ n.trunc <= p.trunc /\ n.tmo <= p.tmo /\ n.prov <= p.prov
         /\ n.pc \in {"prep", "sleep", "ended"}
         /\ n.pc = "prep" => n.launched = 0 /\ e \in {"truncated", "timeout"}
         /\ n.pc # "prep" => n.trunc = k.trunc
         /\ n.pc = "ended" => n.res = e
<1>1. PICK again : again = Again(k)
  OBVIOUS
<1>2. again = CallOf("prep", 0, k.trunc, k.tmo, k.prov, "none")
  BY <1>1, AgainIs
<1>3. /\ 0 \in 0..NRoutes /\ k.launched \in 0..NRoutes
      /\ k.trunc \in Nat /\ k.tmo \in Nat /\ k.prov \in Nat
      /\ p.trunc \in Nat /\ p.tmo \in Nat /\ p.prov \in Nat
  BY LlmCallAssumption DEF CallState, Profile
<1>4. \/ n = CallOf("prep", 0, k.trunc + 1, k.tmo, k.prov, "none")
           /\ k.trunc < p.trunc /\ e = "truncated"
      \/ n = CallOf("prep", 0, k.trunc, k.tmo + 1, k.prov, "none")
           /\ k.tmo < p.tmo /\ e = "timeout"
      \/ n = CallOf("sleep", 0, k.trunc, k.tmo, k.prov + 1, "none") /\ k.prov < p.prov
      \/ n = CallOf("ended", k.launched, k.trunc, k.tmo, k.prov, e)
  <2>1. CASE e = "truncated"
    <3>1. \/ k.trunc < p.trunc /\ n = [again EXCEPT !.trunc = @ + 1]
          \/ n = Ended(k, "truncated")
      BY <2>1, <1>1 DEF AfterError, AfterTruncation
    <3> QED
      BY <3>1, <2>1, <1>2, EndedIs DEF CallOf
  <2>2. CASE e = "timeout" /\ k.tmo < p.tmo
    <3>1. \/ n = [again EXCEPT !.tmo = @ + 1]
          \/ n = Ended(k, "timeout")
      BY <2>2, <1>1 DEF AfterError, AfterTimeout
    <3> QED
      BY <3>1, <2>2, <1>2, EndedIs DEF CallOf
  <2>3. CASE e # "truncated" /\ ~(e = "timeout" /\ k.tmo < p.tmo)
    <3>1. \/ /\ k.prov < p.prov
             /\ n = [k EXCEPT !.pc = "sleep", !.prov = @ + 1, !.launched = 0, !.res = "none"]
          \/ n = Ended(k, e)
      BY <2>3 DEF AfterError, AfterProvider
    <3>2. CASE n = Ended(k, e)
      BY <3>2, EndedIs
    <3>3. CASE /\ k.prov < p.prov
               /\ n = [k EXCEPT !.pc = "sleep", !.prov = @ + 1, !.launched = 0, !.res = "none"]
      BY <3>3 DEF CallState, CallOf
    <3> QED
      BY <3>1, <3>2, <3>3
  <2> QED
    BY <2>1, <2>2, <2>3
<1> QED
  BY <1>3, <1>4 DEF CallOf, CallState, Outs

LEMMA LeaveEffect ==
  ASSUME Inv, NEW c \in Callers, NEW e \in Outs, Leave(c, e)
  PROVE  /\ call' \in [Callers -> CallState]
         /\ \A d \in Callers \ {c} : call'[d] = call[d]
         /\ call'[c].trunc <= prof[c].trunc /\ call'[c].tmo <= prof[c].tmo
         /\ call'[c].prov <= prof[c].prov
         /\ call'[c].pc \in {"prep", "sleep", "ended"}
         /\ call'[c].pc = "prep" => call'[c].launched = 0 /\ e \in {"truncated", "timeout"}
         /\ call'[c].pc # "prep" => call'[c].trunc = call[c].trunc
         /\ call'[c].pc = "ended" => call'[c].res = e
<1> DEFINE n == IF e = "ok" THEN Ended(call[c], e) ELSE AfterError(call[c], prof[c], e)
<1>1. call[c] \in CallState /\ prof[c] \in Profile /\ Typed(c)
  BY ProfileOf DEF Inv, Whole, Good
<1>2. /\ n \in CallState
      /\ n.trunc <= prof[c].trunc /\ n.tmo <= prof[c].tmo /\ n.prov <= prof[c].prov
      /\ n.pc \in {"prep", "sleep", "ended"}
      /\ n.pc = "prep" => n.launched = 0 /\ e \in {"truncated", "timeout"}
      /\ n.pc # "prep" => n.trunc = call[c].trunc
      /\ n.pc = "ended" => n.res = e
  <2>1. CASE e = "ok"
    <3>1. n = CallOf("ended", call[c].launched, call[c].trunc, call[c].tmo, call[c].prov, e)
      BY <2>1, <1>1, EndedIs
    <3> QED
      BY <3>1, <2>1, <1>1 DEF CallState, CallOf, Typed
  <2>2. CASE e # "ok"
    BY <2>2, <1>1, ErrorEffect DEF Typed
  <2> QED
    BY <2>1, <2>2
<1>3. call' = [call EXCEPT ![c] = n]
  BY DEF Leave
<1> QED
  BY <1>2, <1>3 DEF Inv, Whole

(***************************************************************************)
(* Cancelled attempts                                                       *)
(***************************************************************************)
LEMMA StopEffect ==
  ASSUME NEW a \in Attempt, NEW b, b = Stop(a)
  PROVE  /\ b \in Attempt /\ b.sem = a.sem
         /\ Live(b) <=> Live(a)
         /\ Holds(b) <=> Holds(a)
         /\ ~Unsent(b)
         /\ b.st = "done" /\ b.out = "ok" => b = a
<1>1. CASE a.st \in {"admit", "queued"}
  <2>1. b = [st |-> "done", sem |-> a.sem, out |-> "cancelled"]
    BY <1>1 DEF Stop, Attempt
  <2> QED
    BY <2>1, <1>1 DEF Attempt, Outs, Live, Holds, Unsent
<1>2. CASE Holds(a)
  <2>1. b = [st |-> "closing", sem |-> a.sem, out |-> "cancelled"]
    BY <1>2 DEF Stop, Holds, Attempt
  <2> QED
    BY <2>1, <1>2 DEF Attempt, Outs, Live, Holds, Unsent
<1>3. CASE a.st \notin {"admit", "queued"} /\ ~Holds(a)
  BY <1>3 DEF Stop, Holds, Unsent, Attempt
<1> QED
  BY <1>1, <1>2, <1>3

(* What a cancellation of the routes R leaves of the attempts of c. *)
LEMMA CancelEffect ==
  ASSUME Inv, NEW c \in Callers, NEW R \in SUBSET Routes, CancelAttempts(c, R)
  PROVE  /\ att' \in [Callers -> [Routes -> Attempt]]
         /\ \A d \in Callers \ {c} : att'[d] = att[d]
         /\ \A r \in Routes :
               /\ att'[c][r].sem = att[c][r].sem
               /\ Live(att'[c][r]) <=> Live(att[c][r])
               /\ Holds(att'[c][r]) <=> Holds(att[c][r])
               /\ Unsent(att'[c][r]) => Unsent(att[c][r]) /\ r \notin R
               /\ att'[c][r].st = "done" /\ att'[c][r].out = "ok" => att'[c][r] = att[c][r]
               /\ r \notin R => att'[c][r] = att[c][r]
<1>1. att \in [Callers -> [Routes -> Attempt]]
  BY DEF Inv, Whole
<1>2. PICK deaf \in SUBSET {r \in R : att[c][r].st = "closing"} :
        att' = [att EXCEPT ![c] = [r \in Routes |-> IF r \in R \ deaf THEN Stop(@[r]) ELSE @[r]]]
  BY DEF CancelAttempts
<1>3. /\ \A d \in Callers \ {c} : att'[d] = att[d]
      /\ att'[c] = [r \in Routes |-> IF r \in R \ deaf THEN Stop(att[c][r]) ELSE att[c][r]]
      /\ att' \in [Callers -> {att[d] : d \in Callers} \cup {att'[c]}]
  BY <1>1, <1>2
<1>4. \A r \in Routes : att'[c][r] = IF r \in R \ deaf THEN Stop(att[c][r]) ELSE att[c][r]
  BY <1>3
<1>5. ASSUME NEW r \in Routes
      PROVE  /\ att'[c][r] \in Attempt
             /\ att'[c][r].sem = att[c][r].sem
             /\ Live(att'[c][r]) <=> Live(att[c][r])
             /\ Holds(att'[c][r]) <=> Holds(att[c][r])
             /\ Unsent(att'[c][r]) => Unsent(att[c][r]) /\ r \notin R
             /\ att'[c][r].st = "done" /\ att'[c][r].out = "ok" => att'[c][r] = att[c][r]
             /\ r \notin R => att'[c][r] = att[c][r]
  <2>1. att[c][r] \in Attempt
    BY <1>1
  <2>2. CASE r \in R \ deaf
    BY <2>1, <2>2, <1>4, StopEffect
  <2>3. CASE r \notin R \ deaf
    BY <2>1, <2>3, <1>4 DEF Unsent
  <2> QED
    BY <2>2, <2>3
<1>6. att'[c] \in [Routes -> Attempt]
  BY <1>3, <1>5
<1>7. att' \in [Callers -> [Routes -> Attempt]]
  BY <1>1, <1>3, <1>6
<1> QED
  BY <1>3, <1>5, <1>7

(* No step but Acquire and Settle gives or takes a permit. *)
HoldersKept == \A d \in Callers, r \in Routes :
    /\ Holds(att'[d][r]) <=> Holds(att[d][r])
    /\ Holds(att[d][r]) => att'[d][r].sem = att[d][r].sem

(* complete raises: whatever was pending has been told to stop. *)
LEMMA RaiseEffect ==
  ASSUME Inv, NEW c \in Callers, NEW e \in Outs \ {"ok"}, Raise(c, e),
         call[c].pc = "prep" \/ (call[c].pc = "wait" /\ prof[c].hedged),
         UNCHANGED <<prof, free, cur, owned, saved>>,
         cancels' \in [Callers -> Nat], cancels'[c] <= prof[c].cancels,
         \A d \in Callers \ {c} : cancels'[d] = cancels[d]
  PROVE  Inv' /\ HoldersKept
<1>1. Good(c) /\ call \in [Callers -> CallState] /\ att \in [Callers -> [Routes -> Attempt]]
  BY DEF Inv, Whole
<1>2. CASE prof[c].hedged
  <2>1. /\ call' = [call EXCEPT ![c].pc = "cleanup", ![c].res = e]
        /\ CancelAttempts(c, Pending(c))
    BY <1>2 DEF Raise
  <2>2. /\ call' \in [Callers -> CallState]
        /\ call'[c].pc = "cleanup" /\ call'[c].res = e /\ call'[c].trunc = call[c].trunc
        /\ call'[c].tmo = call[c].tmo /\ call'[c].prov = call[c].prov
        /\ \A d \in Callers \ {c} : call'[d] = call[d]
    BY <1>1, <2>1 DEF CallState
  <2>3. /\ att' \in [Callers -> [Routes -> Attempt]]
        /\ \A d \in Callers \ {c} : att'[d] = att[d]
        /\ \A r \in Routes :
               /\ att'[c][r].sem = att[c][r].sem
               /\ Live(att'[c][r]) <=> Live(att[c][r])
               /\ Holds(att'[c][r]) <=> Holds(att[c][r])
               /\ Unsent(att'[c][r]) => Unsent(att[c][r]) /\ r \notin Pending(c)
               /\ att'[c][r].st = "done" /\ att'[c][r].out = "ok" => att'[c][r] = att[c][r]
    BY <2>1, CancelEffect DEF Pending
  <2>4. \A r \in Routes : ~Unsent(att'[c][r])
    BY <2>3 DEF Pending, Live, Unsent
  <2>5. Typed(c)' /\ Tidy(c)'
    BY <1>1, <2>2, <2>3, <2>4 DEF Good, Typed, Tidy, Inv, Whole, Unsent
  <2>6. Recorded(c)'
    BY <1>1, <2>2, <2>3 DEF Good, Recorded, Key
  <2>7. Whole' /\ Own(c)
    BY <2>2, <2>3 DEF Inv, Whole, Own, Untouched
  <2> QED
    BY <2>3, <2>5, <2>6, <2>7, StaysGood DEF Good, HoldersKept
<1>3. CASE ~prof[c].hedged
  <2>1. Leave(c, e) /\ att' = att /\ call[c].pc = "prep"
    BY <1>3 DEF Raise
  <2>2. \A r \in Routes : ~Live(att[c][r]) /\ ~Unsent(att[c][r])
    BY <1>1, <1>3, <2>1 DEF Good, Tidy, Live, Unsent
  <2>3. /\ call' \in [Callers -> CallState]
        /\ \A d \in Callers \ {c} : call'[d] = call[d]
        /\ call'[c].trunc <= prof[c].trunc /\ call'[c].tmo <= prof[c].tmo
        /\ call'[c].prov <= prof[c].prov
        /\ call'[c].pc \in {"prep", "sleep", "ended"}
        /\ call'[c].pc = "prep" => call'[c].launched = 0
        /\ call'[c].pc = "ended" => call'[c].res = e
    BY <2>1, LeaveEffect
  <2>4. Typed(c)'
    BY <1>1, <2>1, <2>2, <2>3 DEF Good, Typed, Inv, Whole, Unsent
  <2>5. Tidy(c)'
    BY <1>1, <2>1, <2>2, <2>3, LlmCallAssumption DEF Tidy, Routes
  <2>6. Recorded(c)'
    BY <1>1, <2>1, <2>2, <2>3 DEF Good, Recorded, Live
  <2>7. Whole' /\ Own(c)
    BY <2>1, <2>3 DEF Inv, Whole, Own, Untouched
  <2> QED
    BY <2>1, <2>4, <2>5, <2>6, <2>7, StaysGood DEF Good, HoldersKept
<1> QED
  BY <1>2, <1>3

(***************************************************************************)
(* The steps of a call                                                      *)
(***************************************************************************)
LEMMA LaunchStep ==
  ASSUME Inv, NEW c \in Callers, call[c].pc = "prep", Launch(c),
         UNCHANGED <<prof, free, cur, owned, saved, cancels>>
  PROVE  Inv' /\ HoldersKept
<1> DEFINE n == call[c].launched + 1
<1>1. Good(c) /\ call \in [Callers -> CallState] /\ att \in [Callers -> [Routes -> Attempt]]
  BY DEF Inv, Whole
<1>2. call[c].launched \in Nat /\ n \in Routes /\ NRoutes \in Nat
  BY <1>1, LlmCallAssumption DEF CallState, Good, Tidy, Routes
<1>3. /\ call' = [call EXCEPT ![c].pc = "wait", ![c].launched = n]
      /\ att' = [att EXCEPT ![c] = [q \in Routes |->
            IF q = n THEN [NoAttempt EXCEPT !.st = "admit"]
            ELSE IF n = 1 THEN NoAttempt ELSE @[q]]]
  BY DEF Launch
<1>4. /\ call' \in [Callers -> CallState]
      /\ call'[c].pc = "wait" /\ call'[c].launched = n /\ call'[c].trunc = call[c].trunc
      /\ call'[c].tmo = call[c].tmo /\ call'[c].prov = call[c].prov
      /\ \A d \in Callers \ {c} : call'[d] = call[d]
  BY <1>1, <1>2, <1>3 DEF CallState, Routes
<1>5. PICK fresh : fresh = [NoAttempt EXCEPT !.st = "admit"]
  OBVIOUS
<1>6. fresh = [st |-> "admit", sem |-> 1, out |-> "none"]
  BY <1>5 DEF NoAttempt
<1>7. fresh \in Attempt /\ NoAttempt \in Attempt
  BY <1>6, LlmCallAssumption DEF Attempt, NoAttempt, Outs, Sems
<1>8. /\ att' \in [Callers -> [Routes -> Attempt]]
      /\ \A d \in Callers \ {c} : att'[d] = att[d]
      /\ \A q \in Routes : att'[c][q] = IF q = n THEN fresh ELSE IF n = 1 THEN NoAttempt ELSE att[c][q]
  BY <1>1, <1>3, <1>5, <1>7
<1>9. \A q \in Routes : (q = n \/ n = 1) => ~Live(att[c][q])
  BY <1>1, <1>2 DEF Good, Tidy, Routes
<1>10. Typed(c)'
  BY <1>1, <1>4, <1>8 DEF Good, Typed, Inv, Whole
<1>10a. Tidy(c)'
  <2>1. ASSUME NEW q \in Routes, Live(att'[c][q]) PROVE q <= n /\ (~prof[c].hedged => q = n)
    <3>1. CASE q = n
      BY <3>1, <1>2 DEF Routes
    <3>2. CASE q # n
      <4>1. n # 1 /\ Live(att[c][q])
        BY <2>1, <3>2, <1>8 DEF NoAttempt, Live
      <4> QED
        BY <4>1, <1>1, <1>2 DEF Good, Tidy, Routes
    <3> QED
      BY <3>1, <3>2
  <2> QED
    BY <2>1, <1>4 DEF Tidy
<1>11. Recorded(c)'
  BY <1>1, <1>4, <1>6, <1>8 DEF Good, Recorded, Key, NoAttempt
<1>13. ASSUME NEW q \in Routes
       PROVE  /\ Holds(att'[c][q]) <=> Holds(att[c][q])
              /\ Holds(att[c][q]) => att'[c][q].sem = att[c][q].sem
  BY <1>6, <1>8, <1>9 DEF NoAttempt, Holds, Live
<1>14. Whole' /\ Own(c)
  BY <1>4, <1>8 DEF Inv, Whole, Own, Untouched
<1> QED
  BY <1>8, <1>10, <1>10a, <1>11, <1>13, <1>14, StaysGood DEF Good, HoldersKept

LEMMA PrepareStep ==
  ASSUME Inv, NEW c \in Callers, Prepare(c)
  PROVE  Inv' /\ HoldersKept
<1>1. call[c].pc = "prep" /\ UNCHANGED <<prof, free, cur, owned, saved, cancels>>
  BY DEF Prepare
<1>2. Good(c) /\ cancels \in [Callers -> Nat]
  BY DEF Inv, Whole
<1>3. CASE Launch(c)
  BY <1>1, <1>3, LaunchStep
<1>4. ASSUME NEW e \in {"fatal", "timeout"}, Raise(c, e) PROVE Inv' /\ HoldersKept
  <2>1. e \in Outs \ {"ok"}
    BY DEF Outs, Errors
  <2>2. /\ cancels' \in [Callers -> Nat] /\ cancels'[c] <= prof[c].cancels
        /\ \A d \in Callers \ {c} : cancels'[d] = cancels[d]
    BY <1>1, <1>2 DEF Good, Typed
  <2> QED
    BY <1>1, <1>4, <2>1, <2>2, RaiseEffect
<1> QED
  BY <1>3, <1>4 DEF Prepare

LEMMA HedgeTimerStep ==
  ASSUME Inv, NEW c \in Callers, HedgeTimer(c)
  PROVE  Inv' /\ HoldersKept
<1>1. Good(c) /\ call \in [Callers -> CallState] /\ NRoutes \in Nat
  BY LlmCallAssumption DEF Inv, Whole
<1>2. /\ call' = [call EXCEPT ![c].pc = "prep"]
      /\ prof[c].hedged /\ call[c].pc = "wait" /\ call[c].launched = 1 /\ NRoutes > 1
      /\ UNCHANGED <<prof, att, free, cur, owned, saved, cancels>>
  BY DEF HedgeTimer
<1>3. /\ call' \in [Callers -> CallState]
      /\ call'[c] = [call[c] EXCEPT !.pc = "prep"]
      /\ \A d \in Callers \ {c} : call'[d] = call[d]
  BY <1>1, <1>2 DEF CallState
<1>4. /\ call'[c].pc = "prep" /\ call'[c].launched = 1 /\ call'[c].trunc = call[c].trunc
      /\ call'[c].tmo = call[c].tmo /\ call'[c].prov = call[c].prov
  BY <1>1, <1>2, <1>3 DEF CallState
<1>5. Good(c)'
  BY <1>1, <1>2, <1>3, <1>4 DEF Good, Typed, Tidy, Recorded, Key, Inv, Whole
<1>6. Whole' /\ Own(c)
  BY <1>2, <1>3 DEF Inv, Whole, Own, Untouched
<1> QED
  BY <1>2, <1>5, <1>6, StaysGood DEF HoldersKept

(* The attempt on route r has been taken: nothing of it is left but why it  *)
(* ended.                                                                   *)
LEMMA OverEffect ==
  ASSUME NEW a \in Attempt, NEW b, b = Over(a)
  PROVE  b = [st |-> "idle", sem |-> 1, out |-> a.out] /\ b \in Attempt
<1>1. b = [st |-> "idle", sem |-> 1, out |-> a.out]
  BY DEF Over, NoAttempt
<1> QED
  BY <1>1, LlmCallAssumption DEF Attempt, Sems

LEMMA ConsumedEffect ==
  ASSUME Inv, NEW c \in Callers, NEW r \in Routes,
         att[c][r].st = "done", att' = [att EXCEPT ![c] = Consumed(c, r)]
  PROVE  /\ att' \in [Callers -> [Routes -> Attempt]]
         /\ \A d \in Callers \ {c} : att'[d] = att[d]
         /\ \A q \in Routes \ {r} : att'[c][q] = att[c][q]
         /\ att'[c][r] = [st |-> "idle", sem |-> 1, out |-> att[c][r].out]
<1>1. att \in [Callers -> [Routes -> Attempt]]
  BY DEF Inv, Whole
<1>2. PICK over : over = Over(att[c][r])
  OBVIOUS
<1>3. att' = [att EXCEPT ![c] = [att[c] EXCEPT ![r] = over]]
  BY <1>2 DEF Consumed
<1>4. over \in Attempt /\ over = [st |-> "idle", sem |-> 1, out |-> att[c][r].out]
  BY <1>1, <1>2, OverEffect
<1> QED
  BY <1>1, <1>3, <1>4

LEMMA FinishStep ==
  ASSUME Inv, NEW c \in Callers, NEW r \in Routes, call[c].pc = "wait",
         att[c][r].st = "done", att[c][r].out = "ok", Finish(c, r),
         UNCHANGED <<prof, free, cur, owned, saved, cancels>>
  PROVE  Inv' /\ HoldersKept
<1>1. Good(c) /\ call \in [Callers -> CallState] /\ att \in [Callers -> [Routes -> Attempt]]
  BY DEF Inv, Whole
<1>2. prof[c].durable => Key(c, r) \in saved[c]
  BY <1>1 DEF Good, Recorded
<1>3. CASE prof[c].hedged
  <2>1. /\ call' = [call EXCEPT ![c].pc = "cleanup", ![c].res = "ok"]
        /\ CancelAttempts(c, Pending(c) \ {r})
    BY <1>3 DEF Finish
  <2>2. /\ call' \in [Callers -> CallState]
        /\ call'[c].pc = "cleanup" /\ call'[c].res = "ok" /\ call'[c].trunc = call[c].trunc
        /\ call'[c].tmo = call[c].tmo /\ call'[c].prov = call[c].prov
        /\ \A d \in Callers \ {c} : call'[d] = call[d]
    BY <1>1, <2>1 DEF CallState, Outs
  <2>3. /\ att' \in [Callers -> [Routes -> Attempt]]
        /\ \A d \in Callers \ {c} : att'[d] = att[d]
        /\ \A q \in Routes :
               /\ att'[c][q].sem = att[c][q].sem
               /\ Holds(att'[c][q]) <=> Holds(att[c][q])
               /\ Unsent(att'[c][q]) => Unsent(att[c][q]) /\ q \notin Pending(c) \ {r}
               /\ att'[c][q].st = "done" /\ att'[c][q].out = "ok" => att'[c][q] = att[c][q]
    BY <2>1, CancelEffect DEF Pending
  <2>4. \A q \in Routes : ~Unsent(att'[c][q])
    BY <2>3 DEF Pending, Live, Unsent
  <2>5. Typed(c)' /\ Tidy(c)'
    BY <1>1, <2>2, <2>3, <2>4 DEF Good, Typed, Tidy, Inv, Whole, Unsent
  <2>6. Recorded(c)'
    BY <1>1, <1>2, <2>2, <2>3 DEF Good, Recorded, Key
  <2>7. Whole' /\ Own(c)
    BY <2>2, <2>3 DEF Inv, Whole, Own, Untouched
  <2> QED
    BY <2>3, <2>5, <2>6, <2>7, StaysGood DEF Good, HoldersKept
<1>4. CASE ~prof[c].hedged
  <2>1. Leave(c, "ok") /\ att' = [att EXCEPT ![c] = Consumed(c, r)]
    BY <1>4 DEF Finish
  <2>2. /\ att' \in [Callers -> [Routes -> Attempt]]
        /\ \A d \in Callers \ {c} : att'[d] = att[d]
        /\ \A q \in Routes \ {r} : att'[c][q] = att[c][q]
        /\ att'[c][r] = [st |-> "idle", sem |-> 1, out |-> att[c][r].out]
    BY <2>1, ConsumedEffect
  <2>3. \A q \in Routes \ {r} : ~Live(att[c][q])
    BY <1>1, <1>4 DEF Good, Tidy, Live
  <2>4. \A q \in Routes : ~Live(att'[c][q]) /\ ~Unsent(att'[c][q])
    BY <2>2, <2>3 DEF Live, Unsent
  <2>5. /\ call' \in [Callers -> CallState]
        /\ \A d \in Callers \ {c} : call'[d] = call[d]
        /\ call'[c].trunc <= prof[c].trunc /\ call'[c].tmo <= prof[c].tmo
        /\ call'[c].prov <= prof[c].prov
        /\ call'[c].pc \in {"sleep", "ended"} /\ call'[c].trunc = call[c].trunc
    BY <2>1, LeaveEffect DEF Outs
  <2>6. Typed(c)' /\ Tidy(c)'
    BY <1>1, <2>2, <2>4, <2>5 DEF Good, Typed, Tidy, Inv, Whole, Unsent
  <2>7. Recorded(c)'
    BY <1>2, <2>4, <2>5 DEF Recorded, Key, Live
  <2>8. Whole' /\ Own(c)
    BY <2>2, <2>5 DEF Inv, Whole, Own, Untouched
  <2>9. \A q \in Routes : /\ Holds(att'[c][q]) <=> Holds(att[c][q])
                          /\ Holds(att[c][q]) => att'[c][q].sem = att[c][q].sem
    BY <2>2 DEF Holds
  <2> QED
    BY <2>2, <2>6, <2>7, <2>8, <2>9, StaysGood DEF Good, HoldersKept
<1> QED
  BY <1>3, <1>4

LEMMA FailStep ==
  ASSUME Inv, NEW c \in Callers, NEW r \in Routes, call[c].pc = "wait",
         att[c][r].st = "done", att[c][r].out # "ok", Fail(c, r),
         UNCHANGED <<prof, free, cur, owned, saved, cancels>>
  PROVE  Inv' /\ HoldersKept
<1>1. Good(c) /\ call \in [Callers -> CallState] /\ att \in [Callers -> [Routes -> Attempt]]
  BY DEF Inv, Whole
<1>2. /\ att' \in [Callers -> [Routes -> Attempt]]
      /\ \A d \in Callers \ {c} : att'[d] = att[d]
      /\ \A q \in Routes \ {r} : att'[c][q] = att[c][q]
      /\ att'[c][r] = [st |-> "idle", sem |-> 1, out |-> att[c][r].out]
  BY ConsumedEffect DEF Fail
<1>3. \A q \in Routes : /\ Holds(att'[c][q]) <=> Holds(att[c][q])
                        /\ Holds(att[c][q]) => att'[c][q].sem = att[c][q].sem
  BY <1>2 DEF Holds
<1>4. \A q \in Routes : Live(att'[c][q]) => q # r /\ att'[c][q] = att[c][q]
  BY <1>2 DEF Live
<1>6. Pending(c) = {r} => \A q \in Routes : ~Live(att'[c][q])
  BY <1>4 DEF Pending
<1>7. CASE Pending(c) # {r}
  <2>1. call' = call
    BY <1>7 DEF Fail
  <2>2. Typed(c)' /\ Tidy(c)'
    BY <1>1, <1>2, <1>4, <2>1 DEF Good, Typed, Tidy
  <2>3. Recorded(c)'
    BY <1>1, <1>4, <2>1 DEF Good, Recorded, Key, Live
  <2>4. Whole' /\ Own(c)
    BY <1>2, <2>1 DEF Inv, Whole, Own, Untouched
  <2> QED
    BY <1>2, <1>3, <2>2, <2>3, <2>4, StaysGood DEF Good, HoldersKept
<1>8. CASE /\ Pending(c) = {r} /\ call[c].launched < NRoutes
           /\ prof[c].hedged \/ FailsOver(att[c][r].out)
  <2>1. call' = [call EXCEPT ![c].pc = "prep"]
    BY <1>8 DEF Fail
  <2>2. /\ call' \in [Callers -> CallState]
        /\ call'[c].pc = "prep" /\ call'[c].launched = call[c].launched
        /\ call'[c].trunc = call[c].trunc
        /\ call'[c].tmo = call[c].tmo /\ call'[c].prov = call[c].prov
        /\ \A d \in Callers \ {c} : call'[d] = call[d]
    BY <1>1, <2>1 DEF CallState
  <2>3. ~prof[c].hedged => r = call[c].launched /\ att[c][r].out # "forbidden"
    BY <1>1, <1>8 DEF Good, Tidy, Live, FailsOver
  <2>4. Typed(c)'
    BY <1>1, <1>2, <2>2 DEF Good, Typed
  <2>5. Tidy(c)'
    BY <1>2, <1>6, <1>8, <2>2, <2>3 DEF Tidy
  <2>6. Recorded(c)'
    BY <1>6, <1>8, <2>2 DEF Recorded, Live
  <2>7. Whole' /\ Own(c)
    BY <1>2, <2>2 DEF Inv, Whole, Own, Untouched
  <2> QED
    BY <1>2, <1>3, <2>4, <2>5, <2>6, <2>7, StaysGood DEF Good, HoldersKept
<1>9. CASE /\ Pending(c) = {r}
           /\ ~(call[c].launched < NRoutes /\ (prof[c].hedged \/ FailsOver(att[c][r].out)))
  <2>1. Leave(c, att[c][r].out) /\ att[c][r].out \in Outs
    BY <1>1, <1>9 DEF Fail, Attempt
  <2>2. /\ call' \in [Callers -> CallState]
        /\ \A d \in Callers \ {c} : call'[d] = call[d]
        /\ call'[c].trunc <= prof[c].trunc /\ call'[c].tmo <= prof[c].tmo
        /\ call'[c].prov <= prof[c].prov
        /\ call'[c].pc \in {"prep", "sleep", "ended"}
        /\ call'[c].pc = "prep" => call'[c].launched = 0
        /\ call'[c].pc = "ended" => call'[c].res = att[c][r].out
    BY <2>1, LeaveEffect
  <2>3. Typed(c)'
    BY <1>1, <1>2, <2>2 DEF Good, Typed
  <2>4. Tidy(c)'
    BY <1>6, <1>9, <2>2, LlmCallAssumption DEF Tidy, Live, Unsent
  <2>5. Recorded(c)'
    BY <1>6, <1>9, <2>2 DEF Recorded, Live
  <2>6. Whole' /\ Own(c)
    BY <1>2, <2>2 DEF Inv, Whole, Own, Untouched
  <2> QED
    BY <1>2, <1>3, <2>3, <2>4, <2>5, <2>6, StaysGood DEF Good, HoldersKept
<1> QED
  BY <1>7, <1>8, <1>9

LEMMA TakeResultStep ==
  ASSUME Inv, NEW c \in Callers, NEW r \in Routes, TakeResult(c, r)
  PROVE  Inv' /\ HoldersKept
  BY FinishStep, FailStep DEF TakeResult

LEMMA GatheredStep ==
  ASSUME Inv, NEW c \in Callers, Gathered(c)
  PROVE  Inv' /\ HoldersKept
<1>1. /\ Good(c) /\ call \in [Callers -> CallState] /\ att \in [Callers -> [Routes -> Attempt]]
      /\ call[c].res \in Outs
  BY DEF Inv, Whole, CallState
<1>2. /\ call[c].pc = "cleanup" /\ \A r \in Pending(c) : att[c][r].st = "done"
      /\ Leave(c, call[c].res)
      /\ att' = [att EXCEPT ![c] = [r \in Routes |-> Over(@[r])]]
      /\ UNCHANGED <<prof, free, cur, owned, saved, cancels>>
  BY DEF Gathered
<1>3. ASSUME NEW r \in Routes
      PROVE  /\ Over(att[c][r]) \in Attempt /\ Over(att[c][r]).st = "idle"
             /\ ~Holds(att[c][r])
  BY <1>1, <1>2, OverEffect DEF Pending, Live, Holds
<1>4. /\ att' \in [Callers -> [Routes -> Attempt]]
      /\ \A d \in Callers \ {c} : att'[d] = att[d]
      /\ \A r \in Routes : att'[c][r].st = "idle"
  BY <1>1, <1>2, <1>3
<1>5. /\ call' \in [Callers -> CallState]
      /\ \A d \in Callers \ {c} : call'[d] = call[d]
      /\ call'[c].trunc <= prof[c].trunc /\ call'[c].tmo <= prof[c].tmo
      /\ call'[c].prov <= prof[c].prov
      /\ call'[c].pc \in {"prep", "sleep", "ended"}
      /\ call'[c].pc = "prep" => call'[c].launched = 0
      /\ call'[c].pc # "prep" => call'[c].trunc = call[c].trunc
      /\ call'[c].pc = "ended" => call'[c].res = call[c].res
  BY <1>1, <1>2, LeaveEffect
<1>6. Typed(c)'
  BY <1>1, <1>2, <1>4, <1>5 DEF Good, Typed
<1>7. Tidy(c)'
  BY <1>4, <1>5, LlmCallAssumption DEF Tidy, Live, Unsent
<1>8. Recorded(c)'
  BY <1>1, <1>2, <1>4, <1>5 DEF Good, Recorded, Key
<1>10. Whole' /\ Own(c)
  BY <1>2, <1>4, <1>5 DEF Inv, Whole, Own, Untouched
<1> QED
  BY <1>3, <1>4, <1>6, <1>7, <1>8, <1>10, StaysGood DEF Good, HoldersKept, Holds

LEMMA WakeStep ==
  ASSUME Inv, NEW c \in Callers, Wake(c)
  PROVE  Inv' /\ HoldersKept
<1>1. Good(c) /\ call \in [Callers -> CallState] /\ att \in [Callers -> [Routes -> Attempt]]
  BY DEF Inv, Whole
<1>2. /\ \A r \in Pending(c) : att[c][r].st = "done"
      /\ call' = [call EXCEPT ![c] = Again(@)]
      /\ att' = [att EXCEPT ![c] = NothingLaunched]
      /\ UNCHANGED <<prof, free, cur, owned, saved, cancels>>
  BY DEF Wake
<1>3. PICK again : again = Again(call[c])
  OBVIOUS
<1>4. again = CallOf("prep", 0, call[c].trunc, call[c].tmo, call[c].prov, "none")
  BY <1>1, <1>3, AgainIs
<1>5. again \in CallState
  BY <1>1, <1>4, LlmCallAssumption DEF CallOf, CallState, Outs
<1>6. /\ call' \in [Callers -> CallState] /\ call'[c] = again
      /\ \A d \in Callers \ {c} : call'[d] = call[d]
  BY <1>1, <1>2, <1>3, <1>5
<1>7. NothingLaunched \in [Routes -> Attempt] /\ \A r \in Routes : NothingLaunched[r].st = "idle"
  BY LlmCallAssumption DEF NothingLaunched, NoAttempt, Attempt, Outs, Sems
<1>8. /\ att' \in [Callers -> [Routes -> Attempt]]
      /\ \A d \in Callers \ {c} : att'[d] = att[d]
      /\ \A r \in Routes : att'[c][r].st = "idle" /\ ~Holds(att[c][r])
  BY <1>1, <1>2, <1>7 DEF Pending, Live, Holds
<1>9. Typed(c)'
  BY <1>1, <1>2, <1>4, <1>6, <1>8 DEF Good, Typed, CallOf
<1>10. Tidy(c)' /\ Recorded(c)'
  BY <1>4, <1>6, <1>8, LlmCallAssumption DEF Tidy, Recorded, Live, Unsent, CallOf
<1>12. Whole' /\ Own(c)
  BY <1>2, <1>6, <1>8 DEF Inv, Whole, Own, Untouched
<1> QED
  BY <1>8, <1>9, <1>10, <1>12, StaysGood DEF Good, HoldersKept, Holds

(***************************************************************************)
(* The steps of an attempt                                                  *)
(***************************************************************************)
(* The attempt of c on route r becomes a, lawfully. *)
Becomes(c, r, a) ==
    /\ Live(att[c][r]) /\ Live(a) /\ (Unsent(a) => Unsent(att[c][r]))
    /\ att' = [att EXCEPT ![c][r] = a]
    /\ UNCHANGED <<prof, call, cur, owned, cancels>>
    /\ free' \in [Sems -> Nat]
    /\ saved' \in [Callers -> SUBSET (Routes \X Nat)] /\ saved[c] \subseteq saved'[c]
    /\ \A d \in Callers \ {c} : saved'[d] = saved[d]
    /\ prof[c].durable /\ a.st = "done" /\ a.out = "ok" => Key(c, r) \in saved'[c]

LEMMA AttemptChange ==
  ASSUME Inv, NEW c \in Callers, NEW r \in Routes, NEW a \in Attempt, Becomes(c, r, a)
  PROVE  /\ Inv' /\ att'[c][r] = a
         /\ \A d \in Callers, q \in Routes : d # c \/ q # r => att'[d][q] = att[d][q]
<1>1. Good(c) /\ att \in [Callers -> [Routes -> Attempt]]
  BY DEF Inv, Whole
<1>2. /\ att' \in [Callers -> [Routes -> Attempt]]
      /\ att'[c][r] = a
      /\ \A d \in Callers, q \in Routes : d # c \/ q # r => att'[d][q] = att[d][q]
      /\ \A d \in Callers \ {c} : att'[d] = att[d]
  BY <1>1 DEF Becomes
<1>3. Typed(c)'
  BY <1>1, <1>2 DEF Good, Typed, Becomes
<1>4. Tidy(c)'
  <2>1. \A q \in Routes : /\ Live(att'[c][q]) => Live(att[c][q])
                          /\ Unsent(att'[c][q]) => Unsent(att[c][q])
    BY <1>2 DEF Becomes
  <2>2. /\ ~prof[c].hedged /\ call[c].pc = "prep" /\ call[c].launched > 0
        => att'[c][call[c].launched].out # "forbidden"
    <3>1. SUFFICES ASSUME ~prof[c].hedged /\ call[c].pc = "prep" /\ call[c].launched > 0
                   PROVE  att'[c][call[c].launched].out # "forbidden"
      OBVIOUS
    <3>2. FALSE
      BY <1>1, <3>1 DEF Good, Tidy, Becomes
    <3> QED
      BY <3>2
  <2> QED
    BY <1>1, <2>1, <2>2 DEF Good, Tidy, Becomes
<1>5. Recorded(c)'
  BY <1>1, <1>2 DEF Good, Recorded, Key, Becomes
<1>7. Whole' /\ Own(c)
  BY <1>2 DEF Inv, Whole, Own, Untouched, Becomes
<1> QED
  BY <1>2, <1>3, <1>4, <1>5, <1>7, StaysGood DEF Good

LEMMA AdmitStep ==
  ASSUME Inv, NEW c \in Callers, NEW r \in Routes, Admit(c, r)
  PROVE  Inv' /\ HoldersKept
<1>1. /\ att \in [Callers -> [Routes -> Attempt]] /\ Good(c) /\ att[c][r] \in Attempt
      /\ cur \in Sems /\ free \in [Sems -> Nat] /\ saved \in [Callers -> SUBSET (Routes \X Nat)]
      /\ att[c][r].st = "admit" /\ UNCHANGED <<prof, call, free, cur, owned, saved, cancels>>
  BY DEF Inv, Whole, Admit
<1>2. PICK a : /\ att' = [att EXCEPT ![c][r] = a]
               /\ \/ ~MayRun(c) /\ a = [att[c][r] EXCEPT !.st = "done", !.out = "cancelled"]
                  \/ /\ prof[c].durable /\ Key(c, r) \in saved[c]
                     /\ a = [att[c][r] EXCEPT !.st = "done", !.out = "ok"]
                  \/ MayRun(c) /\ a = [att[c][r] EXCEPT !.st = "queued", !.sem = cur]
  BY <1>1 DEF Admit
<1>3. \/ a = [st |-> "done", sem |-> att[c][r].sem, out |-> "cancelled"]
      \/ /\ prof[c].durable /\ Key(c, r) \in saved[c]
         /\ a = [st |-> "done", sem |-> att[c][r].sem, out |-> "ok"]
      \/ MayRun(c) /\ a = [st |-> "queued", sem |-> cur, out |-> att[c][r].out]
  BY <1>1, <1>2 DEF Attempt
<1>4. /\ a \in Attempt /\ Live(a) /\ Unsent(att[c][r]) /\ Live(att[c][r])
      /\ ~Holds(a) /\ ~Holds(att[c][r])
  BY <1>1, <1>3 DEF Attempt, Outs, Live, Unsent, Holds
<1>5. prof[c].durable /\ a.st = "done" /\ a.out = "ok" => Key(c, r) \in saved[c]
  BY <1>3
<1>7. /\ Inv' /\ att'[c][r] = a
      /\ \A d \in Callers, q \in Routes : d # c \/ q # r => att'[d][q] = att[d][q]
  <2>1. Becomes(c, r, a)
    BY <1>1, <1>2, <1>4, <1>5 DEF Becomes
  <2> QED
    BY <2>1, <1>4, AttemptChange
<1> QED
  BY <1>4, <1>7 DEF HoldersKept

LEMMA AcquireStep ==
  ASSUME Inv, NEW c \in Callers, NEW r \in Routes, Acquire(c, r)
  PROVE  /\ Inv' /\ att[c][r].st = "queued" /\ att'[c][r].st = "busy"
         /\ att'[c][r].sem = att[c][r].sem
         /\ \A d \in Callers, q \in Routes : d # c \/ q # r => att'[d][q] = att[d][q]
<1>1. /\ att \in [Callers -> [Routes -> Attempt]] /\ Good(c) /\ att[c][r] \in Attempt
      /\ free \in [Sems -> Nat] /\ saved \in [Callers -> SUBSET (Routes \X Nat)]
      /\ att[c][r].st = "queued" /\ free[att[c][r].sem] > 0
      /\ UNCHANGED <<prof, call, cur, owned, saved, cancels>>
      /\ free' = [free EXCEPT ![att[c][r].sem] = @ - 1]
  BY DEF Inv, Whole, Acquire
<1>2. PICK a : a = [att[c][r] EXCEPT !.st = "busy"]
  OBVIOUS
<1>3. a = [st |-> "busy", sem |-> att[c][r].sem, out |-> att[c][r].out]
  BY <1>1, <1>2 DEF Attempt
<1>4. att' = [att EXCEPT ![c][r] = a]
  BY <1>1, <1>2 DEF Acquire
<1>5. a \in Attempt /\ Live(a) /\ Unsent(att[c][r]) /\ Live(att[c][r])
  BY <1>1, <1>3 DEF Attempt, Live, Unsent
<1>6. free' \in [Sems -> Nat]
  BY <1>1 DEF Attempt
<1>7. /\ Inv' /\ att'[c][r] = a
      /\ \A d \in Callers, q \in Routes : d # c \/ q # r => att'[d][q] = att[d][q]
  <2>1. Becomes(c, r, a)
    BY <1>1, <1>3, <1>4, <1>5, <1>6 DEF Becomes
  <2> QED
    BY <2>1, <1>5, AttemptChange
<1> QED
  BY <1>1, <1>3, <1>7

LEMMA AnswerStep ==
  ASSUME Inv, NEW c \in Callers, NEW r \in Routes, Answer(c, r)
  PROVE  Inv' /\ HoldersKept
<1>1. /\ att \in [Callers -> [Routes -> Attempt]] /\ Good(c) /\ att[c][r] \in Attempt
      /\ free \in [Sems -> Nat] /\ saved \in [Callers -> SUBSET (Routes \X Nat)]
      /\ att[c][r].st = "busy" /\ UNCHANGED <<prof, call, free, cur, owned, saved, cancels>>
  BY DEF Inv, Whole, Answer
<1>2. PICK e \in Errors \cup {"ok"} :
         att' = [att EXCEPT ![c][r].st = "closing", ![c][r].out = e]
  BY DEF Answer
<1>3. PICK a : a = [att[c][r] EXCEPT !.st = "closing", !.out = e]
  OBVIOUS
<1>4. a = [st |-> "closing", sem |-> att[c][r].sem, out |-> e]
  BY <1>1, <1>3 DEF Attempt
<1>5. att' = [att EXCEPT ![c][r] = a]
  BY <1>1, <1>2, <1>3, <1>4 DEF Attempt
<1>6. /\ a \in Attempt /\ Live(a) /\ ~Unsent(a) /\ Live(att[c][r])
      /\ Holds(a) /\ Holds(att[c][r]) /\ a.sem = att[c][r].sem
  BY <1>1, <1>4 DEF Attempt, Outs, Live, Unsent, Holds
<1>7. /\ Inv' /\ att'[c][r] = a
      /\ \A d \in Callers, q \in Routes : d # c \/ q # r => att'[d][q] = att[d][q]
  <2>1. Becomes(c, r, a)
    BY <1>1, <1>4, <1>5, <1>6 DEF Becomes
  <2> QED
    BY <2>1, <1>6, AttemptChange
<1> QED
  BY <1>6, <1>7 DEF HoldersKept

LEMMA SettleStep ==
  ASSUME Inv, NEW c \in Callers, NEW r \in Routes, Settle(c, r)
  PROVE  /\ Inv' /\ att[c][r].st = "closing" /\ att'[c][r].st = "done"
         /\ \A d \in Callers, q \in Routes : d # c \/ q # r => att'[d][q] = att[d][q]
<1>1. /\ att \in [Callers -> [Routes -> Attempt]] /\ Good(c) /\ att[c][r] \in Attempt
      /\ call[c] \in CallState /\ free \in [Sems -> Nat]
      /\ saved \in [Callers -> SUBSET (Routes \X Nat)]
      /\ att[c][r].st = "closing" /\ UNCHANGED <<prof, call, cur, owned, cancels>>
      /\ free' = [free EXCEPT ![att[c][r].sem] = @ + 1]
  BY DEF Inv, Whole, Settle
<1>2. PICK o : o = IF att[c][r].out = "ok" /\ ~MayRun(c) THEN "cancelled" ELSE att[c][r].out
  OBVIOUS
<1>3. PICK a : a = [att[c][r] EXCEPT !.st = "done", !.out = o]
  OBVIOUS
<1>4. a = [st |-> "done", sem |-> att[c][r].sem, out |-> o] /\ o \in Outs
  BY <1>1, <1>2, <1>3 DEF Attempt, Outs
<1>5. att' = [att EXCEPT ![c][r] = a]
  <2>1. att' = [att EXCEPT ![c][r].st = "done",
            ![c][r].out = IF @ = "ok" /\ ~MayRun(c) THEN "cancelled" ELSE @]
    BY DEF Settle
  <2>2. att' = [att EXCEPT ![c][r].st = "done", ![c][r].out = o]
    BY <1>1, <1>2, <2>1 DEF Attempt
  <2> QED
    BY <1>1, <1>3, <1>4, <2>2 DEF Attempt
<1>6. a \in Attempt /\ Live(a) /\ ~Unsent(a) /\ Live(att[c][r])
  BY <1>1, <1>4 DEF Attempt, Live, Unsent
<1>7. free' \in [Sems -> Nat]
  BY <1>1 DEF Attempt
<1>8. /\ saved' \in [Callers -> SUBSET (Routes \X Nat)] /\ saved[c] \subseteq saved'[c]
      /\ \A d \in Callers \ {c} : saved'[d] = saved[d]
      /\ a.out = "ok" => Key(c, r) \in saved'[c]
  <2>1. Key(c, r) \in Routes \X Nat
    BY <1>1 DEF Key, CallState
  <2>2. saved' = [saved EXCEPT ![c] =
            IF att[c][r].out = "ok" /\ MayRun(c) THEN @ \cup {Key(c, r)} ELSE @]
    BY DEF Settle, Save
  <2>3. a.out = "ok" => att[c][r].out = "ok" /\ MayRun(c)
    BY <1>2, <1>4
  <2> QED
    BY <1>1, <2>1, <2>2, <2>3
<1>9. Becomes(c, r, a)
  BY <1>1, <1>4, <1>5, <1>6, <1>7, <1>8 DEF Becomes
<1>10. /\ Inv' /\ att'[c][r] = a
       /\ \A d \in Callers, q \in Routes : d # c \/ q # r => att'[d][q] = att[d][q]
  BY <1>6, <1>9, AttemptChange
<1> QED
  BY <1>1, <1>4, <1>10

(***************************************************************************)
(* Cancellations, lost leases and new limits                                *)
(***************************************************************************)
LEMMA CancelStep ==
  ASSUME Inv, NEW c \in Callers, Cancel(c)
  PROVE  Inv' /\ HoldersKept
<1>1. /\ Good(c) /\ call \in [Callers -> CallState] /\ att \in [Callers -> [Routes -> Attempt]]
      /\ cancels \in [Callers -> Nat] /\ prof[c] \in Profile
  BY ProfileOf DEF Inv, Whole
<1>2. /\ UNCHANGED <<prof, free, cur, owned, saved>>
      /\ cancels[c] < prof[c].cancels /\ cancels' = [cancels EXCEPT ![c] = @ + 1]
  BY DEF Cancel
<1>3. /\ cancels' \in [Callers -> Nat] /\ cancels'[c] <= prof[c].cancels
      /\ \A d \in Callers \ {c} : cancels'[d] = cancels[d]
  BY <1>1, <1>2 DEF Profile
<1>4. "cancelled" \in Outs \ {"ok"}
  BY DEF Outs
<1>5. CASE Raise(c, "cancelled") /\ (call[c].pc = "prep" \/ (call[c].pc = "wait" /\ prof[c].hedged))
  BY <1>2, <1>3, <1>4, <1>5, RaiseEffect
(* the other cases stop what is pending and change at most pc and res *)
<1>6. ASSUME att' \in [Callers -> [Routes -> Attempt]],
             \A d \in Callers \ {c} : att'[d] = att[d],
             \A r \in Routes :
               /\ att'[c][r].sem = att[c][r].sem
               /\ Live(att'[c][r]) => Live(att[c][r])
               /\ Holds(att'[c][r]) <=> Holds(att[c][r])
               /\ ~Unsent(att'[c][r])
               /\ att'[c][r].st = "done" /\ att'[c][r].out = "ok" => att'[c][r] = att[c][r],
             call' \in [Callers -> CallState],
             \A d \in Callers \ {c} : call'[d] = call[d],
             call'[c].trunc = call[c].trunc, call'[c].tmo <= prof[c].tmo,
             call'[c].prov <= prof[c].prov,
             \/ call'[c] = call[c] /\ call[c].pc = "wait" /\ ~prof[c].hedged
             \/ call'[c].pc \in {"cleanup", "sleep"} /\ call'[c].res # "ok"
             \/ call'[c].pc = "ended" /\ call'[c].res = "cancelled"
             \/ call'[c].pc = "sleep"
      PROVE  Inv' /\ HoldersKept
  <2>1. Typed(c)'
    BY <1>1, <1>2, <1>3, <1>6 DEF Good, Typed, Inv, Whole
  <2>2. Tidy(c)'
    BY <1>1, <1>2, <1>6 DEF Good, Tidy
  <2>3. Recorded(c)'
    BY <1>1, <1>2, <1>6 DEF Good, Recorded, Key
  <2>5. Whole' /\ Own(c)
    BY <1>2, <1>3, <1>6 DEF Inv, Whole, Own, Untouched
  <2> QED
    BY <1>6, <2>1, <2>2, <2>3, <2>5, StaysGood DEF Good, HoldersKept
<1>7. ASSUME CancelAttempts(c, Pending(c))
      PROVE  /\ att' \in [Callers -> [Routes -> Attempt]]
             /\ \A d \in Callers \ {c} : att'[d] = att[d]
             /\ \A r \in Routes :
               /\ att'[c][r].sem = att[c][r].sem
               /\ Live(att'[c][r]) => Live(att[c][r])
               /\ Holds(att'[c][r]) <=> Holds(att[c][r])
               /\ ~Unsent(att'[c][r])
               /\ att'[c][r].st = "done" /\ att'[c][r].out = "ok" => att'[c][r] = att[c][r]
  <2>1. Pending(c) \in SUBSET Routes
    BY DEF Pending
  <2>2. /\ att' \in [Callers -> [Routes -> Attempt]]
        /\ \A d \in Callers \ {c} : att'[d] = att[d]
        /\ \A r \in Routes :
               /\ att'[c][r].sem = att[c][r].sem
               /\ Live(att'[c][r]) <=> Live(att[c][r])
               /\ Holds(att'[c][r]) <=> Holds(att[c][r])
               /\ Unsent(att'[c][r]) => Unsent(att[c][r]) /\ r \notin Pending(c)
               /\ att'[c][r].st = "done" /\ att'[c][r].out = "ok" => att'[c][r] = att[c][r]
    BY <1>7, <2>1, CancelEffect
  <2>3. \A r \in Routes : Unsent(att[c][r]) => r \in Pending(c)
    BY DEF Pending, Unsent, Live
  <2> QED
    BY <2>2, <2>3
<1>8. CASE call[c].pc = "wait" /\ ~prof[c].hedged /\ CancelAttempts(c, Pending(c)) /\ call' = call
  BY <1>1, <1>6, <1>7, <1>8 DEF Good, Typed
<1>9. CASE /\ call[c].pc = "cleanup" /\ CancelAttempts(c, Pending(c))
           /\ call' = [call EXCEPT ![c].res = "cancelled"]
  <2>1. /\ call' \in [Callers -> CallState]
        /\ call'[c].pc = "cleanup" /\ call'[c].res = "cancelled"
        /\ call'[c].trunc = call[c].trunc
        /\ call'[c].tmo = call[c].tmo /\ call'[c].prov = call[c].prov
        /\ \A d \in Callers \ {c} : call'[d] = call[d]
    BY <1>1, <1>9 DEF CallState, Outs
  <2> QED
    BY <1>1, <1>6, <1>7, <1>9, <2>1 DEF Good, Typed
<1>10. CASE /\ call[c].pc = "cleanup" /\ CancelAttempts(c, Pending(c)) /\ Leave(c, "cancelled")
  <2>1. /\ call' \in [Callers -> CallState]
        /\ \A d \in Callers \ {c} : call'[d] = call[d]
        /\ call'[c].tmo <= prof[c].tmo /\ call'[c].prov <= prof[c].prov
        /\ call'[c].pc \in {"sleep", "ended"} /\ call'[c].trunc = call[c].trunc
        /\ call'[c].pc = "ended" => call'[c].res = "cancelled"
    BY <1>4, <1>10, LeaveEffect
  <2> QED
    BY <1>6, <1>7, <1>10, <2>1
<1>11. CASE call[c].pc = "sleep" /\ call' = [call EXCEPT ![c] = Ended(@, "cancelled")] /\ att' = att
  <2>1. PICK n : n = Ended(call[c], "cancelled")
    OBVIOUS
  <2>2. n = CallOf("ended", call[c].launched, call[c].trunc, call[c].tmo, call[c].prov, "cancelled")
    BY <1>1, <2>1, EndedIs
  <2>3. n \in CallState
    BY <1>1, <2>2 DEF CallOf, CallState, Outs
  <2>4. call' \in [Callers -> CallState] /\ call'[c] = n /\ \A d \in Callers \ {c} : call'[d] = call[d]
    BY <1>1, <1>11, <2>1, <2>3
  <2>5. \A r \in Routes : ~Unsent(att[c][r])
    BY <1>1, <1>11 DEF Good, Tidy
  <2> QED
    BY <1>1, <1>6, <1>11, <2>2, <2>4, <2>5 DEF Good, Typed, CallOf
<1> QED
  BY <1>5, <1>8, <1>9, <1>10, <1>11 DEF Cancel

LEMMA LoseLeaseStep ==
  ASSUME Inv, NEW c \in Callers, LoseLease(c)
  PROVE  Inv' /\ HoldersKept
<1>1. /\ Good(c) /\ owned \in [Callers -> BOOLEAN] /\ owned' = [owned EXCEPT ![c] = FALSE]
      /\ UNCHANGED <<prof, call, att, free, cur, saved, cancels>>
  BY DEF Inv, Whole, LoseLease
<1>2. owned' \in [Callers -> BOOLEAN] /\ ~owned'[c] /\ \A d \in Callers \ {c} : owned'[d] = owned[d]
  BY <1>1
<1>3. Good(c)'
  BY <1>1, <1>2 DEF Good, Typed, Tidy, Recorded, Key
<1>4. Whole' /\ Own(c)
  BY <1>1, <1>2 DEF Inv, Whole, Own, Untouched
<1> QED
  BY <1>1, <1>3, <1>4, StaysGood DEF HoldersKept

LEMMA ReconfigureStep ==
  ASSUME Inv, Reconfigure
  PROVE  Inv' /\ HoldersKept
<1>1. /\ cur' \in Sems /\ UNCHANGED <<prof, call, att, free, owned, saved, cancels>>
  BY LlmCallAssumption DEF Inv, Whole, Reconfigure, Sems
<1>2. Whole'
  BY <1>1 DEF Inv, Whole
<1>3. \A d \in Callers : Good(d)'
  BY <1>1 DEF Inv, Good, Typed, Tidy, Recorded, Key
<1> QED
  BY <1>1, <1>2, <1>3 DEF Inv, HoldersKept

(***************************************************************************)
(* Who asks a provider                                                      *)
(***************************************************************************)
Asks(a) == a.st \in {"queued", "busy"}
NobodyNewAsks == \A c \in Callers, r \in Routes : Asks(att'[c][r]) => Asks(att[c][r])

LEMMA CancelAsks ==
  ASSUME Inv, NEW c \in Callers, NEW R \in SUBSET Routes, CancelAttempts(c, R)
  PROVE  NobodyNewAsks
<1>1. /\ \A d \in Callers \ {c} : att'[d] = att[d]
      /\ \A r \in Routes : Unsent(att'[c][r]) => r \notin R
      /\ \A r \in Routes : r \notin R => att'[c][r] = att[c][r]
  BY CancelEffect
<1>2. ASSUME NEW d \in Callers, NEW r \in Routes, Asks(att'[d][r]) PROVE Asks(att[d][r])
  <2>1. CASE d = c
    <3>1. Unsent(att'[c][r])
      <4>1. Asks(att'[c][r])
        BY <1>2, <2>1
      <4> QED
        BY <4>1 DEF Asks, Unsent
    <3>3. r \notin R
      BY <1>1, <3>1, Zenon
    <3>2. att'[c][r] = att[c][r]
      BY <1>1, <3>3
    <3> QED
      BY <1>2, <2>1, <3>2
  <2>2. CASE d # c
    BY <1>1, <1>2, <2>2
  <2> QED
    BY <2>1, <2>2
<1> QED
  BY <1>2 DEF NobodyNewAsks

LEMMA RaiseAsks ==
  ASSUME Inv, NEW c \in Callers, NEW e, Raise(c, e)
  PROVE  NobodyNewAsks
<1>1. Pending(c) \in SUBSET Routes
  BY DEF Pending
<1> QED
  BY <1>1, CancelAsks DEF Raise, NobodyNewAsks

LEMMA CallAsks ==
  ASSUME Inv, NEW c \in Callers,
         CallStep(c) \/ HedgeTimer(c) \/ Cancel(c) \/ LoseLease(c)
  PROVE  NobodyNewAsks
<1>1. att \in [Callers -> [Routes -> Attempt]] /\ Pending(c) \in SUBSET Routes
  BY DEF Inv, Whole, Pending
<1>2. CASE Prepare(c)
  <2>1. CASE Launch(c)
    <3>1. att' = [att EXCEPT ![c] = [q \in Routes |->
              IF q = call[c].launched + 1 THEN [NoAttempt EXCEPT !.st = "admit"]
              ELSE IF call[c].launched + 1 = 1 THEN NoAttempt ELSE @[q]]]
      BY <2>1 DEF Launch
    <3>2. /\ \A d \in Callers \ {c} : att'[d] = att[d]
          /\ \A q \in Routes : att'[c][q] \in {[NoAttempt EXCEPT !.st = "admit"], NoAttempt, att[c][q]}
      BY <1>1, <3>1
    <3>3. ~Asks([NoAttempt EXCEPT !.st = "admit"]) /\ ~Asks(NoAttempt)
      BY DEF NoAttempt, Asks
    <3> QED
      BY <3>2, <3>3 DEF NobodyNewAsks
  <2> QED
    BY <1>2, <2>1, RaiseAsks DEF Prepare
<1>3. ASSUME NEW r \in Routes, TakeResult(c, r) PROVE NobodyNewAsks
  <2>1. CASE att' = [att EXCEPT ![c] = Consumed(c, r)]
    <3>1. /\ \A d \in Callers \ {c} : att'[d] = att[d]
          /\ \A q \in Routes \ {r} : att'[c][q] = att[c][q]
          /\ att'[c][r].st = "idle"
      <4>1. att[c][r].st = "done"
        BY <1>3 DEF TakeResult
      <4>2. /\ \A d \in Callers \ {c} : att'[d] = att[d]
            /\ \A q \in Routes \ {r} : att'[c][q] = att[c][q]
            /\ att'[c][r] = [st |-> "idle", sem |-> 1, out |-> att[c][r].out]
        BY <2>1, <4>1, ConsumedEffect
      <4>3. att'[c][r].st = "idle"
        BY <4>2
      <4> QED
        BY <4>2, <4>3
    <3> QED
      BY <3>1 DEF NobodyNewAsks, Asks
  <2>2. CASE CancelAttempts(c, Pending(c) \ {r})
    BY <1>1, <2>2, CancelAsks
  <2> QED
    BY <1>3, <2>1, <2>2 DEF TakeResult, Finish, Fail
<1>4. CASE Gathered(c)
  <2>1. att' = [att EXCEPT ![c] = [r \in Routes |-> Over(@[r])]]
    BY <1>4 DEF Gathered
  <2>2. \A r \in Routes : Over(att[c][r]).st = "idle"
    BY <1>1, OverEffect
  <2>3. (\A d \in Callers \ {c} : att'[d] = att[d]) /\ \A r \in Routes : att'[c][r].st = "idle"
    BY <1>1, <2>1, <2>2
  <2> QED
    BY <2>3 DEF NobodyNewAsks, Asks
<1>5. CASE Wake(c)
  <2>1. att' = [att EXCEPT ![c] = NothingLaunched]
    BY <1>5 DEF Wake
  <2>2. (\A d \in Callers \ {c} : att'[d] = att[d]) /\ \A r \in Routes : att'[c][r].st = "idle"
    BY <1>1, <2>1 DEF NothingLaunched, NoAttempt
  <2> QED
    BY <2>2 DEF NobodyNewAsks, Asks
<1>6. CASE Cancel(c)
  <2>1. \/ Raise(c, "cancelled") \/ CancelAttempts(c, Pending(c)) \/ att' = att
    BY <1>6 DEF Cancel
  <2> QED
    BY <1>1, <2>1, RaiseAsks, CancelAsks DEF NobodyNewAsks
<1>7. CASE HedgeTimer(c) \/ LoseLease(c)
  BY <1>7 DEF HedgeTimer, LoseLease, NobodyNewAsks
<1> QED
  BY <1>2, <1>3, <1>4, <1>5, <1>6, <1>7 DEF CallStep

LEMMA AttemptAsks ==
  ASSUME Inv, NEW d \in Callers, NEW q \in Routes, AttemptStep(d, q),
         NEW c \in Callers, NEW r \in Routes, prof[c].durable, ~owned[c], ~Asks(att[c][r])
  PROVE  ~Asks(att'[c][r])
<1>1. att \in [Callers -> [Routes -> Attempt]] /\ att[d][q] \in Attempt
  BY DEF Inv, Whole
<1>2. CASE Admit(d, q)
  <2>1. PICK a : /\ att' = [att EXCEPT ![d][q] = a]
                 /\ \/ a = [att[d][q] EXCEPT !.st = "done", !.out = "cancelled"]
                    \/ a = [att[d][q] EXCEPT !.st = "done", !.out = "ok"]
                    \/ MayRun(d) /\ a = [att[d][q] EXCEPT !.st = "queued", !.sem = cur]
    BY <1>2 DEF Admit
  <2>2. a.st = "done" \/ MayRun(d)
    BY <1>1, <2>1 DEF Attempt
  <2>3. att'[c][r] = IF c = d /\ r = q THEN a ELSE att[c][r]
    BY <1>1, <2>1
  <2> QED
    BY <2>2, <2>3 DEF Asks, MayRun
<1>3. CASE Acquire(d, q)
  <2>1. att' = [att EXCEPT ![d][q].st = "busy"] /\ Asks(att[d][q])
    BY <1>3 DEF Acquire, Asks
  <2>2. d # c \/ q # r
    BY <2>1
  <2>3. att'[c][r] = att[c][r]
    BY <1>1, <2>1, <2>2
  <2> QED
    BY <2>3
<1>4. CASE Answer(d, q)
  <2>1. PICK e : att' = [att EXCEPT ![d][q].st = "closing", ![d][q].out = e]
    BY <1>4 DEF Answer
  <2>2. att'[c][r] = att[c][r] \/ att'[c][r].st = "closing"
    BY <1>1, <2>1 DEF Attempt
  <2> QED
    BY <2>2 DEF Asks
<1>5. CASE Settle(d, q)
  <2>1. att'[d][q].st = "done" /\ \A e \in Callers, p \in Routes : e # d \/ p # q => att'[e][p] = att[e][p]
    BY <1>5, SettleStep
  <2> QED
    BY <2>1 DEF Asks
<1> QED
  BY <1>2, <1>3, <1>4, <1>5 DEF AttemptStep

LEMMA NextAsks ==
  ASSUME Inv, [Next]_vars, NEW c \in Callers, NEW r \in Routes,
         prof[c].durable, ~owned[c], att[c][r].st \notin {"queued", "busy"}
  PROVE  att'[c][r].st \notin {"queued", "busy"}
<1>1. ~Asks(att[c][r])
  BY DEF Asks
<1>2. ASSUME NEW d \in Callers, CallStep(d) \/ HedgeTimer(d) \/ Cancel(d) \/ LoseLease(d)
      PROVE  ~Asks(att'[c][r])
  BY <1>1, <1>2, CallAsks DEF NobodyNewAsks
<1>3. ASSUME NEW d \in Callers, NEW q \in Routes, AttemptStep(d, q) PROVE ~Asks(att'[c][r])
  BY <1>1, <1>3, AttemptAsks
<1>4. CASE Reconfigure \/ UNCHANGED vars
  BY <1>1, <1>4 DEF Reconfigure, vars
<1> QED
  BY <1>2, <1>3, <1>4 DEF Next, Asks

(***************************************************************************)
(* The theorems                                                             *)
(***************************************************************************)
LEMMA InitInv == ASSUME Init PROVE Inv
<1>1. /\ prof \in Mixes /\ \A c \in Callers : prof[c] \in Profile
      /\ NRoutes \in Nat \ {0} /\ free = Limits /\ cur = 1 /\ 1 \in Sems
      /\ free \in [Sems -> Nat]
  BY LlmCallAssumption DEF Init, Sems
<1>2. call \in [Callers -> CallState]
  BY <1>1 DEF Init, CallState, Outs
<1>3. att \in [Callers -> [Routes -> Attempt]]
  BY <1>1 DEF Init, NothingLaunched, NoAttempt, Attempt, Outs
<1>4. /\ owned \in [Callers -> BOOLEAN] /\ cancels \in [Callers -> Nat]
      /\ saved \in [Callers -> SUBSET (Routes \X Nat)]
  <2>1. <<1, 0>> \in Routes \X Nat
    BY <1>1 DEF Routes
  <2>2. {{}, {<<1, 0>>}} \subseteq SUBSET (Routes \X Nat)
    BY <2>1
  <2> QED
    BY <2>2 DEF Init
<1>5. ASSUME NEW c \in Callers PROVE Good(c)
  <2>1. /\ call[c].pc \in {"prep", "ended"} /\ call[c].launched = 0 /\ call[c].res = "none"
        /\ call[c].trunc = 0 /\ call[c].tmo = 0 /\ call[c].prov = 0 /\ cancels[c] = 0
    BY DEF Init
  <2>2. \A r \in Routes : att[c][r].st = "idle"
    BY DEF Init, NothingLaunched, NoAttempt
  <2>3. Typed(c)
    BY <1>1, <1>2, <1>3, <1>4, <2>1 DEF Typed, Profile
  <2>4. Tidy(c)
    BY <1>1, <2>1, <2>2 DEF Tidy, Live, Unsent
  <2> QED
    BY <2>1, <2>2, <2>3, <2>4 DEF Good, Recorded
<1> QED
  BY <1>1, <1>2, <1>3, <1>4, <1>5 DEF Inv, Whole

LEMMA NextInv == ASSUME Inv, [Next]_vars PROVE Inv'
<1>1. ASSUME NEW c \in Callers, CallStep(c) \/ HedgeTimer(c) \/ Cancel(c) \/ LoseLease(c)
      PROVE  Inv'
  BY <1>1, PrepareStep, TakeResultStep, GatheredStep, WakeStep, HedgeTimerStep, CancelStep,
     LoseLeaseStep DEF CallStep
<1>2. ASSUME NEW c \in Callers, NEW r \in Routes, AttemptStep(c, r) PROVE Inv'
  BY <1>2, AdmitStep, AcquireStep, AnswerStep, SettleStep DEF AttemptStep
<1>3. CASE UNCHANGED vars
  BY <1>3 DEF vars, Inv, Whole, Good, Typed, Tidy, Recorded, Key
<1> QED
  BY <1>1, <1>2, <1>3, ReconfigureStep DEF Next

(* Inv holds in every state of every set of calls of llm_client.            *)
THEOREM InvAlways == Spec => []Inv
<1>1. Init => Inv
  BY InitInv
<1>2. Inv /\ [Next]_vars => Inv'
  BY NextInv
<1> QED
  BY <1>1, <1>2, PTL DEF Spec

(* Calls, attempts, permits and checkpoints keep their types, and no call   *)
(* tries again more often than its arguments allow: the counters of         *)
(* complete_with_truncation_retry.                                          *)
THEOREM TypeCorrect == Spec => []TypeOK
<1>1. Inv => TypeOK
  BY DEF Inv, Whole, Good, Typed, TypeOK
<1> QED
  BY <1>1, InvAlways, PTL

(* A call that has ended, or sleeps before its next try, has no attempt     *)
(* that waits for a permit or talks to a provider: the cleanup of           *)
(* _complete_with_hedged_routes.                                            *)
THEOREM NothingLeftBehindAlways == Spec => []NothingLeftBehind
<1>1. Inv => NothingLeftBehind
  BY DEF Inv, Good, Tidy, Unsent, NothingLeftBehind
<1> QED
  BY <1>1, InvAlways, PTL

(* What a durable call returns is a checkpoint of its command: the save in  *)
(* _complete_with_route is fenced by the lease, and so is the lookup.       *)
THEOREM ResultSavedAlways == Spec => []ResultSaved
<1>1. Inv => ResultSaved
  BY DEF Inv, Good, Recorded, ResultSaved
<1> QED
  BY <1>1, InvAlways, PTL

(* A command that is no longer its execution's asks no provider again, for  *)
(* any number of routes, hedges, retries and swallowed cancellations: every *)
(* attempt passes assert_owned at its checkpoint lookup before it waits for *)
(* a permit.                                                                *)
THEOREM LostAsksNothingAlways == Spec => LostAsksNothing
<1>1. Inv /\ [Next]_vars => Inv'
  BY NextInv
<1>2. Inv /\ [Next]_vars =>
        [\A c \in Callers, r \in Routes :
            prof[c].durable /\ ~owned[c] /\ att[c][r].st \notin {"queued", "busy"} =>
                att'[c][r].st \notin {"queued", "busy"}]_vars
  BY NextAsks
<1> QED
  BY <1>1, <1>2, InvAlways, PTL DEF Spec, LostAsksNothing

(***************************************************************************)
(* Permits                                                                  *)
(***************************************************************************)
LEMMA HoldersFinite ==
  ASSUME NEW s
  PROVE  IsFiniteSet(Holders(s)) /\ IsFiniteSet(Holders(s)')
<1>1. IsFiniteSet(Routes)
  BY LlmCallAssumption, FS_Interval DEF Routes
<1>2. IsFiniteSet(Callers \X Routes)
  BY <1>1, LlmCallAssumption, FS_Product
<1> QED
  BY <1>2, FS_Subset DEF Holders

LEMMA InitPermits == ASSUME Init PROVE PermitsReturned
<1>1. ASSUME NEW s \in Sems PROVE free[s] + Cardinality(Holders(s)) = Limits[s]
  <2>1. Holders(s) = {}
    BY DEF Holders, Init, NothingLaunched, NoAttempt, Holds
  <2>2. free[s] = Limits[s] /\ Limits[s] \in Nat
    BY LlmCallAssumption DEF Init, Sems
  <2> QED
    BY <2>1, <2>2, FS_EmptySet
<1> QED
  BY <1>1 DEF PermitsReturned

(* The permit of one attempt moves, no other changes. *)
LEMMA OneMoves ==
  ASSUME Inv, NEW c \in Callers, NEW r \in Routes, NEW s \in Sems,
         \A d \in Callers, q \in Routes : d # c \/ q # r => att'[d][q] = att[d][q]
  PROVE  /\ ~Holds(att[c][r]) /\ Holds(att'[c][r]) /\ att'[c][r].sem = s
              => /\ Cardinality(Holders(s)') = Cardinality(Holders(s)) + 1
                 /\ \A t \in Sems \ {s} : Holders(t)' = Holders(t)
         /\ Holds(att[c][r]) /\ ~Holds(att'[c][r]) /\ att[c][r].sem = s
              => /\ Cardinality(Holders(s)) = Cardinality(Holders(s)') + 1
                 /\ \A t \in Sems \ {s} : Holders(t)' = Holders(t)
<1>1. CASE ~Holds(att[c][r]) /\ Holds(att'[c][r]) /\ att'[c][r].sem = s
  <2>1. Holders(s)' = Holders(s) \cup {<<c, r>>} /\ <<c, r>> \notin Holders(s)
    BY <1>1 DEF Holders
  <2>2. \A t \in Sems \ {s} : Holders(t)' = Holders(t)
    BY <1>1 DEF Holders
  <2> QED
    BY <1>1, <2>1, <2>2, HoldersFinite, FS_AddElement
<1>2. CASE Holds(att[c][r]) /\ ~Holds(att'[c][r]) /\ att[c][r].sem = s
  <2>1. Holders(s)' = Holders(s) \ {<<c, r>>} /\ <<c, r>> \in Holders(s)
    BY <1>2 DEF Holders
  <2>2. \A t \in Sems \ {s} : Holders(t)' = Holders(t)
    BY <1>2 DEF Holders
  <2>3. /\ Cardinality(Holders(s)) \in Nat
        /\ Cardinality(Holders(s)') = Cardinality(Holders(s)) - 1
    BY <2>1, HoldersFinite, FS_RemoveElement, FS_CardinalityType
  <2> QED
    BY <1>2, <2>2, <2>3
<1> QED
  BY <1>1, <1>2

LEMMA KeptPermits ==
  ASSUME HoldersKept, free' = free, PermitsReturned
  PROVE  PermitsReturned'
<1>1. \A s \in Sems : Holders(s)' = Holders(s)
  BY DEF HoldersKept, Holders
<1> QED
  BY <1>1 DEF PermitsReturned, Sems

LEMMA NextPermits ==
  ASSUME Inv, PermitsReturned, [Next]_vars
  PROVE  PermitsReturned'
<1>1. ASSUME NEW c \in Callers, CallStep(c) \/ HedgeTimer(c) \/ Cancel(c) \/ LoseLease(c)
      PROVE  PermitsReturned'
  <2>1. HoldersKept
    BY <1>1, PrepareStep, TakeResultStep, GatheredStep, WakeStep, HedgeTimerStep, CancelStep,
       LoseLeaseStep DEF CallStep
  <2>2. free' = free
    BY <1>1 DEF CallStep, Prepare, TakeResult, Gathered, Wake, HedgeTimer, Cancel, LoseLease
  <2> QED
    BY <2>1, <2>2, KeptPermits
<1>2. ASSUME NEW c \in Callers, NEW r \in Routes, Admit(c, r) \/ Answer(c, r)
      PROVE  PermitsReturned'
  <2>1. HoldersKept /\ free' = free
    BY <1>2, AdmitStep, AnswerStep DEF Admit, Answer
  <2> QED
    BY <2>1, KeptPermits
<1>3. ASSUME NEW c \in Callers, NEW r \in Routes, Acquire(c, r) \/ Settle(c, r)
      PROVE  PermitsReturned'
  <2>1. PICK s \in Sems : s = att[c][r].sem
    BY DEF Inv, Whole, Attempt
  <2>1a. free \in [Sems -> Nat]
    BY DEF Inv, Whole
  <2>2. \A t \in Sems : /\ free[t] \in Nat /\ Cardinality(Holders(t)) \in Nat
                        /\ Cardinality(Holders(t)') \in Nat
                        /\ free[t] + Cardinality(Holders(t)) = Limits[t]
    <3>1. \A t \in Sems : IsFiniteSet(Holders(t)) /\ IsFiniteSet(Holders(t)')
      BY HoldersFinite
    <3> QED
      BY <2>1a, <3>1, FS_CardinalityType DEF PermitsReturned
  <2>3. CASE Acquire(c, r)
    <3>1. /\ ~Holds(att[c][r]) /\ Holds(att'[c][r]) /\ att'[c][r].sem = s
          /\ \A d \in Callers, q \in Routes : d # c \/ q # r => att'[d][q] = att[d][q]
      BY <2>1, <2>3, AcquireStep DEF Holds
    <3>2. /\ Cardinality(Holders(s)') = Cardinality(Holders(s)) + 1
          /\ \A t \in Sems \ {s} : Holders(t)' = Holders(t)
      BY <2>1, <3>1, OneMoves
    <3>3. free' = [free EXCEPT ![s] = @ - 1]
      BY <2>1, <2>3 DEF Acquire
    <3>4. free'[s] + Cardinality(Holders(s)') = Limits[s]
      BY <2>1a, <2>2, <3>2, <3>3
    <3>5. \A t \in Sems \ {s} : free'[t] + Cardinality(Holders(t)') = Limits[t]
      BY <2>1a, <2>2, <3>2, <3>3
    <3> QED
      BY <3>4, <3>5 DEF PermitsReturned, Sems
  <2>4. CASE Settle(c, r)
    <3>1. /\ Holds(att[c][r]) /\ ~Holds(att'[c][r])
          /\ \A d \in Callers, q \in Routes : d # c \/ q # r => att'[d][q] = att[d][q]
      BY <2>1, <2>4, SettleStep DEF Holds
    <3>2. /\ Cardinality(Holders(s)) = Cardinality(Holders(s)') + 1
          /\ \A t \in Sems \ {s} : Holders(t)' = Holders(t)
      BY <2>1, <3>1, OneMoves
    <3>3. free' = [free EXCEPT ![s] = @ + 1]
      BY <2>1, <2>4 DEF Settle
    <3>4. free'[s] + Cardinality(Holders(s)') = Limits[s]
      BY <2>1a, <2>2, <3>2, <3>3
    <3>5. \A t \in Sems \ {s} : free'[t] + Cardinality(Holders(t)') = Limits[t]
      BY <2>1a, <2>2, <3>2, <3>3
    <3> QED
      BY <3>4, <3>5 DEF PermitsReturned, Sems
  <2> QED
    BY <1>3, <2>3, <2>4
<1>4. CASE Reconfigure
  BY <1>4, ReconfigureStep, KeptPermits DEF Reconfigure
<1>5. CASE UNCHANGED vars
  BY <1>5, KeptPermits DEF vars, HoldersKept
<1> QED
  BY <1>1, <1>2, <1>3, <1>4, <1>5 DEF Next, AttemptStep

(* Permits are neither lost nor made up, whatever is cancelled and however  *)
(* often the limit changes: the finally clause of _complete_with_route      *)
(* releases the semaphore it acquired.                                      *)
THEOREM PermitsReturnedAlways == Spec => []PermitsReturned
<1>1. Init => Inv /\ PermitsReturned
  BY InitInv, InitPermits
<1>2. Inv /\ PermitsReturned /\ [Next]_vars => (Inv /\ PermitsReturned)'
  BY NextInv, NextPermits
<1> QED
  BY <1>1, <1>2, PTL DEF Spec
=============================================================================
