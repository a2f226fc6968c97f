---------------------------- MODULE BillingProofs ----------------------------
(***************************************************************************)
(* Theorems about Billing, for every number of orders, games, handlers,    *)
(* administrators' requests and subscriptions, every quota and any number  *)
(* of faults.                                                              *)
(***************************************************************************)
EXTENDS Billing, FiniteSetTheorems, TLAPS

USE ConstantsAssumption

\* What is in a frame, by its pc.
LEMMA Frames ==
  ASSUME TypeOK, NEW h \in Handler
  PROVE  /\ run[h].pc = "insert" => run[h].ali \in BOOLEAN /\ run[h].g \in Game \cup {NoGame}
         /\ run[h].pc \in {"renew", "expire"} => run[h].o \in Order
         /\ run[h].pc = "activate" => run[h].o \in Order /\ run[h].unlock \in BOOLEAN
         /\ run[h].pc = "take" => /\ run[h].g \in Game
                                  /\ run[h].free \in [used : Nat, total : Nat]
                                  /\ run[h].s \in SubId \cup {NoSub} /\ run[h].used \in Nat
         /\ run[h].pc = "unlock" => run[h].g \in Game /\ run[h].s \in SubId /\ run[h].used \in Nat
         /\ run[h].pc = "refund" => /\ run[h].g \in Game /\ run[h].source \in Source
                                    /\ run[h].s \in SubId \cup {NoSub}
<1>1. run[h] \in Frame \cup {Idle}
  BY DEF TypeOK
<1>2. QED
  BY <1>1 DEF Frame, Idle

LEMMA CurrentType == Current \in SubId \cup {NoSub}
  BY DEF Current

LEMMA UsedType == ASSUME TypeOK, NEW s \in SubId \cup {NoSub} PROVE UsedOf(s) \in Nat
  BY DEF UsedOf, TypeOK, SubRow

LEMMA FreshType == TypeOK => Fresh \in [SubId -> SubRow]
<1> SUFFICES ASSUME TypeOK, NEW s \in SubId PROVE Marked(sub[s], s) \in SubRow
  BY DEF Fresh
<1>1. sub[s] \in SubRow
  BY DEF TypeOK
<1>2. [sub[s] EXCEPT !.status = "expired"] \in SubRow
  BY <1>1 DEF SubRow
<1>3. QED
  BY <1>1, <1>2 DEF Marked

LEMMA NewSubType ==
  ASSUME TypeOK, NEW n \in SubId, NEW by \in Order \cup Request, NEW used \in Nat,
         NewSub(n, by, used)
  PROVE  sub' \in [SubId -> SubRow]
<1>1. ASSUME NEW s \in SubId
      PROVE  /\ [sub[s] EXCEPT !.status = "cancelled"] \in SubRow
             /\ Marked(sub[s], s) \in SubRow
  BY DEF TypeOK, SubRow, Marked
<1>2. [status |-> "active", used |-> used, by |-> by] \in SubRow
  BY DEF SubRow
<1>3. QED
  BY <1>1, <1>2 DEF NewSub
-----------------------------------------------------------------------------
(* Type correctness.                                                       *)

LEMMA TypeInit == Init => TypeOK
<1>1. NoRow \in SubRow
  BY DEF NoRow, SubRow
<1>2. [Locked EXCEPT !.made = FALSE] \in GameRow
  BY DEF Locked, GameRow, Source
<1>3. [status |-> "none", game |-> NoGame] \in [status : OrderStatus, game : Game \cup {NoGame}]
  BY DEF OrderStatus
<1>4. [used |-> 0, total |-> FreeQuota] \in [used : Nat, total : Nat]
  OBVIOUS
<1>5. ASSUME Init PROVE TypeOK
  BY <1>1, <1>2, <1>3, <1>4, <1>5 DEF Init, TypeOK, Trade
<1>6. QED
  BY <1>5

LEMMA GoesType ==
  ASSUME TypeOK, NEW h \in Handler, NEW f \in Frame \cup {Idle}, Goes(h, f)
  PROVE  run' \in [Handler -> Frame \cup {Idle}]
  BY DEF TypeOK, Goes

LEMMA OrderTypes ==
  ASSUME TypeOK, NEW h \in Handler
  PROVE  /\ \A o \in Order, g \in Game \cup {NoGame} : OrderFind(h, o \in Alipay, g) => TypeOK'
         /\ OrderFail(h) => TypeOK'
         /\ OrderRenew(h) => TypeOK'
         /\ \A o \in Order : OrderInsert(h, o) => TypeOK'
         /\ \A o \in Order : PollRead(h, o) => TypeOK'
         /\ PollExpire(h) => TypeOK'
<1> USE DEF OrderStatus
<1>1. ASSUME NEW o \in Order, NEW g \in Game \cup {NoGame}, OrderFind(h, o \in Alipay, g)
      PROVE  TypeOK'
  <2>1. order' \in [Order -> [status : OrderStatus, game : Game \cup {NoGame}]]
    BY <1>1 DEF OrderFind, TypeOK
  <2>2. /\ [pc |-> "insert", ali |-> o \in Alipay, g |-> g] \in Frame
        /\ \A p \in Order : [pc |-> "renew", o |-> p] \in Frame
    BY DEF Frame
  <2>3. \E f \in Frame \cup {Idle} : Goes(h, f)
    BY <1>1, <2>2 DEF OrderFind, Waiting
  <2>4. QED
    BY <1>1, <2>1, <2>3, GoesType DEF OrderFind, TypeOK
<1>2. ASSUME OrderFail(h) PROVE TypeOK'
  BY <1>2, GoesType DEF OrderFail, Ends, TypeOK, rows
<1>3. ASSUME OrderRenew(h) PROVE TypeOK'
  BY <1>3, GoesType DEF OrderRenew, Ends, TypeOK, rows
<1>4. ASSUME NEW o \in Order, OrderInsert(h, o) PROVE TypeOK'
  <2>1. order' \in [Order -> [status : OrderStatus, game : Game \cup {NoGame}]]
    BY <1>4, Frames DEF OrderInsert, TypeOK
  <2>2. QED
    BY <1>4, <2>1, GoesType DEF OrderInsert, Ends, TypeOK
<1>5. ASSUME NEW o \in Order, PollRead(h, o) PROVE TypeOK'
  <2>1. [pc |-> "expire", o |-> o] \in Frame
    BY DEF Frame
  <2>2. QED
    BY <1>5, <2>1, GoesType, FreshType DEF PollRead, Starts, TypeOK
<1>6. ASSUME PollExpire(h) PROVE TypeOK'
  <2>1. order' \in [Order -> [status : OrderStatus, game : Game \cup {NoGame}]]
    BY <1>6, Frames DEF PollExpire, TypeOK
  <2>2. QED
    BY <1>6, <2>1, GoesType DEF PollExpire, Ends, TypeOK
<1>7. QED
  BY <1>1, <1>2, <1>3, <1>4, <1>5, <1>6

LEMMA NotifyTypes ==
  ASSUME TypeOK, NEW o \in Order
  PROVE  Notify(o) => TypeOK'
<1>1. \A state : Sent(o, state) => faults' \in 0 .. MaxFaults
  BY DEF Sent, TypeOK
<1>2. \A state : Answered(o, state) => acked' \subseteq Order
  BY DEF Answered, TypeOK
<1>3. ASSUME NEW h \in Handler, NotifyRead(h, o) PROVE TypeOK'
  <2>1. \A u \in BOOLEAN : [pc |-> "activate", o |-> o, unlock |-> u] \in Frame
    BY DEF Frame
  <2>2. \E f \in Frame : Goes(h, f)
    BY <1>3, <2>1 DEF NotifyRead, Starts
  <2>3. QED
    BY <1>1, <1>3, <2>2, GoesType DEF NotifyRead, TypeOK, rows
<1>4. ASSUME NotifyAgain(o) PROVE TypeOK'
  BY <1>1, <1>2, <1>4 DEF NotifyAgain, TypeOK, rows
<1>5. ASSUME NEW state \in Trade, NotifyOther(o, state) PROVE TypeOK'
  <2>1. StatusOf(state) \in OrderStatus
    BY <1>5 DEF NotifyOther, StatusOf, OrderStatus
  <2>2. order' \in [Order -> [status : OrderStatus, game : Game \cup {NoGame}]]
    BY <1>5, <2>1 DEF NotifyOther, TypeOK
  <2>3. QED
    BY <1>1, <1>2, <1>5, <2>2 DEF NotifyOther, TypeOK
<1>6. QED
  BY <1>3, <1>4, <1>5 DEF Notify

LEMMA ActivateType ==
  ASSUME TypeOK, NEW h \in Handler, NEW n \in SubId, Activate(h, n)
  PROVE  TypeOK'
<1>1. run[h].o \in Order /\ UsedAtStart(run[h]) \in Nat
  BY Frames DEF Activate, UsedAtStart
<1>2. sub' \in [SubId -> SubRow]
  BY <1>1, NewSubType DEF Activate
<1>3. [made |-> TRUE, play |-> TRUE, source |-> "unlock", sub |-> n] \in GameRow
  BY DEF GameRow, Source
<1>4. game' \in [Game -> GameRow]
  BY <1>3 DEF Activate, TypeOK
<1>5. order' \in [Order -> [status : OrderStatus, game : Game \cup {NoGame}]]
  BY <1>1 DEF Activate, TypeOK, OrderStatus
<1>6. acked' \subseteq Order
  BY <1>1 DEF Activate, Answered, TypeOK
<1>7. QED
  BY <1>2, <1>4, <1>5, <1>6, GoesType DEF Activate, Ends, TypeOK

LEMMA TakeTypes ==
  ASSUME TypeOK, NEW h \in Handler
  PROVE  /\ \A g \in Game : TakeRead(h, g) => TypeOK'
         /\ TakeFree(h) => TypeOK'
         /\ TakeSub(h) => TypeOK'
         /\ TakeNone(h) => TypeOK'
         /\ TakeConflict(h) => TypeOK'
<1>1. /\ Locked \in GameRow
      /\ [Locked EXCEPT !.play = TRUE, !.source = "free"] \in GameRow
      /\ \A s \in SubId : [made |-> TRUE, play |-> TRUE, source |-> "quota", sub |-> s] \in GameRow
  BY DEF Locked, GameRow, Source
<1>2. ASSUME NEW g \in Game, TakeRead(h, g) PROVE TypeOK'
  <2>1. [pc |-> "take", g |-> g, free |-> free, s |-> Current, used |-> UsedOf(Current)]
          \in Frame
    BY CurrentType, UsedType DEF Frame, TypeOK
  <2>2. QED
    BY <1>2, <2>1, GoesType, FreshType DEF TakeRead, Starts, TypeOK
<1>3. ASSUME TakeFree(h) PROVE TypeOK'
  <2>1. free' \in [used : Nat, total : Nat]
    BY <1>3 DEF TakeFree, TypeOK
  <2>2. game' \in [Game -> GameRow]
    BY <1>1, <1>3 DEF TakeFree, TypeOK
  <2>3. QED
    BY <1>3, <2>1, <2>2, GoesType DEF TakeFree, Ends, TypeOK
<1>4. ASSUME TakeSub(h) PROVE TypeOK'
  <2>1. run[h].s \in SubId
    BY <1>4, Frames DEF TakeSub
  <2>2. [sub[run[h].s] EXCEPT !.used = @ + 1] \in SubRow
    BY <2>1 DEF TypeOK, SubRow
  <2>3. sub' \in [SubId -> SubRow]
    BY <1>4, <2>2 DEF TakeSub, TypeOK
  <2>4. game' \in [Game -> GameRow]
    BY <1>1, <1>4, <2>1 DEF TakeSub, TypeOK
  <2>5. QED
    BY <1>4, <2>3, <2>4, GoesType DEF TakeSub, Ends, TypeOK
<1>5. ASSUME TakeNone(h) PROVE TypeOK'
  <2>1. game' \in [Game -> GameRow]
    BY <1>1, <1>5 DEF TakeNone, TypeOK
  <2>2. QED
    BY <1>5, <2>1, GoesType DEF TakeNone, Ends, TypeOK
<1>6. ASSUME TakeConflict(h) PROVE TypeOK'
  BY <1>6, GoesType DEF TakeConflict, Ends, TypeOK, rows
<1>7. QED
  BY <1>2, <1>3, <1>4, <1>5, <1>6

LEMMA DriftType ==
  ASSUME TypeOK, NEW f
  PROVE  Drifted(f) \in [SubId \cup {NoSub} -> Int]
  BY DEF Drifted, TypeOK

LEMMA UnlockRefundTypes ==
  ASSUME TypeOK, NEW h \in Handler
  PROVE  /\ \A g \in Game : UnlockRead(h, g) => TypeOK'
         /\ UnlockWrite(h) => TypeOK'
         /\ UnlockConflict(h) => TypeOK'
         /\ \A g \in Game : RefundRead(h, g) => TypeOK'
         /\ RefundFree(h) => TypeOK'
         /\ RefundSub(h) => TypeOK'
<1>1. /\ Locked \in GameRow
      /\ \A s \in SubId : [made |-> TRUE, play |-> TRUE, source |-> "unlock", sub |-> s] \in GameRow
  BY DEF Locked, GameRow, Source
<1>2. ASSUME NEW g \in Game, UnlockRead(h, g) PROVE TypeOK'
  <2>1. [pc |-> "unlock", g |-> g, s |-> Current, used |-> UsedOf(Current)] \in Frame
    BY <1>2, CurrentType, UsedType DEF UnlockRead, Frame
  <2>2. QED
    BY <1>2, <2>1, GoesType, FreshType DEF UnlockRead, Starts, TypeOK
<1>3. ASSUME UnlockWrite(h) PROVE TypeOK'
  <2>1. run[h].s \in SubId
    BY <1>3, Frames DEF UnlockWrite
  <2>2. [sub[run[h].s] EXCEPT !.used = @ + 1] \in SubRow
    BY <2>1 DEF TypeOK, SubRow
  <2>3. sub' \in [SubId -> SubRow]
    BY <1>3, <2>2 DEF UnlockWrite, TypeOK
  <2>4. game' \in [Game -> GameRow]
    BY <1>1, <1>3, <2>1 DEF UnlockWrite, TypeOK
  <2>5. QED
    BY <1>3, <2>3, <2>4, GoesType DEF UnlockWrite, Ends, TypeOK
<1>4. ASSUME UnlockConflict(h) PROVE TypeOK'
  BY <1>4, GoesType DEF UnlockConflict, Ends, TypeOK, rows
<1>5. ASSUME NEW g \in Game, RefundRead(h, g) PROVE TypeOK'
  <2>1. [pc |-> "refund", g |-> g, source |-> game[g].source, s |-> game[g].sub] \in Frame
    BY DEF TypeOK, GameRow, Frame
  <2>2. QED
    BY <1>5, <2>1, GoesType DEF RefundRead, Starts, TypeOK, rows
<1>9. GivesBack(run[h]) => drift' \in [SubId \cup {NoSub} -> Int]
  BY DriftType DEF GivesBack, TypeOK
<1>6. ASSUME RefundFree(h) PROVE TypeOK'
  <2>1. free' \in [used : Nat, total : Nat]
    BY <1>6 DEF RefundFree, TypeOK
  <2>2. game' \in [Game -> GameRow]
    BY <1>1, <1>6 DEF RefundFree, GivesBack, TypeOK
  <2>3. drift' \in [SubId \cup {NoSub} -> Int]
    BY <1>6, <1>9 DEF RefundFree, TypeOK
  <2>4. QED
    BY <1>6, <2>1, <2>2, <2>3, GoesType DEF RefundFree, Ends, TypeOK
<1>7. ASSUME RefundSub(h) PROVE TypeOK'
  <2>1. ASSUME run[h].s \in SubId, sub[run[h].s].used > 0
        PROVE  [sub[run[h].s] EXCEPT !.used = @ - 1] \in SubRow
    BY <2>1 DEF TypeOK, SubRow
  <2>2. sub' \in [SubId -> SubRow]
    BY <1>7, <2>1 DEF RefundSub, TypeOK
  <2>3. game' \in [Game -> GameRow]
    BY <1>1, <1>7 DEF RefundSub, GivesBack, TypeOK
  <2>4. drift' \in [SubId \cup {NoSub} -> Int]
    BY <1>7, <1>9 DEF RefundSub, TypeOK
  <2>5. QED
    BY <1>7, <2>2, <2>3, <2>4, GoesType DEF RefundSub, Ends, TypeOK
<1>8. QED
  BY <1>2, <1>3, <1>4, <1>5, <1>6, <1>7

LEMMA OtherTypes ==
  ASSUME TypeOK
  PROVE  /\ \A q \in Request, n \in SubId : GrantSub(q, n) => TypeOK'
         /\ \A q \in Request : GrantFree(q) => TypeOK'
         /\ \A o \in Order : Pay(o) \/ OrderTime(o) => TypeOK'
         /\ \A s \in SubId : SubTime(s) => TypeOK'
         /\ \A h \in Handler : Abort(h) => TypeOK'
         /\ GetSubscriptionStatus => TypeOK'
<1>1. ASSUME NEW q \in Request, NEW n \in SubId, GrantSub(q, n) PROVE TypeOK'
  <2>1. sub' \in [SubId -> SubRow]
    BY <1>1, NewSubType DEF GrantSub
  <2>2. QED
    BY <1>1, <2>1 DEF GrantSub, TypeOK
<1>2. ASSUME NEW q \in Request, GrantFree(q) PROVE TypeOK'
  <2>1. free' \in [used : Nat, total : Nat]
    BY <1>2 DEF GrantFree, TypeOK
  <2>2. QED
    BY <1>2, <2>1 DEF GrantFree, TypeOK
<1>3. ASSUME NEW o \in Order, Pay(o) \/ OrderTime(o) PROVE TypeOK'
  <2>1. CASE Pay(o)
    <3>1. pay' \in [Order -> Trade] /\ acked' \subseteq Order
      BY <2>1 DEF Pay, TypeOK
    <3>2. QED
      BY <2>1, <3>1 DEF Pay, TypeOK, rows
  <2>2. CASE OrderTime(o)
    BY <2>2 DEF OrderTime, TypeOK, rows
  <2>3. QED
    BY <1>3, <2>1, <2>2
<1>4. ASSUME NEW s \in SubId, SubTime(s) PROVE TypeOK'
  BY <1>4 DEF SubTime, TypeOK, rows
<1>5. ASSUME NEW h \in Handler, Abort(h) PROVE TypeOK'
  BY <1>5, GoesType DEF Abort, Ends, TypeOK, rows
<1>6. ASSUME GetSubscriptionStatus PROVE TypeOK'
  BY <1>6, FreshType DEF GetSubscriptionStatus, TypeOK
<1>7. QED
  BY <1>1, <1>2, <1>3, <1>4, <1>5, <1>6

LEMMA TypeStep == TypeOK /\ [Next]_vars => TypeOK'
<1> SUFFICES ASSUME TypeOK, [Next]_vars PROVE TypeOK'
  OBVIOUS
<1>1. CASE \E h \in Handler : Write(h) \/ Abort(h)
  BY <1>1, OrderTypes, ActivateType, TakeTypes, UnlockRefundTypes, OtherTypes DEF Write
<1>2. CASE \E h \in Handler, o \in Order :
             \/ PollRead(h, o)
             \/ \E g \in Game \cup {NoGame} : OrderFind(h, o \in Alipay, g)
  BY <1>2, OrderTypes
<1>3. CASE \E h \in Handler, g \in Game : TakeRead(h, g) \/ UnlockRead(h, g) \/ RefundRead(h, g)
  BY <1>3, TakeTypes, UnlockRefundTypes
<1>4. CASE \E o \in Order : Notify(o) \/ Pay(o) \/ OrderTime(o)
  BY <1>4, NotifyTypes, OtherTypes
<1>5. CASE \/ \E s \in SubId : SubTime(s)
           \/ \E q \in Request : GrantFree(q) \/ \E n \in SubId : GrantSub(q, n)
           \/ GetSubscriptionStatus
  BY <1>5, OtherTypes
<1>6. CASE UNCHANGED vars
  BY <1>6 DEF vars, TypeOK
<1>7. QED
  BY <1>1, <1>2, <1>3, <1>4, <1>5, <1>6 DEF Next

\* Orders, subscriptions, quotas, games and handlers keep their types; in
\* particular no counter ever goes below zero (usedFreeQuota, usedThisPeriod).
THEOREM TypeCorrect == Spec => []TypeOK
  BY TypeInit, TypeStep, PTL DEF Spec
-----------------------------------------------------------------------------
(* What a step does to subscriptions: they keep their history and end, or  *)
(* one begins and all the others have ended.                               *)

Same(s) == sub'[s].by = sub[s].by /\ (sub'[s].status = "none" <=> sub[s].status = "none")

Kept == \A s \in SubId : Same(s) /\ (sub'[s].status = "active" => sub[s].status = "active")

Begun(n, by) ==
    /\ sub[n].status = "none" /\ sub'[n].status = "active" /\ sub'[n].by = by
    /\ \A s \in SubId \ {n} : Same(s) /\ (sub'[s].status = "active" => s \in ended)

LEMMA FreshKeeps == TypeOK /\ sub' = Fresh => Kept
<1> SUFFICES ASSUME TypeOK, sub' = Fresh, NEW s \in SubId
             PROVE  Same(s) /\ (sub'[s].status = "active" => sub[s].status = "active")
  BY DEF Kept
<1>1. sub'[s] = Marked(sub[s], s) /\ sub[s] \in SubRow
  BY DEF Fresh, TypeOK
<1>2. QED
  BY <1>1 DEF Marked, Same, SubRow

LEMMA UsedKeeps ==
  ASSUME TypeOK, NEW s \in SubId, NEW used,
         sub' = [sub EXCEPT ![s] = [sub[s] EXCEPT !.used = used]]
  PROVE  Kept
<1> SUFFICES ASSUME NEW r \in SubId
             PROVE  Same(r) /\ (sub'[r].status = "active" => sub[r].status = "active")
  BY DEF Kept
<1>1. sub[r] \in SubRow
  BY DEF TypeOK
<1>2. sub'[r] = sub[r] \/ sub'[r] = [sub[r] EXCEPT !.used = used]
  BY DEF TypeOK
<1>3. QED
  BY <1>1, <1>2 DEF Same, SubRow

LEMMA NewSubBegins ==
  ASSUME TypeOK, NEW n \in SubId, Unborn(n), NEW by, NEW used, NewSub(n, by, used)
  PROVE  Begun(n, by)
<1>1. sub[n].status = "none" /\ sub'[n] = [status |-> "active", used |-> used, by |-> by]
  BY DEF Unborn, NewSub
<1>2. ASSUME NEW s \in SubId \ {n}
      PROVE  Same(s) /\ (sub'[s].status = "active" => s \in ended)
  <2>1. sub[s] \in SubRow
    BY DEF TypeOK
  <2>2. CASE sub[s].status = "active" /\ s \notin ended
    <3>1. sub'[s] = [sub[s] EXCEPT !.status = "cancelled"]
      BY <2>2 DEF NewSub
    <3>2. QED
      BY <2>1, <2>2, <3>1 DEF Same, SubRow
  <2>3. CASE ~(sub[s].status = "active" /\ s \notin ended)
    <3>1. sub'[s] = Marked(sub[s], s)
      BY <2>3 DEF NewSub
    <3>2. QED
      BY <2>1, <2>3, <3>1 DEF Same, SubRow, Marked
  <2>4. QED
    BY <2>2, <2>3
<1>3. QED
  BY <1>1, <1>2 DEF Begun

\* Steps that count a use or give one back.
LEMMA CountKeeps ==
  ASSUME TypeOK, NEW h \in Handler, TakeSub(h) \/ UnlockWrite(h) \/ RefundSub(h)
  PROVE  Kept
<1>1. CASE TakeSub(h)
  <2>1. run[h].s \in SubId /\ sub' = [sub EXCEPT ![run[h].s].used = @ + 1]
    BY <1>1, Frames DEF TakeSub
  <2>2. QED
    BY <2>1, UsedKeeps
<1>2. CASE UnlockWrite(h)
  <2>1. run[h].s \in SubId /\ sub' = [sub EXCEPT ![run[h].s].used = @ + 1]
    BY <1>2, Frames DEF UnlockWrite
  <2>2. QED
    BY <2>1, UsedKeeps
<1>3. CASE RefundSub(h)
  <2>1. CASE sub' = sub
    BY <2>1 DEF Kept, Same
  <2>2. CASE sub' = [sub EXCEPT ![run[h].s].used = @ - 1] /\ run[h].s \in SubId
    BY <2>2, UsedKeeps
  <2>3. CASE sub' = [sub EXCEPT ![run[h].s].used = @ - 1] /\ run[h].s \notin SubId
    BY <2>3 DEF TypeOK, Kept, Same
  <2>4. QED
    BY <1>3, <2>1, <2>2, <2>3 DEF RefundSub
<1>4. QED
  BY <1>1, <1>2, <1>3

\* The three kinds of step: subscriptions go on, a payment begins one, an
\* administrator begins one.
LEMMA SubSteps ==
  ASSUME TypeOK, [Next]_vars
  PROVE  /\ ended \subseteq ended'
         /\ \/ Kept
            \/ ended' = ended /\ \E h \in Handler, n \in SubId : Activate(h, n)
            \/ ended' = ended /\ \E q \in Request, n \in SubId : GrantSub(q, n)
<1>1. sub' = sub => Kept
  BY DEF Kept, Same
<1>2. ASSUME NEW h \in Handler, Write(h) \/ Abort(h)
      PROVE  ended' = ended /\ (Kept \/ \E n \in SubId : Activate(h, n))
  <2>1. CASE \E n \in SubId : Activate(h, n)
    BY <2>1 DEF Activate
  <2>2. CASE TakeSub(h) \/ UnlockWrite(h) \/ RefundSub(h)
    BY <2>2, CountKeeps DEF TakeSub, UnlockWrite, RefundSub
  <2>3. CASE OrderRenew(h) \/ OrderFail(h) \/ (\E o \in Order : OrderInsert(h, o)) \/ PollExpire(h)
    BY <1>1, <2>3 DEF OrderRenew, OrderFail, OrderInsert, PollExpire, rows
  <2>4. CASE TakeFree(h) \/ TakeNone(h) \/ TakeConflict(h) \/ UnlockConflict(h) \/ RefundFree(h)
    BY <1>1, <2>4 DEF TakeFree, TakeNone, TakeConflict, UnlockConflict, RefundFree, rows
  <2>5. CASE Abort(h)
    BY <1>1, <2>5 DEF Abort, rows
  <2>6. QED
    BY <1>2, <2>1, <2>2, <2>3, <2>4, <2>5 DEF Write
<1>3. ASSUME NEW h \in Handler, NEW o \in Order, NEW g \in Game \cup {NoGame},
             PollRead(h, o) \/ OrderFind(h, o \in Alipay, g)
      PROVE  ended' = ended /\ Kept
  BY <1>1, <1>3, FreshKeeps DEF PollRead, OrderFind
<1>4. ASSUME NEW h \in Handler, NEW g \in Game,
             TakeRead(h, g) \/ UnlockRead(h, g) \/ RefundRead(h, g)
      PROVE  ended' = ended /\ Kept
  BY <1>1, <1>4, FreshKeeps DEF TakeRead, UnlockRead, RefundRead, rows
<1>5. ASSUME NEW o \in Order, Notify(o) \/ Pay(o) \/ OrderTime(o) PROVE ended' = ended /\ Kept
  BY <1>1, <1>5 DEF Notify, NotifyRead, NotifyAgain, NotifyOther, Pay, OrderTime, rows
<1>6. ASSUME NEW s \in SubId, SubTime(s) PROVE ended \subseteq ended' /\ Kept
  BY <1>1, <1>6 DEF SubTime, rows
<1>7. ASSUME NEW q \in Request, GrantFree(q) PROVE ended' = ended /\ Kept
  BY <1>1, <1>7 DEF GrantFree
<1>8. ASSUME GetSubscriptionStatus PROVE ended' = ended /\ Kept
  BY <1>8, FreshKeeps DEF GetSubscriptionStatus
<1>9. ASSUME UNCHANGED vars PROVE ended' = ended /\ Kept
  BY <1>1, <1>9 DEF vars
<1>10. ASSUME NEW q \in Request, NEW n \in SubId, GrantSub(q, n) PROVE ended' = ended
  BY <1>10 DEF GrantSub
<1>11. NoGame \in Game \cup {NoGame}
  OBVIOUS
<1>12. QED
  BY <1>2, <1>3, <1>4, <1>5, <1>6, <1>7, <1>8, <1>9, <1>10, <1>11 DEF Next
-----------------------------------------------------------------------------
(* One subscription at a time.                                             *)

LEMMA OneActiveStep == TypeOK /\ OneActive /\ [Next]_vars => OneActive'
<1> SUFFICES ASSUME TypeOK, OneActive, [Next]_vars PROVE OneActive'
  OBVIOUS
<1>1. ASSUME NEW n \in SubId, NEW by, Begun(n, by), ended' = ended PROVE OneActive'
  BY <1>1 DEF Begun, OneActive, Live
<1>2. CASE Kept
  BY <1>2, SubSteps DEF Kept, OneActive, Live
<1>3. ASSUME NEW h \in Handler, NEW n \in SubId, Activate(h, n), ended' = ended PROVE OneActive'
  BY <1>1, <1>3, NewSubBegins DEF Activate
<1>4. ASSUME NEW q \in Request, NEW n \in SubId, GrantSub(q, n), ended' = ended PROVE OneActive'
  BY <1>1, <1>4, NewSubBegins DEF GrantSub
<1>5. QED
  BY <1>2, <1>3, <1>4, SubSteps

\* However payments, administrators' grants and expiry overlap, an account never
\* has two live subscriptions (activateOrder, SubscriptionGrantService.grant).
THEOREM OneActiveAlways == Spec => []OneActive
<1>1. Init => OneActive
  BY DEF Init, OneActive, Live, NoRow
<1>2. QED
  BY <1>1, TypeCorrect, OneActiveStep, PTL DEF Spec
-----------------------------------------------------------------------------
(* Payments.                                                               *)

PaidMeansBought == \A o \in Order : order[o].status = "paid" => Bought(o) # {}

UnbornUnbought == \A s \in SubId : sub[s].status = "none" => sub[s].by = NoGame

\* Inductive: what an order has bought can only be told by its subscriptions,
\* and a paid order, which answers notifications unseen, has one.
PaymentInv == PaymentHonoured /\ PaidMeansBought /\ UnbornUnbought

LEMMA BoughtStays ==
  ASSUME TypeOK, UnbornUnbought, [Next]_vars, NEW o \in Order, Bought(o) # {}
  PROVE  Bought(o)' # {}
<1>1. PICK s \in SubId : sub[s].by = o
  BY DEF Bought
<1>2. sub[s].status # "none"
  BY <1>1 DEF UnbornUnbought
<1>3. ASSUME NEW n \in SubId, NEW by, Begun(n, by) PROVE sub'[s].by = o
  BY <1>1, <1>2, <1>3 DEF Begun, Same
<1>4. sub'[s].by = o
  <2>1. CASE Kept
    BY <1>1, <2>1 DEF Kept, Same
  <2>2. ASSUME NEW h \in Handler, NEW n \in SubId, Activate(h, n) PROVE sub'[s].by = o
    BY <1>3, <2>2, NewSubBegins DEF Activate
  <2>3. ASSUME NEW q \in Request, NEW n \in SubId, GrantSub(q, n) PROVE sub'[s].by = o
    BY <1>3, <2>3, NewSubBegins DEF GrantSub
  <2>4. QED
    BY <2>1, <2>2, <2>3, SubSteps
<1>5. QED
  BY <1>4 DEF Bought

LEMMA UnbornStep == TypeOK /\ UnbornUnbought /\ [Next]_vars => UnbornUnbought'
<1> SUFFICES ASSUME TypeOK, UnbornUnbought, [Next]_vars PROVE UnbornUnbought'
  OBVIOUS
<1>1. ASSUME NEW n \in SubId, NEW by, Begun(n, by) PROVE UnbornUnbought'
  BY <1>1 DEF Begun, Same, UnbornUnbought
<1>2. CASE Kept
  BY <1>2 DEF Kept, Same, UnbornUnbought
<1>3. ASSUME NEW h \in Handler, NEW n \in SubId, Activate(h, n) PROVE UnbornUnbought'
  BY <1>1, <1>3, NewSubBegins DEF Activate
<1>4. ASSUME NEW q \in Request, NEW n \in SubId, GrantSub(q, n) PROVE UnbornUnbought'
  BY <1>1, <1>4, NewSubBegins DEF GrantSub
<1>5. QED
  BY <1>2, <1>3, <1>4, SubSteps

\* A step that changes an order's row to paid or takes note of an answer.
Settles(o) ==
    \/ order'[o].status = "paid" /\ order[o].status # "paid"
    \/ pay'[o] = "charged" /\ o \in acked' /\ ~(pay[o] = "charged" /\ o \in acked)

LEMMA OrdersSettle ==
  ASSUME TypeOK, [Next]_vars, NEW o \in Order, Settles(o)
  PROVE  \/ order[o].status = "paid"
         \/ \E h \in Handler, n \in SubId : Activate(h, n) /\ run[h].o = o
<1>1. order' = order /\ pay' = pay /\ acked' = acked => FALSE
  BY DEF Settles
<1>2. ASSUME NEW h \in Handler, Write(h) \/ Abort(h)
      PROVE  \E n \in SubId : Activate(h, n) /\ run[h].o = o
  <2>1. CASE \E n \in SubId : Activate(h, n)
    <3>1. PICK n \in SubId : Activate(h, n)
      BY <2>1
    <3>2. ASSUME run[h].o # o PROVE FALSE
      BY <3>1, <3>2, Frames DEF Activate, Answered, Settles, TypeOK
    <3>3. QED
      BY <3>1, <3>2
  <2>2. CASE \E p \in Order : OrderInsert(h, p)
    BY <2>2, Frames DEF OrderInsert, Settles, TypeOK
  <2>3. CASE PollExpire(h)
    BY <2>3, Frames DEF PollExpire, Settles, TypeOK
  <2>4. CASE OrderRenew(h) \/ OrderFail(h) \/ Abort(h)
    BY <1>1, <2>4 DEF OrderRenew, OrderFail, Abort, rows
  <2>5. CASE TakeFree(h) \/ TakeSub(h) \/ TakeNone(h) \/ TakeConflict(h)
    BY <1>1, <2>5 DEF TakeFree, TakeSub, TakeNone, TakeConflict, rows
  <2>6. CASE UnlockWrite(h) \/ UnlockConflict(h) \/ RefundFree(h) \/ RefundSub(h)
    BY <1>1, <2>6 DEF UnlockWrite, UnlockConflict, RefundFree, RefundSub, rows
  <2>7. QED
    BY <1>2, <2>1, <2>2, <2>3, <2>4, <2>5, <2>6 DEF Write
<1>3. ASSUME NEW h \in Handler, NEW p \in Order, NEW g \in Game \cup {NoGame},
             PollRead(h, p) \/ OrderFind(h, p \in Alipay, g)
      PROVE  FALSE
  <2>1. CASE PollRead(h, p)
    BY <1>1, <2>1 DEF PollRead
  <2>2. CASE OrderFind(h, p \in Alipay, g)
    BY <2>2 DEF OrderFind, Settles, TypeOK
  <2>3. QED
    BY <1>3, <2>1, <2>2
<1>4. ASSUME NEW h \in Handler, NEW g \in Game,
             TakeRead(h, g) \/ UnlockRead(h, g) \/ RefundRead(h, g)
      PROVE  FALSE
  BY <1>1, <1>4 DEF TakeRead, UnlockRead, RefundRead, rows
<1>5. ASSUME NEW p \in Order, Notify(p) \/ Pay(p) \/ OrderTime(p) PROVE order[o].status = "paid"
  <2>1. CASE Pay(p)
    BY <2>1 DEF Pay, Settles, TypeOK, rows
  <2>2. CASE OrderTime(p)
    BY <1>1, <2>2 DEF OrderTime, rows
  <2>3. CASE \E h \in Handler : NotifyRead(h, p)
    BY <1>1, <2>3 DEF NotifyRead, rows
  <2>4. CASE NotifyAgain(p)
    BY <2>4 DEF NotifyAgain, Payable, Answered, Settles, TypeOK, rows
  <2>5. ASSUME NEW state \in Trade, NotifyOther(p, state) PROVE FALSE
    <3>1. StatusOf(state) # "paid" /\ state # "charged"
      BY <2>5 DEF NotifyOther, StatusOf
    <3>2. QED
      BY <2>5, <3>1 DEF NotifyOther, Sent, Answered, Settles, TypeOK
  <2>6. QED
    BY <1>5, <2>1, <2>2, <2>3, <2>4, <2>5 DEF Notify
<1>6. ASSUME \/ \E s \in SubId : SubTime(s)
             \/ \E q \in Request : GrantFree(q) \/ \E n \in SubId : GrantSub(q, n)
             \/ GetSubscriptionStatus \/ UNCHANGED vars
      PROVE  FALSE
  BY <1>1, <1>6 DEF SubTime, GrantFree, GrantSub, GetSubscriptionStatus, vars, rows
<1>7. NoGame \in Game \cup {NoGame}
  OBVIOUS
<1>8. QED
  BY <1>2, <1>3, <1>4, <1>5, <1>6, <1>7 DEF Next

LEMMA PaymentStep == TypeOK /\ PaymentInv /\ [Next]_vars => PaymentInv'
<1> SUFFICES ASSUME TypeOK, PaymentInv, [Next]_vars PROVE PaymentInv'
  OBVIOUS
<1>1. ASSUME NEW o \in Order, Settles(o) PROVE Bought(o)' # {}
  <2>1. CASE order[o].status = "paid"
    BY <2>1, BoughtStays DEF PaymentInv, PaidMeansBought
  <2>2. ASSUME NEW h \in Handler, NEW n \in SubId, Activate(h, n), run[h].o = o
        PROVE  Bought(o)' # {}
    BY <2>2, NewSubBegins DEF Activate, Begun, Bought
  <2>3. QED
    BY <1>1, <2>1, <2>2, OrdersSettle
<1>2. PaymentHonoured'
  BY <1>1, BoughtStays DEF PaymentInv, PaymentHonoured, Settles
<1>3. PaidMeansBought'
  BY <1>1, BoughtStays DEF PaymentInv, PaidMeansBought, Settles
<1>4. QED
  BY <1>2, <1>3, UnbornStep DEF PaymentInv

\* No payment is acknowledged to its provider without effect, whatever has become
\* of the order before (handleWechatNotification, completeOrderPaymentByOutTradeNo).
THEOREM PaymentHonouredAlways == Spec => []PaymentHonoured
<1>1. Init => PaymentInv
  BY DEF Init, PaymentInv, PaymentHonoured, PaidMeansBought, UnbornUnbought, NoRow
<1>2. PaymentInv => PaymentHonoured
  BY DEF PaymentInv
<1>3. QED
  BY <1>1, <1>2, TypeCorrect, PaymentStep, PTL DEF Spec
-----------------------------------------------------------------------------
(* Quotas.                                                                 *)

SubWithin == \A s \in SubId : sub[s].used <= PlanQuota

FreeWithin == free.used <= free.total

\* What an unlock has read left room for one more.
UnlockHasRoom == \A h \in Handler : run[h].pc = "unlock" => run[h].used < PlanQuota

\* Inductive: the conditional increments add to what was read, so that the room
\* found when it was read is there when it is written.
QuotaInv == SubWithin /\ FreeWithin /\ UnlockHasRoom

LEMMA FreshWithin == TypeOK /\ SubWithin /\ sub' = Fresh => SubWithin'
  BY DEF TypeOK, SubWithin, Fresh, Marked, SubRow

LEMMA NewSubWithin ==
  ASSUME TypeOK, SubWithin, NEW n \in SubId, NEW by, NEW used \in 0 .. 1, NewSub(n, by, used)
  PROVE  SubWithin'
<1> SUFFICES ASSUME NEW s \in SubId PROVE sub'[s].used <= PlanQuota
  BY DEF SubWithin
<1>1. sub[s] \in SubRow /\ sub[s].used <= PlanQuota
  BY DEF TypeOK, SubWithin
<1>2. [sub[s] EXCEPT !.status = "cancelled"].used = sub[s].used /\ Marked(sub[s], s).used = sub[s].used
  BY <1>1 DEF SubRow, Marked
<1>3. CASE s = n
  <2>1. sub'[s] = [status |-> "active", used |-> used, by |-> by]
    BY <1>3 DEF NewSub
  <2>2. QED
    BY <2>1
<1>4. CASE s # n
  BY <1>1, <1>2, <1>4 DEF NewSub
<1>5. QED
  BY <1>3, <1>4

LEMMA CountWithin ==
  ASSUME TypeOK, SubWithin, NEW t, NEW used \in Int, used <= PlanQuota,
         sub' = [sub EXCEPT ![t].used = used]
  PROVE  SubWithin'
<1> SUFFICES ASSUME NEW s \in SubId PROVE sub'[s].used <= PlanQuota
  BY DEF SubWithin
<1>1. sub[s] \in SubRow /\ sub[s].used <= PlanQuota
  BY DEF TypeOK, SubWithin
<1>2. sub'[s] = sub[s] \/ sub'[s] = [sub[s] EXCEPT !.used = used]
  BY DEF TypeOK
<1>3. QED
  BY <1>1, <1>2 DEF SubRow

LEMMA SubWithinStep == TypeOK /\ QuotaInv /\ [Next]_vars => SubWithin'
<1> SUFFICES ASSUME TypeOK, QuotaInv, [Next]_vars PROVE SubWithin'
  OBVIOUS
<1> USE DEF QuotaInv
<1>1. sub' = sub => SubWithin'
  BY DEF SubWithin
<1>2. ASSUME NEW h \in Handler, Write(h) \/ Abort(h) PROVE SubWithin'
  <2>1. ASSUME NEW n \in SubId, Activate(h, n) PROVE SubWithin'
    BY <2>1, NewSubWithin DEF Activate, UsedAtStart
  <2>2. CASE TakeSub(h) \/ UnlockWrite(h)
    <3>1. /\ run[h].s \in SubId /\ run[h].used \in Nat
          /\ run[h].used < PlanQuota /\ sub[run[h].s].used = run[h].used
          /\ sub' = [sub EXCEPT ![run[h].s].used = @ + 1]
      BY <2>2, Frames DEF TakeSub, UnlockWrite, SubUnmoved, StillLocked, UnlockHasRoom
    <3>2. sub' = [sub EXCEPT ![run[h].s].used = run[h].used + 1]
      BY <3>1
    <3>3. run[h].used + 1 \in Int /\ run[h].used + 1 <= PlanQuota
      BY <3>1
    <3>4. QED
      BY <3>2, <3>3, CountWithin
  <2>3. CASE RefundSub(h)
    <3>1. CASE run[h].s \in SubId /\ sub' = [sub EXCEPT ![run[h].s].used = @ - 1]
      <4>1. sub[run[h].s].used \in Nat /\ sub[run[h].s].used <= PlanQuota
        BY <3>1 DEF TypeOK, SubRow, SubWithin
      <4>2. sub' = [sub EXCEPT ![run[h].s].used = sub[run[h].s].used - 1]
        BY <3>1
      <4>3. sub[run[h].s].used - 1 \in Int /\ sub[run[h].s].used - 1 <= PlanQuota
        BY <4>1
      <4>4. QED
        BY <4>2, <4>3, CountWithin
    <3>2. CASE run[h].s \notin SubId /\ sub' = [sub EXCEPT ![run[h].s].used = @ - 1]
      BY <1>1, <3>2 DEF TypeOK
    <3>3. QED
      BY <1>1, <2>3, <3>1, <3>2 DEF RefundSub
  <2>4. CASE OrderRenew(h) \/ OrderFail(h) \/ (\E o \in Order : OrderInsert(h, o)) \/ PollExpire(h)
    BY <1>1, <2>4 DEF OrderRenew, OrderFail, OrderInsert, PollExpire, rows
  <2>5. CASE TakeFree(h) \/ TakeNone(h) \/ TakeConflict(h) \/ UnlockConflict(h)
             \/ RefundFree(h) \/ Abort(h)
    BY <1>1, <2>5 DEF TakeFree, TakeNone, TakeConflict, UnlockConflict, RefundFree, Abort, rows
  <2>6. QED
    BY <1>2, <2>1, <2>2, <2>3, <2>4, <2>5 DEF Write
<1>3. ASSUME NEW h \in Handler, NEW o \in Order, NEW g \in Game \cup {NoGame},
             PollRead(h, o) \/ OrderFind(h, o \in Alipay, g)
      PROVE  SubWithin'
  BY <1>1, <1>3, FreshWithin DEF PollRead, OrderFind
<1>4. ASSUME NEW h \in Handler, NEW g \in Game,
             TakeRead(h, g) \/ UnlockRead(h, g) \/ RefundRead(h, g)
      PROVE  SubWithin'
  BY <1>1, <1>4, FreshWithin DEF TakeRead, UnlockRead, RefundRead, rows
<1>5. ASSUME NEW o \in Order, Notify(o) \/ Pay(o) \/ OrderTime(o) PROVE SubWithin'
  BY <1>1, <1>5 DEF Notify, NotifyRead, NotifyAgain, NotifyOther, Pay, OrderTime, rows
<1>6. ASSUME NEW q \in Request, NEW n \in SubId, GrantSub(q, n) PROVE SubWithin'
  BY <1>6, NewSubWithin DEF GrantSub
<1>7. ASSUME \/ \E s \in SubId : SubTime(s)
             \/ \E q \in Request : GrantFree(q)
             \/ GetSubscriptionStatus \/ UNCHANGED vars
      PROVE  SubWithin'
  BY <1>1, <1>7, FreshWithin DEF SubTime, GrantFree, GetSubscriptionStatus, vars, rows
<1>8. NoGame \in Game \cup {NoGame}
  OBVIOUS
<1>9. QED
  BY <1>2, <1>3, <1>4, <1>5, <1>6, <1>7, <1>8 DEF Next

LEMMA FreeWithinStep == TypeOK /\ FreeWithin /\ [Next]_vars => FreeWithin'
<1> SUFFICES ASSUME TypeOK, FreeWithin, [Next]_vars PROVE FreeWithin'
  OBVIOUS
<1>1. free' = free => FreeWithin'
  BY DEF FreeWithin
<1>2. free.used \in Nat /\ free.total \in Nat
  BY DEF TypeOK
<1>3. ASSUME NEW h \in Handler, TakeFree(h) PROVE FreeWithin'
  <2>1. free.used < free.total /\ free'.used = free.used + 1 /\ free'.total = free.total
    BY <1>3 DEF TakeFree, FreeUnmoved, TypeOK
  <2>2. QED
    BY <1>2, <2>1 DEF FreeWithin
<1>4. ASSUME NEW h \in Handler, RefundFree(h) PROVE FreeWithin'
  <2>1. CASE free' = [free EXCEPT !.used = @ - 1]
    BY <1>2, <2>1 DEF FreeWithin, TypeOK
  <2>2. QED
    BY <1>1, <1>4, <2>1 DEF RefundFree
<1>5. ASSUME NEW q \in Request, GrantFree(q) PROVE FreeWithin'
  <2>1. free'.used = free.used /\ free'.total = free.total + Amount
    BY <1>5 DEF GrantFree, TypeOK
  <2>2. QED
    BY <1>2, <2>1 DEF FreeWithin
<1>6. ASSUME NEW h \in Handler, Write(h) \/ Abort(h) PROVE FreeWithin'
  <2>1. CASE \/ OrderRenew(h) \/ OrderFail(h) \/ (\E o \in Order : OrderInsert(h, o))
             \/ PollExpire(h) \/ \E n \in SubId : Activate(h, n)
    BY <1>1, <2>1 DEF OrderRenew, OrderFail, OrderInsert, PollExpire, Activate, rows
  <2>2. CASE TakeSub(h) \/ TakeNone(h) \/ TakeConflict(h)
    BY <1>1, <2>2 DEF TakeSub, TakeNone, TakeConflict, rows
  <2>3. CASE UnlockWrite(h) \/ UnlockConflict(h) \/ RefundSub(h) \/ Abort(h)
    BY <1>1, <2>3 DEF UnlockWrite, UnlockConflict, RefundSub, Abort, rows
  <2>4. QED
    BY <1>3, <1>4, <1>6, <2>1, <2>2, <2>3 DEF Write
<1>7. ASSUME NEW h \in Handler, NEW o \in Order, NEW g \in Game \cup {NoGame},
             PollRead(h, o) \/ OrderFind(h, o \in Alipay, g)
      PROVE  FreeWithin'
  BY <1>1, <1>7 DEF PollRead, OrderFind
<1>8. ASSUME NEW h \in Handler, NEW g \in Game,
             TakeRead(h, g) \/ UnlockRead(h, g) \/ RefundRead(h, g)
      PROVE  FreeWithin'
  BY <1>1, <1>8 DEF TakeRead, UnlockRead, RefundRead, rows
<1>9. ASSUME NEW o \in Order, Notify(o) \/ Pay(o) \/ OrderTime(o) PROVE FreeWithin'
  BY <1>1, <1>9 DEF Notify, NotifyRead, NotifyAgain, NotifyOther, Pay, OrderTime, rows
<1>10. ASSUME \/ \E s \in SubId : SubTime(s)
              \/ \E q \in Request, n \in SubId : GrantSub(q, n)
              \/ GetSubscriptionStatus \/ UNCHANGED vars
       PROVE  FreeWithin'
  BY <1>1, <1>10 DEF SubTime, GrantSub, GetSubscriptionStatus, vars, rows
<1>11. NoGame \in Game \cup {NoGame}
  OBVIOUS
<1>12. QED
  BY <1>5, <1>6, <1>7, <1>8, <1>9, <1>10, <1>11 DEF Next

\* Frames come about one at a time.
LEMMA UnlockRoomKept ==
  ASSUME TypeOK, UnlockHasRoom, NEW h \in Handler, NEW f, f.pc # "unlock", Goes(h, f)
  PROVE  UnlockHasRoom'
  BY DEF TypeOK, UnlockHasRoom, Goes

LEMMA UnlockHasRoomStep == TypeOK /\ UnlockHasRoom /\ [Next]_vars => UnlockHasRoom'
<1> SUFFICES ASSUME TypeOK, UnlockHasRoom, [Next]_vars PROVE UnlockHasRoom'
  OBVIOUS
<1>1. run' = run => UnlockHasRoom'
  BY DEF UnlockHasRoom
<1>2. ASSUME NEW h \in Handler, Ends(h) PROVE UnlockHasRoom'
  BY <1>2, UnlockRoomKept DEF Ends, Idle
<1>3. ASSUME NEW h \in Handler, Write(h) \/ Abort(h) PROVE UnlockHasRoom'
  <2>1. Ends(h)
    BY <1>3 DEF Write, Abort, OrderRenew, OrderFail, OrderInsert, PollExpire, Activate,
                TakeFree, TakeSub, TakeNone, TakeConflict,
                UnlockWrite, UnlockConflict, RefundFree, RefundSub
  <2>2. QED
    BY <1>2, <2>1
<1>4. ASSUME NEW h \in Handler, NEW o \in Order, PollRead(h, o) PROVE UnlockHasRoom'
  <2>1. Goes(h, [pc |-> "expire", o |-> o])
    BY <1>4 DEF PollRead, Starts
  <2>2. QED
    BY <2>1, UnlockRoomKept
<1>5. ASSUME NEW h \in Handler, NEW o \in Order, NEW g \in Game \cup {NoGame},
             OrderFind(h, o \in Alipay, g)
      PROVE  UnlockHasRoom'
  <2>1. \/ Goes(h, [pc |-> "insert", ali |-> o \in Alipay, g |-> g])
        \/ \E p \in Order : Goes(h, [pc |-> "renew", o |-> p])
        \/ Ends(h)
    BY <1>5 DEF OrderFind, Waiting, Ends
  <2>2. QED
    BY <1>2, <2>1, UnlockRoomKept
<1>6. ASSUME NEW h \in Handler, NEW g \in Game, TakeRead(h, g) \/ RefundRead(h, g)
      PROVE  UnlockHasRoom'
  <2>1. \/ Goes(h, [pc |-> "take", g |-> g, free |-> free, s |-> Current, used |-> UsedOf(Current)])
        \/ Goes(h, [pc |-> "refund", g |-> g, source |-> game[g].source, s |-> game[g].sub])
    BY <1>6 DEF TakeRead, RefundRead, Starts
  <2>2. QED
    BY <2>1, UnlockRoomKept
<1>7. ASSUME NEW h \in Handler, NEW g \in Game, UnlockRead(h, g) PROVE UnlockHasRoom'
  <2>1. /\ UsedOf(Current) < PlanQuota
        /\ Goes(h, [pc |-> "unlock", g |-> g, s |-> Current, used |-> UsedOf(Current)])
    BY <1>7 DEF UnlockRead, Starts
  <2>2. QED
    BY <2>1 DEF TypeOK, UnlockHasRoom, Goes
<1>8. ASSUME NEW o \in Order, Notify(o) \/ Pay(o) \/ OrderTime(o) PROVE UnlockHasRoom'
  <2>1. ASSUME NEW h \in Handler, NotifyRead(h, o) PROVE UnlockHasRoom'
    <3>1. \E u \in BOOLEAN : Goes(h, [pc |-> "activate", o |-> o, unlock |-> u])
      BY <2>1 DEF NotifyRead, Starts
    <3>2. QED
      BY <3>1, UnlockRoomKept
  <2>2. QED
    BY <1>1, <1>8, <2>1 DEF Notify, NotifyAgain, NotifyOther, Pay, OrderTime
<1>9. ASSUME \/ \E s \in SubId : SubTime(s)
             \/ \E q \in Request : GrantFree(q) \/ \E n \in SubId : GrantSub(q, n)
             \/ GetSubscriptionStatus \/ UNCHANGED vars
      PROVE  UnlockHasRoom'
  BY <1>1, <1>9 DEF SubTime, GrantFree, GrantSub, GetSubscriptionStatus, vars
<1>10. NoGame \in Game \cup {NoGame}
  OBVIOUS
<1>11. QED
  BY <1>3, <1>4, <1>5, <1>6, <1>7, <1>8, <1>9, <1>10 DEF Next

\* Neither the free quota nor a subscription is ever overdrawn, whatever number of
\* creations, unlocks, refunds and grants overlap (create(), unlock() and
\* persistFailureState of the game-service).
THEOREM WithinQuotaAlways == Spec => []WithinQuota
<1>1. Init => QuotaInv
  BY DEF Init, QuotaInv, SubWithin, FreeWithin, UnlockHasRoom, NoRow, Idle
<1>2. TypeOK /\ QuotaInv /\ [Next]_vars => QuotaInv'
  BY SubWithinStep, FreeWithinStep, UnlockHasRoomStep DEF QuotaInv
<1>3. QuotaInv => WithinQuota
  BY DEF QuotaInv, SubWithin, FreeWithin, WithinQuota
<1>4. QED
  BY <1>1, <1>2, <1>3, TypeCorrect, PTL DEF Spec
-----------------------------------------------------------------------------
(* What was used is what games were given.                                 *)

\* A game not made, or locked, was given nothing; a grant from a subscription
\* names one that exists.
GameLawful(g) ==
    LET r == game[g]
    IN  /\ ~r.made => ~r.play
        /\ ~r.play => r.source = "none"
        /\ r.source \in {"none", "free"} => r.sub = NoSub
        /\ r.source \in {"quota", "unlock"} => r.sub \in SubId /\ sub[r.sub].status # "none"

\* Orders unlock games there are.
OrderLawful(o) ==
    order[o].game # NoGame => order[o].status # "none" /\ game[order[o].game].made

\* A game that was never given to a creation, and never will be.
Unlockable(g) == g # NoGame /\ game[g].made /\ game[g].source \in {"none", "unlock"}

\* What handlers rely on stays true until they write: nobody makes the game of a
\* creation, a grant a failure gives back is there or has been given back, and a
\* game somebody unlocks was given to no creation.
Relies(f) ==
    /\ f.pc = "insert" /\ f.g # NoGame => game[f.g].made
    /\ f.pc = "activate" /\ f.unlock => Unlockable(order[f.o].game)
    /\ f.pc = "unlock" => Unlockable(f.g)
    /\ f.pc = "take" => ~game[f.g].made
    /\ f.pc = "refund" => /\ game[f.g].made /\ f.source \in {"free", "quota"}
                          /\ f.s = NoSub <=> f.source = "free"
                          /\ f.s # NoSub => sub[f.s].status # "none"
                          /\ InTime(f) \/ Unlockable(f.g)

\* One creation of a game at a time.
Alone(h, k) ==
    run[h].pc = "take" /\ run[k].pc = "take" /\ run[h].g = run[k].g => h = k

\* Inductive, with UsageMatchesAccess.
AccessInv ==
    /\ \A g \in Game : GameLawful(g)
    /\ \A o \in Order : OrderLawful(o)
    /\ \A h \in Handler : Relies(run[h])
    /\ \A h, k \in Handler : Alone(h, k)
    /\ \A s \in SubId : sub[s].status = "none" => drift[s] = 0

\* Subscriptions are never forgotten.
LEMMA BornStays ==
  ASSUME TypeOK, [Next]_vars, NEW s \in SubId, sub[s].status # "none"
  PROVE  sub'[s].status # "none"
<1>1. ASSUME NEW n \in SubId, NEW by, Begun(n, by) PROVE sub'[s].status # "none"
  BY <1>1 DEF Begun, Same
<1>2. CASE Kept
  BY <1>2 DEF Kept, Same
<1>3. ASSUME NEW h \in Handler, NEW n \in SubId, Activate(h, n) PROVE sub'[s].status # "none"
  BY <1>1, <1>3, NewSubBegins DEF Activate
<1>4. ASSUME NEW q \in Request, NEW n \in SubId, GrantSub(q, n) PROVE sub'[s].status # "none"
  BY <1>1, <1>4, NewSubBegins DEF GrantSub
<1>5. QED
  BY <1>2, <1>3, <1>4, SubSteps

\* An order keeps its game; a new one has the game that createOrder() checked.
OrderKept(o) ==
    /\ order'[o].game = order[o].game
    /\ order[o].status # "none" => order'[o].status # "none"

Ordered(o) ==
    /\ order[o].status = "none" /\ order'[o].status = "pending"
    /\ \E h \in Handler : run[h].pc = "insert" /\ order'[o].game = run[h].g

LEMMA OrderSteps ==
  ASSUME TypeOK, [Next]_vars, NEW o \in Order
  PROVE  OrderKept(o) \/ Ordered(o)
<1>1. order' = order => OrderKept(o)
  BY DEF OrderKept
<1>2. ASSUME NEW p \in Order, NEW st, st # "none", order' = [order EXCEPT ![p].status = st]
      PROVE  OrderKept(o)
  BY <1>2 DEF OrderKept, TypeOK
<1>3. ASSUME NEW h \in Handler, Write(h) \/ Abort(h) PROVE OrderKept(o) \/ Ordered(o)
  <2>1. ASSUME NEW n \in SubId, Activate(h, n) PROVE OrderKept(o)
    <3>1. run[h].o \in Order /\ order' = [order EXCEPT ![run[h].o].status = "paid"]
      BY <2>1, Frames DEF Activate
    <3>2. QED
      BY <1>2, <3>1
  <2>2. ASSUME NEW p \in Order, OrderInsert(h, p) PROVE OrderKept(o) \/ Ordered(o)
    <3>1. CASE o = p
      BY <2>2, <3>1 DEF OrderInsert, Ordered, TypeOK
    <3>2. CASE o # p
      BY <2>2, <3>2 DEF OrderInsert, OrderKept, TypeOK
    <3>3. QED
      BY <3>1, <3>2
  <2>3. CASE PollExpire(h)
    <3>1. run[h].o \in Order /\ order' = [order EXCEPT ![run[h].o].status = "canceled"]
      BY <2>3, Frames DEF PollExpire
    <3>2. QED
      BY <1>2, <3>1
  <2>4. CASE OrderRenew(h) \/ OrderFail(h) \/ Abort(h)
    BY <1>1, <2>4 DEF OrderRenew, OrderFail, Abort, rows
  <2>5. CASE TakeFree(h) \/ TakeSub(h) \/ TakeNone(h) \/ TakeConflict(h)
    BY <1>1, <2>5 DEF TakeFree, TakeSub, TakeNone, TakeConflict, rows
  <2>6. CASE UnlockWrite(h) \/ UnlockConflict(h) \/ RefundFree(h) \/ RefundSub(h)
    BY <1>1, <2>6 DEF UnlockWrite, UnlockConflict, RefundFree, RefundSub, rows
  <2>7. QED
    BY <1>3, <2>1, <2>2, <2>3, <2>4, <2>5, <2>6 DEF Write
<1>4. ASSUME NEW h \in Handler, NEW p \in Order, NEW g \in Game \cup {NoGame},
             PollRead(h, p) \/ OrderFind(h, p \in Alipay, g)
      PROVE  OrderKept(o)
  <2>1. CASE PollRead(h, p)
    BY <1>1, <2>1 DEF PollRead
  <2>2. CASE OrderFind(h, p \in Alipay, g)
    <3>1. order'[o] = order[o] \/ order'[o] = [order[o] EXCEPT !.status = "canceled"]
      BY <2>2 DEF OrderFind
    <3>2. QED
      BY <3>1 DEF OrderKept, TypeOK
  <2>3. QED
    BY <1>4, <2>1, <2>2
<1>5. ASSUME NEW h \in Handler, NEW g \in Game,
             TakeRead(h, g) \/ UnlockRead(h, g) \/ RefundRead(h, g)
      PROVE  OrderKept(o)
  BY <1>1, <1>5 DEF TakeRead, UnlockRead, RefundRead, rows
<1>6. ASSUME NEW p \in Order, Notify(p) \/ Pay(p) \/ OrderTime(p) PROVE OrderKept(o)
  <2>1. ASSUME NEW state \in Trade, NotifyOther(p, state) PROVE OrderKept(o)
    <3>1. StatusOf(state) # "none"
      BY <2>1 DEF NotifyOther, StatusOf
    <3>2. order' = order \/ order' = [order EXCEPT ![p].status = StatusOf(state)]
      BY <2>1 DEF NotifyOther
    <3>3. QED
      BY <1>1, <1>2, <3>1, <3>2
  <2>2. QED
    BY <1>1, <1>6, <2>1 DEF Notify, NotifyRead, NotifyAgain, Pay, OrderTime, rows
<1>7. ASSUME \/ \E s \in SubId : SubTime(s)
             \/ \E q \in Request : GrantFree(q) \/ \E n \in SubId : GrantSub(q, n)
             \/ GetSubscriptionStatus \/ UNCHANGED vars
      PROVE  OrderKept(o)
  BY <1>1, <1>7 DEF SubTime, GrantFree, GrantSub, GetSubscriptionStatus, vars, rows
<1>8. NoGame \in Game \cup {NoGame}
  OBVIOUS
<1>9. QED
  BY <1>3, <1>4, <1>5, <1>6, <1>7, <1>8 DEF Next

\* The rows a game can be given.
FreeRow == [Locked EXCEPT !.play = TRUE, !.source = "free"]
SubGrant(source, s) == [made |-> TRUE, play |-> TRUE, source |-> source, sub |-> s]

LEMMA FreeRowIs ==
  FreeRow.made /\ FreeRow.play /\ FreeRow.source = "free" /\ FreeRow.sub = NoSub
<1>1. FreeRow.sub = NoSub
  BY DEF FreeRow, Locked
<1>2. FreeRow.source = "free"
  BY DEF FreeRow, Locked
<1>3. FreeRow.made = TRUE
  BY DEF FreeRow, Locked
<1>4. FreeRow.play = TRUE
  BY DEF FreeRow, Locked
<1>5. QED
  BY <1>1, <1>2, <1>3, <1>4

\* Handler h ends by writing r, the grant it decided on, to game g.
Writes(h, g, r) ==
    /\ Ends(h) /\ game' = [game EXCEPT ![g] = r]
    /\ \/ /\ run[h].pc = "take" /\ run[h].g = g
          /\ \/ r \in {Locked, FreeRow}
             \/ \E s \in SubId : r = SubGrant("quota", s) /\ sub'[s].status # "none"
       \/ run[h].pc = "refund" /\ run[h].g = g /\ r = Locked
       \/ /\ Unlockable(g)
          /\ \E s \in SubId : r = SubGrant("unlock", s) /\ sub'[s].status # "none"

LEMMA GameSteps ==
  ASSUME TypeOK, AccessInv, [Next]_vars
  PROVE  \/ game' = game
         \/ \E h \in Handler, g \in Game, r \in GameRow : Writes(h, g, r)
<1> DEFINE Written(h) == \E g \in Game, r \in GameRow : Writes(h, g, r)
<1>1. /\ Locked \in GameRow /\ FreeRow \in GameRow
      /\ \A s \in SubId : SubGrant("quota", s) \in GameRow /\ SubGrant("unlock", s) \in GameRow
  <2>1. Locked \in GameRow
    BY DEF Locked, GameRow, Source
  <2>2. FreeRow \in GameRow
    BY DEF FreeRow, Locked, GameRow, Source
  <2>3. ASSUME NEW s \in SubId
        PROVE  SubGrant("quota", s) \in GameRow /\ SubGrant("unlock", s) \in GameRow
    BY DEF SubGrant, GameRow, Source
  <2>4. QED
    BY <2>1, <2>2, <2>3
<1>2. ASSUME NEW h \in Handler, Write(h) \/ Abort(h) PROVE game' = game \/ Written(h)
  <2>1. ASSUME NEW n \in SubId, Activate(h, n) PROVE game' = game \/ Written(h)
    <3>1. CASE run[h].unlock
      <4> DEFINE g == order[run[h].o].game
      <4>1. Unlockable(g) /\ g \in Game
        BY <2>1, <3>1, Frames DEF Activate, AccessInv, Relies, Unlockable, TypeOK
      <4>2. game' = [game EXCEPT ![g] = SubGrant("unlock", n)] /\ Ends(h)
        BY <2>1, <3>1 DEF Activate, SubGrant
      <4>3. sub'[n].status # "none"
        BY <2>1, NewSubBegins DEF Activate, Begun
      <4>4. Writes(h, g, SubGrant("unlock", n))
        BY <4>1, <4>2, <4>3 DEF Writes
      <4>5. QED
        BY <1>1, <4>1, <4>4
    <3>2. CASE ~run[h].unlock
      BY <2>1, <3>2 DEF Activate
    <3>3. QED
      BY <3>1, <3>2
  <2>2. CASE TakeFree(h)
    <3>1. run[h].g \in Game /\ Writes(h, run[h].g, FreeRow)
      BY <1>1, <2>2, Frames DEF TakeFree, Writes, FreeRow
    <3>2. QED
      BY <1>1, <3>1
  <2>3. CASE TakeSub(h)
    <3>1. run[h].g \in Game /\ run[h].s \in SubId
      BY <2>3, Frames DEF TakeSub
    <3>2. sub'[run[h].s].status # "none"
      BY <2>3, <3>1, CountKeeps DEF TakeSub, SubUnmoved, Kept, Same
    <3>3. Writes(h, run[h].g, SubGrant("quota", run[h].s))
      BY <2>3, <3>1, <3>2 DEF TakeSub, Writes, SubGrant
    <3>4. QED
      BY <1>1, <3>1, <3>3
  <2>4. CASE TakeNone(h)
    <3>1. run[h].g \in Game /\ Writes(h, run[h].g, Locked)
      BY <2>4, Frames DEF TakeNone, Writes
    <3>2. QED
      BY <1>1, <3>1
  <2>5. CASE UnlockWrite(h)
    <3>1. run[h].g \in Game /\ run[h].s \in SubId /\ Unlockable(run[h].g)
      BY <2>5, Frames DEF UnlockWrite, AccessInv, Relies
    <3>2. sub'[run[h].s].status # "none"
      BY <2>5, <3>1, CountKeeps DEF UnlockWrite, StillLocked, SubUnmoved, Kept, Same
    <3>3. Writes(h, run[h].g, SubGrant("unlock", run[h].s))
      BY <2>5, <3>1, <3>2 DEF UnlockWrite, Writes, SubGrant
    <3>4. QED
      BY <1>1, <3>1, <3>3
  <2>6. CASE RefundFree(h) \/ RefundSub(h)
    <3>1. run[h].g \in Game
      BY <2>6, Frames DEF RefundFree, RefundSub
    <3>2. game' = game \/ Writes(h, run[h].g, Locked)
      BY <2>6 DEF RefundFree, RefundSub, GivesBack, Writes
    <3>3. QED
      BY <1>1, <3>1, <3>2
  <2>7. CASE OrderRenew(h) \/ OrderFail(h) \/ (\E o \in Order : OrderInsert(h, o)) \/ PollExpire(h)
    BY <2>7 DEF OrderRenew, OrderFail, OrderInsert, PollExpire, rows
  <2>8. CASE TakeConflict(h) \/ UnlockConflict(h) \/ Abort(h)
    BY <2>8 DEF TakeConflict, UnlockConflict, Abort, rows
  <2>9. QED
    BY <1>2, <2>1, <2>2, <2>3, <2>4, <2>5, <2>6, <2>7, <2>8 DEF Write
<1>3. ASSUME NEW h \in Handler, NEW o \in Order, NEW g \in Game \cup {NoGame},
             PollRead(h, o) \/ OrderFind(h, o \in Alipay, g)
      PROVE  game' = game
  BY <1>3 DEF PollRead, OrderFind
<1>4. ASSUME NEW h \in Handler, NEW g \in Game,
             TakeRead(h, g) \/ UnlockRead(h, g) \/ RefundRead(h, g)
      PROVE  game' = game
  BY <1>4 DEF TakeRead, UnlockRead, RefundRead, rows
<1>5. ASSUME NEW o \in Order, Notify(o) \/ Pay(o) \/ OrderTime(o) PROVE game' = game
  BY <1>5 DEF Notify, NotifyRead, NotifyAgain, NotifyOther, Pay, OrderTime, rows
<1>6. ASSUME \/ \E s \in SubId : SubTime(s)
             \/ \E q \in Request : GrantFree(q) \/ \E n \in SubId : GrantSub(q, n)
             \/ GetSubscriptionStatus \/ UNCHANGED vars
      PROVE  game' = game
  BY <1>6 DEF SubTime, GrantFree, GrantSub, GetSubscriptionStatus, vars, rows
<1>7. NoGame \in Game \cup {NoGame}
  OBVIOUS
<1>8. QED
  BY <1>2, <1>3, <1>4, <1>5, <1>6, <1>7 DEF Next

\* What a handler has just read is so.
Begins(f) ==
    /\ f.pc = "insert" /\ f.g # NoGame => game[f.g].made
    /\ f.pc = "activate" /\ f.unlock => /\ order[f.o].game # NoGame
                                        /\ ~game[order[f.o].game].play
    /\ f.pc = "unlock" => game[f.g].made /\ ~game[f.g].play
    /\ f.pc = "take" => /\ ~game[f.g].made
                        /\ \A k \in Handler : run[k].pc = "take" => run[k].g # f.g
    /\ f.pc = "refund" => /\ game[f.g].made /\ f.source \in {"free", "quota"}
                          /\ InTime(f)

LEMMA RunSteps ==
  ASSUME TypeOK, [Next]_vars
  PROVE  \/ run' = run
         \/ \E h \in Handler : Ends(h)
         \/ game' = game /\ \E h \in Handler, f \in Frame : Goes(h, f) /\ Begins(f)
<1> DEFINE Begun1 == \E h \in Handler, f \in Frame : Goes(h, f) /\ Begins(f)
<1>1. ASSUME NEW h \in Handler, Write(h) \/ Abort(h) PROVE Ends(h)
  BY <1>1 DEF Write, Abort, OrderRenew, OrderFail, OrderInsert, PollExpire, Activate,
              TakeFree, TakeSub, TakeNone, TakeConflict,
              UnlockWrite, UnlockConflict, RefundFree, RefundSub
<1>2. ASSUME NEW h \in Handler, NEW o \in Order, PollRead(h, o) PROVE game' = game /\ Begun1
  <2>1. [pc |-> "expire", o |-> o] \in Frame /\ Begins([pc |-> "expire", o |-> o])
    BY DEF Frame, Begins
  <2>2. QED
    BY <1>2, <2>1 DEF PollRead, Starts
<1>3. ASSUME NEW h \in Handler, NEW o \in Order, NEW g \in Game \cup {NoGame},
             OrderFind(h, o \in Alipay, g)
      PROVE  Ends(h) \/ (game' = game /\ Begun1)
  <2>1. /\ [pc |-> "insert", ali |-> o \in Alipay, g |-> g] \in Frame
        /\ Begins([pc |-> "insert", ali |-> o \in Alipay, g |-> g])
    BY <1>3 DEF OrderFind, Frame, Begins
  <2>2. ASSUME NEW p \in Order
        PROVE  [pc |-> "renew", o |-> p] \in Frame /\ Begins([pc |-> "renew", o |-> p])
    BY DEF Frame, Begins
  <2>3. QED
    BY <1>3, <2>1, <2>2 DEF OrderFind, Waiting, Ends
<1>4. ASSUME NEW h \in Handler, NEW g \in Game, TakeRead(h, g) PROVE game' = game /\ Begun1
  <2> DEFINE f == [pc |-> "take", g |-> g, free |-> free, s |-> Current, used |-> UsedOf(Current)]
  <2>1. f \in Frame
    BY CurrentType, UsedType DEF Frame, TypeOK
  <2>2. Begins(f) /\ Goes(h, f) /\ game' = game
    BY <1>4 DEF TakeRead, Starts, Begins
  <2>3. QED
    BY <2>1, <2>2
<1>5. ASSUME NEW h \in Handler, NEW g \in Game, UnlockRead(h, g) PROVE game' = game /\ Begun1
  <2> DEFINE f == [pc |-> "unlock", g |-> g, s |-> Current, used |-> UsedOf(Current)]
  <2>1. f \in Frame
    BY <1>5, CurrentType, UsedType DEF UnlockRead, Frame
  <2>2. Begins(f) /\ Goes(h, f) /\ game' = game
    BY <1>5 DEF UnlockRead, Starts, Begins
  <2>3. QED
    BY <2>1, <2>2
<1>6. ASSUME NEW h \in Handler, NEW g \in Game, RefundRead(h, g) PROVE game' = game /\ Begun1
  <2> DEFINE f == [pc |-> "refund", g |-> g, source |-> game[g].source, s |-> game[g].sub]
  <2>1. f \in Frame
    BY DEF TypeOK, GameRow, Frame
  <2>2. Begins(f) /\ Goes(h, f) /\ game' = game
    BY <1>6 DEF RefundRead, Starts, Begins, InTime, rows
  <2>3. QED
    BY <2>1, <2>2
<1>7. ASSUME NEW h \in Handler, NEW o \in Order, NotifyRead(h, o) PROVE game' = game /\ Begun1
  <2> DEFINE u == order[o].game # NoGame /\ ~game[order[o].game].play
  <2> DEFINE f == [pc |-> "activate", o |-> o, unlock |-> u]
  <2>1. f \in Frame
    BY DEF Frame
  <2>2. Begins(f) /\ Goes(h, f) /\ game' = game
    BY <1>7 DEF NotifyRead, Starts, Begins, rows
  <2>3. QED
    BY <2>1, <2>2
<1>8. ASSUME NEW o \in Order, Notify(o) \/ Pay(o) \/ OrderTime(o), ~\E h \in Handler : NotifyRead(h, o)
      PROVE  run' = run
  BY <1>8 DEF Notify, NotifyAgain, NotifyOther, Pay, OrderTime
<1>9. ASSUME \/ \E s \in SubId : SubTime(s)
             \/ \E q \in Request : GrantFree(q) \/ \E n \in SubId : GrantSub(q, n)
             \/ GetSubscriptionStatus \/ UNCHANGED vars
      PROVE  run' = run
  BY <1>9 DEF SubTime, GrantFree, GrantSub, GetSubscriptionStatus, vars
<1>10. QED
  BY <1>1, <1>2, <1>3, <1>4, <1>5, <1>6, <1>7, <1>8, <1>9 DEF Next

\* A grant that is written leaves the game lawful and made.
LEMMA WrittenRow ==
  ASSUME NEW h, NEW g, NEW r, Writes(h, g, r)
  PROVE  /\ r.made
         /\ ~r.play => r.source = "none"
         /\ r.source \in {"none", "free"} => r.sub = NoSub
         /\ r.source \in {"quota", "unlock"} => r.sub \in SubId /\ sub'[r.sub].status # "none"
  BY FreeRowIs DEF Writes, Locked, SubGrant

LEMMA GameLawfulStep ==
  ASSUME TypeOK, AccessInv, [Next]_vars, NEW g \in Game
  PROVE  GameLawful(g)'
<1>1. GameLawful(g)
  BY DEF AccessInv
<1>2. CASE game'[g] = game[g]
  BY <1>1, <1>2, BornStays DEF GameLawful
<1>3. ASSUME NEW h \in Handler, NEW x \in Game, NEW r \in GameRow, Writes(h, x, r), x = g
      PROVE  GameLawful(g)'
  <2>1. game'[g] = r
    BY <1>3 DEF Writes, TypeOK
  <2>2. QED
    BY <1>3, <2>1, WrittenRow DEF GameLawful
<1>4. ASSUME NEW h \in Handler, NEW x \in Game, NEW r \in GameRow, Writes(h, x, r), x # g
      PROVE  game'[g] = game[g]
  BY <1>4 DEF Writes, TypeOK
<1>5. QED
  BY <1>2, <1>3, <1>4, GameSteps

LEMMA GameStays ==
  ASSUME TypeOK, AccessInv, [Next]_vars, NEW g \in Game
  PROVE  /\ game[g].made => game'[g].made
         /\ Unlockable(g) => game'[g].made /\ game'[g].source \in {"none", "unlock"}
<1>1. CASE game' = game
  BY <1>1 DEF Unlockable
<1>2. ASSUME NEW h \in Handler, NEW x \in Game, NEW r \in GameRow, Writes(h, x, r)
      PROVE  /\ game[g].made => game'[g].made
             /\ Unlockable(g) => game'[g].made /\ game'[g].source \in {"none", "unlock"}
  <2>1. CASE x # g
    BY <1>2, <2>1 DEF Writes, TypeOK, Unlockable
  <2>2. CASE x = g
    <3>1. game'[g] = r /\ r.made
      BY <1>2, <2>2, WrittenRow DEF Writes, TypeOK
    <3>2. Relies(run[h])
      BY DEF AccessInv
    <3>3. Unlockable(g) => r.source \in {"none", "unlock"}
      BY <1>2, <2>2, <3>2 DEF Writes, Relies, Unlockable, SubGrant, Locked
    <3>4. QED
      BY <3>1, <3>3
  <2>3. QED
    BY <2>1, <2>2
<1>3. QED
  BY <1>1, <1>2, GameSteps

LEMMA OrderLawfulStep ==
  ASSUME TypeOK, AccessInv, [Next]_vars, NEW o \in Order
  PROVE  OrderLawful(o)'
<1>1. /\ OrderLawful(o) /\ order[o].game \in Game \cup {NoGame}
      /\ \A h \in Handler : Relies(run[h])
  BY DEF AccessInv, TypeOK
<1>2. CASE OrderKept(o)
  BY <1>1, <1>2, GameStays DEF OrderLawful, OrderKept
<1>3. CASE Ordered(o)
  <2>1. PICK h \in Handler : run[h].pc = "insert" /\ order'[o].game = run[h].g
    BY <1>3 DEF Ordered
  <2>2. run[h].g \in Game \cup {NoGame} /\ (run[h].g # NoGame => game[run[h].g].made)
    BY <1>1, <2>1, Frames DEF Relies
  <2>3. QED
    BY <1>3, <2>1, <2>2, GameStays DEF OrderLawful, Ordered
<1>4. QED
  BY <1>2, <1>3, OrderSteps

LEMMA OrderOfUnlock ==
  ASSUME TypeOK, AccessInv, [Next]_vars, NEW o \in Order, order[o].game # NoGame
  PROVE  order'[o].game = order[o].game /\ order[o].game \in Game
<1>1. order[o].status # "none"
  BY DEF AccessInv, OrderLawful
<1>2. QED
  BY <1>1, OrderSteps DEF OrderKept, Ordered, TypeOK

\* What a handler relies on is not disturbed by the others.
LEMMA ReliesKept ==
  ASSUME TypeOK, AccessInv, [Next]_vars, NEW k \in Handler, run'[k] = run[k]
  PROVE  Relies(run[k])'
<1>1. Relies(run[k])
  BY DEF AccessInv
<1>2. run[k].pc = "insert" /\ run[k].g # NoGame => game'[run[k].g].made
  BY <1>1, Frames, GameStays DEF Relies
<1>3. run[k].pc = "activate" /\ run[k].unlock => Unlockable(order[run[k].o].game)'
  <2>1. SUFFICES ASSUME run[k].pc = "activate", run[k].unlock
                 PROVE  Unlockable(order[run[k].o].game)'
    OBVIOUS
  <2>2. run[k].o \in Order /\ Unlockable(order[run[k].o].game)
    BY <1>1, <2>1, Frames DEF Relies
  <2>3. order'[run[k].o].game = order[run[k].o].game /\ order[run[k].o].game \in Game
    BY <2>2, OrderOfUnlock DEF Unlockable
  <2>4. run'[k].o = run[k].o
    OBVIOUS
  <2>5. QED
    BY <2>2, <2>3, <2>4, GameStays DEF Unlockable
<1>4. run[k].pc = "unlock" => Unlockable(run[k].g)'
  BY <1>1, Frames, GameStays DEF Relies, Unlockable
<1>5. run[k].pc = "take" => game'[run[k].g] = game[run[k].g]
  <2>1. SUFFICES ASSUME run[k].pc = "take", NEW h \in Handler, NEW g \in Game,
                        NEW r \in GameRow, Writes(h, g, r), g = run[k].g
                 PROVE  FALSE
    BY Frames, GameSteps DEF Writes, TypeOK
  <2>2. h # k
    BY <2>1 DEF Writes, Ends, Goes, Idle, TypeOK
  <2>3. Alone(h, k) /\ Relies(run[h])
    BY DEF AccessInv
  <2>4. QED
    BY <1>1, <2>1, <2>2, <2>3 DEF Writes, Alone, Relies, Unlockable
<1>6. run[k].pc = "refund" => /\ game'[run[k].g].made
                              /\ InTime(run[k])' \/ Unlockable(run[k].g)'
  <2>1. SUFFICES ASSUME run[k].pc = "refund"
                 PROVE  game'[run[k].g].made /\ (InTime(run[k])' \/ Unlockable(run[k].g)')
    OBVIOUS
  <2>2. /\ run[k].g \in Game /\ run[k].g # NoGame /\ game[run[k].g].made
        /\ run[k].source \in {"free", "quota"} /\ (InTime(run[k]) \/ Unlockable(run[k].g))
    BY <1>1, <2>1, Frames DEF Relies
  <2>3. game'[run[k].g].made /\ (Unlockable(run[k].g) => Unlockable(run[k].g)')
    BY <2>2, GameStays DEF Unlockable
  <2>4. CASE game'[run[k].g] = game[run[k].g]
    BY <2>2, <2>3, <2>4 DEF InTime
  <2>5. ASSUME NEW h \in Handler, NEW g \in Game, NEW r \in GameRow, Writes(h, g, r), g = run[k].g
        PROVE  Unlockable(run[k].g)'
    <3>1. game'[run[k].g] = r /\ Relies(run[h])
      BY <2>5 DEF Writes, AccessInv, TypeOK
    <3>2. r.source \in {"none", "unlock"}
      BY <2>2, <2>5, <3>1 DEF Writes, Relies, Locked, SubGrant
    <3>3. QED
      BY <2>2, <2>3, <3>1, <3>2 DEF Unlockable
  <2>6. QED
    BY <2>2, <2>3, <2>4, <2>5, GameSteps DEF Writes, TypeOK
<1>7. run[k].pc = "refund" /\ run[k].s # NoSub => sub'[run[k].s].status # "none"
  BY <1>1, Frames, BornStays DEF Relies
<1>8. QED
  BY <1>1, <1>2, <1>3, <1>4, <1>5, <1>6, <1>7 DEF Relies

\* A step that ends handlers, or leaves them alone.
LEMMA RunKept ==
  ASSUME TypeOK, AccessInv, [Next]_vars, NEW k \in Handler,
         run'[k] = run[k] \/ run'[k] = Idle
  PROVE  Relies(run[k])'
<1>1. CASE run'[k] = Idle
  BY <1>1 DEF Relies, Idle
<1>2. QED
  BY <1>1, ReliesKept

LEMMA ReliesStep ==
  ASSUME TypeOK, AccessInv, [Next]_vars, NEW k \in Handler
  PROVE  Relies(run[k])'
<1>1. CASE run' = run \/ \E h \in Handler : Ends(h)
  BY <1>1, RunKept DEF Ends, Goes, TypeOK
<1>2. ASSUME NEW h \in Handler, NEW f \in Frame, Goes(h, f), Begins(f), game' = game
      PROVE  Relies(run[k])'
  <2>1. CASE h # k
    BY <1>2, <2>1, RunKept DEF Goes, TypeOK
  <2>2. CASE h = k
    <3>1. run'[k] = f
      BY <1>2, <2>2 DEF Goes, TypeOK
    <3>2. f.pc = "activate" => f.o \in Order
      BY DEF Frame
    <3>3. f.pc = "activate" /\ f.unlock => Unlockable(order[f.o].game)'
      <4>1. SUFFICES ASSUME f.pc = "activate", f.unlock
                     PROVE  Unlockable(order[f.o].game)'
        OBVIOUS
      <4>2. /\ order[f.o].game # NoGame /\ ~game[order[f.o].game].play
            /\ OrderLawful(f.o)
        BY <1>2, <3>2, <4>1 DEF Begins, AccessInv
      <4>3. order'[f.o].game = order[f.o].game /\ order[f.o].game \in Game
        BY <3>2, <4>1, <4>2, OrderOfUnlock
      <4>4. GameLawful(order[f.o].game)
        BY <4>3 DEF AccessInv
      <4>5. QED
        BY <1>2, <4>2, <4>3, <4>4 DEF Unlockable, OrderLawful, GameLawful
    <3>4. f.pc = "unlock" => Unlockable(f.g)'
      <4>1. SUFFICES ASSUME f.pc = "unlock" PROVE Unlockable(f.g)'
        OBVIOUS
      <4>2. f.g \in Game
        BY <4>1 DEF Frame
      <4>3. game[f.g].made /\ ~game[f.g].play /\ GameLawful(f.g)
        BY <1>2, <4>1, <4>2 DEF Begins, AccessInv
      <4>4. QED
        BY <1>2, <4>2, <4>3 DEF Unlockable, GameLawful
    <3>5. f.pc = "refund" => /\ f.s = NoSub <=> f.source = "free"
                             /\ f.s # NoSub => sub'[f.s].status # "none"
      <4>1. SUFFICES ASSUME f.pc = "refund"
                     PROVE  /\ f.s = NoSub <=> f.source = "free"
                            /\ f.s # NoSub => sub'[f.s].status # "none"
        OBVIOUS
      <4>2. f.g \in Game /\ f.s \in SubId \cup {NoSub}
        BY <4>1 DEF Frame
      <4>3. GameLawful(f.g)
        BY <4>2 DEF AccessInv
      <4>4. /\ f.s = NoSub <=> f.source = "free"
            /\ f.s # NoSub => sub[f.s].status # "none"
        BY <1>2, <4>1, <4>3 DEF Begins, InTime, GameLawful, SubId, NoSub
      <4>5. QED
        BY <4>2, <4>4, BornStays
    <3>6. QED
      BY <1>2, <3>1, <3>3, <3>4, <3>5 DEF Relies, Begins, InTime
  <2>3. QED
    BY <2>1, <2>2
<1>3. QED
  BY <1>1, <1>2, RunSteps

LEMMA AloneStep ==
  ASSUME TypeOK, AccessInv, [Next]_vars, NEW h \in Handler, NEW k \in Handler
  PROVE  Alone(h, k)'
<1>1. Alone(h, k)
  BY DEF AccessInv
<1>2. CASE run' = run
  BY <1>1, <1>2 DEF Alone
<1>3. ASSUME NEW x \in Handler, Ends(x) PROVE Alone(h, k)'
  <2>1. /\ run'[h] = run[h] \/ run'[h] = Idle
        /\ run'[k] = run[k] \/ run'[k] = Idle
    BY <1>3 DEF Ends, Goes, TypeOK
  <2>2. QED
    BY <1>1, <2>1 DEF Alone, Idle
<1>4. ASSUME NEW x \in Handler, NEW f \in Frame, Goes(x, f), Begins(f) PROVE Alone(h, k)'
  <2>1. /\ IF h = x THEN run'[h] = f ELSE run'[h] = run[h]
        /\ IF k = x THEN run'[k] = f ELSE run'[k] = run[k]
    BY <1>4 DEF Goes, TypeOK
  <2>2. QED
    BY <1>1, <1>4, <2>1 DEF Alone, Begins
<1>5. QED
  BY <1>2, <1>3, <1>4, RunSteps

\* Late refunds credit, and close the games of, subscriptions there are.
LEMMA DriftSteps ==
  ASSUME TypeOK, AccessInv, [Next]_vars
  PROVE  \/ drift' = drift
         \/ \E h \in Handler : run[h].pc = "refund" /\ drift' = Drifted(run[h])
<1>1. ASSUME NEW h \in Handler, Write(h) \/ Abort(h)
      PROVE  drift' = drift \/ (run[h].pc = "refund" /\ drift' = Drifted(run[h]))
  BY <1>1 DEF Write, Abort, OrderRenew, OrderFail, OrderInsert, PollExpire, Activate,
              TakeFree, TakeSub, TakeNone, TakeConflict,
              UnlockWrite, UnlockConflict, RefundFree, RefundSub, GivesBack
<1>2. ASSUME \/ \E h \in Handler, o \in Order :
                  \/ PollRead(h, o)
                  \/ \E g \in Game \cup {NoGame} : OrderFind(h, o \in Alipay, g)
             \/ \E h \in Handler, g \in Game :
                  TakeRead(h, g) \/ UnlockRead(h, g) \/ RefundRead(h, g)
             \/ \E o \in Order : Notify(o) \/ Pay(o) \/ OrderTime(o)
             \/ \E s \in SubId : SubTime(s)
             \/ \E q \in Request : GrantFree(q) \/ \E n \in SubId : GrantSub(q, n)
             \/ GetSubscriptionStatus \/ UNCHANGED vars
      PROVE  drift' = drift
  BY <1>2 DEF PollRead, OrderFind, TakeRead, UnlockRead, RefundRead, Notify, NotifyRead,
              NotifyAgain, NotifyOther, Pay, OrderTime, SubTime, GrantFree, GrantSub,
              GetSubscriptionStatus, vars
<1>3. QED
  BY <1>1, <1>2 DEF Next

LEMMA DriftStep ==
  ASSUME TypeOK, AccessInv, [Next]_vars, NEW s \in SubId, sub'[s].status = "none"
  PROVE  drift'[s] = 0
<1>1. sub[s].status = "none" /\ drift[s] = 0
  BY BornStays DEF AccessInv
<1>2. ASSUME NEW h \in Handler, run[h].pc = "refund", drift' = Drifted(run[h])
      PROVE  drift'[s] = 0
  <2>1. run[h].s # s
    BY <1>1, <1>2 DEF AccessInv, Relies, SubId, NoSub
  <2>2. ~(game[run[h].g].source = "unlock" /\ game[run[h].g].sub = s)
    BY <1>1, <1>2, Frames DEF AccessInv, GameLawful
  <2>3. QED
    BY <1>1, <1>2, <2>1, <2>2 DEF Drifted
<1>3. QED
  BY <1>1, <1>2, DriftSteps

LEMMA AccessStep == TypeOK /\ AccessInv /\ [Next]_vars => AccessInv'
  BY GameLawfulStep, OrderLawfulStep, ReliesStep, AloneStep, DriftStep DEF AccessInv
-----------------------------------------------------------------------------
(* Counting the games given.                                               *)

In(r, source, s) == r.source \in source /\ r.sub = s

Has(r, source, s) == IF In(r, source, s) THEN 1 ELSE 0

\* Games(source, s), of any rows gm.
Given(gm, source, s) == Cardinality({x \in Game : In(gm[x], source, s)})

\* Count a becomes b when x that were counted go and y that are counted come.
Shift(a, b, x, y) == a \in Int /\ b \in Int /\ x \in 0 .. 1 /\ y \in 0 .. 1 /\ b + x = a + y

\* Giving a game something else moves the counts by what it had and what it has.
LEMMA Recount ==
  ASSUME IsFiniteSet(Game), NEW gm \in [Game -> GameRow], NEW g \in Game, NEW r,
         NEW source, NEW s
  PROVE  Shift(Given(gm, source, s), Given([gm EXCEPT ![g] = r], source, s),
               Has(gm[g], source, s), Has(r, source, s))
<1> DEFINE S == {x \in Game : In(gm[x], source, s)}
           R == S \ {g}
           T == {x \in Game : In([gm EXCEPT ![g] = r][x], source, s)}
<1>1. Given(gm, source, s) = Cardinality(S) /\ Given([gm EXCEPT ![g] = r], source, s) = Cardinality(T)
  BY DEF Given
<1>2. IsFiniteSet(S)
  BY FS_Subset
<1>3. /\ IsFiniteSet(R) /\ g \notin R
      /\ Cardinality(R) = IF g \in S THEN Cardinality(S) - 1 ELSE Cardinality(S)
  BY <1>2, FS_RemoveElement
<1>4. T = IF In(r, source, s) THEN R \cup {g} ELSE R
  OBVIOUS
<1>5. Cardinality(T) = IF In(r, source, s) THEN Cardinality(R) + 1 ELSE Cardinality(R)
  BY <1>3, <1>4, FS_AddElement
<1>6. g \in S <=> In(gm[g], source, s)
  OBVIOUS
<1>7. IsFiniteSet(T)
  BY FS_Subset
<1>8. Cardinality(S) \in Nat /\ Cardinality(T) \in Nat /\ Cardinality(R) \in Nat
  BY <1>2, <1>3, <1>7, FS_CardinalityType
<1> HIDE DEF S, R, T
<1>9. QED
  BY <1>1, <1>3, <1>5, <1>6, <1>8 DEF Has, Shift

LEMMA GameType == TypeOK => game \in [Game -> GameRow]
  BY DEF TypeOK

\* Recount, for the rows of a step.
LEMMA Regiven ==
  ASSUME IsFiniteSet(Game), TypeOK, NEW g \in Game, NEW r, game' = [game EXCEPT ![g] = r],
         NEW source, NEW s
  PROVE  Shift(Given(game, source, s), Given(game', source, s),
               Has(game[g], source, s), Has(r, source, s))
<1>1. game \in [Game -> GameRow]
  BY GameType
<1>2. QED
  BY <1>1, Recount

\* The counters, with what late refunds have put out of balance.
FreeBook == free.used + drift[NoSub]
Book(s) == sub[s].used + drift[s]

\* A subscription's count against the games it gave.
Tally(a, n, status) == a >= n /\ (status = "active" => a = n)

FromSub == {"quota", "unlock"}

\* The invariant, and what it will be.
LEMMA Counted ==
  /\ UsageMatchesAccess <=>
       /\ FreeBook = Given(game, {"free"}, NoSub) /\ drift[NoSub] >= 0
       /\ \A s \in SubId : Tally(Book(s), Given(game, FromSub, s), sub[s].status)
  /\ UsageMatchesAccess' <=>
       /\ FreeBook' = Given(game', {"free"}, NoSub) /\ drift'[NoSub] >= 0
       /\ \A s \in SubId : Tally(Book(s)', Given(game', FromSub, s), sub'[s].status)
  BY DEF UsageMatchesAccess, Games, Given, In, Tally, FromSub, FreeBook, Book

LEMMA BookTypes ==
  ASSUME TypeOK
  PROVE  FreeBook \in Int /\ \A s \in SubId : Book(s) \in Int
  BY DEF TypeOK, SubRow, FreeBook, Book

\* Steps that give no game anything and count no use.
LEMMA CountsRest ==
  ASSUME UsageMatchesAccess, game' = game, drift' = drift, free'.used = free.used,
         \A s \in SubId : /\ sub'[s].used = sub[s].used
                          /\ sub'[s].status = "active" => sub[s].status = "active"
  PROVE  UsageMatchesAccess'
<1>1. ASSUME NEW s \in SubId
      PROVE  Tally(Book(s)', Given(game', FromSub, s), sub'[s].status)
  <2>1. Tally(Book(s), Given(game, FromSub, s), sub[s].status)
    BY Counted
  <2>2. Given(game', FromSub, s) = Given(game, FromSub, s)
    BY DEF Given
  <2>3. Book(s)' = Book(s) /\ (sub'[s].status = "active" => sub[s].status = "active")
    BY DEF Book
  <2>4. Tally(Book(s), Given(game, FromSub, s), sub'[s].status)
    BY <2>1, <2>3 DEF Tally
  <2>5. QED
    BY <2>2, <2>3, <2>4
<1>2. FreeBook' = FreeBook /\ Given(game', {"free"}, NoSub) = Given(game, {"free"}, NoSub)
  BY DEF FreeBook, Given
<1>3. QED
  BY <1>1, <1>2, Counted

LEMMA FreshCounts ==
  ASSUME TypeOK, sub' = Fresh, NEW s \in SubId
  PROVE  sub'[s].used = sub[s].used /\ (sub'[s].status = "active" => sub[s].status = "active")
  BY DEF Fresh, Marked, TypeOK, SubRow

\* A subscription that begins: what it counts is what it is given, and the others,
\* which can only lose a game to it, have ended.
LEMMA NewSubCounts ==
  ASSUME TypeOK, NEW n \in SubId, Unborn(n), NEW by, NEW used, NewSub(n, by, used)
  PROVE  /\ sub'[n].used = used
         /\ \A s \in SubId \ {n} : sub'[s].used = sub[s].used /\ sub'[s].status # "active"
<1>1. sub'[n].used = used
  BY DEF NewSub
<1>2. ASSUME NEW s \in SubId \ {n}
      PROVE  sub'[s].used = sub[s].used /\ sub'[s].status # "active"
  <2>1. sub[s] \in SubRow
    BY DEF TypeOK
  <2>2. CASE sub[s].status = "active" /\ s \notin ended
    <3>1. sub'[s] = [sub[s] EXCEPT !.status = "cancelled"]
      BY <2>2 DEF NewSub
    <3>2. QED
      BY <2>1, <3>1 DEF SubRow
  <2>3. CASE ~(sub[s].status = "active" /\ s \notin ended)
    <3>1. sub'[s] = Marked(sub[s], s)
      BY <2>3 DEF NewSub
    <3>2. QED
      BY <2>1, <2>3, <3>1 DEF SubRow, Marked
  <2>4. QED
    BY <2>2, <2>3
<1>3. QED
  BY <1>1, <1>2

\* A subscription that does not exist yet has given nothing.
LEMMA UnbornGaveNothing ==
  ASSUME TypeOK, AccessInv, NEW n \in SubId, sub[n].status = "none"
  PROVE  Given(game, FromSub, n) = 0 /\ drift[n] = 0
<1>1. \A g \in Game : GameLawful(g)
  BY DEF AccessInv
<1>2. {g \in Game : In(game[g], FromSub, n)} = {}
  BY <1>1 DEF GameLawful, In, FromSub
<1>3. QED
  BY <1>2, FS_EmptySet DEF Given, AccessInv

\* A subscription that begins unused; the others end.
LEMMA BeginsCounts ==
  ASSUME UsageMatchesAccess, game' = game, free' = free, drift' = drift, NEW n \in SubId,
         Given(game, FromSub, n) = 0, drift[n] = 0, sub'[n].used = 0,
         \A s \in SubId \ {n} : sub'[s].used = sub[s].used /\ sub'[s].status # "active"
  PROVE  UsageMatchesAccess'
<1>1. Tally(Book(n)', Given(game', FromSub, n), sub'[n].status)
  BY DEF Tally, Book
<1>2. ASSUME NEW s \in SubId, s # n
      PROVE  Tally(Book(s)', Given(game', FromSub, s), sub'[s].status)
  <2>1. Tally(Book(s), Given(game, FromSub, s), sub[s].status)
    BY Counted
  <2>2. Book(s)' = Book(s) /\ sub'[s].status # "active"
    BY <1>2 DEF Book
  <2>3. QED
    BY <2>1, <2>2 DEF Tally
<1>3. FreeBook' = FreeBook
  BY DEF FreeBook
<1>4. QED
  BY <1>1, <1>2, <1>3, Counted

LEMMA ActivateCounts ==
  ASSUME IsFiniteSet(Game), TypeOK, AccessInv, UsageMatchesAccess,
         NEW h \in Handler, NEW n \in SubId, Activate(h, n)
  PROVE  UsageMatchesAccess'
<1> DEFINE g == order[run[h].o].game
<1>1. /\ sub[n].status = "none" /\ Given(game, FromSub, n) = 0 /\ drift[n] = 0
      /\ free' = free /\ drift' = drift /\ FreeBook' = FreeBook
      /\ sub'[n].used = UsedAtStart(run[h])
      /\ \A s \in SubId \ {n} : sub'[s].used = sub[s].used /\ sub'[s].status # "active"
  BY NewSubCounts, UnbornGaveNothing DEF Activate, Unborn, FreeBook
<1>2. CASE run[h].unlock
  <2>1. g \in Game /\ Unlockable(g) /\ GameLawful(g)
    BY <1>2, Frames DEF Activate, AccessInv, Relies, Unlockable, TypeOK
  <2>2. game' = [game EXCEPT ![g] = SubGrant("unlock", n)]
    BY <1>2 DEF Activate, SubGrant
  <2>3. Given(game', {"free"}, NoSub) = Given(game, {"free"}, NoSub)
    <3>1. Has(game[g], {"free"}, NoSub) = 0 /\ Has(SubGrant("unlock", n), {"free"}, NoSub) = 0
      BY <2>1 DEF Has, In, Unlockable, SubGrant
    <3>2. Shift(Given(game, {"free"}, NoSub), Given(game', {"free"}, NoSub), 0, 0)
      BY <2>1, <2>2, <3>1, Regiven
    <3>3. QED
      BY <3>2 DEF Shift
  <2>4. ASSUME NEW s \in SubId
        PROVE  Shift(Given(game, FromSub, s), Given(game', FromSub, s),
                     Has(game[g], FromSub, s), Has(SubGrant("unlock", n), FromSub, s))
    BY <2>1, <2>2, Regiven
  <2>5. Tally(Book(n)', Given(game', FromSub, n), sub'[n].status)
    <3>1. Has(SubGrant("unlock", n), FromSub, n) = 1
      BY DEF Has, In, SubGrant, FromSub
    <3>2. Has(game[g], FromSub, n) = 0
      BY <1>1, <2>1 DEF Has, In, GameLawful, FromSub
    <3>3. Shift(0, Given(game', FromSub, n), 0, 1)
      BY <1>1, <2>4, <3>1, <3>2
    <3>4. Given(game', FromSub, n) = 1
      BY <3>3 DEF Shift
    <3>5. Book(n)' = 1
      BY <1>1, <1>2 DEF UsedAtStart, Book
    <3>6. QED
      BY <3>4, <3>5 DEF Tally
  <2>6. ASSUME NEW s \in SubId, s # n
        PROVE  Tally(Book(s)', Given(game', FromSub, s), sub'[s].status)
    <3>1. Has(SubGrant("unlock", n), FromSub, s) = 0
      BY <2>6 DEF Has, In, SubGrant
    <3>2. Shift(Given(game, FromSub, s), Given(game', FromSub, s), Has(game[g], FromSub, s), 0)
      BY <2>4, <3>1
    <3>3. /\ Given(game, FromSub, s) \in Int /\ Given(game', FromSub, s) \in Int
          /\ Given(game', FromSub, s) <= Given(game, FromSub, s)
      BY <3>2 DEF Shift
    <3>4. Book(s) >= Given(game, FromSub, s) /\ Book(s) \in Int
      BY Counted, BookTypes DEF Tally
    <3>5. Book(s)' = Book(s) /\ sub'[s].status # "active"
      BY <1>1, <2>6 DEF Book
    <3>6. Book(s) >= Given(game', FromSub, s)
      BY <3>3, <3>4
    <3>7. QED
      BY <3>5, <3>6 DEF Tally
  <2>7. QED
    BY <1>1, <2>3, <2>5, <2>6, Counted
<1>3. CASE ~run[h].unlock
  <2>1. game' = game /\ UsedAtStart(run[h]) = 0
    BY <1>3 DEF Activate, UsedAtStart
  <2>2. QED
    BY <1>1, <2>1, BeginsCounts
<1>4. QED
  BY <1>2, <1>3

LEMMA GrantSubCounts ==
  ASSUME TypeOK, AccessInv, UsageMatchesAccess,
         NEW q \in Request, NEW n \in SubId, GrantSub(q, n)
  PROVE  UsageMatchesAccess'
<1>1. /\ Given(game, FromSub, n) = 0 /\ drift[n] = 0 /\ free' = free /\ sub'[n].used = 0
      /\ \A s \in SubId \ {n} : sub'[s].used = sub[s].used /\ sub'[s].status # "active"
  BY NewSubCounts, UnbornGaveNothing DEF GrantSub, Unborn
<1>2. game' = game /\ drift' = drift
  BY DEF GrantSub
<1>3. QED
  BY <1>1, <1>2, BeginsCounts

\* A use of the free quota is counted, or given back, with the game's grant.
LEMMA FreeCounts ==
  ASSUME IsFiniteSet(Game), TypeOK, UsageMatchesAccess, NEW g \in Game, NEW r,
         game' = [game EXCEPT ![g] = r], sub' = sub, drift' = drift,
         game[g].source \in {"none", "free"}, r.source \in {"none", "free"},
         Shift(free.used, free'.used, Has(game[g], {"free"}, NoSub), Has(r, {"free"}, NoSub))
  PROVE  UsageMatchesAccess'
<1>1. FreeBook' = Given(game', {"free"}, NoSub)
  <2>1. Shift(Given(game, {"free"}, NoSub), Given(game', {"free"}, NoSub),
              Has(game[g], {"free"}, NoSub), Has(r, {"free"}, NoSub))
    BY Regiven
  <2>2. FreeBook = Given(game, {"free"}, NoSub) /\ drift[NoSub] \in Int
    BY Counted DEF TypeOK
  <2>3. FreeBook' - FreeBook = free'.used - free.used
    BY <2>2 DEF FreeBook, Shift
  <2>4. QED
    BY <2>1, <2>2, <2>3 DEF Shift, FreeBook
<1>2. ASSUME NEW s \in SubId
      PROVE  Tally(Book(s)', Given(game', FromSub, s), sub'[s].status)
  <2>1. Has(game[g], FromSub, s) = 0 /\ Has(r, FromSub, s) = 0
    BY DEF Has, In, FromSub
  <2>2. Shift(Given(game, FromSub, s), Given(game', FromSub, s), 0, 0)
    BY <2>1, Regiven
  <2>3. Given(game', FromSub, s) = Given(game, FromSub, s)
    BY <2>2 DEF Shift
  <2>4. Book(s)' = Book(s)
    BY DEF Book
  <2>5. QED
    BY <2>3, <2>4, Counted
<1>3. QED
  BY <1>1, <1>2, Counted

\* No subscription but t has, or will have, given the game anything.
OnlyFrom(before, after, t) ==
    \A s \in SubId \ {t} : Has(before, FromSub, s) = 0 /\ Has(after, FromSub, s) = 0

\* A use of a subscription is counted, or given back, with the game's grant.
LEMMA SubCounts ==
  ASSUME IsFiniteSet(Game), TypeOK, UsageMatchesAccess, NEW g \in Game, NEW r \in GameRow,
         NEW t \in SubId, NEW used \in Nat,
         game' = [game EXCEPT ![g] = r], free' = free, drift' = drift,
         sub' = [sub EXCEPT ![t].used = used],
         game[g].source # "free", r.source # "free",
         OnlyFrom(game[g], r, t),
         Shift(sub[t].used, used, Has(game[g], FromSub, t), Has(r, FromSub, t))
  PROVE  UsageMatchesAccess'
<1>1. Given(game', {"free"}, NoSub) = Given(game, {"free"}, NoSub)
  <2>1. Has(game[g], {"free"}, NoSub) = 0 /\ Has(r, {"free"}, NoSub) = 0
    BY DEF Has, In
  <2>2. Shift(Given(game, {"free"}, NoSub), Given(game', {"free"}, NoSub),
              Has(game[g], {"free"}, NoSub), Has(r, {"free"}, NoSub))
    BY Regiven
  <2>3. QED
    BY <2>1, <2>2 DEF Shift
<1>2. ASSUME NEW s \in SubId
      PROVE  Tally(Book(s)', Given(game', FromSub, s), sub'[s].status)
  <2>1. Shift(Given(game, FromSub, s), Given(game', FromSub, s),
              Has(game[g], FromSub, s), Has(r, FromSub, s))
    BY Regiven
  <2>2. /\ sub[s] \in SubRow /\ drift[s] \in Int
        /\ Tally(Book(s), Given(game, FromSub, s), sub[s].status)
    BY Counted DEF TypeOK
  <2>3. CASE s = t
    <3>1. Book(s)' = used + drift[s] /\ sub'[s].status = sub[s].status
      BY <2>2, <2>3 DEF TypeOK, SubRow, Book
    <3>2. Tally(used + drift[s], Given(game', FromSub, s), sub[s].status)
      BY <2>1, <2>2, <2>3 DEF Shift, Tally, Book
    <3>3. QED
      BY <3>1, <3>2
  <2>4. CASE s # t
    <3>1. Shift(Given(game, FromSub, s), Given(game', FromSub, s), 0, 0)
      BY <2>1, <2>4 DEF OnlyFrom
    <3>2. Given(game', FromSub, s) = Given(game, FromSub, s)
      BY <3>1 DEF Shift
    <3>3. sub'[s] = sub[s] /\ Book(s)' = Book(s)
      BY <2>4 DEF TypeOK, Book
    <3>4. QED
      BY <2>2, <3>2, <3>3
  <2>5. QED
    BY <2>3, <2>4
<1>3. FreeBook' = FreeBook
  BY DEF FreeBook
<1>4. QED
  BY <1>1, <1>2, <1>3, Counted

\* A refund of a grant the game no longer has: its counter goes down, and so do the
\* games of whatever subscription has unlocked the game since; drift keeps both.
LEMMA LateCounts ==
  ASSUME IsFiniteSet(Game), TypeOK, AccessInv, UsageMatchesAccess, NEW h \in Handler,
         run[h].pc = "refund", ~InTime(run[h]), GivesBack(run[h]),
         \/ run[h].s = NoSub /\ sub' = sub /\ free'.used = free.used - 1
         \/ run[h].s # NoSub /\ free' = free /\ sub' = [sub EXCEPT ![run[h].s].used = @ - 1]
  PROVE  UsageMatchesAccess'
<1> DEFINE g == run[h].g
           t == run[h].s
           closed(s) == IF game[g].source = "unlock" /\ game[g].sub = s THEN 1 ELSE 0
           credit(s) == IF s = t THEN 1 ELSE 0
<1>1. g \in Game /\ t \in SubId \cup {NoSub} /\ Unlockable(g) /\ GameLawful(g)
  BY Frames DEF AccessInv, Relies
<1>2. game' = [game EXCEPT ![g] = Locked]
  BY DEF GivesBack
<1>7. ASSUME NEW source, NEW s
      PROVE  Shift(Given(game, source, s), Given(game', source, s),
                   Has(game[g], source, s), Has(Locked, source, s))
  <2> HIDE DEF g
  <2>1. QED
    BY <1>1, <1>2, Regiven
<1>3. ASSUME NEW s \in SubId \cup {NoSub}
      PROVE  drift[s] \in Int /\ drift'[s] = drift[s] + credit(s) - closed(s)
  BY DEF GivesBack, Drifted, TypeOK
<1>4. FreeBook' = Given(game', {"free"}, NoSub) /\ drift'[NoSub] >= 0
  <2>1. Has(game[g], {"free"}, NoSub) = 0 /\ Has(Locked, {"free"}, NoSub) = 0
    BY <1>1 DEF Has, In, Unlockable, Locked
  <2>2. Shift(Given(game, {"free"}, NoSub), Given(game', {"free"}, NoSub), 0, 0)
    BY <1>7, <2>1
  <2>3. closed(NoSub) = 0
    BY <1>1 DEF GameLawful, SubId, NoSub
  <2>4. free.used \in Nat /\ free'.used = free.used - credit(NoSub)
    BY <1>1 DEF TypeOK
  <2>5. drift'[NoSub] = drift[NoSub] + credit(NoSub) /\ drift[NoSub] \in Int
    BY <1>3, <2>3
  <2>6. FreeBook = Given(game, {"free"}, NoSub) /\ drift[NoSub] >= 0 /\ credit(NoSub) \in 0 .. 1
    BY Counted
  <2> HIDE DEF credit, closed
  <2>7. QED
    BY <2>2, <2>4, <2>5, <2>6 DEF FreeBook, Shift
<1>5. ASSUME NEW s \in SubId
      PROVE  Tally(Book(s)', Given(game', FromSub, s), sub'[s].status)
  <2>1. Has(game[g], FromSub, s) = closed(s) /\ Has(Locked, FromSub, s) = 0
    BY <1>1 DEF Has, In, FromSub, Unlockable, Locked
  <2>2. Shift(Given(game, FromSub, s), Given(game', FromSub, s), closed(s), 0)
    BY <1>7, <2>1
  <2>3. sub[s].used \in Nat /\ sub[s] \in SubRow
    BY DEF TypeOK, SubRow
  <2>4. sub'[s].used = sub[s].used - credit(s) /\ sub'[s].status = sub[s].status
    <3>1. CASE s = t
      <4>1. sub'[s] = [sub[s] EXCEPT !.used = @ - 1]
        BY <3>1 DEF TypeOK, SubId, NoSub
      <4>2. QED
        BY <2>3, <3>1, <4>1 DEF SubRow
    <3>2. CASE s # t
      <4>1. sub'[s] = sub[s]
        BY <3>2 DEF TypeOK
      <4>2. QED
        BY <2>3, <3>2, <4>1
    <3>3. QED
      BY <3>1, <3>2
  <2>5. /\ Tally(Book(s), Given(game, FromSub, s), sub[s].status)
        /\ credit(s) \in 0 .. 1 /\ closed(s) \in 0 .. 1
    BY Counted
  <2>6. drift[s] \in Int /\ drift'[s] = drift[s] + credit(s) - closed(s)
    BY <1>3
  <2> HIDE DEF credit, closed
  <2>7. Book(s)' = Book(s) - closed(s) /\ Book(s) \in Int
    BY <2>3, <2>4, <2>5, <2>6 DEF Book
  <2>8. Given(game', FromSub, s) = Given(game, FromSub, s) - closed(s)
    BY <2>2 DEF Shift
  <2>9. Given(game, FromSub, s) \in Int
    BY <2>2 DEF Shift
  <2>10. Tally(Book(s) - closed(s), Given(game, FromSub, s) - closed(s), sub[s].status)
    BY <2>5, <2>7, <2>9 DEF Tally
  <2>11. QED
    BY <2>4, <2>7, <2>8, <2>10
<1>6. QED
  BY <1>4, <1>5, Counted

LEMMA FreeStep ==
  ASSUME IsFiniteSet(Game), TypeOK, AccessInv, UsageMatchesAccess, NEW h \in Handler,
         TakeFree(h) \/ RefundFree(h)
  PROVE  UsageMatchesAccess'
<1> DEFINE g == run[h].g
<1>1. g \in Game /\ GameLawful(g) /\ Relies(run[h])
  BY Frames DEF TakeFree, RefundFree, AccessInv
<1>2. free.used \in Nat
  BY DEF TypeOK
<1>3. CASE TakeFree(h)
  <2>1. game[g].source = "none"
    BY <1>1, <1>3 DEF TakeFree, Relies, GameLawful
  <2>2. Has(game[g], {"free"}, NoSub) = 0
    BY <2>1 DEF Has, In
  <2>3. Has(FreeRow, {"free"}, NoSub) = 1
    BY FreeRowIs DEF Has, In
  <2>4. free'.used = free.used + 1
    BY <1>3 DEF TakeFree, TypeOK
  <2>5. Shift(free.used, free'.used, Has(game[g], {"free"}, NoSub), Has(FreeRow, {"free"}, NoSub))
    BY <1>2, <2>2, <2>3, <2>4 DEF Shift
  <2>6. game' = [game EXCEPT ![g] = FreeRow] /\ sub' = sub /\ drift' = drift
    BY <1>3 DEF TakeFree, FreeRow
  <2>7. QED
    BY <1>1, <2>1, <2>5, <2>6, FreeRowIs, FreeCounts
<1>4. CASE RefundFree(h) /\ free.used > 0 /\ InTime(run[h])
  <2>1. game[g].source = "free" /\ game[g].sub = NoSub
    BY <1>1, <1>4 DEF RefundFree, InTime, GameLawful
  <2>2. Has(game[g], {"free"}, NoSub) = 1
    BY <2>1 DEF Has, In
  <2>3. Has(Locked, {"free"}, NoSub) = 0
    BY DEF Has, In, Locked
  <2>4. free'.used = free.used - 1
    BY <1>4 DEF RefundFree, TypeOK
  <2>5. Shift(free.used, free'.used, Has(game[g], {"free"}, NoSub), Has(Locked, {"free"}, NoSub))
    BY <1>2, <1>4, <2>2, <2>3, <2>4 DEF Shift
  <2>6. /\ game' = [game EXCEPT ![g] = Locked] /\ sub' = sub /\ drift' = drift
        /\ Locked.source = "none"
    BY <1>4 DEF RefundFree, GivesBack, Locked
  <2>7. QED
    BY <1>1, <2>1, <2>5, <2>6, FreeCounts
<1>5. CASE RefundFree(h) /\ free.used > 0 /\ ~InTime(run[h])
  <2>1. free'.used = free.used - 1 /\ sub' = sub
    BY <1>5 DEF RefundFree, TypeOK
  <2>2. run[h].pc = "refund" /\ run[h].s = NoSub /\ GivesBack(run[h])
    BY <1>1, <1>5 DEF RefundFree, Relies
  <2>3. QED
    BY <1>5, <2>1, <2>2, LateCounts
<1>6. CASE RefundFree(h) /\ ~(free.used > 0)
  BY <1>6, CountsRest DEF RefundFree
<1>7. QED
  BY <1>3, <1>4, <1>5, <1>6

\* A game that had nothing is given a use of subscription t.
LEMMA GrantCounts ==
  ASSUME IsFiniteSet(Game), TypeOK, UsageMatchesAccess,
         NEW g \in Game, NEW t \in SubId, NEW source \in FromSub,
         game[g].source = "none",
         game' = [game EXCEPT ![g] = SubGrant(source, t)],
         sub' = [sub EXCEPT ![t].used = @ + 1], free' = free, drift' = drift
  PROVE  UsageMatchesAccess'
<1> DEFINE r == SubGrant(source, t)
           used == sub[t].used + 1
<1>1. ASSUME NEW s \in SubId
      PROVE  /\ Has(game[g], FromSub, s) = 0
             /\ s # t => Has(r, FromSub, s) = 0
             /\ s = t => Has(r, FromSub, s) = 1
  BY DEF Has, In, FromSub, SubGrant
<1>2. sub[t].used \in Nat
  BY DEF TypeOK, SubRow
<1>3. Shift(sub[t].used, used, Has(game[g], FromSub, t), Has(r, FromSub, t))
  BY <1>1, <1>2 DEF Shift
<1>4. game[g].source # "free" /\ r.source # "free"
  BY DEF SubGrant, FromSub
<1>5. OnlyFrom(game[g], r, t)
  BY <1>1 DEF OnlyFrom
<1>6. game' = [game EXCEPT ![g] = r] /\ sub' = [sub EXCEPT ![t].used = used]
  OBVIOUS
<1>8. r \in GameRow /\ used \in Nat
  BY <1>2 DEF SubGrant, GameRow, Source, FromSub
<1> HIDE DEF r, used
<1>7. QED
  BY <1>3, <1>4, <1>5, <1>6, <1>8, SubCounts

LEMMA SubStep ==
  ASSUME IsFiniteSet(Game), TypeOK, AccessInv, UsageMatchesAccess, NEW h \in Handler,
         TakeSub(h) \/ UnlockWrite(h) \/ RefundSub(h)
  PROVE  UsageMatchesAccess'
<1> DEFINE g == run[h].g
           t == run[h].s
<1>1. g \in Game /\ GameLawful(g) /\ Relies(run[h])
  BY Frames DEF TakeSub, UnlockWrite, RefundSub, AccessInv
<1>2. CASE TakeSub(h) \/ UnlockWrite(h)
  <2>1. t \in SubId /\ sub[t].used \in Nat
    BY <1>2, Frames DEF TakeSub, UnlockWrite, TypeOK, SubRow
  <2>2. game[g].source = "none"
    BY <1>1, <1>2 DEF TakeSub, UnlockWrite, StillLocked, Relies, GameLawful
  <2>3. PICK source \in FromSub : game' = [game EXCEPT ![g] = SubGrant(source, t)]
    BY <1>2 DEF TakeSub, UnlockWrite, SubGrant, FromSub
  <2>4. sub' = [sub EXCEPT ![t].used = @ + 1] /\ free' = free /\ drift' = drift
    BY <1>2 DEF TakeSub, UnlockWrite
  <2> HIDE DEF g, t
  <2>5. QED
    BY <1>1, <2>1, <2>2, <2>3, <2>4, GrantCounts
<1>3. CASE RefundSub(h) /\ InTime(run[h])
  <2>1. game[g].source = "quota" /\ game[g].sub = t /\ t \in SubId
    BY <1>1, <1>3 DEF RefundSub, InTime, GameLawful
  <2>2. sub[t].used \in Nat
    BY <2>1 DEF TypeOK, SubRow
  <2>3. CASE sub[t].used > 0
    <3>1. game' = [game EXCEPT ![g] = Locked] /\ free' = free /\ drift' = drift
      BY <1>3, <2>3 DEF RefundSub, GivesBack
    <3>2. sub' = [sub EXCEPT ![t].used = sub[t].used - 1]
      BY <1>3, <2>3 DEF RefundSub
    <3>3. ASSUME NEW s \in SubId
          PROVE  /\ Has(Locked, FromSub, s) = 0
                 /\ s # t => Has(game[g], FromSub, s) = 0
                 /\ s = t => Has(game[g], FromSub, s) = 1
      BY <2>1 DEF Has, In, FromSub, Locked
    <3>4. Shift(sub[t].used, sub[t].used - 1, Has(game[g], FromSub, t), Has(Locked, FromSub, t))
      BY <2>1, <2>2, <2>3, <3>3 DEF Shift
    <3>5. game[g].source # "free" /\ Locked.source # "free"
      BY <2>1 DEF Locked
    <3>6. OnlyFrom(game[g], Locked, t)
      BY <3>3 DEF OnlyFrom
    <3>7. Locked \in GameRow /\ sub[t].used - 1 \in Nat
      BY <2>2, <2>3 DEF Locked, GameRow, Source
    <3> HIDE DEF g, t
    <3>8. QED
      BY <3>7, <1>1, <2>1, <3>1, <3>2, <3>4, <3>5, <3>6, SubCounts
  <2>4. CASE ~(sub[t].used > 0)
    BY <1>3, <2>4, CountsRest DEF RefundSub
  <2>5. QED
    BY <2>3, <2>4
<1>4. CASE RefundSub(h) /\ ~InTime(run[h])
  <2>1. t # NoSub /\ t \in SubId /\ run[h].pc = "refund"
    BY <1>1, <1>4, Frames DEF RefundSub, Relies
  <2>2. CASE sub[t].used > 0
    <3>1. /\ free' = free /\ sub' = [sub EXCEPT ![t].used = @ - 1] /\ GivesBack(run[h])
      BY <1>4, <2>2 DEF RefundSub
    <3>2. QED
      BY <1>4, <2>1, <3>1, LateCounts
  <2>3. CASE ~(sub[t].used > 0)
    BY <1>4, <2>3, CountsRest DEF RefundSub
  <2>4. QED
    BY <2>2, <2>3
<1>5. QED
  BY <1>2, <1>3, <1>4

\* A game that is made, locked: it had nothing and has nothing.
LEMMA LockedCounts ==
  ASSUME IsFiniteSet(Game), TypeOK, AccessInv, UsageMatchesAccess, NEW h \in Handler, TakeNone(h)
  PROVE  UsageMatchesAccess'
<1> DEFINE g == run[h].g
<1>1. g \in Game /\ GameLawful(g) /\ Relies(run[h])
  BY Frames DEF TakeNone, AccessInv
<1>2. game[g].source = "none" /\ Locked.source = "none"
  BY <1>1 DEF TakeNone, Relies, GameLawful, Locked
<1>3. Has(game[g], {"free"}, NoSub) = 0 /\ Has(Locked, {"free"}, NoSub) = 0
  BY <1>2 DEF Has, In
<1>4. /\ free.used \in Nat /\ free' = free /\ sub' = sub /\ drift' = drift
      /\ game' = [game EXCEPT ![g] = Locked]
  BY DEF TakeNone, TypeOK
<1>5. Shift(free.used, free'.used, Has(game[g], {"free"}, NoSub), Has(Locked, {"free"}, NoSub))
  BY <1>3, <1>4 DEF Shift
<1>6. QED
  BY <1>1, <1>2, <1>4, <1>5, FreeCounts

LEMMA UsageStep ==
  ASSUME IsFiniteSet(Game)
  PROVE  TypeOK /\ AccessInv /\ UsageMatchesAccess /\ [Next]_vars => UsageMatchesAccess'
<1> SUFFICES ASSUME TypeOK, AccessInv, UsageMatchesAccess, [Next]_vars PROVE UsageMatchesAccess'
  OBVIOUS
<1>1. game' = game /\ free' = free /\ drift' = drift /\ (sub' = sub \/ sub' = Fresh)
        => UsageMatchesAccess'
  BY CountsRest, FreshCounts
<1>2. ASSUME NEW h \in Handler, Write(h) \/ Abort(h) PROVE UsageMatchesAccess'
  <2>1. CASE \E n \in SubId : Activate(h, n)
    BY <2>1, ActivateCounts
  <2>2. CASE TakeFree(h) \/ RefundFree(h)
    BY <2>2, FreeStep
  <2>3. CASE TakeSub(h) \/ UnlockWrite(h) \/ RefundSub(h)
    BY <2>3, SubStep
  <2>4. CASE TakeNone(h)
    BY <2>4, LockedCounts
  <2>5. CASE OrderRenew(h) \/ OrderFail(h) \/ (\E o \in Order : OrderInsert(h, o)) \/ PollExpire(h)
    BY <1>1, <2>5 DEF OrderRenew, OrderFail, OrderInsert, PollExpire, rows
  <2>6. CASE TakeConflict(h) \/ UnlockConflict(h) \/ Abort(h)
    BY <1>1, <2>6 DEF TakeConflict, UnlockConflict, Abort, rows
  <2>7. QED
    BY <1>2, <2>1, <2>2, <2>3, <2>4, <2>5, <2>6 DEF Write
<1>3. ASSUME NEW h \in Handler, NEW o \in Order, NEW g \in Game \cup {NoGame},
             PollRead(h, o) \/ OrderFind(h, o \in Alipay, g)
      PROVE  UsageMatchesAccess'
  BY <1>1, <1>3 DEF PollRead, OrderFind
<1>4. ASSUME NEW h \in Handler, NEW g \in Game,
             TakeRead(h, g) \/ UnlockRead(h, g) \/ RefundRead(h, g)
      PROVE  UsageMatchesAccess'
  BY <1>1, <1>4 DEF TakeRead, UnlockRead, RefundRead, rows
<1>5. ASSUME NEW o \in Order, Notify(o) \/ Pay(o) \/ OrderTime(o) PROVE UsageMatchesAccess'
  BY <1>1, <1>5 DEF Notify, NotifyRead, NotifyAgain, NotifyOther, Pay, OrderTime, rows
<1>6. ASSUME NEW q \in Request, NEW n \in SubId, GrantSub(q, n) PROVE UsageMatchesAccess'
  BY <1>6, GrantSubCounts
<1>7. ASSUME NEW q \in Request, GrantFree(q) PROVE UsageMatchesAccess'
  <2>1. free'.used = free.used /\ sub' = sub /\ game' = game /\ drift' = drift
    BY <1>7 DEF GrantFree, TypeOK
  <2>2. QED
    BY <2>1, CountsRest
<1>8. ASSUME \/ \E s \in SubId : SubTime(s)
             \/ GetSubscriptionStatus \/ UNCHANGED vars
      PROVE  UsageMatchesAccess'
  BY <1>1, <1>8 DEF SubTime, GetSubscriptionStatus, vars, rows
<1>9. NoGame \in Game \cup {NoGame}
  OBVIOUS
<1>10. QED
  BY <1>2, <1>3, <1>4, <1>5, <1>6, <1>7, <1>8, <1>9 DEF Next

\* The books balance but for late refunds, however creations, unlocks, activations,
\* refunds of one game or of several, and grants overlap (create(), unlock(),
\* activateOrder, persistFailureState, persistTaskCancellation).
THEOREM UsageMatchesAccessAlways ==
  ASSUME IsFiniteSet(Game)
  PROVE  Spec => []UsageMatchesAccess
<1>1. Init => AccessInv
  BY DEF Init, AccessInv, GameLawful, OrderLawful, Relies, Alone, Locked, Idle
<1>2. Init => UsageMatchesAccess
  <2>1. SUFFICES ASSUME Init PROVE UsageMatchesAccess
    OBVIOUS
  <2>2. \A g \in Game : game[g].source = "none"
    BY <2>1 DEF Init, Locked
  <2>3. Given(game, {"free"}, NoSub) = 0
    <3>1. {g \in Game : In(game[g], {"free"}, NoSub)} = {}
      BY <2>2 DEF In
    <3>2. QED
      BY <3>1, FS_EmptySet DEF Given
  <2>4. ASSUME NEW s \in SubId PROVE Tally(Book(s), Given(game, FromSub, s), sub[s].status)
    <3>1. {g \in Game : In(game[g], FromSub, s)} = {}
      BY <2>2 DEF In, FromSub
    <3>2. Given(game, FromSub, s) = 0
      BY <3>1, FS_EmptySet DEF Given
    <3>3. QED
      BY <2>1, <3>2 DEF Init, NoRow, Tally, Book
  <2>5. FreeBook = 0 /\ drift[NoSub] >= 0
    BY <2>1 DEF Init, FreeBook
  <2>6. QED
    BY <2>3, <2>4, <2>5, Counted
<1>3. TypeOK /\ AccessInv /\ UsageMatchesAccess /\ [Next]_vars => UsageMatchesAccess'
  BY UsageStep
<1>4. QED
  BY <1>1, <1>2, <1>3, TypeCorrect, AccessStep, PTL DEF Spec
=============================================================================
