-------------------------------- MODULE Billing --------------------------------
(***************************************************************************)
(* What one account pays for and what it gets: subscription orders, their  *)
(* payment, subscriptions, the free quota, and the games both unlock       *)
(* (packages/user-service/src/billing/billing.service.ts and the access    *)
(* rules of packages/game-service/src/game/game.service.ts).               *)
(*                                                                         *)
(* Both services write the same MySQL rows.  A handler is a sequence of    *)
(* statements; its first read is the step that starts it.  A $transaction  *)
(* is its snapshot read and its commit.  Transactions that cancel or       *)
(* create subscriptions take locks on the account's subscriptions first,   *)
(* so that their commits are one step each.  A handler that would read and *)
(* return without a write is no step at all.                               *)
(*                                                                         *)
(* Left out: users.is_pro, a copy of the subscription nobody decides by,   *)
(* and plans: there is one, and one quota per period.                      *)
(***************************************************************************)
EXTENDS Integers, FiniteSets

CONSTANTS Order,       \* order ids
          Alipay,      \* orders paid through Alipay, the others through WeChat Pay
          Game,        \* game ids
          Handler,     \* requests and notifications that can be under way at a time
          Request,     \* request ids of administrators' grants
          NoGame,
          FreeQuota,   \* user_quotas.total_free_quota of a new account
          PlanQuota,   \* subscription_plans.quota
          Amount,      \* free quota an administrator adds
          MaxSubs, MaxFaults   \* bounds of the model

ASSUME ConstantsAssumption ==
    /\ Alipay \subseteq Order /\ NoGame \notin Game \cup Order \cup Request
    /\ FreeQuota \in Nat /\ PlanQuota \in Nat \ {0} /\ Amount \in Nat
    /\ MaxSubs \in Nat /\ MaxFaults \in Nat

VARIABLES order,    \* subscription_orders
          stale,    \* orders past their expiresAt
          sub,      \* user_subscriptions, numbered as they are created
          ended,    \* subscriptions past their expiresAt
          free,     \* user_quotas
          game,     \* what games say about access
          granted,  \* requests of administrators carried out
          pay,      \* payment provider: state of each trade
          acked,    \* orders whose latest notification was answered with success
          run,      \* where each handler is
          drift,    \* history: what refunds that came too late have put out of balance
          faults

rows == <<order, sub, free, game>>
vars == <<order, stale, sub, ended, free, game, granted, pay, acked, run, drift, faults>>

SubId == 1..MaxSubs
NoSub == 0
OrderStatus == {"none", "pending", "paid", "canceled", "failed", "refunded"}
Trade == {"open", "charged", "failed", "closed", "refunded"}
Source == {"none", "free", "quota", "unlock"}

SubRow == [status : {"none", "active", "expired", "cancelled"},
           used : Nat,                          \* usedThisPeriod
           by : Order \cup Request \cup {NoGame}] \* history: what it was created for

GameRow == [made : BOOLEAN, play : BOOLEAN, source : Source, sub : SubId \cup {NoSub}]

Idle == [pc |-> "idle"]
Frame ==
    [pc : {"insert"}, ali : BOOLEAN, g : Game \cup {NoGame}]
    \cup [pc : {"renew"}, o : Order]
    \cup [pc : {"expire"}, o : Order]
    \cup [pc : {"activate"}, o : Order, unlock : BOOLEAN]
    \cup [pc : {"take"}, g : Game, free : [used : Nat, total : Nat],
          s : SubId \cup {NoSub}, used : Nat]
    \cup [pc : {"unlock"}, g : Game, s : SubId, used : Nat]
    \cup [pc : {"refund"}, g : Game, source : Source, s : SubId \cup {NoSub}]

TypeOK ==
    /\ order \in [Order -> [status : OrderStatus, game : Game \cup {NoGame}]]
    /\ stale \subseteq Order /\ ended \subseteq SubId
    /\ sub \in [SubId -> SubRow]
    /\ free \in [used : Nat, total : Nat]
    /\ game \in [Game -> GameRow]
    /\ granted \subseteq Request
    /\ pay \in [Order -> Trade] /\ acked \subseteq Order
    /\ run \in [Handler -> Frame \cup {Idle}]
    /\ drift \in [SubId \cup {NoSub} -> Int]
    /\ faults \in 0..MaxFaults

NoRow == [status |-> "none", used |-> 0, by |-> NoGame]
Locked == [made |-> TRUE, play |-> FALSE, source |-> "none", sub |-> NoSub]

Init ==
    /\ order = [o \in Order |-> [status |-> "none", game |-> NoGame]]
    /\ sub = [s \in SubId |-> NoRow]
    /\ free = [used |-> 0, total |-> FreeQuota]
    /\ game = [g \in Game |-> [Locked EXCEPT !.made = FALSE]]
    /\ stale = {} /\ ended = {} /\ granted = {} /\ acked = {} /\ faults = 0
    /\ pay = [o \in Order |-> "open"]
    /\ run = [h \in Handler |-> Idle]
    /\ drift = [s \in SubId \cup {NoSub} |-> 0]
-----------------------------------------------------------------------------
Goes(h, f) == run' = [run EXCEPT ![h] = f]
Starts(h, f) == run[h] = Idle /\ Goes(h, f)
Ends(h) == Goes(h, Idle)

Live(s) == sub[s].status = "active" /\ s \notin ended

\* findActiveSubscription, NoSub if there is none.  It would take the one that
\* expires last; there is one at most (OneActive).
Current == IF \E s \in SubId : Live(s) THEN CHOOSE s \in SubId : Live(s) ELSE NoSub

UsedOf(s) == IF s = NoSub THEN 0 ELSE sub[s].used

\* s is the next row of user_subscriptions.
Unborn(s) == /\ sub[s].status = "none"
             /\ \A r \in SubId : r < s => sub[r].status # "none"

Marked(r, s) == IF r.status = "active" /\ s \in ended THEN [r EXCEPT !.status = "expired"] ELSE r

\* markExpiredSubscriptions, the first statement of most requests.  A step that
\* reads writes it too: if the transaction is rolled back, the next request does.
Fresh == [s \in SubId |-> Marked(sub[s], s)]

GetSubscriptionStatus ==
    /\ sub' = Fresh
    /\ UNCHANGED <<order, stale, ended, free, game, granted, pay, acked, run, faults, drift>>
-----------------------------------------------------------------------------
(* createOrder().                                                          *)

\* Orders for the same game, through the same provider, that wait for payment.
Waiting(ali, g) ==
    {p \in Order : order[p].status = "pending" /\ order[p].game = g /\ (p \in Alipay) = ali}

\* expireStalePendingOrders and findReusablePendingOrder, as one step.  A WeChat
\* order is offered again as it is, if it has what this kind of payment needs.
OrderFind(h, ali, g) ==
    LET reusable == Waiting(ali, g) \ stale
    IN  /\ run[h] = Idle
        /\ g # NoGame => game[g].made
        /\ order' = [p \in Order |->
             IF p \in Waiting(ali, g) \cap stale THEN [order[p] EXCEPT !.status = "canceled"]
                                                  ELSE order[p]]
        /\ \/ (reusable = {} \/ ~ali) /\ Goes(h, [pc |-> "insert", ali |-> ali, g |-> g])
           \/ \E p \in reusable : Goes(h, IF ali THEN [pc |-> "renew", o |-> p] ELSE Idle)
        /\ UNCHANGED <<stale, sub, ended, free, game, granted, pay, acked, faults, drift>>

\* createPayment fails.
OrderFail(h) ==
    /\ run[h].pc \in {"insert", "renew"} /\ Ends(h)
    /\ UNCHANGED <<rows, stale, ended, granted, pay, acked, faults, drift>>

\* An Alipay order gets two more hours, whatever has become of it.
OrderRenew(h) ==
    /\ run[h].pc = "renew"
    /\ stale' = stale \ {run[h].o}
    /\ Ends(h)
    /\ UNCHANGED <<rows, ended, granted, pay, acked, faults, drift>>

OrderInsert(h, o) ==
    /\ run[h].pc = "insert" /\ order[o].status = "none" /\ (o \in Alipay) = run[h].ali
    /\ order' = [order EXCEPT ![o] = [status |-> "pending", game |-> run[h].g]]
    /\ Ends(h)
    /\ UNCHANGED <<stale, sub, ended, free, game, granted, pay, acked, faults, drift>>
-----------------------------------------------------------------------------
(* getOrderStatus(): an expired pending order is canceled, by id.          *)

PollRead(h, o) ==
    /\ order[o].status = "pending" /\ o \in stale
    /\ Starts(h, [pc |-> "expire", o |-> o])
    /\ sub' = Fresh
    /\ UNCHANGED <<order, stale, ended, free, game, granted, pay, acked, faults, drift>>

PollExpire(h) ==
    /\ run[h].pc = "expire"
    /\ order' = [order EXCEPT ![run[h].o].status = "canceled"]
    /\ Ends(h)
    /\ UNCHANGED <<stale, sub, ended, free, game, granted, pay, acked, faults, drift>>
-----------------------------------------------------------------------------
(* Notifications of the payment provider.                                  *)

OnlyPending(status) == status = "pending"                    \* a broken Payable

Payable(status) == status # "paid"

\* A notification may come again even though it was answered.
Sent(o, state) ==
    /\ pay[o] = state
    /\ faults' = IF o \in acked THEN faults + 1 ELSE faults
    /\ faults' <= MaxFaults

Answered(o, state) == acked' = IF pay[o] = state THEN acked \cup {o} ELSE acked

\* completeOrderPaymentByOutTradeNo reads the order and the game to unlock.
NotifyRead(h, o) ==
    /\ Sent(o, "charged") /\ Payable(order[o].status)
    /\ LET g == order[o].game
       IN  Starts(h, [pc |-> "activate", o |-> o,
                      unlock |-> g # NoGame /\ ~game[g].play])
    /\ UNCHANGED <<rows, stale, ended, granted, pay, acked, drift>>

NotifyAgain(o) ==
    /\ Sent(o, "charged") /\ ~Payable(order[o].status)
    /\ Answered(o, "charged")
    /\ UNCHANGED <<rows, stale, ended, granted, pay, run, drift>>

KeepOthers(n, by, used) ==                                   \* a broken NewSub
    sub' = [sub EXCEPT ![n] = [status |-> "active", used |-> used, by |-> by]]

\* The subscriptions there are end, and one more begins.
NewSub(n, by, used) ==
    sub' = [s \in SubId |->
              IF s = n THEN [status |-> "active", used |-> used, by |-> by]
              ELSE IF sub[s].status = "active" /\ s \notin ended
                     THEN [sub[s] EXCEPT !.status = "cancelled"]
                     ELSE Marked(sub[s], s)]

NothingUsed(f) == 0                                          \* a broken UsedAtStart

\* The game that is unlocked is the first use of the subscription.
UsedAtStart(f) == IF f.unlock THEN 1 ELSE 0

\* activateOrder.
Activate(h, n) ==
    LET f == run[h]
        g == order[f.o].game
    IN  /\ f.pc = "activate" /\ Unborn(n)
        /\ NewSub(n, f.o, UsedAtStart(f))
        /\ game' = IF f.unlock
                     THEN [game EXCEPT ![g] = [made |-> TRUE, play |-> TRUE,
                                               source |-> "unlock", sub |-> n]]
                     ELSE game
        /\ order' = [order EXCEPT ![f.o].status = "paid"]
        /\ Answered(f.o, "charged")
        /\ Ends(h)
        /\ UNCHANGED <<stale, ended, free, granted, pay, faults, drift>>

StatusRaw(state) == state                                    \* a broken StatusOf

\* mapWechatTradeStateToOrderStatus and its Alipay twin.
StatusOf(state) ==
    CASE state = "refunded" -> "refunded"
      [] state = "closed"   -> "canceled"
      [] state = "failed"   -> "failed"

\* updateOrderStatusFromWechatState and its Alipay twin: only pending orders.
NotifyOther(o, state) ==
    /\ state \in {"refunded", "closed", "failed"} /\ Sent(o, state)
    /\ order' = IF order[o].status = "pending"
                  THEN [order EXCEPT ![o].status = StatusOf(state)] ELSE order
    /\ Answered(o, state)
    /\ UNCHANGED <<stale, sub, ended, free, game, granted, pay, run, drift>>
-----------------------------------------------------------------------------
(* create() of the game-service: free quota first, then the subscription.  *)

TakeRead(h, g) ==
    /\ ~game[g].made
    /\ \A k \in Handler : run[k].pc = "take" => run[k].g # g
    /\ Starts(h, [pc |-> "take", g |-> g, free |-> free,
                  s |-> Current, used |-> UsedOf(Current)])
    /\ sub' = Fresh
    /\ UNCHANGED <<order, stale, ended, free, game, granted, pay, acked, faults, drift>>

Unguarded(f) == TRUE                                         \* a broken FreeUnmoved

\* The conditions of the two increments.
FreeUnmoved(f) == free = f.free
SubUnmoved(f) == sub[f.s].status = "active" /\ sub[f.s].used = f.used

TakeFree(h) ==
    LET f == run[h]
    IN  /\ f.pc = "take" /\ f.free.used < f.free.total /\ FreeUnmoved(f)
        /\ free' = [free EXCEPT !.used = @ + 1]
        /\ game' = [game EXCEPT ![f.g] = [Locked EXCEPT !.play = TRUE, !.source = "free"]]
        /\ Ends(h)
        /\ UNCHANGED <<order, stale, sub, ended, granted, pay, acked, faults, drift>>

TakeSub(h) ==
    LET f == run[h]
    IN  /\ f.pc = "take" /\ f.free.used >= f.free.total
        /\ f.s # NoSub /\ f.used < PlanQuota /\ SubUnmoved(f)
        /\ sub' = [sub EXCEPT ![f.s].used = @ + 1]
        /\ game' = [game EXCEPT ![f.g] = [made |-> TRUE, play |-> TRUE,
                                          source |-> "quota", sub |-> f.s]]
        /\ Ends(h)
        /\ UNCHANGED <<order, stale, ended, free, granted, pay, acked, faults, drift>>

\* Nothing left: the game is made, locked.
TakeNone(h) ==
    LET f == run[h]
    IN  /\ f.pc = "take" /\ f.free.used >= f.free.total
        /\ f.s = NoSub \/ f.used >= PlanQuota
        /\ game' = [game EXCEPT ![f.g] = Locked]
        /\ Ends(h)
        /\ UNCHANGED <<order, stale, sub, ended, free, granted, pay, acked, faults, drift>>

\* P2025: the transaction is rolled back and tried again, or given up.
TakeConflict(h) ==
    LET f == run[h]
    IN  /\ f.pc = "take"
        /\ \/ f.free.used < f.free.total /\ ~FreeUnmoved(f)
           \/ /\ f.free.used >= f.free.total
              /\ f.s # NoSub /\ f.used < PlanQuota /\ ~SubUnmoved(f)
        /\ Ends(h)
        /\ UNCHANGED <<rows, stale, ended, granted, pay, acked, faults, drift>>
-----------------------------------------------------------------------------
(* unlock(), and the refund of a failed generation.                        *)

UnlockRead(h, g) ==
    /\ game[g].made /\ ~game[g].play
    /\ Current # NoSub /\ UsedOf(Current) < PlanQuota
    /\ Starts(h, [pc |-> "unlock", g |-> g, s |-> Current, used |-> UsedOf(Current)])
    /\ sub' = Fresh
    /\ UNCHANGED <<order, stale, ended, free, game, granted, pay, acked, faults, drift>>

StillLocked(f) == SubUnmoved(f) /\ ~game[f.g].play

UnlockWrite(h) ==
    LET f == run[h]
    IN  /\ f.pc = "unlock" /\ StillLocked(f)
        /\ sub' = [sub EXCEPT ![f.s].used = @ + 1]
        /\ game' = [game EXCEPT ![f.g] = [made |-> TRUE, play |-> TRUE,
                                          source |-> "unlock", sub |-> f.s]]
        /\ Ends(h)
        /\ UNCHANGED <<order, stale, ended, free, granted, pay, acked, faults, drift>>

UnlockConflict(h) ==
    /\ run[h].pc = "unlock" /\ ~StillLocked(run[h])
    /\ Ends(h)
    /\ UNCHANGED <<rows, stale, ended, granted, pay, acked, faults, drift>>

\* persistFailureState and persistTaskCancellation read the grant; several of
\* them may do so for one game before the first gives it back.
RefundRead(h, g) ==
    /\ game[g].made /\ game[g].source \in {"free", "quota"}
    /\ Starts(h, [pc |-> "refund", g |-> g, source |-> game[g].source, s |-> game[g].sub])
    /\ UNCHANGED <<rows, stale, ended, granted, pay, acked, drift, faults>>

\* The game still has the grant that is given back.
InTime(f) == game[f.g].source = f.source /\ game[f.g].sub = f.s

\* A refund that comes too late credits f.s again, and closes the game for the
\* subscription that has unlocked it since.
Drifted(f) ==
    LET closed(s) == game[f.g].source = "unlock" /\ game[f.g].sub = s
    IN  [s \in SubId \cup {NoSub} |->
           drift[s] + (IF s = f.s THEN 1 ELSE 0) - (IF closed(s) THEN 1 ELSE 0)]

\* What a refund does once its counter went down.
GivesBack(f) ==
    /\ game' = [game EXCEPT ![f.g] = Locked]
    /\ drift' = IF InTime(f) THEN drift ELSE Drifted(f)

RefundFree(h) ==
    LET f == run[h]
    IN  /\ f.pc = "refund" /\ f.source = "free"
        /\ IF free.used > 0
             THEN free' = [free EXCEPT !.used = @ - 1] /\ GivesBack(f)
             ELSE UNCHANGED <<free, game, drift>>
        /\ Ends(h)
        /\ UNCHANGED <<order, stale, sub, ended, granted, pay, acked, faults>>

RefundSub(h) ==
    LET f == run[h]
    IN  /\ f.pc = "refund" /\ f.source = "quota"
        /\ IF sub[f.s].used > 0
             THEN sub' = [sub EXCEPT ![f.s].used = @ - 1] /\ GivesBack(f)
             ELSE UNCHANGED <<sub, game, drift>>
        /\ Ends(h)
        /\ UNCHANGED <<order, stale, ended, free, granted, pay, acked, faults>>
-----------------------------------------------------------------------------
(* Administrators; each request id is carried out once.                    *)

GrantSub(q, n) ==
    /\ q \notin granted /\ Unborn(n)
    /\ ~\E s \in SubId : Live(s)
    /\ NewSub(n, q, 0)
    /\ granted' = granted \cup {q}
    /\ UNCHANGED <<order, stale, ended, free, game, pay, acked, run, faults, drift>>

GrantFree(q) ==
    /\ q \notin granted
    /\ free' = [free EXCEPT !.total = @ + Amount]
    /\ granted' = granted \cup {q}
    /\ UNCHANGED <<order, stale, sub, ended, game, pay, acked, run, faults, drift>>
-----------------------------------------------------------------------------
(* The payment provider, time, and transactions that are rolled back.      *)

\* What can become of a trade: Alipay reports a refund as a closed trade, WeChat
\* Pay as a refund, and a payment that failed there can be tried again.
Moves(o) ==
    {<<"open", "charged">>, <<"open", "closed">>}
    \cup IF o \in Alipay
           THEN {<<"charged", "closed">>}
           ELSE {<<"open", "failed">>, <<"failed", "charged">>, <<"charged", "refunded">>}

Pay(o) ==
    /\ order[o].status # "none"
    /\ \E next \in Trade : <<pay[o], next>> \in Moves(o) /\ pay' = [pay EXCEPT ![o] = next]
    /\ acked' = acked \ {o}
    /\ UNCHANGED <<rows, stale, ended, granted, run, faults, drift>>

\* Two hours pass; nobody looks at the expiry of an order that is not pending.
OrderTime(o) ==
    /\ order[o].status = "pending" /\ o \notin stale
    /\ stale' = stale \cup {o}
    /\ UNCHANGED <<rows, ended, granted, pay, acked, run, faults, drift>>

\* The period ends; nobody looks at the expiry of a subscription that is not active.
SubTime(s) ==
    /\ sub[s].status = "active" /\ s \notin ended
    /\ ended' = ended \cup {s}
    /\ UNCHANGED <<rows, stale, granted, pay, acked, run, faults, drift>>

\* A deadlock, a timeout or the death of the process.
Abort(h) ==
    /\ run[h] # Idle /\ faults < MaxFaults
    /\ Ends(h) /\ faults' = faults + 1
    /\ UNCHANGED <<rows, stale, ended, granted, pay, acked, drift>>

Write(h) ==
    \/ OrderRenew(h) \/ OrderFail(h) \/ \E o \in Order : OrderInsert(h, o)
    \/ PollExpire(h) \/ \E n \in SubId : Activate(h, n)
    \/ TakeFree(h) \/ TakeSub(h) \/ TakeNone(h) \/ TakeConflict(h)
    \/ UnlockWrite(h) \/ UnlockConflict(h) \/ RefundFree(h) \/ RefundSub(h)

Notify(o) ==
    \/ \E h \in Handler : NotifyRead(h, o)
    \/ NotifyAgain(o)
    \/ \E state \in Trade : NotifyOther(o, state)

Next ==
    \/ \E h \in Handler : Write(h) \/ Abort(h)
    \/ \E h \in Handler, o \in Order :
         \/ PollRead(h, o)
         \/ \E g \in Game \cup {NoGame} : OrderFind(h, o \in Alipay, g)
    \/ \E h \in Handler, g \in Game : TakeRead(h, g) \/ UnlockRead(h, g) \/ RefundRead(h, g)
    \/ \E o \in Order : Notify(o) \/ Pay(o) \/ OrderTime(o)
    \/ \E s \in SubId : SubTime(s)
    \/ \E q \in Request : GrantFree(q) \/ \E n \in SubId : GrantSub(q, n)
    \/ GetSubscriptionStatus

Spec == Init /\ [][Next]_vars
-----------------------------------------------------------------------------
(* Properties.                                                             *)

\* However payments, grants and expiry overlap, an account never has two
\* subscriptions it can draw on.
OneActive == \A r, s \in SubId : Live(r) /\ Live(s) => r = s

\* No counter is overdrawn: creations, unlocks, refunds and administrators' grants
\* that overlap never leave more used of the free quota, or of a subscription, than
\* it has.  (Refunds made twice give units away below that: see UsageMatchesAccess.)
WithinQuota == free.used <= free.total /\ \A s \in SubId : sub[s].used <= PlanQuota

Games(source, s) ==
    Cardinality({g \in Game : game[g].source \in source /\ game[g].sub = s})

\* The books: each unit counted stands for one game that was given it, but for what
\* late refunds have put out of balance.  The free quota is only ever off in the
\* account's favour, an active subscription exactly by that drift, and one that was
\* replaced never counts fewer than the games it opened.
UsageMatchesAccess ==
    /\ free.used + drift[NoSub] = Games({"free"}, NoSub) /\ drift[NoSub] >= 0
    /\ \A s \in SubId :
         LET counted == sub[s].used + drift[s]
         IN  /\ counted >= Games({"quota", "unlock"}, s)
             /\ sub[s].status = "active" => counted = Games({"quota", "unlock"}, s)

\* The subscriptions an order has brought about.
Bought(o) == {s \in SubId : sub[s].by = o}

\* Whoever paid has something for it once the provider has been told that all is
\* well and stops repeating itself, although the order may have expired, been
\* canceled or failed before the money came, and answers were lost.
PaymentHonoured ==
    \A o \in Order : pay[o] = "charged" /\ o \in acked => Bought(o) # {}

\* The order says what became of the payment: one that brought about a
\* subscription is paid, whatever polls and repeated requests came across.
OrderSaysPaid == \A o \in Order : Bought(o) # {} => order[o].status = "paid"
=============================================================================
