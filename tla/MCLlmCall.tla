----------------------------- MODULE MCLlmCall -----------------------------
(* Instances of LlmCall for TLC: a call that uses every retry it has, alone, *)
(* and calls with fewer retries that compete for the permits.               *)
EXTENDS LlmCall

CONSTANTS c1, c2

MCLimits == <<1, 2>>

NoCall == [calls |-> FALSE, hedged |-> FALSE, durable |-> FALSE,
           trunc |-> 0, truncGrows |-> 0, guided |-> FALSE, tmo |-> 0, tmoGrows |-> 0,
           prov |-> 0, onTimeout |-> FALSE, cancels |-> 0]
Once == [NoCall EXCEPT !.calls = TRUE]
Plain == [Once EXCEPT !.prov = 1]
Persistent == [Plain EXCEPT !.trunc = 1, !.truncGrows = 1, !.tmo = 1, !.tmoGrows = 1,
                            !.onTimeout = TRUE]
InCommand(p) == [p EXCEPT !.durable = TRUE, !.cancels = 2]
WithHedge(p) == [p EXCEPT !.hedged = TRUE]
Pair(p, q) == [c \in Callers |-> IF c = c1 THEN p ELSE q]

MCMixes ==
    {Pair(WithHedge(InCommand(Persistent)), NoCall),
     Pair(InCommand(Persistent), NoCall),
     Pair([InCommand(Persistent) EXCEPT !.truncGrows = 0, !.guided = TRUE, !.tmoGrows = 0], NoCall),
     Pair(WithHedge(Once), Once),
     Pair([InCommand(Once) EXCEPT !.cancels = 1], Once)}

(* One durable call, cancelled once: by the wait_for around a review, or    *)
(* because its worker shuts down.                                           *)
ReviewMixes == {Pair([InCommand(Plain) EXCEPT !.cancels = 1], NoCall)}
=============================================================================
