----------------------------- MODULE PipelineV2 -----------------------------
(***************************************************************************)
(* One run of engine/pipeline_v2_runner.py, create or iterate: generate a   *)
(* game, check it against the contract, run it in the browser while a       *)
(* reviewer reads it, gate it on the review, patch or regenerate it.        *)
(*                                                                         *)
(* Code is what is known of it: whether this very text passed the contract  *)
(* check, how its runtime QA went and what its review found.  New text      *)
(* starts with nothing known.  A review result is its deficits below the    *)
(* thresholds of the tier and whether its findings are local.               *)
(***************************************************************************)
EXTENDS Integers, FiniteSets

CONSTANTS
    Requests,       \* the requests a run may serve
    PatchMax,       \* QUALITY_GATE_PATCH_MAX_ATTEMPTS
    ReviewRetries,  \* REVIEW_INFRASTRUCTURE_RETRY_LIMIT
    IterateMax,     \* DEFAULT_STAGE_TOTAL_ATTEMPTS
    MaxDeficit      \* bound: how far a dimension can be below its threshold

Request == [op : {"create", "iterate"}, tier : {"safe", "standard", "showcase"},
            plan : 1..3,            \* length of the attempt plan of its budget
            reviewed : BOOLEAN,     \* the tier reaches LLM_CODE_REVIEW_MIN_TIER
            required : BOOLEAN,     \* RUNTIME_QA_REQUIRED
            production : BOOLEAN,   \* ENVIRONMENT
            deferred : BOOLEAN]     \* P1_RUNTIME_QA_DEFERRED_ENABLED and should_defer

ASSUME PipelineAssumption ==
    /\ Requests \subseteq Request
    /\ \A q \in Requests : q.tier = "showcase" => q.reviewed
    /\ {PatchMax, IterateMax, MaxDeficit} \subseteq Nat \ {0} /\ ReviewRetries \in Nat

VARIABLES
    req,     \* the request
    pc,      \* the await the run is in, or how it ended
    attempt, \* quality_attempt / iteration_attempt
    plan,    \* len(attempt_plan)
    extras,  \* the one-time retries granted so far
    code,    \* what is known of qa_result.code
    base,    \* the deficits of the patch loop's current code; code is still the first
    patches, \* patches tried on this attempt's code
    retry,   \* review retries made for this code
    rtask,   \* the concurrent review: none, running, or its outcome
    err,     \* the error being handled while a review is discarded
    deadline \* the wait_for around the run: armed, fired, swallowed
vars == <<req, pc, attempt, plan, extras, code, base, patches, retry, rtask,
          err, deadline>>

Dims == {"complete", "score"}
Measure == [short : [Dims -> 0..MaxDeficit], local : BOOLEAN]
Unpatched == [d \in Dims |-> 0]
NoMeasure == [short |-> Unpatched, local |-> FALSE]
Reviews == {"no", "ran", "infra_degraded", "actionability_degraded"}
Code == [static : {"no", "pass", "fail"}, runtime : {"no", "pass", "deferred", "soft", "silent"},
         review : Reviews, m : Measure]
NewCode == [static |-> "no", runtime |-> "no", review |-> "no", m |-> NoMeasure]
Ends == {"done", "failed", "timeout"}

Showcase == req.tier = "showcase"           \* _is_structured_review_required
SoftAllowed == ~req.required /\ ~Showcase   \* _should_allow_runtime_qa_unavailable

(* _quality_gate_errors: an absent review is an error only for showcase.    *)
GateErrors(k) ==
    IF k.review = "ran" THEN \E d \in Dims : k.m.short[d] > 0 ELSE Showcase
Patchable(k) ==   \* _should_attempt_quality_patch_repair
    k.review = "ran" /\ (k.m.local \/ (k.m.short["complete"] = 0 /\ k.m.short["score"] <= 1))
NearMiss(k) ==    \* _can_accept_showcase_near_miss
    Showcase /\ k.review = "ran" /\ k.m.short["complete"] = 0 /\ k.m.short["score"] <= 1
RegressedInTotal(old, new) ==   \* mutant: one dimension may pay for another
    new.review = "ran"
    /\ new.m.short["complete"] + new.m.short["score"] > old["complete"] + old["score"]
RegressedIfReviewed(old, new) ==   \* mutant: an unreviewed patch never counts as worse
    new.review = "ran" /\ \E d \in Dims : new.m.short[d] > old[d]
Regressed(old, new) ==   \* _quality_patch_regressed
    IF new.review = "ran" THEN \E d \in Dims : new.m.short[d] > old[d]
    ELSE new.review # "actionability_degraded"

(***************************************************************************)
(* Where a run goes on                                                      *)
(***************************************************************************)
End(how) == pc' = how /\ UNCHANGED <<attempt, plan>>
RegenerateUncounted ==   \* mutant: the while loop does not count its turns
    /\ attempt < plan
    /\ pc' = "generate" /\ UNCHANGED <<attempt, plan>>
Regenerate ==   \* continue: the next turn of the while loop, if the plan has one
    /\ attempt < plan
    /\ pc' = "generate" /\ attempt' = attempt + 1 /\ UNCHANGED plan
RegenerateOnce(extra) ==   \* the plan is used up; extra appends a slot to it, once
    /\ extra \notin extras /\ extras' = extras \cup {extra}
    /\ pc' = "generate" /\ attempt' = attempt + 1 /\ plan' = plan + 1
Fresh ==   \* nothing of an abandoned candidate is used again
    /\ code' = NewCode /\ base' = Unpatched
    /\ patches' = 0 /\ retry' = 0
Last == attempt >= plan

(* The outer except PipelineExecutionError of _run_create_impl              *)
Immediate == {"provider_transport", "route_configuration", "review_evidence",
              "review_actionability", "review_infrastructure"}
RepairFamilies == {"repair_protocol", "repair_contract", "quality_repair_exhausted"}
Generation == {"code_generation", "truncated", "retryable_transport", "provider_transport",
               "route_configuration"}
Families == Immediate \cup RepairFamilies \cup Generation
            \cup {"qa_truncation", "contract_qa", "runtime_qa", "qa_infra_unavailable", "quality_gate"}
Truncation(fam) == fam \in {"truncated", "qa_truncation"}

TransportRetry ==   \* "retrying once on the same primary": needs a turn the plan still has
    /\ "transport" \notin extras /\ extras' = extras \cup {"transport"}
    /\ IF Last THEN End("failed") ELSE Regenerate
Raised(fam) ==   \* a PipelineExecutionError of this family leaves the attempt
    /\ Fresh
    /\ IF fam = "retryable_transport" /\ "transport" \notin extras THEN TransportRetry
       ELSE IF fam \in Immediate \cup {"retryable_transport"} THEN End("failed") /\ UNCHANGED extras
       ELSE IF ~Last THEN Regenerate /\ UNCHANGED extras
       ELSE IF Truncation(fam) /\ "truncation" \notin extras THEN RegenerateOnce("truncation")
       ELSE IF fam \in RepairFamilies /\ "repair" \notin extras THEN RegenerateOnce("repair")
       ELSE End("failed") /\ UNCHANGED extras
RaisedIterate(fam) ==   \* the except clause of _run_iterate_impl
    /\ Fresh /\ UNCHANGED extras
    /\ IF fam \notin Generation /\ ~Last THEN Regenerate ELSE End("failed")
Raise(fam) == IF req.op = "create" THEN Raised(fam) ELSE RaisedIterate(fam)

(***************************************************************************)
(* The stages                                                               *)
(***************************************************************************)
Init ==
    /\ req \in Requests
    /\ pc = "prepare"
    /\ attempt = 0
    /\ plan = IF req.op = "create" THEN req.plan ELSE IterateMax
    /\ extras = {}
    /\ code = NewCode /\ base = Unpatched
    /\ patches = 0 /\ retry = 0
    /\ rtask = "none" /\ err = "none"
    /\ deadline = "armed"

Prepare ==   \* spec, runtime profile, contract and game design
    /\ pc = "prepare"
    /\ \/ Regenerate
       \/ End("failed")
    /\ UNCHANGED <<req, extras, code, base, patches, retry, rtask, err, deadline>>

PreflightUnrecorded ==   \* mutant: the extra attempt is granted again and again
    IF ~Last THEN Regenerate /\ UNCHANGED extras
    ELSE IF plan < IterateMax
    THEN pc' = "generate" /\ attempt' = attempt + 1 /\ plan' = plan + 1 /\ UNCHANGED extras
    ELSE End("failed") /\ UNCHANGED extras
Preflight ==   \* the generated text fails code_preflight
    IF ~Last THEN Regenerate /\ UNCHANGED extras
    ELSE IF "preflight" \notin extras /\ plan < IterateMax THEN RegenerateOnce("preflight")
    ELSE End("failed") /\ UNCHANGED extras

Generate ==
    /\ pc = "generate"
    /\ \/ /\ pc' = "contract" /\ UNCHANGED <<attempt, plan, extras>>
          /\ Fresh
       \/ req.op = "create" /\ Preflight /\ Fresh
       \/ \E fam \in Generation : (req.op = "iterate" => fam = "code_generation") /\ Raise(fam)
    /\ UNCHANGED <<req, rtask, err, deadline>>

(* How _run_contract_qa_loop ends; error is any other exception.            *)
ContractResults == {"pass", "needs_regeneration", "qa_truncation", "error"}

Contract ==   \* static check and contract, one model repair for syntax errors
    /\ pc = "contract"
    /\ \E how \in ContractResults :
       \/ /\ how = "pass" /\ code' = [code EXCEPT !.static = "pass"]   \* and launch the review
          /\ rtask' = IF req.op = "create" /\ req.reviewed THEN "running" ELSE "none"
          /\ pc' = "runtime"
          /\ UNCHANGED <<attempt, plan, extras, base, patches, retry>>
       \/ /\ how = "needs_regeneration" /\ req.op = "create" /\ UNCHANGED rtask
          /\ \E fam \in {"contract_qa", "qa_truncation"} : Raised(fam)
       \/ /\ how = "needs_regeneration" /\ req.op = "iterate"           \* not looked at
          /\ code' = [code EXCEPT !.static = "fail"] /\ pc' = "assess"
          /\ UNCHANGED <<attempt, plan, extras, base, patches, retry, rtask>>
       \/ how = "qa_truncation" /\ Raise("qa_truncation") /\ UNCHANGED rtask
       \/ /\ how = "error" /\ End("failed")
          /\ UNCHANGED <<extras, code, base, patches, retry, rtask>>
    /\ UNCHANGED <<req, err, deadline>>

(* _run_runtime_qa_loop on some code: what is known of it afterwards, or    *)
(* the family of the error raised.                                          *)
RuntimeResults ==
    {"pass"} \cup (IF req.deferred THEN {"deferred"} ELSE {})
    \cup (IF SoftAllowed THEN {"soft"}
          ELSE IF req.required \/ req.production THEN {} ELSE {"silent"})
RuntimeErrors ==
    {"runtime_qa"} \cup (IF req.required \/ req.production THEN {"qa_infra_unavailable"} ELSE {})

RuntimeFailsAtOnce ==   \* mutant: the concurrent review is not discarded
    \E fam \in RuntimeErrors : Raise(fam) /\ UNCHANGED err
RuntimeFails ==   \* except BaseException: _discard_concurrent_review, then raise
    \E fam \in RuntimeErrors :
        \/ /\ rtask # "none" /\ pc' = "discard" /\ err' = fam
           /\ UNCHANGED <<attempt, plan, extras, code, base, patches, retry>>
        \/ rtask = "none" /\ Raise(fam) /\ UNCHANGED err

RuntimeQA ==
    /\ pc = "runtime"
    /\ \/ /\ \E how \in RuntimeResults : code' = [code EXCEPT !.runtime = how]
          /\ pc' = IF req.op = "create" THEN "review" ELSE "assess"
          /\ UNCHANGED <<attempt, plan, extras, base, patches, retry, err>>
       \/ RuntimeFails
    /\ UNCHANGED <<req, rtask, deadline>>

ReviewEnds ==   \* the concurrent review answers or gives up
    /\ rtask = "running"
    /\ rtask' \in {"ran", "infrastructure", "evidence", "actionability"}
    /\ UNCHANGED <<req, pc, attempt, plan, extras, code, base, patches, retry, err, deadline>>

Discard ==   \* the cancelled review has ended
    /\ pc = "discard" /\ rtask' = "none" /\ err' = "none"
    /\ IF err = "timeout"
       THEN /\ End("timeout")
            /\ UNCHANGED <<extras, code, base, patches, retry>>
       ELSE Raise(err)
    /\ UNCHANGED <<req, deadline>>

(* _finalize_create_review_failure: what a failed review leaves, or raises  *)
Degraded(family) == {x \in {"infra_degraded", "actionability_degraded"} :
    ~Showcase /\ x = (IF family = "infrastructure" THEN "infra_degraded"
                      ELSE IF family = "actionability" THEN "actionability_degraded" ELSE "none")}
ReviewFamily(family) == IF family = "infrastructure" THEN "review_infrastructure"
                        ELSE IF family = "actionability" THEN "review_actionability"
                        ELSE "review_evidence"

Review ==   \* _resolve_create_review: the concurrent review first, then anew
    /\ pc = "review"
    /\ \/ /\ ~req.reviewed /\ pc' = "gate"
          /\ UNCHANGED <<attempt, plan, extras, code, base, patches, retry, rtask>>
       \/ /\ req.reviewed /\ rtask # "running" /\ rtask' = "none"
          /\ \E out \in {"ran", "infrastructure", "evidence", "actionability"} :
             /\ rtask \in {"none", out}
             /\ \/ /\ out = "ran" /\ pc' = "gate"
                   /\ \E m \in Measure : code' = [code EXCEPT !.review = "ran", !.m = m]
                   /\ UNCHANGED <<attempt, plan, extras, base, patches, retry>>
                \/ /\ out = "infrastructure" /\ retry < ReviewRetries
                   /\ retry' = retry + 1
                   /\ UNCHANGED <<pc, attempt, plan, extras, code, base, patches>>
                \/ /\ out # "ran" /\ (out = "infrastructure" => retry = ReviewRetries)
                   /\ IF Degraded(out) = {} THEN Raise(ReviewFamily(out))
                      ELSE /\ \E x \in Degraded(out) : code' = [code EXCEPT !.review = x]
                           /\ pc' = "gate"
                           /\ UNCHANGED <<attempt, plan, extras, base, patches, retry>>
    /\ UNCHANGED <<req, err, deadline>>

Missed(fam) ==   \* the gate's errors stand: accept a near miss, regenerate or fail
    IF Last /\ NearMiss(code)
    THEN End("done") /\ UNCHANGED <<extras, code, base, patches, retry>>
    ELSE /\ Fresh
         /\ IF ~Last THEN Regenerate /\ UNCHANGED extras
            ELSE IF fam \in RepairFamilies /\ "repair" \notin extras THEN RegenerateOnce("repair")
            ELSE IF code.m.short["complete"] > 0 /\ "completeness" \notin extras
                 THEN RegenerateOnce("completeness")
            ELSE End("failed") /\ UNCHANGED extras

Gate ==
    /\ pc = "gate"
    /\ IF ~GateErrors(code)
       THEN End("done") /\ UNCHANGED <<extras, code, base, patches, retry>>
       ELSE IF Patchable(code)
       THEN /\ pc' = "patch" /\ base' = code.m.short
            /\ UNCHANGED <<attempt, plan, extras, code, patches, retry>>
       ELSE Missed("quality_gate")
    /\ UNCHANGED <<req, rtask, err, deadline>>

Candidates ==   \* a patched text that passed the contract and the runtime QA
    {k \in [static : {"pass"}, runtime : RuntimeResults,
            review : {"ran"} \cup Degraded("infrastructure") \cup Degraded("actionability"),
            m : Measure] : k.review = "ran" \/ k.m = NoMeasure}
PatchFailures == {"repair_protocol", "repair_contract"}
PatchErrors == RuntimeErrors \cup {"review_evidence"}
               \cup (IF Showcase THEN {"review_infrastructure", "review_actionability"} ELSE {})

Patch ==   \* one turn of _repair_create_quality
    /\ pc = "patch"
    /\ \/ \E new \in Candidates :
             IF ~GateErrors(new) /\ ~Regressed(base, new)
             THEN /\ code' = new /\ End("done")
                  /\ UNCHANGED <<extras, base, patches, retry>>
             ELSE IF patches + 1 < PatchMax
             THEN /\ patches' = patches + 1
                  /\ base' = IF Regressed(base, new) THEN base ELSE new.m.short
                  /\ UNCHANGED <<pc, attempt, plan, extras, code, retry>>
             ELSE Missed("quality_repair_exhausted")
       \/ \E fam \in PatchFailures : Missed(fam)
       \/ \E fam \in PatchErrors : Raise(fam)
    /\ UNCHANGED <<req, rtask, err, deadline>>

Assess ==   \* _assess_iterate_quality changes nothing of the result
    /\ pc = "assess" /\ End("done")
    /\ UNCHANGED <<req, extras, code, base, patches, retry, rtask, err, deadline>>

(* The wait_for of run and iterate.  An await inside a model call may       *)
(* swallow the cancellation (see LlmCall); the run then has no deadline.    *)
Deadline ==
    /\ deadline = "armed" /\ pc \notin Ends \cup {"gate"}
    /\ \/ /\ pc # "runtime" /\ deadline' = "swallowed"
          /\ UNCHANGED <<pc, rtask, err>>
       \/ /\ deadline' = "fired"
          /\ IF pc = "runtime" /\ rtask # "none"
             THEN pc' = "discard" /\ err' = "timeout" /\ UNCHANGED rtask
             ELSE pc' = "timeout" /\ rtask' = "none" /\ err' = "none"
    /\ UNCHANGED <<req, attempt, plan, extras, code, base, patches, retry>>

Step == Prepare \/ Generate \/ Contract \/ RuntimeQA \/ ReviewEnds \/ Discard \/ Review
        \/ Gate \/ Patch \/ Assess
Next == Step \/ Deadline
Spec == Init /\ [][Next]_vars
(* Every model call and every browser run ends (LlmCall, and the timeouts   *)
(* of runtime_qa.py).                                                       *)
FairSpec == Spec /\ WF_vars(Step)

(***************************************************************************)
(* Properties                                                               *)
(***************************************************************************)
TypeOK ==
    /\ req \in Requests
    /\ pc \in Ends \cup {"prepare", "generate", "contract", "runtime", "discard", "review",
                         "gate", "patch", "assess"}
    /\ attempt \in Nat /\ plan \in Nat /\ attempt <= plan
    /\ extras \subseteq {"preflight", "truncation", "transport", "repair", "completeness"}
    /\ plan <= (IF req.op = "create" THEN req.plan ELSE IterateMax)
               + Cardinality(extras \ {"transport"})
    /\ code \in Code /\ base \in [Dims -> 0..MaxDeficit]
    /\ patches \in 0..(PatchMax - 1) /\ retry \in 0..ReviewRetries
    /\ rtask \in {"none", "running", "ran", "infrastructure", "evidence", "actionability"}
    /\ err \in Families \cup {"none", "timeout"}
    /\ deadline \in {"armed", "fired", "swallowed"}

(* A game a creation returns has itself passed the contract and a runtime   *)
(* QA (in production: run, put off by the scheduler, or unavailable where   *)
(* the tier allows it), and itself been reviewed and passed the gate; a     *)
(* showcase may be a near miss, any other tier unreviewed for a reason that *)
(* a patch may not use when the reviewer is merely down.                    *)
AcceptedIsEvidenced ==
    pc = "done" /\ req.op = "create" =>
        /\ code.static = "pass"
        /\ req.production => code.runtime \in {"pass", "deferred", "soft"}
        /\ code.runtime = "soft" => ~Showcase /\ ~req.required
        /\ IF code.review = "ran" THEN GateErrors(code) => NearMiss(code) /\ Last
           ELSE /\ ~Showcase
                /\ base # Unpatched => code.review = "actionability_degraded"
                /\ code.review = "no" => ~req.reviewed

(* However many patches were tried, the text the next patch starts from is  *)
(* in no dimension worse than the first reviewed one.                       *)
PatchNeverWorse ==
    pc = "patch" => \A d \in Dims : base[d] <= code.m.short[d]

(* A run that is over, or has moved on to other code, leaves no review      *)
(* behind that reads the old one.                                           *)
NoOrphanReview == pc \notin {"runtime", "discard", "review"} => rtask = "none"

(* What a run returns passed the contract and went through runtime QA, in   *)
(* an iteration as in a creation.                                           *)
ResultChecked == pc = "done" => code.static = "pass" /\ code.runtime # "no"

(* Every run returns a game or fails, even one whose deadline was swallowed. *)
RunEnds == <>(pc \in Ends)
=============================================================================
