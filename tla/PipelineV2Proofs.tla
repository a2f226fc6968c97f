-------------------------- MODULE PipelineV2Proofs --------------------------
(***************************************************************************)
(* Proofs about PipelineV2, for every set of requests, every limit and      *)
(* every range of deficits.  An error that leaves an attempt forgets its    *)
(* code (RaiseEffect), so the invariant only has to follow one candidate    *)
(* from its contract check to its end.                                      *)
(***************************************************************************)
EXTENDS PipelineV2, FiniteSetTheorems, TLAPS

Once == {"preflight", "truncation", "repair", "completeness"}

(* The attempts made and granted.                                           *)
Counted ==
    /\ attempt \in Nat /\ plan \in Nat /\ attempt <= plan
    /\ extras \subseteq Once \cup {"transport"}
    /\ plan <= (IF req.op = "create" THEN req.plan ELSE IterateMax)
               + Cardinality(extras \ {"transport"})

(* The rest of TypeOK.                                                      *)
Shaped ==
    /\ req \in Requests
    /\ pc \in Ends \cup {"prepare", "generate", "contract", "runtime", "discard", "review",
                         "gate", "patch", "assess"}
    /\ code \in Code /\ base \in [Dims -> 0..MaxDeficit]
    /\ patches \in 0..(PatchMax - 1) /\ retry \in 0..ReviewRetries
    /\ rtask \in {"none", "running", "ran", "infrastructure", "evidence", "actionability"}
    /\ err \in Families \cup {"none", "timeout"}
    /\ deadline \in {"armed", "fired", "swallowed"}

(* What is known of a creation's candidate on its way to acceptance.        *)
Checked ==
    req.op = "create" =>
        /\ pc \in {"runtime", "review", "gate", "patch", "done"} => code.static = "pass"
        /\ pc \in {"review", "gate", "patch", "done"} => code.runtime \in RuntimeResults
Reviewed ==
    req.op = "create" =>
        /\ pc \in {"prepare", "generate", "contract", "runtime", "review"} => code.review = "no"
        /\ pc \in {"gate", "done"} /\ code.review # "ran" =>
              ~Showcase /\ (code.review = "no" => ~req.reviewed)
        /\ pc = "patch" => code.review = "ran"
Unmended ==
    req.op = "create" /\ pc \in {"prepare", "generate", "contract", "runtime", "review", "gate"} =>
        base = Unpatched
Passed ==
    req.op = "create" /\ pc = "done" =>
        IF code.review = "ran" THEN GateErrors(code) => NearMiss(code) /\ Last
        ELSE base # Unpatched => code.review = "actionability_degraded"

(* A review runs beside the runtime QA of a creation that is reviewed.      *)
Attended ==
    /\ NoOrphanReview
    /\ rtask # "none" => req.op = "create" /\ req.reviewed
    /\ pc = "assess" => req.op = "iterate"

Inv == Shaped /\ Counted /\ Checked /\ Reviewed /\ Unmended /\ Passed /\ Attended /\ PatchNeverWorse

LEMMA Constants ==
  /\ \A q \in Requests : q \in Request /\ (q.tier = "showcase" => q.reviewed)
  /\ PatchMax \in Nat \ {0} /\ IterateMax \in Nat \ {0} /\ MaxDeficit \in Nat \ {0}
  /\ ReviewRetries \in Nat /\ 0 \in 0..(PatchMax - 1) /\ 0 \in 0..ReviewRetries
  BY PipelineAssumption

LEMMA Types ==
  /\ Unpatched \in [Dims -> 0..MaxDeficit]
  /\ NoMeasure \in Measure /\ NoMeasure.short = Unpatched
  /\ NewCode \in Code /\ NewCode.review = "no"
<1>1. Unpatched \in [Dims -> 0..MaxDeficit]
  BY Constants DEF Unpatched
<1>2. NoMeasure \in Measure /\ NoMeasure.short = Unpatched
  BY <1>1 DEF NoMeasure, Measure
<1> QED
  BY <1>1, <1>2 DEF NewCode, Code, Reviews

(* An attempt more, a slot more, or neither. *)
LEMMA Counts ==
  ASSUME Counted, Shaped, req' = req,
         \/ UNCHANGED <<attempt, plan, extras>>
         \/ UNCHANGED <<attempt, plan>> /\ extras' = extras \cup {"transport"}
         \/ Regenerate /\ extras' \in {extras, extras \cup {"transport"}}
         \/ \E x \in Once : RegenerateOnce(x)
  PROVE  Counted'
<1>1. req.op = "create" => req.plan \in Nat
  BY Constants DEF Shaped, Request
<1>2. /\ IsFiniteSet(extras \ {"transport"}) /\ Cardinality(extras \ {"transport"}) \in Nat
  <2>1. IsFiniteSet(Once)
    <3>1. IsFiniteSet({"preflight"}) /\ IsFiniteSet({"truncation"})
          /\ IsFiniteSet({"repair"}) /\ IsFiniteSet({"completeness"})
      BY FS_Singleton
    <3>2. /\ IsFiniteSet({"preflight"} \cup {"truncation"})
          /\ IsFiniteSet({"repair"} \cup {"completeness"})
      BY <3>1, FS_Union
    <3>3. IsFiniteSet(({"preflight"} \cup {"truncation"}) \cup ({"repair"} \cup {"completeness"}))
      BY <3>2, FS_Union
    <3>4. Once = ({"preflight"} \cup {"truncation"}) \cup ({"repair"} \cup {"completeness"})
      BY DEF Once
    <3> QED
      BY <3>3, <3>4
  <2>2. extras \ {"transport"} \subseteq Once
    BY DEF Counted
  <2> QED
    BY <2>1, <2>2, FS_Subset, FS_CardinalityType
<1>3. CASE UNCHANGED <<attempt, plan, extras>>
  BY <1>3 DEF Counted
<1>4. CASE UNCHANGED <<attempt, plan>> /\ extras' = extras \cup {"transport"}
  <2>1. extras' \ {"transport"} = extras \ {"transport"}
    BY <1>4
  <2> QED
    BY <1>4, <2>1 DEF Counted
<1>5. CASE Regenerate /\ extras' \in {extras, extras \cup {"transport"}}
  <2>1. extras' \ {"transport"} = extras \ {"transport"}
    BY <1>5
  <2> QED
    BY <1>5, <2>1 DEF Counted, Regenerate
<1>6. CASE \E x \in Once : RegenerateOnce(x)
  <2>1. PICK x \in Once : RegenerateOnce(x)
    BY <1>6
  <2>2. /\ extras' \ {"transport"} = (extras \ {"transport"}) \cup {x}
        /\ x \notin extras \ {"transport"} /\ extras' = extras \cup {x}
        /\ attempt' = attempt + 1 /\ plan' = plan + 1
    BY <2>1 DEF RegenerateOnce, Once
  <2>3. Cardinality(extras' \ {"transport"}) = Cardinality(extras \ {"transport"}) + 1
    BY <1>2, <2>2, FS_AddElement
  <2>4. extras' \subseteq Once \cup {"transport"}
    BY <2>2 DEF Counted
  <2>5. attempt' \in Nat /\ plan' \in Nat /\ attempt' <= plan'
    BY <2>2 DEF Counted
  <2>6. plan' <= (IF req.op = "create" THEN req.plan ELSE IterateMax)
                 + Cardinality(extras' \ {"transport"})
    BY <1>1, <1>2, <2>2, <2>3, Constants DEF Counted
  <2> QED
    BY <2>4, <2>5, <2>6 DEF Counted
<1> QED
  BY <1>3, <1>4, <1>5, <1>6

(* An error that leaves an attempt ends the run or forgets the attempt. *)
LEMMA RaiseEffect ==
  ASSUME Counted, Shaped, req' = req, NEW fam, Raise(fam)
  PROVE  /\ Counted'
         /\ pc' \in {"generate", "failed"}
         /\ code' = NewCode /\ base' = Unpatched /\ patches' = 0 /\ retry' = 0
<1>1. CASE RaisedIterate(fam)
  BY <1>1, Counts DEF RaisedIterate, Fresh, Regenerate, End
<1>2. CASE Raised(fam)
  <2>1. code' = NewCode /\ base' = Unpatched /\ patches' = 0 /\ retry' = 0
    BY <1>2 DEF Raised, Fresh
  <2>2. \/ pc' = "failed" /\ UNCHANGED <<attempt, plan, extras>>
        \/ pc' = "failed" /\ UNCHANGED <<attempt, plan>> /\ extras' = extras \cup {"transport"}
        \/ Regenerate /\ extras' \in {extras, extras \cup {"transport"}}
        \/ \E x \in Once : RegenerateOnce(x)
    BY <1>2 DEF Raised, TransportRetry, End, Once
  <2>3. pc' \in {"generate", "failed"}
    BY <2>2 DEF Regenerate, RegenerateOnce
  <2> QED
    BY <2>1, <2>2, <2>3, Counts
<1> QED
  BY <1>1, <1>2 DEF Raise

(* After an error nothing is left to be checked: Inv holds again. *)
LEMMA RestartKeeps ==
  ASSUME Inv, req' = req, Counted', pc' \in {"generate", "failed", "timeout"},
         code' = NewCode, base' = Unpatched, patches' = 0, retry' = 0, rtask' = "none",
         err' \in Families \cup {"none", "timeout"}, deadline' \in {"armed", "fired", "swallowed"}
  PROVE  Inv'
<1>1. Shaped'
  BY Constants, Types DEF Inv, Shaped, Ends
<1>2. Checked' /\ Unmended' /\ Passed' /\ PatchNeverWorse' /\ Attended'
  BY DEF Checked, Unmended, Passed, PatchNeverWorse, Attended, NoOrphanReview
<1>3. Reviewed'
  BY Types DEF Reviewed
<1> QED
  BY <1>1, <1>2, <1>3 DEF Inv

(***************************************************************************)
(* The stages                                                               *)
(***************************************************************************)
LEMMA InitInv == ASSUME Init PROVE Inv
<1>1. /\ req \in Requests /\ req.op \in {"create", "iterate"} /\ req.plan \in 1..3
      /\ IterateMax \in Nat
  BY Constants DEF Init, Request
<1>2. Counted
  <2>1. extras \ {"transport"} = {}
    BY DEF Init
  <2> QED
    BY <1>1, <2>1, FS_EmptySet DEF Init, Counted
<1>3. Shaped
  BY <1>1, Constants, Types DEF Init, Shaped
<1>4. Checked /\ Unmended /\ Passed /\ PatchNeverWorse /\ Attended
  BY DEF Init, Checked, Unmended, Passed, PatchNeverWorse, Attended, NoOrphanReview
<1>5. Reviewed
  BY Types DEF Init, Reviewed
<1> QED
  BY <1>2, <1>3, <1>4, <1>5 DEF Inv

(* What depends on the request alone stays. *)
LEMMA SameRequest ==
  ASSUME req' = req
  PROVE  RuntimeResults' = RuntimeResults /\ Showcase' = Showcase
  BY DEF RuntimeResults, SoftAllowed, Showcase

LEMMA PrepareStep == ASSUME Inv, Prepare PROVE Inv'
<1>1. Counted'
  BY Counts DEF Prepare, Inv, End
<1>2. pc' \in {"generate", "failed"} /\ pc = "prepare"
      /\ UNCHANGED <<req, extras, code, base, patches, retry, rtask, err, deadline>>
  BY DEF Prepare, Regenerate, End
<1>3. Shaped'
  BY <1>2 DEF Inv, Shaped, Ends
<1>4. Checked' /\ Passed' /\ PatchNeverWorse'
  BY <1>2 DEF Checked, Passed, PatchNeverWorse
<1>5. Reviewed' /\ Unmended'
  BY <1>2 DEF Inv, Reviewed, Unmended
<1>6. Attended'
  BY <1>2 DEF Inv, Attended, NoOrphanReview
<1> QED
  BY <1>1, <1>3, <1>4, <1>5, <1>6 DEF Inv

LEMMA GenerateStep == ASSUME Inv, Generate PROVE Inv'
<1>1. /\ Counted /\ Shaped /\ pc = "generate" /\ rtask = "none"
      /\ UNCHANGED <<req, rtask, err, deadline>>
  BY DEF Inv, Attended, NoOrphanReview, Generate
<1>2. CASE pc' = "contract" /\ UNCHANGED <<attempt, plan, extras>> /\ Fresh
  <2>1. Counted'
    BY <1>1, <1>2, Counts
  <2>2. code' = NewCode /\ base' = Unpatched /\ patches' = 0 /\ retry' = 0
    BY <1>2 DEF Fresh
  <2>3. Shaped'
    BY <1>1, <1>2, <2>2, Constants, Types DEF Shaped
  <2>4. Checked' /\ Passed' /\ PatchNeverWorse' /\ Reviewed' /\ Unmended' /\ Attended'
    BY <1>1, <1>2, <2>2, Types
       DEF Checked, Passed, PatchNeverWorse, Reviewed, Unmended, Attended, NoOrphanReview
  <2> QED
    BY <2>1, <2>3, <2>4 DEF Inv
<1>3. CASE Preflight /\ Fresh
  <2>1. \/ pc' = "failed" /\ UNCHANGED <<attempt, plan, extras>>
        \/ Regenerate /\ extras' = extras
        \/ RegenerateOnce("preflight")
    BY <1>3 DEF Preflight, End
  <2>2. Counted'
    BY <1>1, <2>1, Counts DEF Once
  <2>3. /\ pc' \in {"generate", "failed"}
        /\ code' = NewCode /\ base' = Unpatched /\ patches' = 0 /\ retry' = 0
    BY <1>3, <2>1 DEF Fresh, Regenerate, RegenerateOnce
  <2> QED
    BY <1>1, <2>2, <2>3, RestartKeeps DEF Shaped
<1>4. CASE \E fam \in Generation : Raise(fam)
  BY <1>1, <1>4, RaiseEffect, RestartKeeps DEF Shaped
<1> QED
  BY <1>2, <1>3, <1>4 DEF Generate

LEMMA ContractStep == ASSUME Inv, Contract PROVE Inv'
<1>1. /\ Counted /\ Shaped /\ pc = "contract" /\ rtask = "none"
      /\ UNCHANGED <<req, err, deadline>> /\ req \in Request /\ code \in Code
      /\ req.op = "create" => code.review = "no" /\ base = Unpatched
  BY Constants DEF Inv, Shaped, Attended, NoOrphanReview, Contract, Reviewed, Unmended
<1>2. CASE /\ code' = [code EXCEPT !.static = "pass"] /\ pc' = "runtime"
           /\ rtask' = IF req.op = "create" /\ req.reviewed THEN "running" ELSE "none"
           /\ UNCHANGED <<attempt, plan, extras, base, patches, retry>>
  <2>1. Counted'
    BY <1>1, <1>2, Counts
  <2>2. code' \in Code /\ code'.static = "pass" /\ code'.review = code.review
    BY <1>1, <1>2 DEF Code
  <2>3. Shaped'
    BY <1>1, <1>2, <2>2 DEF Shaped
  <2>4. Checked' /\ Passed' /\ PatchNeverWorse' /\ Reviewed' /\ Unmended' /\ Attended'
    BY <1>1, <1>2, <2>2
       DEF Checked, Passed, PatchNeverWorse, Reviewed, Unmended, Attended, NoOrphanReview
  <2> QED
    BY <2>1, <2>3, <2>4 DEF Inv
<1>3. ASSUME NEW fam, Raise(fam), rtask' = rtask PROVE Inv'
  BY <1>1, <1>3, RaiseEffect, RestartKeeps DEF Shaped
<1>4. CASE /\ req.op = "iterate" /\ code' = [code EXCEPT !.static = "fail"] /\ pc' = "assess"
           /\ UNCHANGED <<attempt, plan, extras, base, patches, retry, rtask>>
  <2>1. Counted'
    BY <1>1, <1>4, Counts
  <2>2. Shaped'
    BY <1>1, <1>4 DEF Shaped, Code
  <2>3. Checked' /\ Passed' /\ PatchNeverWorse' /\ Reviewed' /\ Unmended' /\ Attended'
    BY <1>1, <1>4
       DEF Checked, Passed, PatchNeverWorse, Reviewed, Unmended, Attended, NoOrphanReview
  <2> QED
    BY <2>1, <2>2, <2>3 DEF Inv
<1>5. CASE End("failed") /\ UNCHANGED <<extras, code, base, patches, retry, rtask>>
  <2>1. Counted'
    BY <1>1, <1>5, Counts DEF End
  <2>2. Shaped'
    BY <1>1, <1>5 DEF Shaped, End, Ends
  <2>3. Checked' /\ Passed' /\ PatchNeverWorse' /\ Reviewed' /\ Unmended' /\ Attended'
    BY <1>1, <1>5
       DEF Checked, Passed, PatchNeverWorse, Reviewed, Unmended, Attended, NoOrphanReview, End
  <2> QED
    BY <2>1, <2>2, <2>3 DEF Inv
<1> QED
  BY <1>2, <1>3, <1>4, <1>5 DEF Contract, Raise

LEMMA RuntimeStep == ASSUME Inv, RuntimeQA PROVE Inv'
<1>1. /\ Counted /\ Shaped /\ pc = "runtime" /\ UNCHANGED <<req, rtask, deadline>>
      /\ req \in Request /\ code \in Code
      /\ req.op = "create" => code.review = "no" /\ base = Unpatched /\ code.static = "pass"
      /\ rtask # "none" => req.op = "create" /\ req.reviewed
  BY Constants DEF Inv, Shaped, Attended, RuntimeQA, Reviewed, Unmended, Checked
<1>2. ASSUME NEW how \in RuntimeResults, code' = [code EXCEPT !.runtime = how],
             pc' = IF req.op = "create" THEN "review" ELSE "assess",
             UNCHANGED <<attempt, plan, extras, base, patches, retry, err>>
      PROVE  Inv'
  <2>1. Counted'
    BY <1>1, <1>2, Counts
  <2>2. /\ how \in {"pass", "deferred", "soft", "silent"}
        /\ code' \in Code /\ code'.static = code.static /\ code'.review = code.review
        /\ code'.runtime = how
    BY <1>1, <1>2 DEF Code, RuntimeResults
  <2>3. Shaped'
    BY <1>1, <1>2, <2>2 DEF Shaped
  <2>4. Checked'
    BY <1>1, <1>2, <2>2, SameRequest DEF Checked
  <2>5. Passed' /\ PatchNeverWorse' /\ Reviewed' /\ Unmended' /\ Attended'
    BY <1>1, <1>2, <2>2
       DEF Passed, PatchNeverWorse, Reviewed, Unmended, Attended, NoOrphanReview, Request
  <2> QED
    BY <2>1, <2>3, <2>4, <2>5 DEF Inv
<1>3. ASSUME NEW fam \in RuntimeErrors, rtask # "none", pc' = "discard", err' = fam,
             UNCHANGED <<attempt, plan, extras, code, base, patches, retry>>
      PROVE  Inv'
  <2>1. Counted'
    BY <1>1, <1>3, Counts
  <2>2. fam \in Families
    BY DEF RuntimeErrors, Families
  <2>3. Shaped'
    BY <1>1, <1>3, <2>2 DEF Shaped
  <2>4. Checked' /\ Passed' /\ PatchNeverWorse' /\ Reviewed' /\ Unmended' /\ Attended'
    BY <1>1, <1>3
       DEF Checked, Passed, PatchNeverWorse, Reviewed, Unmended, Attended, NoOrphanReview
  <2> QED
    BY <2>1, <2>3, <2>4 DEF Inv
<1>4. ASSUME NEW fam \in RuntimeErrors, rtask = "none", Raise(fam), err' = err PROVE Inv'
  BY <1>1, <1>4, RaiseEffect, RestartKeeps DEF Shaped
<1> QED
  BY <1>2, <1>3, <1>4 DEF RuntimeQA, RuntimeFails

LEMMA ReviewEndsStep == ASSUME Inv, ReviewEnds PROVE Inv'
<1>1. /\ rtask = "running" /\ rtask' \in {"ran", "infrastructure", "evidence", "actionability"}
      /\ UNCHANGED <<req, pc, attempt, plan, extras, code, base, patches, retry, err, deadline>>
  BY DEF ReviewEnds
<1>2. Counted'
  BY <1>1, Counts DEF Inv
<1>3. Shaped'
  BY <1>1 DEF Inv, Shaped
<1>4. Checked' /\ Passed' /\ PatchNeverWorse' /\ Reviewed' /\ Unmended'
  BY <1>1, SameRequest DEF Inv, Checked, Passed, PatchNeverWorse, Reviewed, Unmended, GateErrors,
     NearMiss, Last
<1>5. Attended'
  BY <1>1 DEF Inv, Attended, NoOrphanReview
<1> QED
  BY <1>2, <1>3, <1>4, <1>5 DEF Inv

LEMMA DiscardStep == ASSUME Inv, Discard PROVE Inv'
<1>1. /\ Counted /\ Shaped /\ pc = "discard" /\ rtask' = "none" /\ err' = "none"
      /\ UNCHANGED <<req, deadline>>
  BY DEF Inv, Discard
<1>2. CASE End("timeout") /\ UNCHANGED <<extras, code, base, patches, retry>>
  <2>1. Counted'
    BY <1>1, <1>2, Counts DEF End
  <2>2. Shaped'
    BY <1>1, <1>2 DEF Shaped, End, Ends
  <2>3. Checked' /\ Passed' /\ PatchNeverWorse' /\ Reviewed' /\ Unmended' /\ Attended'
    BY <1>1, <1>2
       DEF Checked, Passed, PatchNeverWorse, Reviewed, Unmended, Attended, NoOrphanReview, End
  <2> QED
    BY <2>1, <2>2, <2>3 DEF Inv
<1>3. CASE Raise(err)
  BY <1>1, <1>3, RaiseEffect, RestartKeeps DEF Shaped
<1> QED
  BY <1>2, <1>3 DEF Discard

LEMMA ReviewStep == ASSUME Inv, Review PROVE Inv'
<1>1. /\ Counted /\ Shaped /\ pc = "review" /\ UNCHANGED <<req, err, deadline>>
      /\ req \in Request /\ code \in Code /\ ReviewRetries \in Nat
      /\ req.tier = "showcase" => req.reviewed
      /\ req.op = "create" => /\ code.review = "no" /\ base = Unpatched
                              /\ code.static = "pass" /\ code.runtime \in RuntimeResults
      /\ rtask # "none" => req.op = "create" /\ req.reviewed
  BY Constants DEF Inv, Shaped, Attended, Review, Reviewed, Unmended, Checked
<1>2. ASSUME NEW k \in Code, code' = k, pc' = "gate", rtask' = "none",
             k.static = code.static, k.runtime = code.runtime,
             k.review # "ran" => ~Showcase /\ (k.review = "no" => ~req.reviewed),
             UNCHANGED <<attempt, plan, extras, base, patches, retry>>
      PROVE  Inv'
  <2>1. Counted'
    BY <1>1, <1>2, Counts
  <2>2. Shaped'
    BY <1>1, <1>2 DEF Shaped
  <2>3. Checked' /\ Reviewed'
    BY <1>1, <1>2, SameRequest DEF Checked, Reviewed
  <2>4. Passed' /\ PatchNeverWorse' /\ Unmended' /\ Attended'
    BY <1>1, <1>2 DEF Passed, PatchNeverWorse, Unmended, Attended, NoOrphanReview
  <2> QED
    BY <2>1, <2>2, <2>3, <2>4 DEF Inv
<1>3. CASE /\ ~req.reviewed /\ pc' = "gate"
           /\ UNCHANGED <<attempt, plan, extras, code, base, patches, retry, rtask>>
  <2>1. rtask' = "none" /\ ~Showcase
    BY <1>1, <1>3 DEF Showcase
  <2> QED
    BY <1>1, <1>2, <1>3, <2>1
<1>4. ASSUME NEW m \in Measure, code' = [code EXCEPT !.review = "ran", !.m = m], pc' = "gate",
             rtask' = "none", UNCHANGED <<attempt, plan, extras, base, patches, retry>>
      PROVE  Inv'
  <2>1. /\ code' \in Code /\ code'.review = "ran"
        /\ code'.static = code.static /\ code'.runtime = code.runtime
    BY <1>1, <1>4 DEF Code, Reviews
  <2> QED
    BY <1>2, <1>4, <2>1
<1>5. CASE /\ retry < ReviewRetries /\ retry' = retry + 1 /\ rtask' = "none"
           /\ UNCHANGED <<pc, attempt, plan, extras, code, base, patches>>
  <2>1. Counted'
    BY <1>1, <1>5, Counts
  <2>2. Shaped'
    BY <1>1, <1>5 DEF Shaped
  <2>3. Checked' /\ Reviewed'
    BY <1>1, <1>5, SameRequest DEF Checked, Reviewed
  <2>4. Passed' /\ PatchNeverWorse' /\ Unmended' /\ Attended'
    BY <1>1, <1>5 DEF Passed, PatchNeverWorse, Unmended, Attended, NoOrphanReview
  <2> QED
    BY <2>1, <2>2, <2>3, <2>4 DEF Inv
<1>6. ASSUME NEW fam, Raise(fam), rtask' = "none" PROVE Inv'
  BY <1>1, <1>6, RaiseEffect, RestartKeeps DEF Shaped
<1>7. ASSUME NEW fam, NEW x \in Degraded(fam), code' = [code EXCEPT !.review = x], pc' = "gate",
             rtask' = "none", UNCHANGED <<attempt, plan, extras, base, patches, retry>>
      PROVE  Inv'
  <2>1. ~Showcase /\ x \in Reviews \ {"no", "ran"}
    BY DEF Degraded, Reviews
  <2>2. /\ code' \in Code /\ code'.review = x
        /\ code'.static = code.static /\ code'.runtime = code.runtime
    BY <1>1, <1>7, <2>1 DEF Code
  <2> QED
    BY <1>2, <1>7, <2>1, <2>2
<1>8. CASE req.reviewed /\ rtask # "running" /\ rtask' = "none"
  <2>1. PICK out \in {"ran", "infrastructure", "evidence", "actionability"} :
           \/ /\ out = "ran" /\ pc' = "gate"
              /\ \E m \in Measure : code' = [code EXCEPT !.review = "ran", !.m = m]
              /\ UNCHANGED <<attempt, plan, extras, base, patches, retry>>
           \/ /\ out = "infrastructure" /\ retry < ReviewRetries
              /\ retry' = retry + 1
              /\ UNCHANGED <<pc, attempt, plan, extras, code, base, patches>>
           \/ /\ out # "ran"
              /\ IF Degraded(out) = {} THEN Raise(ReviewFamily(out))
                 ELSE /\ \E x \in Degraded(out) : code' = [code EXCEPT !.review = x]
                      /\ pc' = "gate"
                      /\ UNCHANGED <<attempt, plan, extras, base, patches, retry>>
    BY <1>1, <1>8 DEF Review
  <2> QED
    BY <1>4, <1>5, <1>6, <1>7, <1>8, <2>1
<1> QED
  BY <1>3, <1>8 DEF Review

(* The end of a candidate that the gate did not let through. *)
LEMMA MissedKeeps ==
  ASSUME Inv, NEW fam, Missed(fam), pc \in {"gate", "patch"}, UNCHANGED <<req, rtask, err, deadline>>
  PROVE  Inv'
<1>1. Counted /\ Shaped /\ rtask = "none"
  BY DEF Inv, Attended, NoOrphanReview
<1>2. CASE Last /\ NearMiss(code) /\ End("done") /\ UNCHANGED <<extras, code, base, patches, retry>>
  <2>1. Counted'
    BY <1>1, <1>2, Counts DEF End
  <2>2. Shaped'
    BY <1>1, <1>2 DEF Shaped, End, Ends
  <2>3. Checked' /\ Reviewed'
    BY <1>2, SameRequest DEF Inv, Checked, Reviewed, NearMiss, End
  <2>4. Passed'
    BY <1>2, SameRequest DEF Passed, NearMiss, Last, End
  <2>5. PatchNeverWorse' /\ Unmended' /\ Attended'
    BY <1>1, <1>2 DEF PatchNeverWorse, Unmended, Attended, NoOrphanReview, End
  <2> QED
    BY <2>1, <2>2, <2>3, <2>4, <2>5 DEF Inv
<1>3. CASE /\ Fresh
           /\ \/ Regenerate /\ UNCHANGED extras
              \/ \E x \in Once : RegenerateOnce(x)
              \/ End("failed") /\ UNCHANGED extras
  <2>1. Counted'
    BY <1>1, <1>3, Counts DEF End
  <2>2. /\ pc' \in {"generate", "failed"}
        /\ code' = NewCode /\ base' = Unpatched /\ patches' = 0 /\ retry' = 0
    BY <1>3 DEF Fresh, Regenerate, RegenerateOnce, End
  <2> QED
    BY <1>1, <2>1, <2>2, RestartKeeps DEF Shaped
<1> QED
  BY <1>2, <1>3 DEF Missed, Once

LEMMA GateStep == ASSUME Inv, Gate PROVE Inv'
<1>1. /\ Counted /\ Shaped /\ pc = "gate" /\ UNCHANGED <<req, rtask, err, deadline>>
      /\ rtask = "none" /\ code \in Code
      /\ req.op = "create" => /\ base = Unpatched
                              /\ code.static = "pass" /\ code.runtime \in RuntimeResults
                              /\ code.review # "ran" =>
                                    ~Showcase /\ (code.review = "no" => ~req.reviewed)
  BY DEF Inv, Shaped, Attended, NoOrphanReview, Gate, Reviewed, Unmended, Checked
<1>2. CASE ~GateErrors(code) /\ End("done") /\ UNCHANGED <<extras, code, base, patches, retry>>
  <2>1. Counted'
    BY <1>1, <1>2, Counts DEF End
  <2>2. Shaped'
    BY <1>1, <1>2 DEF Shaped, End, Ends
  <2>3. Checked' /\ Reviewed'
    BY <1>1, <1>2, SameRequest DEF Checked, Reviewed, End
  <2>4. Passed'
    <3>1. GateErrors(code)' = GateErrors(code)
      BY <1>1, <1>2, SameRequest DEF GateErrors
    <3> QED
      BY <1>1, <1>2, <3>1 DEF Passed, End
  <2>5. PatchNeverWorse' /\ Unmended' /\ Attended'
    BY <1>1, <1>2 DEF PatchNeverWorse, Unmended, Attended, NoOrphanReview, End
  <2> QED
    BY <2>1, <2>2, <2>3, <2>4, <2>5 DEF Inv
<1>3. CASE /\ Patchable(code) /\ pc' = "patch" /\ base' = code.m.short
           /\ UNCHANGED <<attempt, plan, extras, code, patches, retry>>
  <2>1. Counted'
    BY <1>1, <1>3, Counts
  <2>2. base' \in [Dims -> 0..MaxDeficit] /\ code.review = "ran"
    BY <1>1, <1>3 DEF Code, Measure, Patchable
  <2>3. Shaped'
    BY <1>1, <1>3, <2>2 DEF Shaped
  <2>4. Checked' /\ Reviewed'
    BY <1>1, <1>3, <2>2, SameRequest DEF Checked, Reviewed
  <2>5. PatchNeverWorse'
    BY <1>3, <2>2, Constants DEF PatchNeverWorse
  <2>6. Passed' /\ Unmended' /\ Attended'
    BY <1>1, <1>3 DEF Passed, Unmended, Attended, NoOrphanReview
  <2> QED
    BY <2>1, <2>3, <2>4, <2>5, <2>6 DEF Inv
<1>4. CASE Missed("quality_gate")
  BY <1>1, <1>4, MissedKeeps
<1> QED
  BY <1>2, <1>3, <1>4 DEF Gate

(* What a patched text can be when its checks are over. *)
LEMMA CandidateFacts ==
  ASSUME Shaped, NEW new \in Candidates
  PROVE  /\ new \in Code /\ new.static = "pass" /\ new.runtime \in RuntimeResults
         /\ new.review # "no" /\ new.m.short \in [Dims -> 0..MaxDeficit]
         /\ new.review # "ran" => ~Showcase /\ new.m.short = Unpatched
<1>1. /\ new \in [static : {"pass"}, runtime : RuntimeResults,
                  review : {"ran"} \cup Degraded("infrastructure") \cup Degraded("actionability"),
                  m : Measure]
      /\ new.review = "ran" \/ new.m = NoMeasure
  BY DEF Candidates
<1>2. /\ RuntimeResults \subseteq {"no", "pass", "deferred", "soft", "silent"}
      /\ new.review # "ran" => ~Showcase /\ new.review \in {"infra_degraded", "actionability_degraded"}
  BY <1>1 DEF RuntimeResults, Degraded
<1>3. new \in Code
  BY <1>1, <1>2 DEF Code, Reviews
<1> QED
  BY <1>1, <1>2, <1>3, Types DEF Code, Measure

LEMMA PatchStep == ASSUME Inv, Patch PROVE Inv'
<1>1. /\ Counted /\ Shaped /\ pc = "patch" /\ UNCHANGED <<req, rtask, err, deadline>>
      /\ rtask = "none" /\ code \in Code /\ base \in [Dims -> 0..MaxDeficit]
      /\ PatchMax \in Nat \ {0} /\ MaxDeficit \in Nat /\ patches \in 0..(PatchMax - 1)
      /\ \A d \in Dims : base[d] <= code.m.short[d]
  BY Constants DEF Inv, Shaped, Attended, NoOrphanReview, Patch, PatchNeverWorse
<1>2. ASSUME NEW new \in Candidates, ~GateErrors(new), ~Regressed(base, new),
             code' = new, End("done"), UNCHANGED <<extras, base, patches, retry>>
      PROVE  Inv'
  <2>1. Counted'
    BY <1>1, <1>2, Counts DEF End
  <2>2. Shaped'
    BY <1>1, <1>2, CandidateFacts DEF Shaped, End, Ends
  <2>3. Checked' /\ Reviewed'
    BY <1>1, <1>2, CandidateFacts, SameRequest DEF Checked, Reviewed, End
  <2>4. Passed'
    <3>1. GateErrors(code)' = GateErrors(new)
      BY <1>1, <1>2, SameRequest DEF GateErrors
    <3>2. new.review # "ran" => new.review = "actionability_degraded"
      BY <1>2 DEF Regressed
    <3> QED
      BY <1>1, <1>2, <3>1, <3>2 DEF Passed, End
  <2>5. PatchNeverWorse' /\ Unmended' /\ Attended'
    BY <1>1, <1>2 DEF PatchNeverWorse, Unmended, Attended, NoOrphanReview, End
  <2> QED
    BY <2>1, <2>2, <2>3, <2>4, <2>5 DEF Inv
<1>3. ASSUME NEW new \in Candidates, patches + 1 < PatchMax, patches' = patches + 1,
             base' = IF Regressed(base, new) THEN base ELSE new.m.short,
             UNCHANGED <<pc, attempt, plan, extras, code, retry>>
      PROVE  Inv'
  <2>1. Counted'
    BY <1>1, <1>3, Counts
  <2>2. base' \in [Dims -> 0..MaxDeficit] /\ patches' \in 0..(PatchMax - 1)
    BY <1>1, <1>3, CandidateFacts
  <2>3. Shaped'
    BY <1>1, <1>3, <2>2 DEF Shaped
  <2>4. \A d \in Dims : base'[d] <= code.m.short[d]
    <3>1. SUFFICES ASSUME NEW d \in Dims, ~Regressed(base, new)
                   PROVE  new.m.short[d] <= code.m.short[d]
      BY <1>1, <1>3
    <3>2. /\ base[d] \in Nat /\ code.m.short[d] \in Nat /\ new.m.short[d] \in Nat
          /\ base[d] <= code.m.short[d]
      BY <1>1, CandidateFacts DEF Code, Measure
    <3>3. CASE new.review = "ran"
      BY <3>1, <3>2, <3>3 DEF Regressed
    <3>4. CASE new.review # "ran"
      <4>1. new.m.short[d] = 0
        BY <1>1, <3>4, CandidateFacts DEF Unpatched
      <4> QED
        BY <3>2, <4>1
    <3> QED
      BY <3>3, <3>4
  <2>5. Checked' /\ Reviewed'
    BY <1>1, <1>3, SameRequest DEF Inv, Checked, Reviewed
  <2>6. PatchNeverWorse' /\ Passed' /\ Unmended' /\ Attended'
    BY <1>1, <1>3, <2>4 DEF PatchNeverWorse, Passed, Unmended, Attended, NoOrphanReview
  <2> QED
    BY <2>1, <2>3, <2>5, <2>6 DEF Inv
<1>4. ASSUME NEW fam, Missed(fam) PROVE Inv'
  BY <1>1, <1>4, MissedKeeps
<1>5. ASSUME NEW fam, Raise(fam) PROVE Inv'
  BY <1>1, <1>5, RaiseEffect, RestartKeeps DEF Shaped
<1> QED
  BY <1>2, <1>3, <1>4, <1>5 DEF Patch

LEMMA AssessStep == ASSUME Inv, Assess PROVE Inv'
<1>1. /\ pc = "assess" /\ End("done") /\ req.op = "iterate" /\ rtask = "none"
      /\ UNCHANGED <<req, extras, code, base, patches, retry, rtask, err, deadline>>
  BY DEF Assess, Inv, Attended, NoOrphanReview
<1>2. Counted'
  BY <1>1, Counts DEF Inv, End
<1>3. Shaped'
  BY <1>1 DEF Inv, Shaped, End, Ends
<1>4. /\ Checked' /\ Passed' /\ PatchNeverWorse' /\ Reviewed' /\ Unmended' /\ Attended'
  BY <1>1 DEF Checked, Passed, PatchNeverWorse, Reviewed, Unmended, Attended, NoOrphanReview, End
<1> QED
  BY <1>2, <1>3, <1>4 DEF Inv

LEMMA DeadlineStep == ASSUME Inv, Deadline PROVE Inv'
<1>1. /\ pc \notin {"done", "failed", "timeout", "gate"}
      /\ UNCHANGED <<req, attempt, plan, extras, code, base, patches, retry>>
      /\ deadline' \in {"swallowed", "fired"}
  BY DEF Deadline, Ends
<1>2. Counted'
  BY <1>1, Counts DEF Inv
<1>3. CASE UNCHANGED <<pc, rtask, err>>
  <2>1. Shaped'
    BY <1>1, <1>3 DEF Inv, Shaped
  <2>2. Checked' /\ Reviewed'
    BY <1>1, <1>3, SameRequest DEF Inv, Checked, Reviewed
  <2>3. Passed' /\ PatchNeverWorse' /\ Unmended' /\ Attended'
    BY <1>1, <1>3 DEF Inv, Passed, PatchNeverWorse, Unmended, Attended, NoOrphanReview
  <2> QED
    BY <1>2, <2>1, <2>2, <2>3 DEF Inv
<1>4. CASE pc = "runtime" /\ pc' = "discard" /\ err' = "timeout" /\ rtask' = rtask
  <2>1. Shaped'
    BY <1>1, <1>4 DEF Inv, Shaped
  <2>2. Checked' /\ Passed' /\ PatchNeverWorse' /\ Reviewed' /\ Unmended' /\ Attended'
    BY <1>1, <1>4
       DEF Inv, Checked, Passed, PatchNeverWorse, Reviewed, Unmended, Attended, NoOrphanReview
  <2> QED
    BY <1>2, <2>1, <2>2 DEF Inv
<1>5. CASE pc' = "timeout" /\ rtask' = "none" /\ err' = "none"
  <2>1. Shaped'
    BY <1>1, <1>5 DEF Inv, Shaped, Ends
  <2>2. Checked' /\ Passed' /\ PatchNeverWorse' /\ Reviewed' /\ Unmended' /\ Attended'
    BY <1>1, <1>5
       DEF Inv, Checked, Passed, PatchNeverWorse, Reviewed, Unmended, Attended, NoOrphanReview
  <2> QED
    BY <1>2, <2>1, <2>2 DEF Inv
<1> QED
  BY <1>3, <1>4, <1>5 DEF Deadline

LEMMA NextInv == ASSUME Inv, [Next]_vars PROVE Inv'
<1>1. CASE Next
  BY <1>1, PrepareStep, GenerateStep, ContractStep, RuntimeStep, ReviewEndsStep, DiscardStep,
     ReviewStep, GateStep, PatchStep, AssessStep, DeadlineStep DEF Next, Step
<1>2. CASE UNCHANGED vars
  <2>1. /\ UNCHANGED <<req, pc, attempt, plan, extras, code, base>>
        /\ UNCHANGED <<patches, retry, rtask, err, deadline>>
    BY <1>2 DEF vars
  <2>2. Counted'
    BY <2>1, Counts DEF Inv
  <2>3. Shaped' /\ Attended' /\ Unmended' /\ PatchNeverWorse'
    BY <2>1 DEF Inv, Shaped, Attended, NoOrphanReview, Unmended, PatchNeverWorse
  <2>4. Checked' /\ Reviewed'
    BY <2>1, SameRequest DEF Inv, Checked, Reviewed
  <2>5. Passed'
    BY <2>1, SameRequest DEF Inv, Passed, GateErrors, NearMiss, Last
  <2> QED
    BY <2>2, <2>3, <2>4, <2>5 DEF Inv
<1> QED
  BY <1>1, <1>2

(***************************************************************************)
(* The theorems                                                             *)
(***************************************************************************)
(* Inv holds in every state of every run of pipeline_v2_runner.             *)
THEOREM InvAlways == Spec => []Inv
<1>1. Init => Inv
  BY InitInv
<1>2. Inv /\ [Next]_vars => Inv'
  BY NextInv
<1> QED
  BY <1>1, <1>2, PTL DEF Spec

(* Every variable has its type; in particular the number of attempts never  *)
(* exceeds the plan of the budget by more than the one-time retries.        *)
THEOREM TypeCorrect == Spec => []TypeOK
<1>1. Inv => TypeOK
  BY DEF Inv, Shaped, Counted, TypeOK, Once
<1> QED
  BY <1>1, InvAlways, PTL

(* The text a creation returns has itself passed the contract, a runtime QA *)
(* of the kind its tier and environment allow, and the review gate.         *)
THEOREM AcceptedIsEvidencedAlways == Spec => []AcceptedIsEvidenced
<1>1. ASSUME Inv PROVE AcceptedIsEvidenced
  <2>1. SUFFICES ASSUME pc = "done", req.op = "create" PROVE AcceptedIsEvidenced
    BY DEF AcceptedIsEvidenced
  <2>2. code.static = "pass" /\ code.runtime \in RuntimeResults
    BY <1>1, <2>1 DEF Inv, Checked
  <2>3. /\ req.production => code.runtime \in {"pass", "deferred", "soft"}
        /\ code.runtime = "soft" => ~Showcase /\ ~req.required
    BY <2>2 DEF RuntimeResults, SoftAllowed
  <2>4. code.review # "ran" => ~Showcase /\ (code.review = "no" => ~req.reviewed)
    BY <1>1, <2>1 DEF Inv, Reviewed
  <2>5. IF code.review = "ran" THEN GateErrors(code) => NearMiss(code) /\ Last
        ELSE base # Unpatched => code.review = "actionability_degraded"
    BY <1>1, <2>1 DEF Inv, Passed
  <2> QED
    BY <2>2, <2>3, <2>4, <2>5 DEF AcceptedIsEvidenced
<1> QED
  BY <1>1, InvAlways, PTL

(* The patch loop never continues from a text that is worse, in either      *)
(* dimension, than the one the reviewer first saw.                          *)
THEOREM PatchNeverWorseAlways == Spec => []PatchNeverWorse
  BY InvAlways, PTL DEF Inv

(* No concurrent review outlives the candidate it reads, whatever raised    *)
(* and wherever the deadline fired.                                         *)
THEOREM NoOrphanReviewAlways == Spec => []NoOrphanReview
  BY InvAlways, PTL DEF Inv, Attended
=============================================================================
