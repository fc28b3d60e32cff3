--------------------- MODULE PolicyAndProvenanceProofs ---------------------
(* Proofs about two machines that share nothing: the policy engine, for    *)
(* every set of contexts and every choice of the thresholds, and where     *)
(* access requests came from.  The inductive invariant of the first says   *)
(* that an answer is a row of the effective query of the context it        *)
(* answers.                                                                *)
EXTENDS PolicyEngine, MCProvenance, FiniteSetTheorems, TLAPS

Answered == rule \in Rules => rule \in Effective(Compile(ctx))

PolicyInv == PolicyTypeOK /\ Answered

(* Precedence is injective, so two rules that are both of greatest         *)
(* precedence are one rule.                                                *)
LEMMA PrecedenceInjective ==
  ASSUME NEW a \in Rules, NEW b \in Rules, Precedence[a] = Precedence[b]
  PROVE  a = b
BY SMTT(60) DEF Rules, HardDenyRules, PathRules, Precedence

LEMMA PrecedenceIsInt == \A n \in Rules : Precedence[n] \in Int
BY SMTT(60) DEF Rules, HardDenyRules, PathRules, Precedence

LEMMA CandidatesAreRules ==
  ASSUME NEW r PROVE Candidates(r) \subseteq Rules /\ "deny_default" \in Candidates(r)
BY DEF Candidates, HardDenies, Rules

(* Some candidate has the greatest precedence.                             *)
LEMMA SomeCandidateIsGreatest ==
  ASSUME NEW C, C \subseteq Rules, "deny_default" \in C
  PROVE  \E name \in C : \A other \in C : Outranks(name, other)
BY SMTT(120) DEF Rules, HardDenyRules, PathRules, Precedence, Outranks

LEMMA EffectiveIsSingleton ==
  ASSUME NEW r PROVE \E n \in Rules : Effective(r) = {n}
<1>1. PICK n \in Candidates(r) : \A other \in Candidates(r) : Outranks(n, other)
  BY CandidatesAreRules, SomeCandidateIsGreatest
<1>2. n \in Rules /\ n \in Effective(r)
  BY <1>1, CandidatesAreRules DEF Effective
<1>3. ASSUME NEW m \in Effective(r) PROVE m = n
  <2>1. /\ m \in Rules
        /\ Outranks(m, n) /\ Outranks(n, m)
    BY <1>1, <1>3, CandidatesAreRules DEF Effective
  <2>2. Precedence[m] = Precedence[n]
    BY <1>2, <2>1, PrecedenceIsInt DEF Outranks
  <2> QED BY <1>2, <2>1, <2>2, PrecedenceInjective
<1> QED BY <1>2, <1>3

(* decide() never raises: every context has exactly one effective row, so  *)
(* the RuntimeError of _evaluate_with_cozo is unreachable.                 *)
THEOREM DecideAnswers ==
  ASSUME NEW r PROVE Cardinality(Effective(r)) = 1
BY EffectiveIsSingleton, FS_Singleton

LEMMA AnsweredInductive ==
  /\ PolicyInit => PolicyInv
  /\ PolicyInv /\ [PolicyNext]_policyVars => PolicyInv'
<1>1. PolicyInit => PolicyInv
  BY PolicyAssumption
     DEF PolicyInit, PolicyInv, PolicyTypeOK, Answered, Rules, HardDenyRules, PathRules
<1>2. ASSUME PolicyInv, EvaluateWithCozo PROVE PolicyInv'
  <2>1. rule' \in Effective(Compile(ctx)) /\ ctx' = ctx
    BY <1>2, DecideAnswers DEF EvaluateWithCozo
  <2>2. rule' \in Rules
    BY <2>1, CandidatesAreRules DEF Effective
  <2> QED BY <1>2, <2>1, <2>2 DEF PolicyInv, PolicyTypeOK, Answered
<1>3. ASSUME PolicyInv, UNCHANGED policyVars PROVE PolicyInv'
  BY <1>3 DEF PolicyInv, PolicyTypeOK, Answered, policyVars
<1> QED BY <1>1, <1>2, <1>3 DEF PolicyNext

(* Whatever is answered is a row of the effective query.                   *)
THEOREM AnswersAreEffective == PolicySpec => []PolicyInv
BY AnsweredInductive, PTL DEF PolicySpec

(* Every reachable state is well typed.                                    *)
THEOREM PolicyTypeCorrect == PolicySpec => []PolicyTypeOK
<1>1. PolicyInv => PolicyTypeOK BY DEF PolicyInv
<1> QED BY <1>1, AnswersAreEffective, PTL

(* No context makes two rules tie for the decision.                        *)
THEOREM NeverRaises == PolicySpec => []OneEffectiveDecision
<1>1. PolicyInit => OneEffectiveDecision
  BY DEF PolicyInit, OneEffectiveDecision
<1>2. OneEffectiveDecision /\ [PolicyNext]_policyVars => OneEffectiveDecision'
  <2>1. ASSUME EvaluateWithCozo PROVE rule' \in Rules
    BY <2>1, DecideAnswers, CandidatesAreRules DEF EvaluateWithCozo, Effective
  <2>2. "RuntimeError" \notin Rules
    BY DEF Rules, HardDenyRules, PathRules
  <2> QED BY <2>1, <2>2 DEF OneEffectiveDecision, PolicyNext, policyVars
<1> QED BY <1>1, <1>2, PTL DEF PolicySpec

-----------------------------------------------------------------------------
(* A path rule among the effective rows fires, and with no hard deny.      *)
LEMMA EffectivePathRule ==
  ASSUME NEW r, NEW name \in Effective(r), name \in PathRules
  PROVE  /\ PathRuleFires(r)[name]
         /\ \A d \in HardDenyRules : ~HardDenyFires(r)[d]
<1>1. name \in Candidates(r) BY DEF Effective
<1>2. name \in PathRules /\ name \notin HardDenyRules \cup {"deny_default"}
  BY DEF PathRules, HardDenyRules
<1>3. HardDenies(r) = {} /\ PathRuleFires(r)[name]
  BY <1>1, <1>2 DEF Candidates, HardDenies
<1> QED BY <1>3 DEF HardDenies

(* What no hard deny firing says of the compiled relations.                *)
LEMMA NoHardDeny ==
  ASSUME NEW r, \A d \in HardDenyRules : ~HardDenyFires(r)[d]
  PROVE  /\ r.delegation /\ r.same_team /\ ~r.below_minimum
         /\ r.schema_valid => RecipePredictsTool(r)
         /\ ExternalWrite(r) => r.external_write_predicted \/ LowTrustExternalWrite(r)
         /\ r.admin_scope => r.break_glass
         /\ r.violations \cap ViolationKinds = {}
<1>1. \A d \in HardDenyRules : ~HardDenyFires(r)[d] OBVIOUS
<1>2. /\ ~HardDenyFires(r).deny_no_delegation
      /\ ~HardDenyFires(r).deny_wrong_team
      /\ ~HardDenyFires(r).deny_low_trust
      /\ ~HardDenyFires(r).deny_unpredicted_tool
      /\ ~HardDenyFires(r).deny_external_write
      /\ ~HardDenyFires(r).deny_admin_scope
      /\ ~HardDenyFires(r).deny_direct_secret_read
      /\ ~HardDenyFires(r).deny_secret_exposure
      /\ ~HardDenyFires(r).deny_bulk_export
      /\ ~HardDenyFires(r).deny_goal_expansion
  BY <1>1 DEF HardDenyRules
<1> QED BY <1>2 DEF HardDenyFires, ViolationKinds

LEMMA ExecutesIsEffective ==
  ASSUME PolicyInv, Executes
  PROVE  rule \in Effective(Compile(ctx))
BY DEF PolicyInv, Answered, Executes, Rules, PathRules

(* Only a delegated call of the session's own team, predicted by a recipe  *)
(* that is named, is executed, and without a context path only where no    *)
(* snapshot and no grant is claimed, whatever the thresholds are.          *)
THEOREM OnlyEarnedCallsExecute == PolicySpec => []ExecutableIsEarned
<1>1. ASSUME PolicyInv, Executes
      PROVE  ExecutableIsEarned
  <2> DEFINE r == Compile(ctx)
  <2>1. /\ PathRuleFires(r)[rule]
        /\ \A d \in HardDenyRules : ~HardDenyFires(r)[d]
    BY <1>1, ExecutesIsEffective, EffectivePathRule DEF Executes, PathRules
  <2>2. /\ r.delegation /\ r.same_team /\ ~r.below_minimum
        /\ r.schema_valid => RecipePredictsTool(r)
        /\ ExternalWrite(r) => r.external_write_predicted \/ LowTrustExternalWrite(r)
        /\ r.admin_scope => r.break_glass
        /\ r.violations \cap ViolationKinds = {}
    BY <2>1, NoHardDeny
  <2>3. r.schema_valid /\ RecipePredictsTool(r)
    BY <1>1, <2>1 DEF PathRuleFires, Executes
  <2>4. RecipeKnown(ctx)
    BY <2>3 DEF Compile, RecipePredictsTool, AcceptedMatch
  <2>10. ctx.grant_present => HasPath(ctx)
    <3>1. r.current_grant => r.context_path
      BY <1>1, <2>1 DEF PathRuleFires, Executes
    <3> QED BY <3>1 DEF Compile
  <2>11. ctx.context_snapshot_present = "true" => HasPath(ctx)
    <3>1. ~HardDenyFires(r).deny_missing_context_path
      BY <2>1 DEF HardDenyRules
    <3>2. r.context_snapshot_present => r.context_path
      BY <3>1 DEF HardDenyFires
    <3> QED BY <3>2 DEF Compile
  <2>5. ~LowTrustExternalWrite(r)
    <3>1. SUFFICES ASSUME LowTrustExternalWrite(r) PROVE FALSE
      OBVIOUS
    <3>2. PathRuleFires(r).escalate_low_trust_external
      BY <2>2, <2>3, <3>1 DEF PathRuleFires
    <3>3. HardDenies(r) = {}
      BY <2>1 DEF HardDenies
    <3>4. "escalate_low_trust_external" \in Candidates(r)
      BY <3>2, <3>3 DEF Candidates, PathRules
    <3>5. rule \in Effective(r)
      BY <1>1, ExecutesIsEffective
    <3>6. Outranks(rule, "escalate_low_trust_external")
      BY <3>4, <3>5 DEF Effective
    <3> QED BY <1>1, <3>6 DEF Outranks, Executes, Precedence
  <2>6. ~Below(ctx.similarity_score, RECIPE_THRESHOLD)
    BY <1>1, <2>3, <2>4, PolicyAssumption
      DEF PolicyInv, PolicyTypeOK, Context, Score, NoScore, Compile, RecipePredictsTool,
          AcceptedMatch, Below
  <2>7. /\ ctx.schema_valid /\ ctx.delegation_present /\ ctx.same_team
        /\ RecipeKnown(ctx) /\ ctx.recipe_predicts_tool /\ ctx.similarity_reified
        /\ ~HasPath(ctx) => /\ ctx.context_snapshot_present # "true"
                            /\ ~ctx.grant_present
        /\ ~Below(ctx.agent_trust_score, TRUST_SCORE_MIN)
        /\ ctx.admin_scope => ctx.break_glass
    BY <2>2, <2>3, <2>4, <2>10, <2>11 DEF Compile, RecipePredictsTool, AcceptedMatch
  <2>8. ctx.violations = {}
    <3>1. ctx.violations \subseteq ViolationKinds
      BY <1>1 DEF PolicyInv, PolicyTypeOK, Context
    <3> QED BY <2>2, <3>1 DEF Compile
  <2>9. ctx.access_kind = "write" /\ ctx.resource_external =>
          /\ ctx.external_write_predicted
          /\ ~Below(ctx.agent_trust_score, TRUST_SCORE_SENSITIVE)
    BY <2>2, <2>5 DEF Compile, ExternalWrite, LowTrustExternalWrite
  <2> QED BY <2>6, <2>7, <2>8, <2>9 DEF ExecutableIsEarned
<1>2. PolicyInv => ExecutableIsEarned BY <1>1 DEF ExecutableIsEarned
<1> QED BY <1>2, AnswersAreEffective, PTL

(* Without a standing grant only a bounded call is auto-approved.          *)
THEOREM AutoApprovalBounded == PolicySpec => []AutoApprovalIsBounded
<1>1. ASSUME PolicyInv, Executes, ~ctx.grant_present
      PROVE  AutoApprovalIsBounded
  <2> DEFINE r == Compile(ctx)
  <2>1. PathRuleFires(r)[rule]
    BY <1>1, ExecutesIsEffective, EffectivePathRule DEF Executes, PathRules
  <2>2. rule = "auto_approve_recipe_scope"
    BY <1>1, <2>1 DEF Executes, PathRuleFires, Compile
  <2>3. /\ r.recipe_scope = "auto_approve"
        /\ r.risk \in {"low", "medium"}
        /\ ResourceAutoApprovable(r) /\ CredentialOk(r)
    BY <2>1, <2>2 DEF PathRuleFires
  <2> QED BY <2>3
      DEF AutoApprovalIsBounded, Compile, ResourceAutoApprovable, CredentialOk
<1>2. PolicyInv => AutoApprovalIsBounded BY <1>1 DEF AutoApprovalIsBounded
<1> QED BY <1>2, AnswersAreEffective, PTL

-----------------------------------------------------------------------------
(* A standing grant leaves a call to a human only when a barely trusted    *)
(* agent writes outside: the one escalation that outranks the grant.       *)
THEOREM GrantsEndEscalation == PolicySpec => []GrantEndsEscalation
<1>1. ASSUME PolicyInv, DecisionOf(rule) = "ESCALATE_HUMAN", ctx.grant_present
      PROVE  /\ ctx.access_kind = "write" /\ ctx.resource_external
             /\ Below(ctx.agent_trust_score, TRUST_SCORE_SENSITIVE)
  <2> DEFINE r == Compile(ctx)
  <2>1. rule \in {"escalate_low_trust_external", "escalate_human_required_scope"}
    BY <1>1 DEF DecisionOf
  <2>2. rule \in PathRules /\ rule \in Effective(r)
    BY <1>1, <2>1 DEF PathRules, Rules, PolicyInv, Answered
  <2>3. PathRuleFires(r)[rule]
    BY <2>2, EffectivePathRule
  <2>4. rule # "escalate_human_required_scope"
    BY <1>1, <2>3 DEF PathRuleFires, Compile
  <2>5. LowTrustExternalWrite(r)
    BY <2>1, <2>3, <2>4 DEF PathRuleFires
  <2> QED BY <2>5 DEF LowTrustExternalWrite, ExternalWrite, Compile
<1>2. PolicyInv => GrantEndsEscalation BY <1>1 DEF GrantEndsEscalation
<1> QED BY <1>2, AnswersAreEffective, PTL

-----------------------------------------------------------------------------
(* The fallback.  The two engines read the same rows, so they can differ   *)
(* only where a predicted tool has no accepted match; when the score is    *)
(* not what it lacks, the match is unreified and both deny for that.       *)
LEMMA SameWhenReified ==
  ASSUME NEW r, RecipePredictsTool(r) <=> r.recipe_tool
  PROVE  PyCandidates(r) = Candidates(r)
<1>1. \A d \in HardDenyRules : HardDenyFires(r)[d] <=>
        [HardDenyFires(r) EXCEPT
           !.deny_unpredicted_tool = r.schema_valid /\ ~r.recipe_tool][d]
  BY DEF HardDenyRules, HardDenyFires
<1>2. PyHardDenies(r) = HardDenies(r)
  BY <1>1 DEF PyHardDenies, HardDenies
<1>3. r.recipe_tool => (RecipePredictsScope(r) <=> r.recipe_scope # "none")
  BY DEF RecipePredictsTool, RecipePredictsScope
<1>4. \A n \in PathRules : PyPathRuleFires(r)[n] <=> PathRuleFires(r)[n]
  BY <1>3 DEF PathRules, PyPathRuleFires, PathRuleFires, ResourceAutoApprovable
<1> QED BY <1>2, <1>4 DEF PyCandidates, Candidates

LEMMA SameWhenUnreified ==
  ASSUME NEW r, r.similar, ~r.reified
  PROVE  /\ "deny_unreified_recipe_hit" \in PyCandidates(r)
         /\ "deny_unreified_recipe_hit" \in Candidates(r)
         /\ PyCandidates(r) \subseteq Candidates(r)
         /\ Candidates(r) \subseteq PyCandidates(r) \cup {"deny_unpredicted_tool"}
<1> DEFINE py == [HardDenyFires(r) EXCEPT
                    !.deny_unpredicted_tool = r.schema_valid /\ ~r.recipe_tool]
<1>1. ~RecipePredictsTool(r)
  BY DEF RecipePredictsTool, AcceptedMatch
<1>2. /\ py["deny_unpredicted_tool"] => HardDenyFires(r)["deny_unpredicted_tool"]
      /\ \A d \in HardDenyRules \ {"deny_unpredicted_tool"} : py[d] = HardDenyFires(r)[d]
  <2>1. "deny_unpredicted_tool" \in DOMAIN HardDenyFires(r)
    BY DEF HardDenyFires
  <2>2. py["deny_unpredicted_tool"] = (r.schema_valid /\ ~r.recipe_tool)
    BY <2>1
  <2>3. HardDenyFires(r)["deny_unpredicted_tool"] = (r.schema_valid /\ ~RecipePredictsTool(r))
    BY DEF HardDenyFires
  <2>4. HardDenyRules \subseteq DOMAIN HardDenyFires(r)
    BY DEF HardDenyFires, HardDenyRules
  <2>5. \A d \in HardDenyRules \ {"deny_unpredicted_tool"} : py[d] = HardDenyFires(r)[d]
    BY <2>4
  <2> QED BY <1>1, <2>2, <2>3, <2>5
<1>3. HardDenyFires(r).deny_unreified_recipe_hit
  BY DEF HardDenyFires
<1>4. "deny_unreified_recipe_hit" \in HardDenyRules
  BY DEF HardDenyRules
<1>5. PyHardDenies(r) = {name \in HardDenyRules : py[name]}
  BY DEF PyHardDenies
<1> HIDE DEF py
<1>6. /\ "deny_unreified_recipe_hit" \in PyHardDenies(r)
      /\ "deny_unreified_recipe_hit" \in HardDenies(r)
      /\ PyHardDenies(r) \subseteq HardDenies(r)
      /\ HardDenies(r) \subseteq PyHardDenies(r) \cup {"deny_unpredicted_tool"}
  BY <1>2, <1>3, <1>4, <1>5 DEF HardDenies
<1> QED BY <1>6 DEF PyCandidates, Candidates

(* The Python ladder answers by the rule Cozo answers by, whenever no      *)
(* recorded score is below the recipe threshold.                           *)
THEOREM FallbackAgrees == PolicySpec => []FallbackAgreesAboveThreshold
<1>1. ASSUME PolicyInv, rule \in Rules, ~Below(ctx.similarity_score, RECIPE_THRESHOLD)
      PROVE  rule = PyRule(Compile(ctx))
  <2> DEFINE r == Compile(ctx)
  <2>1. /\ rule \in Candidates(r) /\ \A other \in Candidates(r) : Outranks(rule, other)
    BY <1>1 DEF PolicyInv, Answered, Effective
  <2>2. ASSUME r.recipe_tool PROVE r.similar /\ r.score >= RECIPE_THRESHOLD
    <3>1. RecipeKnown(ctx)
      BY <2>2 DEF Compile
    <3>2. ctx.similarity_score \in Score
      BY <1>1 DEF PolicyInv, PolicyTypeOK, Context
    <3>3. r.score >= RECIPE_THRESHOLD
      BY <1>1, <3>1, <3>2, PolicyAssumption DEF Score, NoScore, Below, Compile
    <3> QED BY <3>1, <3>3 DEF Compile
  <2>3. rule \in PyCandidates(r) /\ \A other \in PyCandidates(r) : Outranks(rule, other)
    <3>1. CASE r.similar /\ ~r.reified
      <4>1. /\ "deny_unreified_recipe_hit" \in PyCandidates(r)
            /\ "deny_unreified_recipe_hit" \in Candidates(r)
            /\ PyCandidates(r) \subseteq Candidates(r)
            /\ Candidates(r) \subseteq PyCandidates(r) \cup {"deny_unpredicted_tool"}
        BY <3>1, SameWhenUnreified
      <4>2. ~Outranks("deny_unpredicted_tool", "deny_unreified_recipe_hit")
        BY DEF Outranks, Precedence
      <4>3. rule # "deny_unpredicted_tool"
        BY <2>1, <4>1, <4>2
      <4> QED BY <2>1, <4>1, <4>3
    <3>2. CASE ~(r.similar /\ ~r.reified)
      <4>1. RecipePredictsTool(r) <=> r.recipe_tool
        BY <2>2, <3>2 DEF RecipePredictsTool, AcceptedMatch
      <4> QED BY <2>1, <4>1, SameWhenReified
    <3> QED BY <3>1, <3>2
  <2>4. PICK name \in PyCandidates(r) : name = PyRule(r) /\ Outranks(name, rule)
    BY <2>3 DEF PyRule
  <2>5. PyCandidates(r) \subseteq Rules
    BY DEF PyCandidates, PyHardDenies, Rules
  <2>6. Precedence[name] = Precedence[rule]
    BY <1>1, <2>3, <2>4, <2>5, PrecedenceIsInt DEF Outranks
  <2> QED BY <1>1, <2>4, <2>5, <2>6, PrecedenceInjective
<1>2. ASSUME PolicyInv, OneEffectiveDecision PROVE FallbackAgreesAboveThreshold
  BY <1>1, <1>2
     DEF PolicyInv, PolicyTypeOK, OneEffectiveDecision, FallbackAgreesAboveThreshold, Asked
<1> QED BY <1>2, AnswersAreEffective, NeverRaises, PTL

-----------------------------------------------------------------------------
(* The relations of a call that lost a recipe fact, and nothing else.      *)
Weaker(w, r) ==
  /\ w.schema_valid = r.schema_valid /\ w.schema_repairable = r.schema_repairable
  /\ w.delegation = r.delegation /\ w.same_team = r.same_team
  /\ w.below_minimum = r.below_minimum /\ w.below_sensitive = r.below_sensitive
  /\ w.similar = r.similar /\ w.current_grant = r.current_grant
  /\ w.context_path = r.context_path /\ w.access_kind = r.access_kind
  /\ w.risk = r.risk /\ w.external = r.external /\ w.sensitivity = r.sensitivity
  /\ w.credential = r.credential /\ w.admin_scope = r.admin_scope
  /\ w.break_glass = r.break_glass
  /\ w.external_write_predicted = r.external_write_predicted
  /\ w.violations = r.violations
  /\ w.context_snapshot_present = r.context_snapshot_present
  /\ w.reified => r.reified
  /\ RecipePredictsTool(w) => RecipePredictsTool(r)
  /\ w.recipe_scope \in {r.recipe_scope, "none"}

LEMMA DeniedSomehow ==
  ASSUME NEW r, NEW d \in HardDenyRules, HardDenyFires(r)[d]
  PROVE  HardDenies(r) # {}
BY DEF HardDenies

(* Losing delegation, the team, the path or all trust, or violating        *)
(* something, is denied outright; the other losses weaken the recipe.      *)
LEMMA WorseIsDeniedOrWeaker ==
  ASSUME TRUST_SCORE_MIN > 0, ctx \in Context, NEW c \in Worse(ctx)
  PROVE  HardDenies(Compile(c)) # {} \/ Weaker(Compile(c), Compile(ctx))
<1>0. ASSUME c.recipe_id = ctx.recipe_id, c.context_path = ctx.context_path
      PROVE  RecipeKnown(c) = RecipeKnown(ctx) /\ HasPath(c) = HasPath(ctx)
  BY <1>0 DEF RecipeKnown, HasPath
<1>1. CASE c = [ctx EXCEPT !.delegation_present = FALSE]
  <2>1. HardDenyFires(Compile(c)).deny_no_delegation
    BY <1>1 DEF Context, HardDenyFires, Compile
  <2> QED BY <2>1, DeniedSomehow DEF HardDenyRules
<1>2. CASE c = [ctx EXCEPT !.same_team = FALSE]
  <2>1. HardDenyFires(Compile(c)).deny_wrong_team
    BY <1>2 DEF Context, HardDenyFires, Compile
  <2> QED BY <2>1, DeniedSomehow DEF HardDenyRules
<1>3. CASE c = [ctx EXCEPT !.context_path = 0, !.context_snapshot_present = "true"]
  <2>1. c.context_path = 0 /\ c.context_snapshot_present = "true"
    BY <1>3 DEF Context
  <2>2. ~HasPath(c)
    BY <2>1 DEF HasPath
  <2>3. HardDenyFires(Compile(c)).deny_missing_context_path
    BY <2>1, <2>2 DEF HardDenyFires, Compile
  <2> QED BY <2>3, DeniedSomehow DEF HardDenyRules
<1>4. CASE c = [ctx EXCEPT !.agent_trust_score = 0]
  <2>1. Below(c.agent_trust_score, TRUST_SCORE_MIN)
    BY <1>4 DEF Context, Below, NoScore
  <2>2. HardDenyFires(Compile(c)).deny_low_trust
    BY <2>1 DEF HardDenyFires, Compile
  <2> QED BY <2>2, DeniedSomehow DEF HardDenyRules
<1>5. ASSUME NEW v \in ViolationKinds, c = [ctx EXCEPT !.violations = @ \cup {v}]
      PROVE  HardDenies(Compile(c)) # {}
  <2>1. v \in Compile(c).violations
    BY <1>5 DEF Context, Compile
  <2>2. \/ HardDenyFires(Compile(c)).deny_direct_secret_read
        \/ HardDenyFires(Compile(c)).deny_secret_exposure
        \/ HardDenyFires(Compile(c)).deny_bulk_export
        \/ HardDenyFires(Compile(c)).deny_goal_expansion
    BY <2>1 DEF HardDenyFires, ViolationKinds
  <2> QED BY <2>2, DeniedSomehow DEF HardDenyRules
<1>6. CASE c = [ctx EXCEPT !.recipe_predicts_tool = FALSE]
  BY <1>6, <1>0 DEF Context, Weaker, Compile, RecipePredictsTool, AcceptedMatch
<1>7. CASE c = [ctx EXCEPT !.similarity_reified = FALSE]
  BY <1>7, <1>0 DEF Context, Weaker, Compile, RecipePredictsTool, AcceptedMatch
<1>8. CASE c = [ctx EXCEPT !.similarity_score = 0]
  <2>1. ~RecipePredictsTool(Compile(c))
    BY <1>8, PolicyAssumption DEF Context, Compile, RecipePredictsTool, AcceptedMatch, NoScore
  <2> QED BY <1>8, <1>0, <2>1 DEF Context, Weaker, Compile
<1>9. CASE c = [ctx EXCEPT !.scope_approval_mode = "none"]
  BY <1>9, <1>0 DEF Context, Weaker, Compile, RecipePredictsTool, AcceptedMatch
<1> QED BY <1>1, <1>2, <1>3, <1>4, <1>5, <1>6, <1>7, <1>8, <1>9 DEF Worse

LEMMA WeakerIsDeniedMore ==
  ASSUME NEW w, NEW r, Weaker(w, r), HardDenies(w) = {}
  PROVE  HardDenies(r) = {}
<1>1. ExternalWrite(w) = ExternalWrite(r) /\ LowTrustExternalWrite(w) = LowTrustExternalWrite(r)
  BY DEF Weaker, ExternalWrite, LowTrustExternalWrite
<1> DEFINE x == HardDenyFires(r)  y == HardDenyFires(w)
<1>2. /\ x.deny_schema_invalid => y.deny_schema_invalid
      /\ x.deny_no_delegation => y.deny_no_delegation
      /\ x.deny_low_trust => y.deny_low_trust
      /\ x.deny_wrong_team => y.deny_wrong_team
  BY DEF Weaker, HardDenyFires
<1>3. /\ x.deny_unpredicted_tool => y.deny_unpredicted_tool
      /\ x.deny_unreified_recipe_hit => y.deny_unreified_recipe_hit
  BY DEF Weaker, HardDenyFires
<1>4. x.deny_external_write => y.deny_external_write
  BY <1>1 DEF Weaker, HardDenyFires
<1>5. /\ x.deny_admin_scope => y.deny_admin_scope
      /\ x.deny_missing_context_path => y.deny_missing_context_path
  BY DEF Weaker, HardDenyFires
<1>6. /\ x.deny_direct_secret_read => y.deny_direct_secret_read
      /\ x.deny_secret_exposure => y.deny_secret_exposure
      /\ x.deny_bulk_export => y.deny_bulk_export
      /\ x.deny_goal_expansion => y.deny_goal_expansion
  BY DEF Weaker, HardDenyFires
<1> HIDE DEF x, y
<1>7. \A d \in HardDenyRules : x[d] => y[d]
  BY <1>2, <1>3, <1>4, <1>5, <1>6 DEF HardDenyRules
<1> QED BY <1>7 DEF HardDenies, x, y

(* Without a hard deny, what the weaker call may fire the stronger may,    *)
(* and the rules above auto-approval fire for both or for neither.         *)
LEMMA WeakerFiresLess ==
  ASSUME NEW w, NEW r, Weaker(w, r), HardDenies(w) = {}
  PROVE  /\ Candidates(w) \subseteq Candidates(r)
         /\ \A n \in {"repair_schema_args", "escalate_low_trust_external"} :
              n \in Candidates(r) => n \in Candidates(w)
<1>1. HardDenies(r) = {}
  BY WeakerIsDeniedMore
<1>2. ~HardDenyFires(w).deny_unpredicted_tool
  BY DEF HardDenies, HardDenyRules
<1>3. w.schema_valid => RecipePredictsTool(w)
  BY <1>2 DEF HardDenyFires
<1>4. RecipePredictsTool(w) => AcceptedMatch(r)
  BY DEF Weaker, RecipePredictsTool
<1>5. /\ PathRuleFires(w).repair_schema_args <=> PathRuleFires(r).repair_schema_args
      /\ PathRuleFires(w).escalate_low_trust_external
           <=> PathRuleFires(r).escalate_low_trust_external
      /\ PathRuleFires(w).allow_current_grant => PathRuleFires(r).allow_current_grant
      /\ PathRuleFires(w).auto_approve_recipe_scope
           => PathRuleFires(r).auto_approve_recipe_scope
      /\ PathRuleFires(w).escalate_human_required_scope
           => PathRuleFires(r).escalate_human_required_scope
  BY <1>3, <1>4 DEF Weaker, PathRuleFires, RecipePredictsScope, ResourceAutoApprovable,
     CredentialOk, LowTrustExternalWrite, ExternalWrite
<1>6. \A n \in PathRules : PathRuleFires(w)[n] => PathRuleFires(r)[n]
  BY <1>5 DEF PathRules
<1> QED BY <1>1, <1>5, <1>6 DEF Candidates, PathRules

LEMMA RankBounds ==
  ASSUME NEW n PROVE Rank(DecisionOf(n)) \in 0..3
BY DEF Rank

(* Above its precedence a rule is outranked only by repair and escalation. *)
LEMMA RankFollowsPrecedence ==
  ASSUME NEW a \in PathRules \cup {"deny_default"}, NEW b \in PathRules \cup {"deny_default"},
         Outranks(a, b),
         a \in {"repair_schema_args", "escalate_low_trust_external"} => a = b
  PROVE  Rank(DecisionOf(b)) <= Rank(DecisionOf(a))
BY SMTT(60) DEF PathRules, Outranks, Precedence, Rank, DecisionOf

(* As long as some trust is asked of an agent, taking one enabling fact    *)
(* from a call, or adding a violation, never earns it a better decision.   *)
THEOREM LosingFactsCannotHelp ==
  ASSUME TRUST_SCORE_MIN > 0 PROVE PolicySpec => []LosingFactsNeverHelps
<1>1. ASSUME PolicyInv, rule \in Rules, NEW c \in Worse(ctx), NEW n \in Effective(Compile(c))
      PROVE  Rank(DecisionOf(n)) <= Rank(DecisionOf(rule))
  <2> DEFINE w == Compile(c)  r == Compile(ctx)
  <2>1. n \in Candidates(w) /\ \A other \in Candidates(w) : Outranks(n, other)
    BY <1>1 DEF Effective
  <2>2. rule \in Candidates(r) /\ \A other \in Candidates(r) : Outranks(rule, other)
    BY <1>1 DEF PolicyInv, Answered, Effective
  <2> HIDE DEF w, r
  <2>3. CASE HardDenies(w) # {}
    <3>1. n \in HardDenyRules \cup {"deny_default"}
      BY <2>1, <2>3 DEF Candidates, HardDenies
    <3>2. Rank(DecisionOf(n)) = 0
      BY <3>1 DEF HardDenyRules, DecisionOf, Rank
    <3> QED BY <3>2, RankBounds
  <2>4. CASE HardDenies(w) = {}
    <3>1. Weaker(w, r)
      BY <1>1, <2>4, WorseIsDeniedOrWeaker DEF PolicyInv, PolicyTypeOK, w, r
    <3>2. HardDenies(r) = {}
      BY <2>4, <3>1, WeakerIsDeniedMore
    <3>3. /\ Candidates(w) \subseteq Candidates(r)
          /\ rule \in {"repair_schema_args", "escalate_low_trust_external"}
               => rule \in Candidates(w)
      BY <2>2, <2>4, <3>1, WeakerFiresLess
    <3>4. /\ rule \in PathRules \cup {"deny_default"} /\ n \in PathRules \cup {"deny_default"}
      BY <2>1, <2>2, <2>4, <3>2 DEF Candidates
    <3>5. Outranks(rule, n)
      BY <2>1, <2>2, <3>3
    <3>6. rule \in Candidates(w) => rule = n
      <4>1. rule \in Candidates(w) => Outranks(n, rule)
        BY <2>1
      <4>2. rule \in Rules /\ n \in Rules
        BY <3>4 DEF Rules
      <4> QED BY <3>5, <4>1, <4>2, PrecedenceIsInt, PrecedenceInjective DEF Outranks
    <3> QED BY <3>3, <3>4, <3>5, <3>6, RankFollowsPrecedence
  <2> QED BY <2>3, <2>4
<1>2. PolicyInv => LosingFactsNeverHelps
  BY <1>1 DEF LosingFactsNeverHelps
<1> QED BY <1>2, AnswersAreEffective, PTL
-----------------------------------------------------------------------------
(* Where access requests came from: the columns that say so tell one       *)
(* story, for any number of threads and requests and any failures, and     *)
(* handlers served one after the other keep the time of a request's first  *)
(* tool call.                                                              *)

(* The statements that write to the row their thread has found.            *)
Holding == {"mark_update", "update", "approve"}

(* The type invariant, with the fact that a thread at such a statement has *)
(* found a row.                                                            *)
RequestInv ==
  /\ TypeOK
  /\ \A t \in Threads : pc[t] \in Holding => loc[t].request \in RequestIds

LEMMA SecondsFacts ==
  /\ Never \notin Seconds
  /\ \A s \in Seconds : s < MaxSecond => s + 1 \in Seconds
  /\ 0 \in Seconds
BY ProvenanceAssumption DEF Seconds, Never

(* The merge of a row keeps it well formed, and keeps the story.           *)
LEMMA MergedIsRequest ==
  ASSUME NEW row \in Request, NEW op, second \in Seconds
  PROVE  Merged(row, op) \in Request
BY DEF Merged, Request, OriginOf

OneStory(row) ==
  /\ row.before <=> row.origin = "preflight_prediction"
  /\ row.before <=> row.predicted

LEMMA MergedIsOneStory ==
  ASSUME NEW row \in Request, NEW op, OneStory(row)
  PROVE  OneStory(Merged(row, op))
<1>1. CASE op = "preflight"
  BY <1>1 DEF Merged, Request, OriginOf, OneStory
<1>2. CASE op # "preflight"
  BY <1>2 DEF Merged, Request, OriginOf, OneStory
<1> QED BY <1>1, <1>2

LEMMA RequestInit == Init => RequestInv
BY SecondsFacts DEF Init, RequestInv, TypeOK, Request, NoRequest, Idle, Labels, Holding

LEMMA RequestStep == RequestInv /\ [Next]_vars => RequestInv'
<1> SUFFICES ASSUME RequestInv, [Next]_vars PROVE RequestInv'
  OBVIOUS
<1> USE DEF RequestInv, TypeOK, Labels, Holding
<1>1. ASSUME NEW t \in Threads, NEW op \in {"call", "authorize", "preflight"},
             NEW label \in {"mark", "decide", "find"}, Start(t, op, None, label)
      PROVE RequestInv'
  BY <1>1 DEF Start, Goto
<1>2. ASSUME NEW t \in Threads, NEW r \in RequestIds, Approve(t, r) PROVE RequestInv'
  BY <1>2 DEF Approve, Start, Goto
<1>3. ASSUME NEW t \in Threads, MarkSelect(t) PROVE RequestInv'
  <2>1. CASE Unseen = {}
    BY <1>3, <2>1 DEF MarkSelect, Goto
  <2>2. CASE Unseen # {}
    <3>1. PICK r \in RequestIds :
            loc' = [loc EXCEPT ![t].request = r] /\ Goto(t, "mark_update")
      BY <1>3, <2>2 DEF MarkSelect, Oldest, Unseen
    <3> QED BY <3>1, <1>3 DEF MarkSelect, Goto
  <2> QED BY <2>1, <2>2
<1>4. ASSUME NEW t \in Threads, MarkUpdate(t) PROVE RequestInv'
  BY <1>4 DEF MarkUpdate, Goto, Request
<1>5. ASSUME NEW t \in Threads, Decide(t) PROVE RequestInv'
  BY <1>5 DEF Decide, Goto, Return, Idle
<1>6. ASSUME NEW t \in Threads, FindPending(t) PROVE RequestInv'
  <2> DEFINE pending == {r \in RequestIds : requests[r].status = "pending"}
  <2>1. CASE pending = {}
    BY <1>6, <2>1 DEF FindPending, Goto
  <2>2. CASE pending # {}
    <3>1. PICK r \in RequestIds :
            loc' = [loc EXCEPT ![t].request = r] /\ Goto(t, "update")
      BY <1>6, <2>2 DEF FindPending, Newest
    <3> QED BY <3>1, <1>6 DEF FindPending, Goto
  <2> QED BY <2>1, <2>2
<1>7. ASSUME NEW t \in Threads, UpdateFound(t) PROVE RequestInv'
  <2>1. loc[t].request \in RequestIds /\ requests[loc[t].request] \in Request
    BY <1>7 DEF UpdateFound
  <2>2. Merged(requests[loc[t].request], loc[t].op) \in Request
    BY <2>1, MergedIsRequest
  <2> QED BY <2>1, <2>2, <1>7 DEF UpdateFound, Return, Goto, Idle
<1>8. ASSUME NEW t \in Threads, InsertRequest(t) PROVE RequestInv'
  <2> DEFINE row == [ status |-> "pending", origin |-> OriginOf(loc[t].op),
                      predicted |-> loc[t].op = "preflight",
                      before |-> loc[t].op = "preflight",
                      first |-> IF loc[t].op = "preflight" THEN Never ELSE second,
                      created |-> second ]
  <2>1. PICK r \in RequestIds : requests' = [requests EXCEPT ![r] = row]
    BY <1>8 DEF InsertRequest
  <2>2. row \in Request
    BY DEF Request, OriginOf
  <2> HIDE DEF row
  <2>3. requests' \in [RequestIds -> Request]
    BY <2>1, <2>2
  <2> QED BY <1>8, <2>3 DEF InsertRequest, Return, Goto, Idle
<1>9. ASSUME NEW t \in Threads, MarkApproved(t) PROVE RequestInv'
  <2>1. loc[t].request \in RequestIds
    BY <1>9 DEF MarkApproved, Holding
  <2>2. [requests[loc[t].request] EXCEPT !.status = "approved"] \in Request
    BY <2>1 DEF Request
  <2>3. requests' \in [RequestIds -> Request]
    BY <1>9, <2>1, <2>2 DEF MarkApproved
  <2> QED BY <1>9, <2>3 DEF MarkApproved, Return, Goto, Idle
<1>10. ASSUME NEW t \in Threads, Fail(t) PROVE RequestInv'
  BY <1>10 DEF Fail, Return, Goto, Idle
<1>11. CASE Tick
  BY <1>11, SecondsFacts DEF Tick
<1>12. CASE UNCHANGED vars
  BY <1>12 DEF vars
<1> QED
  BY <1>1, <1>2, <1>3, <1>4, <1>5, <1>6, <1>7, <1>8, <1>9, <1>10, <1>11, <1>12
     DEF Next, Handle, ToolCall, Authorize, Preflight, Threads

(* Rows and the threads' variables are well formed.                        *)
THEOREM RequestsTypeCorrect == Spec => []TypeOK
<1>1. RequestInv => TypeOK BY DEF RequestInv
<1> QED BY <1>1, RequestInit, RequestStep, PTL DEF Spec

-----------------------------------------------------------------------------
LEMMA StoryInit == Init => ProvenanceIsOneStory
BY DEF Init, ProvenanceIsOneStory, NoRequest

LEMMA StoryStep ==
  RequestInv /\ ProvenanceIsOneStory /\ [Next]_vars => ProvenanceIsOneStory'
<1> SUFFICES ASSUME RequestInv, ProvenanceIsOneStory, [Next]_vars
             PROVE  ProvenanceIsOneStory'
  OBVIOUS
<1>1. CASE UNCHANGED requests
  BY <1>1 DEF ProvenanceIsOneStory
<1>2. ASSUME NEW t \in Threads, MarkUpdate(t) PROVE ProvenanceIsOneStory'
  BY <1>2 DEF MarkUpdate, RequestInv, TypeOK, Holding, Request, ProvenanceIsOneStory
<1>3. ASSUME NEW t \in Threads, UpdateFound(t) PROVE ProvenanceIsOneStory'
  <2>1. loc[t].request \in RequestIds /\ requests[loc[t].request] \in Request
    BY <1>3 DEF UpdateFound, RequestInv, TypeOK, Holding
  <2>2. OneStory(Merged(requests[loc[t].request], loc[t].op))
    BY <2>1, MergedIsOneStory DEF ProvenanceIsOneStory, OneStory
  <2>3. requests' = [requests EXCEPT ![loc[t].request] =
                       Merged(requests[loc[t].request], loc[t].op)]
    BY <1>3 DEF UpdateFound
  <2> HIDE DEF Merged
  <2> QED BY <2>1, <2>2, <2>3 DEF ProvenanceIsOneStory, OneStory, RequestInv, TypeOK
<1>4. ASSUME NEW t \in Threads, InsertRequest(t) PROVE ProvenanceIsOneStory'
  <2> DEFINE row == [ status |-> "pending", origin |-> OriginOf(loc[t].op),
                      predicted |-> loc[t].op = "preflight",
                      before |-> loc[t].op = "preflight",
                      first |-> IF loc[t].op = "preflight" THEN Never ELSE second,
                      created |-> second ]
  <2>1. OneStory(row)
    BY DEF OneStory, OriginOf
  <2>2. PICK r \in RequestIds : requests' = [requests EXCEPT ![r] = row]
    BY <1>4 DEF InsertRequest
  <2> HIDE DEF row
  <2> QED BY <2>1, <2>2 DEF ProvenanceIsOneStory, OneStory, RequestInv, TypeOK
<1>5. ASSUME NEW t \in Threads, MarkApproved(t) PROVE ProvenanceIsOneStory'
  BY <1>5 DEF MarkApproved, RequestInv, TypeOK, Holding, Request, ProvenanceIsOneStory
<1> QED
  BY <1>1, <1>2, <1>3, <1>4, <1>5
     DEF Next, Handle, ToolCall, Authorize, Preflight, Approve, Start, MarkSelect,
         Decide, FindPending, Fail, Tick, vars

(* Whoever merges whatever into a request, and on however old a reading of *)
(* it, its origin, its prediction and its created_before_tool_call agree.  *)
THEOREM ProvenanceAgrees == Spec => []ProvenanceIsOneStory
<1> QED BY RequestInit, RequestStep, StoryInit, StoryStep, PTL DEF Spec

-----------------------------------------------------------------------------
(* Until two handlers have been at work at once, the one at work holds a   *)
(* row it found without a first call, and nobody else has written it.      *)
Alone == \A t, u \in Threads : t # u /\ pc[t] # "idle" => pc[u] = "idle"

FoundUnseen ==
  \A t \in Threads : pc[t] = "mark_update" => requests[loc[t].request].first = Never

AloneInv == raced \/ (Alone /\ FoundUnseen)

LEMMA AloneInit == MCInit => RequestInv /\ AloneInv
BY RequestInit DEF MCInit, Init, AloneInv, Alone, FoundUnseen

LEMMA AloneStep == RequestInv /\ AloneInv /\ [MCNext]_<<vars, raced>> => RequestInv' /\ AloneInv'
<1> SUFFICES ASSUME RequestInv, AloneInv, [MCNext]_<<vars, raced>> PROVE RequestInv' /\ AloneInv'
  OBVIOUS
<1>1. RequestInv'
  BY RequestStep DEF MCNext, vars
<1>2. CASE UNCHANGED <<vars, raced>>
  BY <1>1, <1>2 DEF AloneInv, Alone, FoundUnseen, vars
<1>3. CASE MCNext /\ ~raced'
  <2>1. ~raced /\ Alone /\ FoundUnseen
    BY <1>3 DEF MCNext, AloneInv
  <2>2. Alone'
    BY <1>3 DEF MCNext, Alone
  <2>3. ASSUME NEW u \in Threads, pc'[u] = "mark_update"
        PROVE  requests'[loc'[u].request].first = Never
    <3>1. ASSUME NEW t \in Threads, MarkSelect(t)
          PROVE requests'[loc'[u].request].first = Never
      <4>1. u = t
        BY <3>1, <2>1, <2>3 DEF MarkSelect, Goto, Alone, RequestInv, TypeOK
      <4>2. PICK r \in Unseen : loc' = [loc EXCEPT ![t].request = r]
        BY <3>1, <2>3, <4>1 DEF MarkSelect, Goto, Oldest, RequestInv, TypeOK
      <4>3. loc'[u].request = r
        BY <4>1, <4>2 DEF RequestInv, TypeOK
      <4> QED BY <4>2, <4>3, <3>1 DEF MarkSelect, Unseen
    <3>2. CASE UNCHANGED requests /\ pc[u] = "mark_update" /\ loc'[u].request = loc[u].request
      BY <3>2, <2>1 DEF FoundUnseen
    <3>3. ASSUME NEW t \in Threads,
                 \/ MarkUpdate(t) \/ Decide(t) \/ FindPending(t) \/ UpdateFound(t)
                 \/ InsertRequest(t) \/ MarkApproved(t) \/ Fail(t)
          PROVE FALSE
      <4>1. pc[t] # "idle" /\ pc'[t] # "mark_update" /\ u # t
        BY <3>3, <2>3
           DEF MarkUpdate, Decide, FindPending, UpdateFound, InsertRequest,
               MarkApproved, Fail, Goto, Return, RequestInv, TypeOK
      <4>2. pc'[u] = pc[u]
        BY <3>3, <4>1
           DEF MarkUpdate, Decide, FindPending, UpdateFound, InsertRequest,
               MarkApproved, Fail, Goto, Return, RequestInv, TypeOK
      <4> QED BY <4>1, <4>2, <2>1, <2>3 DEF Alone
    <3>4. ASSUME NEW t \in Threads, NEW op, NEW r, NEW label,
                 label \notin {"mark_update", "idle"}, Start(t, op, r, label)
          PROVE FALSE
      <4>1. u # t /\ pc[u] = "mark_update"
        BY <3>4, <2>3 DEF Start, Goto, RequestInv, TypeOK
      <4>2. pc'[t] = label /\ pc'[u] # "idle"
        BY <3>4, <2>3 DEF Start, Goto, RequestInv, TypeOK
      <4> QED BY <4>1, <4>2, <2>1, <2>2, <3>4, <2>3 DEF Alone, Start
    <3>5. CASE Tick
      BY <3>5, <2>3, <3>2 DEF Tick
    <3> QED
      BY <1>3, <3>1, <3>3, <3>4, <3>5
         DEF MCNext, Next, Handle, ToolCall, Authorize, Preflight, Approve, Threads
  <2> QED BY <1>1, <2>2, <2>3 DEF AloneInv, FoundUnseen
<1>4. CASE MCNext /\ raced'
  BY <1>1, <1>4 DEF AloneInv
<1> QED BY <1>2, <1>3, <1>4

LEMMA FirstCallStep ==
  RequestInv /\ AloneInv /\ [MCNext]_<<vars, raced>> =>
    [raced' \/ \A r \in RequestIds :
       requests[r].first # Never => requests'[r].first = requests[r].first]_vars
<1> SUFFICES ASSUME RequestInv, AloneInv, MCNext, ~raced', NEW r \in RequestIds,
                    requests[r].first # Never
             PROVE  requests'[r].first = requests[r].first
  BY DEF MCNext, vars
<1>1. FoundUnseen
  BY DEF MCNext, AloneInv
<1>2. CASE UNCHANGED requests
  BY <1>2
<1>3. ASSUME NEW t \in Threads, MarkUpdate(t) PROVE requests'[r].first = requests[r].first
  <2>1. r # loc[t].request
    BY <1>1, <1>3 DEF MarkUpdate, FoundUnseen
  <2> QED BY <1>3, <2>1 DEF MarkUpdate, RequestInv, TypeOK
<1>4. ASSUME NEW t \in Threads, UpdateFound(t) PROVE requests'[r].first = requests[r].first
  BY <1>4 DEF UpdateFound, Merged, RequestInv, TypeOK, Holding, Request
<1>5. ASSUME NEW t \in Threads, InsertRequest(t) PROVE requests'[r].first = requests[r].first
  BY <1>5 DEF InsertRequest, NoRequest, RequestInv, TypeOK
<1>6. ASSUME NEW t \in Threads, MarkApproved(t) PROVE requests'[r].first = requests[r].first
  BY <1>6 DEF MarkApproved, RequestInv, TypeOK, Holding, Request
<1> QED
  BY <1>2, <1>3, <1>4, <1>5, <1>6
     DEF MCNext, Next, Handle, ToolCall, Authorize, Preflight, Approve, Start,
         MarkSelect, Decide, FindPending, Fail, Tick

(* Whatever order preflights, calls, authorizations and approvals come in, *)
(* and wherever they fail, as long as each is served to its end before the *)
(* next begins a request keeps the time of its first tool call.            *)
THEOREM FirstCallKept == MCSpec => FirstCallIsKeptAlone
<1> QED
  BY AloneInit, AloneStep, FirstCallStep, PTL DEF MCSpec, FirstCallIsKeptAlone
=============================================================================
