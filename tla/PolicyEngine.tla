---------------------------- MODULE PolicyEngine ----------------------------
(***************************************************************************)
(* The policy engine of platform/cozo_policy.py: the compiler that turns a *)
(* gateway context into relations, the Cozo rules that derive candidate    *)
(* decisions from them, the max-precedence query that selects one, and the *)
(* Python ladder written as its fallback.                                  *)
(*                                                                         *)
(* Identifiers are abstracted: one session, tool, resource and scope are   *)
(* asked about at a time, so a relation of the code is a field saying      *)
(* whether (or with what) the one row that can match is present.  Scores   *)
(* are percentages.                                                        *)
(***************************************************************************)
EXTENDS Integers, FiniteSets

CONSTANTS Contexts,              \* the contexts decide() is asked about
          TRUST_SCORE_MIN,       \* config.py: 0.5
          TRUST_SCORE_SENSITIVE, \* config.py: 0.8
          RECIPE_THRESHOLD       \* the 0.82 of the Cozo rules

NoScore == -1
Score == {NoScore} \cup 0..100

ViolationKinds ==
  {"direct_secret_read", "secret_exposure", "bulk_export", "goal_expansion"}

(* What a caller puts in ctx and ctx["facts"].  "absent" and NoScore stand *)
(* for a key that is missing; recipe_id says whether ctx names a recipe,   *)
(* context_path how many elements the path has, 2 standing for 2 or more;  *)
(* credential says which tool_credential and credential_binding rows the   *)
(* facts produce.                                                          *)
Context ==
  [ schema_valid : BOOLEAN, schema_repairable : BOOLEAN,
    delegation_present : BOOLEAN, same_team : BOOLEAN,
    agent_trust_score : Score, recipe_id : BOOLEAN, context_path : 0..2,
    context_snapshot_present : {"absent", "true", "false"},
    recipe_predicts_tool : BOOLEAN, similarity_score : Score,
    similarity_reified : BOOLEAN,
    scope_approval_mode : {"none", "auto_approve", "human_required"},
    grant_present : BOOLEAN, access_kind : {"read", "write"},
    resource_external : BOOLEAN,
    resource_sensitivity : {"absent", "low", "normal", "high", "restricted"},
    tool_risk : {"low", "medium", "high"},
    credential : {"not_required", "active", "inactive", "exposing", "missing"},
    external_write_predicted : BOOLEAN, admin_scope : BOOLEAN,
    break_glass : BOOLEAN, violations : SUBSET ViolationKinds ]

ASSUME PolicyAssumption ==
  /\ Contexts \subseteq Context
  /\ TRUST_SCORE_MIN \in 0..100
  /\ TRUST_SCORE_SENSITIVE \in TRUST_SCORE_MIN..100
  /\ RECIPE_THRESHOLD \in 1..100

-----------------------------------------------------------------------------
(* compile_policy_facts.  The recipe is the one ctx names, else the second *)
(* element of the context path, else "recipe_unknown", which has no rows;  *)
(* the context_path relation wants a path of any length.  The defaults     *)
(* depend on other facts.                                                  *)
Below(score, bound) == score # NoScore /\ score < bound

RecipeKnown(c) == c.recipe_id \/ c.context_path >= 2

HasPath(c) == c.context_path > 0

Compile(c) ==
  [ schema_valid |-> c.schema_valid,
    schema_repairable |-> c.schema_repairable,
    delegation |-> c.delegation_present,
    same_team |-> c.same_team,
    below_minimum |-> Below(c.agent_trust_score, TRUST_SCORE_MIN),
    below_sensitive |-> Below(c.agent_trust_score, TRUST_SCORE_SENSITIVE),
    similar |-> RecipeKnown(c),
    score |-> IF c.similarity_score # NoScore THEN c.similarity_score
              ELSE IF RecipeKnown(c) THEN 100 ELSE 0,
    reified |-> c.similarity_reified,
    recipe_tool |-> c.recipe_predicts_tool /\ RecipeKnown(c),
    recipe_scope |-> IF RecipeKnown(c) THEN c.scope_approval_mode ELSE "none",
    current_grant |-> c.grant_present,
    context_path |-> HasPath(c),
    access_kind |-> c.access_kind,
    risk |-> c.tool_risk,
    external |-> c.resource_external,
    sensitivity |-> IF c.resource_sensitivity # "absent" THEN c.resource_sensitivity
                    ELSE IF c.resource_external THEN "high" ELSE "normal",
    credential |-> c.credential,
    admin_scope |-> c.admin_scope,
    break_glass |-> c.break_glass,
    external_write_predicted |-> c.external_write_predicted,
    violations |-> c.violations,
    context_snapshot_present |->
      IF c.context_snapshot_present = "absent" THEN HasPath(c)
      ELSE c.context_snapshot_present = "true" ]

-----------------------------------------------------------------------------
(* Variant of AcceptedMatch: the threshold is forgotten.                   *)
AcceptedMatchUnscored(r) == r.similar /\ r.reified

(* The derived relations of COZO_POLICY_RULES.                             *)
AcceptedMatch(r) == r.similar /\ r.reified /\ r.score >= RECIPE_THRESHOLD

RecipePredictsTool(r) == AcceptedMatch(r) /\ r.recipe_tool

RecipePredictsScope(r) == AcceptedMatch(r) /\ r.recipe_scope # "none"

ExternalWrite(r) == r.access_kind = "write" /\ r.external

(* Variant of LowTrustExternalWrite: any write counts.                     *)
LowTrustWrite(r) == r.access_kind = "write" /\ r.below_sensitive

LowTrustExternalWrite(r) == ExternalWrite(r) /\ r.below_sensitive

ResourceAutoApprovable(r) == ~r.external /\ r.sensitivity \in {"low", "normal"}

(* Variant of CredentialOk: a binding is enough, active or not.            *)
CredentialBound(r) == r.credential # "missing"

CredentialOk(r) == r.credential \in {"not_required", "active"}

HardDenyFires(r) ==
  [ deny_schema_invalid |-> ~r.schema_valid /\ ~r.schema_repairable,
    deny_no_delegation |-> ~r.delegation,
    deny_low_trust |-> r.below_minimum,
    deny_wrong_team |-> ~r.same_team,
    deny_unpredicted_tool |-> r.schema_valid /\ ~RecipePredictsTool(r),
    deny_external_write |-> /\ ExternalWrite(r)
                            /\ ~r.external_write_predicted
                            /\ ~LowTrustExternalWrite(r),
    deny_admin_scope |-> r.admin_scope /\ ~r.break_glass,
    deny_direct_secret_read |-> "direct_secret_read" \in r.violations,
    deny_secret_exposure |-> "secret_exposure" \in r.violations,
    deny_bulk_export |-> "bulk_export" \in r.violations,
    deny_goal_expansion |-> "goal_expansion" \in r.violations,
    deny_unreified_recipe_hit |-> r.similar /\ ~r.reified,
    deny_missing_context_path |-> r.context_snapshot_present /\ ~r.context_path ]

HardDenyRules ==
  { "deny_schema_invalid", "deny_no_delegation", "deny_low_trust",
    "deny_wrong_team", "deny_unpredicted_tool", "deny_external_write",
    "deny_admin_scope", "deny_direct_secret_read", "deny_secret_exposure",
    "deny_bulk_export", "deny_goal_expansion", "deny_unreified_recipe_hit",
    "deny_missing_context_path" }

(* Variant of HardDenies: deny_low_trust is left out of the hard_deny set. *)
HardDeniesWithoutTrust(r) ==
  LET fires == HardDenyFires(r)
  IN  {name \in HardDenyRules \ {"deny_low_trust"} : fires[name]}

HardDenies(r) ==
  LET fires == HardDenyFires(r) IN {name \in HardDenyRules : fires[name]}

(* The bodies of the candidate rules below the hard denies, without the    *)
(* negated hard_deny atom each of them ends with.                          *)
PathRuleFires(r) ==
  [ repair_schema_args |-> ~r.schema_valid /\ r.schema_repairable,
    escalate_low_trust_external |->
      /\ r.schema_valid /\ RecipePredictsTool(r) /\ r.same_team
      /\ LowTrustExternalWrite(r),
    allow_current_grant |->
      /\ r.schema_valid /\ r.current_grant /\ r.same_team
      /\ RecipePredictsTool(r) /\ r.context_path,
    auto_approve_recipe_scope |->
      /\ r.schema_valid /\ RecipePredictsTool(r) /\ RecipePredictsScope(r)
      /\ r.recipe_scope = "auto_approve" /\ r.same_team
      /\ r.risk \in {"low", "medium"} /\ ResourceAutoApprovable(r)
      /\ CredentialOk(r) /\ ~r.current_grant,
    escalate_human_required_scope |->
      /\ r.schema_valid /\ RecipePredictsTool(r) /\ RecipePredictsScope(r)
      /\ r.recipe_scope = "human_required" /\ r.same_team
      /\ r.context_path /\ ~r.current_grant ]

PathRules ==
  { "repair_schema_args", "escalate_low_trust_external", "allow_current_grant",
    "auto_approve_recipe_scope", "escalate_human_required_scope" }

Rules == HardDenyRules \cup PathRules \cup {"deny_default"}

Candidates(r) ==
  LET denies == HardDenies(r)
      fires  == PathRuleFires(r)
  IN  {"deny_default"} \cup denies \cup
        {name \in PathRules : denies = {} /\ fires[name]}

Precedence ==
  [ deny_low_trust |-> 110, deny_direct_secret_read |-> 109,
    deny_secret_exposure |-> 108, deny_bulk_export |-> 107,
    deny_goal_expansion |-> 106, deny_admin_scope |-> 105,
    deny_external_write |-> 104, deny_unreified_recipe_hit |-> 103,
    deny_missing_context_path |-> 102, deny_no_delegation |-> 101,
    deny_wrong_team |-> 100, deny_unpredicted_tool |-> 99,
    deny_schema_invalid |-> 98, repair_schema_args |-> 80,
    escalate_low_trust_external |-> 75, allow_current_grant |-> 70,
    auto_approve_recipe_scope |-> 60, escalate_human_required_scope |-> 50,
    deny_default |-> 10 ]

Decisions ==
  {"ALLOW", "AUTO_APPROVE_EPHEMERAL_GRANT", "ESCALATE_HUMAN", "DENY", "REPAIR"}

DecisionOf(name) ==
  CASE name = "allow_current_grant" -> "ALLOW"
    [] name = "auto_approve_recipe_scope" -> "AUTO_APPROVE_EPHEMERAL_GRANT"
    [] name \in {"escalate_low_trust_external", "escalate_human_required_scope"}
         -> "ESCALATE_HUMAN"
    [] name = "repair_schema_args" -> "REPAIR"
    [] OTHER -> "DENY"

(* Variant of Outranks: the hard denies share one precedence.              *)
OutranksInBands(a, b) == Precedence[a] >= Precedence[b] \/ Precedence[a] >= 98

Outranks(a, b) == Precedence[a] >= Precedence[b]

(* COZO_EFFECTIVE_QUERY: the candidates of the greatest precedence.        *)
Effective(r) ==
  LET candidates == Candidates(r)
  IN  {name \in candidates : \A other \in candidates : Outranks(name, other)}

-----------------------------------------------------------------------------
(* Variant of PyHardDenies: the ladder lets an unpredicted tool through.   *)
PyHardDeniesAnyTool(r) ==
  LET fires == HardDenyFires(r)
  IN  {name \in HardDenyRules \ {"deny_unpredicted_tool"} : fires[name]}

(* _evaluate_with_python, the ladder that _evaluate_with_cozo would fall   *)
(* back to.  It reads the same rows and ignores the similarity score.      *)
PyHardDenies(r) ==
  LET fires == [HardDenyFires(r) EXCEPT
                  !.deny_unpredicted_tool = r.schema_valid /\ ~r.recipe_tool]
  IN  {name \in HardDenyRules : fires[name]}

PyPathRuleFires(r) ==
  [ repair_schema_args |-> ~r.schema_valid /\ r.schema_repairable,
    escalate_low_trust_external |->
      /\ r.schema_valid /\ r.recipe_tool /\ r.same_team
      /\ LowTrustExternalWrite(r),
    allow_current_grant |->
      /\ r.schema_valid /\ r.current_grant /\ r.same_team
      /\ r.recipe_tool /\ r.context_path,
    auto_approve_recipe_scope |->
      /\ r.schema_valid /\ ~r.current_grant /\ r.recipe_tool
      /\ r.recipe_scope = "auto_approve" /\ r.same_team
      /\ r.risk \in {"low", "medium"}
      /\ r.sensitivity \in {"low", "normal"} /\ ~r.external /\ CredentialOk(r),
    escalate_human_required_scope |->
      /\ r.schema_valid /\ ~r.current_grant /\ r.recipe_tool
      /\ r.recipe_scope = "human_required" /\ r.same_team /\ r.context_path ]

PyCandidates(r) ==
  LET denies == PyHardDenies(r)
      fires  == PyPathRuleFires(r)
  IN  {"deny_default"} \cup denies \cup
        {name \in PathRules : denies = {} /\ fires[name]}

PyRule(r) ==
  LET candidates == PyCandidates(r)
  IN  CHOOSE name \in candidates :
        \A other \in candidates : Outranks(name, other)

-----------------------------------------------------------------------------
(* What run_authorize passes to decide().  g is what the graph knows of    *)
(* the request; the path is the session, the recipe if one matched, the    *)
(* tool and more, so it always has a second element (the tool stands in    *)
(* for a recipe) and no recipe_id is passed; a snapshot has just been      *)
(* saved; schema, violation, admin and external-posting facts are never    *)
(* supplied.                                                               *)
GraphFacts ==
  [ delegation_present : BOOLEAN, same_team : BOOLEAN, trust : Score,
    recipe_matched : BOOLEAN, recipe_predicts_tool : BOOLEAN,
    scope_approval_mode : {"none", "auto_approve", "human_required"},
    grant_present : BOOLEAN, access_kind : {"read", "write"},
    external : BOOLEAN,
    sensitivity : {"low", "normal", "high", "restricted"},
    tool_risk : {"low", "medium", "high"}, binding : BOOLEAN ]

GatewayContext(g, score) ==
  [ schema_valid |-> TRUE, schema_repairable |-> FALSE,
    delegation_present |-> g.delegation_present,
    same_team |-> g.same_team,
    agent_trust_score |-> g.trust,
    recipe_id |-> FALSE, context_path |-> 2, context_snapshot_present |-> "true",
    recipe_predicts_tool |-> g.recipe_matched /\ g.recipe_predicts_tool,
    similarity_score |-> score, similarity_reified |-> TRUE,
    scope_approval_mode |-> IF g.recipe_matched THEN g.scope_approval_mode ELSE "none",
    grant_present |-> g.grant_present,
    access_kind |-> g.access_kind,
    resource_external |-> g.external,
    resource_sensitivity |-> g.sensitivity,
    tool_risk |-> g.tool_risk,
    credential |-> IF g.binding THEN "active" ELSE "not_required",
    external_write_predicted |-> FALSE, admin_scope |-> FALSE,
    break_glass |-> FALSE, violations |-> {} ]

(* The similarity score each backend reports: Memgraph a constant, the     *)
(* in-process graph the search score that save_recipe_hits has persisted.  *)
MemgraphScore(g) == IF g.recipe_matched THEN 100 ELSE 0

FallbackScore(g, class_in_goal, title_in_goal) ==
  IF ~g.recipe_matched THEN 0
  ELSE 60 + (IF class_in_goal THEN 20 ELSE 0) + (IF title_in_goal THEN 20 ELSE 0)

-----------------------------------------------------------------------------
(* decide(): one context is asked about and answered; a query that does    *)
(* not return exactly one effective row raises RuntimeError.               *)
VARIABLES ctx,  \* the context given to decide()
          rule  \* the winning rule, "unasked", or "RuntimeError"

policyVars == <<ctx, rule>>

PolicyInit == ctx \in Contexts /\ rule = "unasked"

EvaluateWithCozo ==
  LET rows == Effective(Compile(ctx)) IN
  /\ rule = "unasked"
  /\ \/ /\ Cardinality(rows) = 1
        /\ rule' \in rows
     \/ /\ Cardinality(rows) # 1
        /\ rule' = "RuntimeError"
  /\ UNCHANGED ctx

PolicyNext == EvaluateWithCozo
PolicySpec == PolicyInit /\ [][PolicyNext]_policyVars
-----------------------------------------------------------------------------
Asked == rule # "unasked"
Executes == rule \in {"allow_current_grant", "auto_approve_recipe_scope"}

(* The context is well formed and the answer is the name of a rule.        *)
PolicyTypeOK ==
  /\ ctx \in Context
  /\ rule \in Rules \cup {"unasked", "RuntimeError"}

(* _evaluate_with_cozo raises RuntimeError unless exactly one candidate    *)
(* has the greatest precedence: no two rules that can fire together tie.   *)
OneEffectiveDecision == rule # "RuntimeError"

(* ALLOW and AUTO_APPROVE_EPHEMERAL_GRANT are the decisions the gateway    *)
(* executes.  Stated on the caller's facts, whatever the defaults of the   *)
(* compiler and the precedences do: the call is delegated, on the          *)
(* session's team, predicted by a recipe that the caller or the path names *)
(* and whose recorded score reaches the threshold, free of violations, and *)
(* an external write is both predicted and made by a sufficiently trusted  *)
(* agent.  A context path may be missing only where no snapshot of the     *)
(* context is claimed and no grant is used: auto_approve_recipe_scope does *)
(* not ask for the path.                                                   *)
ExecutableIsEarned ==
  Executes =>
    /\ ctx.schema_valid /\ ctx.delegation_present /\ ctx.same_team
    /\ RecipeKnown(ctx) /\ ctx.recipe_predicts_tool /\ ctx.similarity_reified
    /\ ~HasPath(ctx) => /\ ctx.context_snapshot_present # "true"
                        /\ ~ctx.grant_present
    /\ ~Below(ctx.similarity_score, RECIPE_THRESHOLD)
    /\ ~Below(ctx.agent_trust_score, TRUST_SCORE_MIN)
    /\ ctx.violations = {}
    /\ ctx.admin_scope => ctx.break_glass
    /\ ctx.access_kind = "write" /\ ctx.resource_external =>
         /\ ctx.external_write_predicted
         /\ ~Below(ctx.agent_trust_score, TRUST_SCORE_SENSITIVE)

(* A standing grant is the only way past the limits of auto-approval: a    *)
(* call that executes on a high-risk tool, an external or sensitive        *)
(* resource, a credential that is missing, inactive or exposed, or a scope *)
(* no recipe auto-approves, executes on a grant.                           *)
AutoApprovalIsBounded ==
  Executes /\ ~ctx.grant_present =>
    /\ ctx.scope_approval_mode = "auto_approve"
    /\ ctx.tool_risk # "high"
    /\ ctx.resource_sensitivity \notin {"high", "restricted"}
    /\ ~ctx.resource_external
    /\ ctx.credential \in {"not_required", "active"}

(* The contexts that differ from c by one fact lost or one violation more. *)
Worse(c) ==
  { [c EXCEPT !.delegation_present = FALSE], [c EXCEPT !.same_team = FALSE],
    [c EXCEPT !.recipe_predicts_tool = FALSE],
    [c EXCEPT !.similarity_reified = FALSE], [c EXCEPT !.similarity_score = 0],
    [c EXCEPT !.context_path = 0, !.context_snapshot_present = "true"],
    [c EXCEPT !.agent_trust_score = 0],
    [c EXCEPT !.scope_approval_mode = "none"] } \cup
  { [c EXCEPT !.violations = @ \cup {v}] : v \in ViolationKinds }

Rank(decision) ==
  CASE decision = "DENY" -> 0 [] decision = "REPAIR" -> 1
    [] decision = "ESCALATE_HUMAN" -> 2 [] OTHER -> 3

(* Losing a fact never helps: whatever decide() answers, it answers        *)
(* nothing more permissive to the same call with one enabling fact gone or *)
(* one violation added (denial over repair over escalation over            *)
(* execution).  Trust is lost as a whole: an external write that nothing   *)
(* predicted is denied to a fully trusted agent and escalated for one      *)
(* between the two bounds, so trust that is only lowered can help.  So can *)
(* the loss of the recipe itself, with which an unreified hit is gone; the *)
(* path is lost from a context whose snapshot was recorded.                *)
LosingFactsNeverHelps ==
  rule \in Rules =>
    \A c \in Worse(ctx) : \A r \in Effective(Compile(c)) :
      Rank(DecisionOf(r)) <= Rank(DecisionOf(rule))

(* A call with a standing grant is never sent back to a human, unless it   *)
(* is an external write by an agent below the sensitive trust bound, which *)
(* no grant unlocks.                                                       *)
GrantEndsEscalation ==
  Asked /\ DecisionOf(rule) = "ESCALATE_HUMAN" /\ ctx.grant_present =>
    /\ ctx.access_kind = "write" /\ ctx.resource_external
    /\ Below(ctx.agent_trust_score, TRUST_SCORE_SENSITIVE)

(* The two engines give one answer, by the same rule, on every context in  *)
(* which the recorded score is absent or reaches the recipe threshold.     *)
FallbackAgreesAboveThreshold ==
  Asked /\ ~Below(ctx.similarity_score, RECIPE_THRESHOLD) =>
    rule = PyRule(Compile(ctx))
=============================================================================
