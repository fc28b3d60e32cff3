------------------------------ MODULE MCPolicy ------------------------------
(* The contexts decide() is asked about.  Its direct callers may pass any  *)
(* facts: two slices of the context space, one through the facts the hard  *)
(* denies read and one through the facts the approval paths read, each     *)
(* with the other facts at the values that let the paths fire.             *)
(* run_authorize passes what a graph backend knows of a request.           *)
EXTENDS PolicyEngine

Permissive ==
  [ schema_valid |-> TRUE, schema_repairable |-> FALSE,
    delegation_present |-> TRUE, same_team |-> TRUE,
    agent_trust_score |-> NoScore, recipe_id |-> FALSE, context_path |-> 2,
    context_snapshot_present |-> "absent", recipe_predicts_tool |-> TRUE,
    similarity_score |-> NoScore, similarity_reified |-> TRUE,
    scope_approval_mode |-> "auto_approve", grant_present |-> FALSE,
    access_kind |-> "write", resource_external |-> FALSE,
    resource_sensitivity |-> "absent", tool_risk |-> "medium",
    credential |-> "not_required", external_write_predicted |-> FALSE,
    admin_scope |-> FALSE, break_glass |-> FALSE, violations |-> {} ]

Schemas == {<<TRUE, FALSE>>, <<FALSE, TRUE>>, <<FALSE, FALSE>>}

(* Whether the caller names a recipe, and the length of its context path.  *)
Recipes == {<<FALSE, 0>>, <<FALSE, 1>>, <<FALSE, 2>>, <<TRUE, 0>>}

DenySlice ==
  { [Permissive EXCEPT
       !.schema_valid = schema[1], !.schema_repairable = schema[2],
       !.delegation_present = deleg, !.same_team = team,
       !.agent_trust_score = trust,
       !.recipe_id = recipe[1], !.context_path = recipe[2],
       !.context_snapshot_present = snap, !.recipe_predicts_tool = pred,
       !.similarity_score = score, !.similarity_reified = reified,
       !.resource_external = ext, !.external_write_predicted = extpred,
       !.grant_present = grant, !.violations = viol] :
     schema \in Schemas, deleg \in BOOLEAN, team \in BOOLEAN,
     trust \in {TRUST_SCORE_MIN - 1, TRUST_SCORE_MIN, TRUST_SCORE_SENSITIVE},
     recipe \in Recipes, snap \in {"absent", "true"}, pred \in BOOLEAN,
     score \in {RECIPE_THRESHOLD - 1, RECIPE_THRESHOLD}, reified \in BOOLEAN,
     ext \in BOOLEAN, extpred \in {FALSE}, grant \in BOOLEAN,
     viol \in {{}, {"bulk_export"}} }

PathSlice ==
  { [Permissive EXCEPT
       !.agent_trust_score = trust, !.scope_approval_mode = mode,
       !.recipe_id = recipe[1], !.context_path = recipe[2],
       !.grant_present = grant, !.access_kind = kind,
       !.resource_external = ext, !.external_write_predicted = extpred,
       !.resource_sensitivity = sens, !.tool_risk = risk,
       !.credential = cred, !.admin_scope = admin,
       !.break_glass = admin, !.similarity_score = score] :
     trust \in {NoScore, TRUST_SCORE_SENSITIVE - 1, TRUST_SCORE_SENSITIVE},
     recipe \in {<<FALSE, 2>>, <<TRUE, 0>>}, mode \in {"none", "auto_approve", "human_required"}, grant \in BOOLEAN,
     kind \in {"read", "write"}, ext \in BOOLEAN, extpred \in BOOLEAN,
     sens \in {"absent", "high"}, risk \in {"low", "high"},
     cred \in {"not_required", "inactive", "missing"},
     admin \in BOOLEAN, score \in {NoScore, RECIPE_THRESHOLD - 1} }

Requests ==
  { [ delegation_present |-> deleg, same_team |-> team, trust |-> trust,
      recipe_matched |-> matched, recipe_predicts_tool |-> pred,
      scope_approval_mode |-> mode, grant_present |-> grant,
      access_kind |-> kind, external |-> ext, sensitivity |-> sens,
      tool_risk |-> risk, binding |-> bind ] :
    deleg \in BOOLEAN, team \in BOOLEAN,
    trust \in {NoScore, TRUST_SCORE_MIN - 1, TRUST_SCORE_SENSITIVE - 1, TRUST_SCORE_SENSITIVE},
    matched \in BOOLEAN, pred \in BOOLEAN,
    mode \in {"none", "auto_approve", "human_required"}, grant \in BOOLEAN,
    kind \in {"read", "write"}, ext \in BOOLEAN,
    sens \in {"normal"}, risk \in {"low", "high"}, bind \in {TRUE} }

(* The seeded demo call: a delegated agent of trust 0.92 creates a Linear  *)
(* issue for its own team on the seeded grant.                             *)
DemoRequest ==
  [ delegation_present |-> TRUE, same_team |-> TRUE, trust |-> 92,
    recipe_matched |-> TRUE, recipe_predicts_tool |-> TRUE,
    scope_approval_mode |-> "auto_approve", grant_present |-> TRUE,
    access_kind |-> "write", external |-> FALSE, sensitivity |-> "normal",
    tool_risk |-> "medium", binding |-> TRUE ]

ServedContexts == {GatewayContext(g, MemgraphScore(g)) : g \in Requests}

(* The goal seed_demo writes holds neither the goal class nor the title.   *)
DemoContexts == {GatewayContext(DemoRequest, FallbackScore(DemoRequest, FALSE, FALSE))}

MCContexts == DenySlice \cup PathSlice \cup ServedContexts \cup DemoContexts
=============================================================================
