---------------------------- MODULE SandboxPolicy ----------------------------
(***************************************************************************)
(* The decision of scripts/evaluate_sandbox_requirement.py: what a pull    *)
(* request has to show before it may be merged, and whether a sandbox may  *)
(* be built for it. A changed file is abstracted to the class of patterns  *)
(* it matches, a label to its presence and to whether the calling workflow *)
(* trusts it (sandbox-auto-apply.yml, freshForHead and trusted).           *)
(***************************************************************************)
EXTENDS Naturals, FiniteSets

DeployLabels == {"deploy-sandbox", "deploy-preview"}
SelfApprove == "allow-self-approve"
Skip == "skip-sandbox-approved"
Validated == "sandbox-validated"
Labels == DeployLabels \cup {SelfApprove, Skip, Validated, "sandbox-active", "teardown-sandbox"}

(* The classes of paths the pattern lists tell apart: "control" stands for
   .github/actions, .github/workflows, aws, deploy, policies and terraform,
   "contract" for images, compose files and scripts that are heavy and not
   critical, "contractScript" for CODEOWNERS and the two scripts that are
   both, "evaluator" for the evaluator itself and "access" for iam, network
   and auth, which are critical and match no heavy pattern. *)
Paths == {"control", "nginx", "contract", "contractScript", "migration",
          "backend", "frontend-admin", "edge-client", "evaluator", "access", "other"}

HeavyReasons ==
    { {"control", "nginx"}, {"contract", "contractScript"}, {"migration"} }
Critical == {"control", "nginx", "contractScript", "migration", "evaluator", "access"}
Surfaces ==
    { {"backend", "migration"}, {"frontend-admin"}, {"edge-client"}, {"nginx"} }

Touched(areas, files) == {a \in areas : a \cap files # {}}
CrossService(files) == \E a, b \in Touched(Surfaces, files) : a # b
Heavy(files) == Touched(HeavyReasons, files) # {} \/ CrossService(files)

(* What the evaluator is given. "trusted" is the set of labels whose latest
   labelling the workflow trusts; "owners" the code owners of the changed
   files, {} without a CODEOWNERS file as when nothing matches. *)
Users == {"author", "reviewer"}
Requests ==
    [sameRepo : BOOLEAN, draft : BOOLEAN, dependabot : BOOLEAN,
     files : SUBSET Paths, trusted : SUBSET Labels,
     approvers : SUBSET Users, owners : SUBSET Users, selfApprove : BOOLEAN]

Enforceable(r) == r.sameRepo /\ ~r.draft /\ ~r.dependabot
Required(r) == Heavy(r.files) /\ r.files \cap Critical # {} /\ Enforceable(r)
Recommended(r) == Heavy(r.files) /\ r.files \cap Critical = {} /\ Enforceable(r)
DeployTrusted(r) == r.trusted \cap DeployLabels # {}
SelfApproved(r) ==
    /\ r.approvers \cap r.owners = {}
    /\ r.selfApprove /\ SelfApprove \in r.trusted /\ r.owners = {"author"}
ApprovalException(r) ==
    IF r.owners = {} THEN r.approvers # {}
                     ELSE r.approvers \cap r.owners # {} \/ SelfApproved(r)
Governed(r) == Required(r) => r.trusted \cap {Validated, Skip} # {}
Block(r) == Required(r) /\ ~Governed(r)
AutoApplyEligible(r) == Enforceable(r) /\ DeployTrusted(r) /\ r.trusted \cap {Validated, Skip} = {}

Decision(r) ==
    CASE ~Heavy(r.files)                     -> "pass"
      [] Heavy(r.files) /\ ~Enforceable(r)   -> "advisory"
      [] Required(r) /\ Validated \in r.trusted -> "pass"
      [] Required(r) /\ Validated \notin r.trusted /\ Skip \in r.trusted -> "pass"
      [] Required(r) /\ Validated \notin r.trusted /\ Skip \notin r.trusted -> "fail"
      [] OTHER -> "pass"

GovernanceMode(r) ==
    IF ~Heavy(r.files) THEN "fast"
    ELSE IF Validated \in r.trusted THEN "sandbox_validated"
    ELSE IF Skip \in r.trusted THEN "sandbox_waived"
    ELSE IF DeployTrusted(r) THEN "sandbox_deploy_requested"
    ELSE IF Required(r) THEN "sandbox_required"
    ELSE IF Recommended(r) THEN "sandbox_recommended"
    ELSE IF SelfApproved(r) THEN "self_approved"
    ELSE IF ApprovalException(r) THEN "approved"
    ELSE IF Block(r) THEN "blocked" ELSE "advisory"
=============================================================================
