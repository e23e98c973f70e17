---------------------------- MODULE SandboxProofs ----------------------------
(***************************************************************************)
(* Theorems about the sandboxes of pull requests: what the evaluator       *)
(* decides for every request, and for every number of roots, heads, people *)
(* and kinds of resources that the lifecycle keeps its types, loses no     *)
(* sandbox from sight and lets no head pass for another one's validation.  *)
(***************************************************************************)
EXTENDS SandboxLifecycle, TLAPS

-----------------------------------------------------------------------------
(* The evaluator (scripts/evaluate_sandbox_requirement.py). *)

(* The job fails exactly when the gate blocks: the decision and the verdict
   that merge protection reads never disagree (evaluate_policy). *)
THEOREM FailsWhenBlocked ==
    \A r \in Requests : (Decision(r) = "fail") <=> Block(r)
BY DEF Decision, Block, Governed, Required, Requests

(* Auto Apply builds only what is reported as fast or as waiting for the
   sandbox it asked for, and a critical pull request it builds for is still
   blocked: auto_apply_eligible and governanceMode never contradict. *)
THEOREM EligibleIsAwaited ==
    \A r \in Requests :
        AutoApplyEligible(r) =>
            /\ GovernanceMode(r) \in {"fast", "sandbox_deploy_requested"}
            /\ Required(r) => Block(r)
BY DEF AutoApplyEligible, GovernanceMode, Required, Block, Governed, Requests

(* Whatever the gate blocks is on its way to a sandbox or is told that it
   needs one: the mode "blocked" at the end of the chain is never reached. *)
THEOREM NeverModeBlocked ==
    \A r \in Requests : GovernanceMode(r) # "blocked"
BY DEF GovernanceMode, Block, Required, Recommended, Enforceable, Requests

(* Touching more never opens the gate: a file added to a pull request, which
   may bring in a surface of its own, leaves a heavy change heavy, a required
   sandbox required and a blocked merge blocked (evaluate_policy). *)
THEOREM MoreFilesNeverRelax ==
    ASSUME NEW r \in Requests, NEW s \in Requests,
           r.files \subseteq s.files, s = [r EXCEPT !.files = s.files]
    PROVE  /\ Heavy(r.files) => Heavy(s.files)
           /\ Required(r) => Required(s)
           /\ Block(r) => Block(s)
<1>1. \A areas : Touched(areas, r.files) \subseteq Touched(areas, s.files)
  BY DEF Touched
<1>2. CrossService(r.files) => CrossService(s.files)
  BY <1>1 DEF CrossService
<1>3. Heavy(r.files) => Heavy(s.files)
  BY <1>1, <1>2 DEF Heavy
<1>4. s.trusted = r.trusted /\ Enforceable(s) = Enforceable(r)
  BY DEF Requests, Enforceable
<1>5. Required(r) => Required(s)
  BY <1>3, <1>4 DEF Required
<1> QED BY <1>3, <1>4, <1>5 DEF Block, Governed

(* Trust only opens the gate: a label trusted in addition never makes the job
   fail, and it is one of the two that validate or waive, of which either will
   do, that lets a required one through (evaluate_policy). *)
THEOREM TrustOnlyOpens ==
    ASSUME NEW r \in Requests, NEW s \in Requests,
           r.trusted \subseteq s.trusted, s = [r EXCEPT !.trusted = s.trusted]
    PROVE  /\ Block(s) => Block(r)
           /\ Block(r) /\ ~Block(s) => (s.trusted \ r.trusted) \cap {Validated, Skip} # {}
<1>1. s.files = r.files /\ Enforceable(s) = Enforceable(r)
  BY DEF Requests, Enforceable
<1>2. Required(s) = Required(r)
  BY <1>1 DEF Required
<1> QED BY <1>2 DEF Block, Governed

-----------------------------------------------------------------------------
(* One pass of the cleanup (scripts/cleanup_sandbox_aws_orphans.py). *)

LEMMA RanksAreBounded == \A k \in AllKinds : Rank[k] \in 1..Passes
BY DEF Rank, AllKinds, Passes

LEMMA RemovedIsImmediate ==
    ASSUME NEW l, NEW n
    PROVE  Removed(l, n) \subseteq l /\ Removed(l, n) \subseteq Immediate
BY DEF Removed

LEMMA BegunIsNotImmediate ==
    ASSUME NEW l, NEW n
    PROVE  Begun(l, n) \subseteq l /\ Begun(l, n) \cap Immediate = {}
BY DEF Begun

(* A whole cleanup has asked for everything it cannot take away at once. *)
LEMMA AllBegun ==
    ASSUME NEW l \in SUBSET AllKinds
    PROVE  l \ Immediate \subseteq Begun(l, Passes)
BY RanksAreBounded DEF Begun, Passes

(* Once the slow deletions are finished, only what is held by a group that no
   earlier pass frees outlives a pass. *)
LEMMA OnlyHeldStays ==
    ASSUME NEW l \in SUBSET Immediate, NEW k \in l,
           HeldBy[k] \cap l \subseteq {"interface"}
    PROVE  k \in Removed(l, Passes)
<1>1. k \in AllKinds /\ Rank[k] \in 1..Passes
    BY RanksAreBounded DEF Immediate, Groups, AllKinds, Rank
<1>2. Rank[k] <= Passes
    BY <1>1 DEF Passes
<1>3. "interface" \in HeldBy[k] => Rank["interface"] < Rank[k]
    BY <1>1 DEF HeldBy, Rank, Immediate, Groups, AllKinds
<1>4. "interface" \in l /\ "interface" \in HeldBy[k] => "interface" \in FreedBefore(k, l)
  <2>1. HeldBy["interface"] \cap l = {}
    BY DEF HeldBy, Immediate, Groups, AllKinds, Rank
  <2> QED BY <1>3, <2>1 DEF FreedBefore, Available, Immediate
<1>5. HeldBy[k] \cap (l \ FreedBefore(k, l)) = {}
    BY <1>4
<1> QED BY <1>2, <1>5 DEF Removed, Available

(* Volumes and interfaces are gone after one more pass, and so are the
   security groups no rule of another refers to. Those a group listed later
   refers to take a second one, the destroy job's cleanup after the terraform
   destroy; groups that refer to each other are skipped every time
   (cleanup_security_groups, "Skipping for now"). *)
THEOREM GroupsGoLast ==
    ASSUME NEW l \in SUBSET Immediate
    PROVE  LET once == l \ Removed(l, Passes)
               twice == once \ Removed(once, Passes)
           IN  /\ once \subseteq {"referencedgroup", "mutualgroup"}
               /\ twice = l \cap {"mutualgroup"}
<1> DEFINE once == l \ Removed(l, Passes)
           twice == once \ Removed(once, Passes)
<1>1. ASSUME NEW k \in once
      PROVE  k \in {"referencedgroup", "mutualgroup"}
  <2>1. ~(HeldBy[k] \cap l \subseteq {"interface"})
    BY <1>1, OnlyHeldStays
  <2>2. k \in {"volume", "interface", "securitygroup", "referencedgroup", "mutualgroup"}
    BY <1>1 DEF Immediate, Groups
  <2>3. CASE k \in {"volume", "interface", "securitygroup"}
    BY <2>1, <2>3 DEF HeldBy, Immediate, Groups, AllKinds, Rank
  <2> QED BY <2>2, <2>3
<1>2. ASSUME NEW k \in twice
      PROVE  k = "mutualgroup"
  <2>1. once \in SUBSET Immediate /\ k \in once
    BY <1>2
  <2>2. ~(HeldBy[k] \cap once \subseteq {"interface"})
    BY <1>2, <2>1, OnlyHeldStays
  <2>3. CASE k = "referencedgroup"
    <3>1. HeldBy[k] = {"interface", "securitygroup"}
      BY <2>3 DEF HeldBy, AllKinds, Rank
    <3> QED BY <1>1, <2>2, <3>1
  <2> QED BY <1>1, <2>1, <2>3
<1>3. ASSUME NEW m \in SUBSET Immediate, "mutualgroup" \in m
      PROVE  "mutualgroup" \notin Removed(m, Passes)
  <2>1. "mutualgroup" \in HeldBy["mutualgroup"]
    BY DEF HeldBy, AllKinds, Rank
  <2>2. "mutualgroup" \notin FreedBefore("mutualgroup", m)
    BY DEF FreedBefore, Rank
  <2> QED BY <1>3, <2>1, <2>2 DEF Removed, Available
<1>4. "mutualgroup" \in l => "mutualgroup" \in twice
  BY <1>3
<1> QED BY <1>1, <1>2, <1>4

-----------------------------------------------------------------------------
(* The lifecycle. TypeOK by parts, with what makes it inductive: only a run
   that has just been asked for waits, and only what does not go at once can
   be on its way out. *)

PeopleOK ==
    /\ pr \in PullRequests /\ by \in [Labels -> Actors] /\ fresh \subseteq Heads
    /\ inbox \in Seq(Events) /\ acts \in Nat
    /\ marked \in 0..MaxHead /\ backdated \subseteq Heads
    /\ markedLate \in BOOLEAN /\ orphaned \in BOOLEAN /\ selected \in BOOLEAN
ApplyOK == apply \in Applies
GroupOK ==
    /\ running \in Runs /\ waiting \in Runs
    /\ waiting # Nothing => running # Nothing
    /\ (apply.at = "apply") = (running.kind = "apply" \/ waiting.kind = "apply")
    /\ ~(running.kind = "apply" /\ waiting.kind = "apply")
    /\ waiting.kind = "destroy" => waiting = Destroy("clean", FALSE)
CloudOK ==
    /\ built \in 0..Roots /\ left \subseteq Kinds /\ leaving \subseteq left
    /\ leaving \cap Immediate = {}
TypeInv == PeopleOK /\ ApplyOK /\ GroupOK /\ CloudOK

(* What the destroy job has achieved when it is at a step. While the job has
   the group only AWS itself touches the sandbox, and what is deployed to the
   cluster: all it makes that has still to go is in the network, and it makes
   nothing without a cluster. *)
TeardownInv ==
    /\ running.kind = "destroy" /\ running.step \notin {"clean", "salvage"}
            => (left \ Immediate) \ leaving \subseteq InNetwork
    /\ running.kind = "destroy" /\ running.step = "cleanAgain" /\ ~running.retry
            => built = 0 /\ left \cap InNetwork = {}
    /\ At("verify") => built = 0 /\ left \cap InNetwork = {}
    /\ At("unlabel") => built = 0 /\ left \subseteq leaving

(* A head that an event or a run carries is the current one, or the push that
   replaced it is still to be delivered. *)
Current(h, i) ==
    h = pr.head \/ \E j \in DOMAIN inbox : j > i /\ inbox[j].on = "synchronize"
HeadInv ==
    /\ \A h \in fresh : h <= pr.head
    /\ \A i \in DOMAIN inbox :
          inbox[i].on \in ApplyEvents \ {"workflow_run"} => Current(inbox[i].pr.head, i)
    /\ apply.at = "evaluate" /\ apply.on # "workflow_run" => Current(apply.pr.head, 0)
    /\ apply.at \in {"apply", "bootstrap", "mark"} => Current(apply.head, 0)

(* What a mark of the bot that counts for the head says. *)
MarkInv ==
    Validated \in pr.labels /\ by[Validated] = Bot /\ pr.head \in fresh
        => marked = pr.head \/ pr.head \in backdated \/ markedLate

LEMMA TypeParts == TypeInv => TypeOK
BY DEF TypeInv, PeopleOK, ApplyOK, GroupOK, CloudOK, TypeOK

LEMMA BoundsAreNaturals ==
    /\ MaxHead \in Nat /\ MaxHead > 0 /\ MaxActs \in Nat /\ MaxInbox \in Nat
    /\ Roots \in Nat /\ Roots > 0
BY SandboxAssumption

LEMMA EditIsTyped ==
    ASSUME PeopleOK, pr' \in PullRequests,
           NEW on \in Ons, NEW actor \in Editors, NEW label \in Labels \cup {"none"},
           Edit(on, actor, label)
    PROVE  /\ inbox' \in Seq(Events) /\ acts' \in Nat
           /\ marked' \in 0..MaxHead /\ markedLate' \in BOOLEAN /\ orphaned' \in BOOLEAN
           /\ selected' \in BOOLEAN
<1>1. Payload(pr') \in Payloads
  BY BoundsAreNaturals DEF Payload, Payloads, PullRequests, Heads
<1>2. NoPayload \in Payloads
  BY BoundsAreNaturals DEF NoPayload, Payloads
<1>3. Event(on, actor, label) \in Events
  <2>1. pr'.labels \cap ({Active, Teardown} \cup DeployLabels) \in SUBSET Labels
    BY DEF Labels, Active, Teardown
  <2> QED BY <1>1, <1>2, <2>1 DEF Event, Events, Actors
<1> QED BY <1>3 DEF Edit, Act, PeopleOK

LEMMA PeopleActIsTyped ==
    ASSUME PeopleOK, PeopleAct
    PROVE  PeopleOK'
<1> USE BoundsAreNaturals
<1>1. ASSUME NEW actor \in Editors, NEW old \in BOOLEAN, Push(actor, old)
      PROVE  PeopleOK'
  <2>1. pr' \in PullRequests /\ pr.head + 1 \in Heads
    BY <1>1 DEF Push, PeopleOK, PullRequests, Heads
  <2>2. fresh' \subseteq Heads /\ backdated' \subseteq Heads
    BY <1>1, <2>1 DEF Push, PeopleOK
  <2> QED BY <1>1, <2>1, <2>2, EditIsTyped DEF Push, PeopleOK, Ons, ApplyEvents
<1>2. ASSUME NEW actor \in Editors, NEW on \in Ons, NEW o \in BOOLEAN, NEW d \in BOOLEAN,
             Turn(on, actor, o, d)
      PROVE  PeopleOK'
  <2>1. pr' \in PullRequests
    BY <1>2 DEF Turn, PeopleOK, PullRequests
  <2> QED BY <1>2, <2>1, EditIsTyped DEF Turn, PeopleOK
<1>3. ASSUME NEW actor \in Editors,
             Close(actor) \/ Reopen(actor) \/ ToDraft(actor) \/ Ready(actor)
      PROVE  PeopleOK'
  <2>1. pr.draft \in BOOLEAN
    BY DEF PeopleOK, PullRequests
  <2> QED BY <1>2, <1>3, <2>1 DEF Close, Reopen, ToDraft, Ready, Ons, ApplyEvents, DestroyEvents
<1>4. ASSUME NEW actor \in Editors, NEW l \in Editable, Label(actor, l)
      PROVE  PeopleOK'
  <2>1. l \in Labels /\ actor \in Actors
    BY SandboxAssumption DEF Actors
  <2>2. pr' \in PullRequests /\ by' \in [Labels -> Actors]
    BY <1>4, <2>1 DEF Label, PeopleOK, PullRequests
  <2>3. fresh' \subseteq Heads /\ backdated' \subseteq Heads
    BY <1>4 DEF Label, PeopleOK, PullRequests, Heads
  <2> QED BY <1>4, <2>1, <2>2, <2>3, EditIsTyped DEF Label, PeopleOK, Ons, ApplyEvents
<1>5. ASSUME NEW actor \in Editors, NEW l \in Editable, Unlabel(actor, l)
      PROVE  PeopleOK'
  <2>1. l \in Labels
    BY SandboxAssumption
  <2>2. pr' \in PullRequests
    BY <1>5 DEF Unlabel, PeopleOK, PullRequests
  <2> QED BY <1>5, <2>1, <2>2, EditIsTyped DEF Unlabel, PeopleOK, Ons, DestroyEvents
<1> QED BY <1>1, <1>3, <1>4, <1>5 DEF PeopleAct

(* The steps that belong to the workflows leave the rest of what is public
   alone or change it within its type. *)
LEMMA DeliveryIsTyped ==
    ASSUME PeopleOK, inbox # <<>>
    PROVE  /\ Head(inbox) \in Events /\ Tail(inbox) \in Seq(Events)
           /\ Head(inbox).on \in DestroyEvents => Decide(Head(inbox)) \in Decisions
           /\ Head(inbox).on \in ApplyEvents =>
                [at |-> "evaluate", on |-> Head(inbox).on, pr |-> Head(inbox).pr] \in Applies
<1>1. Head(inbox) \in Events /\ Tail(inbox) \in Seq(Events)
  BY DEF PeopleOK
<1>2. Head(inbox).on \in DestroyEvents => Decide(Head(inbox)) \in Decisions
  BY <1>1 DEF Decide, Decisions, Events
<1>3. Head(inbox).on \in ApplyEvents =>
          [at |-> "evaluate", on |-> Head(inbox).on, pr |-> Head(inbox).pr] \in Applies
  BY <1>1 DEF Applies, Events
<1> QED BY <1>1, <1>2, <1>3

LEMMA CutShortIsTyped ==
    ASSUME CloudOK, CutShort
    PROVE  CloudOK' /\ orphaned' \in BOOLEAN
BY BoundsAreNaturals DEF CutShort, Makes, CloudOK

LEMMA CleanupIsTyped ==
    ASSUME CloudOK, NEW n, Cleanup(n)
    PROVE  CloudOK'
BY RemovedIsImmediate, BegunIsNotImmediate DEF Cleanup, CloudOK

LEMMA TerraformIsTyped ==
    ASSUME PeopleOK, CloudOK, TerraformSucceeds \/ TerraformFails
    PROVE  built' \in 0..Roots /\ acts' \in Nat
<1>1. CASE TerraformSucceeds
  BY <1>1, BoundsAreNaturals DEF TerraformSucceeds, PeopleOK
<1>2. CASE TerraformFails
  <2>1. built' \in 0..Roots
    BY <1>2, BoundsAreNaturals DEF TerraformFails, CloudOK
  <2>2. acts' \in Nat
    BY <1>2 DEF TerraformFails, Act, PeopleOK
  <2> QED BY <2>1, <2>2
<1> QED BY <1>1, <1>2

LEMMA HeadOfRun ==
    ASSUME ApplyOK, apply.at \in {"apply", "bootstrap", "mark"}
    PROVE  /\ apply \in [at : {"apply", "bootstrap", "mark"}, head : 0..MaxHead]
           /\ apply.head \in 0..MaxHead
BY DEF ApplyOK, Applies, Idle

LEMMA EvaluatedRun ==
    ASSUME ApplyOK, apply.at = "evaluate"
    PROVE  apply \in [at : {"evaluate"}, on : ApplyEvents, pr : Payloads]
BY DEF ApplyOK, Applies, Idle

(* Nothing in the group is what executes when nothing waits either. *)
LEMMA KindsOfRuns ==
    ASSUME GroupOK
    PROVE  /\ running.kind = "nothing" => running = Nothing /\ waiting = Nothing
           /\ waiting.kind = "nothing" => waiting = Nothing
           /\ running.kind = "destroy" => running \in Destroys
           /\ running.kind = "decide" => running \in Decisions
           /\ Nothing.kind = "nothing"
BY DEF GroupOK, Runs, Nothing, Decisions, Destroys

-----------------------------------------------------------------------------
(* What each part of the type invariant has to say about a step. *)

LEMMA PeopleStep ==
    ASSUME TypeInv, [Next]_vars
    PROVE  PeopleOK'
<1> USE DEF TypeInv
<1>1. CASE PeopleAct
  BY <1>1, PeopleActIsTyped
<1>2. CASE CICompletes
  <2> SUFFICES ASSUME NEW h \in 1..pr.head,
                      inbox' = Append(inbox, [on |-> "workflow_run", actor |-> Bot,
                          label |-> "none", pr |-> [NoPayload EXCEPT !.head = h], labels |-> {}])
               PROVE  PeopleOK'
    BY <1>2 DEF CICompletes
  <2>0. h \in 0..MaxHead
    BY BoundsAreNaturals DEF PeopleOK, PullRequests, Heads
  <2>1. [NoPayload EXCEPT !.head = h] \in Payloads
    BY <2>0 DEF NoPayload, Payloads
  <2>2. inbox' \in Seq(Events)
    BY <2>1 DEF PeopleOK, Events, Ons, ApplyEvents, Actors
  <2> QED BY <1>2, <2>2 DEF CICompletes, Act, people, ghost, PeopleOK
<1>3. CASE DeliverToApply \/ DeliverToDestroy \/ DeliverToBoth
  BY <1>3, DeliveryIsTyped, CutShortIsTyped
  DEF DeliverToApply, DeliverToDestroy, DeliverToBoth, CancelApply, people, ghost, PeopleOK
<1>4. CASE Declines \/ Requested \/ Bootstrap \/ Workload
  BY <1>4 DEF Declines, Requested, Bootstrap, Workload, Act, people, ghost, PeopleOK
<1>5. CASE ApplySucceeds
  <2>1. pr' \in PullRequests
    BY <1>5 DEF ApplySucceeds, PeopleOK, PullRequests, Labels, Active
  <2> QED BY <1>5, <2>1 DEF ApplySucceeds, PeopleOK
<1>15. CASE ApplyFails
  BY <1>15, CutShortIsTyped DEF ApplyFails, Act, people, PeopleOK
<1>6. CASE Mark
  <2>1. apply.head \in 0..MaxHead
    BY <1>6, HeadOfRun DEF Mark, Heads
  <2>2. pr' \in PullRequests /\ fresh' \subseteq Heads
    BY <1>6, BoundsAreNaturals DEF Mark, PeopleOK, PullRequests, Labels, Heads
  <2>3. by' \in [Labels -> Actors] /\ markedLate' \in BOOLEAN
    BY <1>6 DEF Mark, PeopleOK, Actors
  <2> QED BY <1>6, <2>1, <2>2, <2>3 DEF Mark, PeopleOK
<1>7. CASE Dispatches \/ DispatchFails \/ NotDestroying
  <2>0. acts' = acts \/ Act
    BY <1>7, Zenon DEF Dispatches, DispatchFails, NotDestroying, Decides
  <2>1. acts' \in Nat
    BY <2>0 DEF Act, PeopleOK
  <2>2. UNCHANGED <<people, inbox, selected, ghost>>
    BY <1>7 DEF Dispatches, DispatchFails, NotDestroying
  <2> QED BY <2>1, <2>2 DEF people, ghost, PeopleOK
<1>16. CASE Janitor
  <2>0. (acts' = acts \/ Act) /\ selected' \in BOOLEAN
    BY <1>16, Zenon DEF Janitor, JanitorSelects, JanitorDispatches, JanitorDispatchFails
  <2>1. acts' \in Nat /\ selected' \in BOOLEAN
    BY <2>0 DEF Act, PeopleOK
  <2>2. UNCHANGED <<people, inbox, ghost>>
    BY <1>16 DEF Janitor, JanitorSelects, JanitorDispatches, JanitorDispatchFails
  <2> QED BY <2>1, <2>2 DEF people, ghost, PeopleOK
<1>8. CASE CleanBefore \/ CleanAfter \/ CleanupFails \/ PreCleanFails \/ Salvage \/ Settle
  BY <1>8 DEF CleanBefore, CleanAfter, CleanupFails, PreCleanFails, Salvage, Settle, Act, Rest,
     people, ghost, PeopleOK
<1>9. CASE DestroyInitial \/ DestroyRetry \/ RetryFails
  BY <1>9, TerraformIsTyped DEF DestroyInitial, DestroyRetry, RetryFails, Rest, people, ghost, PeopleOK
<1>13. CASE Verify
  BY <1>13 DEF Verify, people, PeopleOK
<1>14. CASE VerifyFails
  BY <1>14 DEF VerifyFails, Act, Rest, people, ghost, PeopleOK
<1>10. ASSUME NEW gone, Unmark(gone), acts' \in Nat
       PROVE  PeopleOK'
  BY <1>10 DEF Unmark, ghost, PeopleOK, PullRequests
<1>11. CASE MarkInactive \/ MarkInactiveFails
  BY <1>10, <1>11 DEF MarkInactive, MarkInactiveFails, Act, PeopleOK
<1>12. CASE UNCHANGED vars
  BY <1>12 DEF vars, PeopleOK
<1> QED BY <1>1, <1>2, <1>3, <1>4, <1>5, <1>6, <1>7, <1>8, <1>9, <1>11, <1>12, <1>13, <1>14, <1>15,
        <1>16 DEF Next, AutoApply, AutoDestroy, DestroyJob

LEMMA ApplyStep ==
    ASSUME TypeInv, [Next]_vars
    PROVE  ApplyOK'
<1> USE DEF TypeInv
<1>1. CASE PeopleAct
  BY <1>1 DEF PeopleAct, Push, Close, Reopen, ToDraft, Ready, Turn, Label, Unlabel, Edit, ApplyOK
<1>2. CASE DeliverToApply \/ DeliverToBoth
  BY <1>2, DeliveryIsTyped DEF DeliverToApply, DeliverToBoth, ApplyOK
<1>3. CASE DeliverToDestroy \/ Declines \/ Dispatches \/ Janitor \/ ApplyFails \/ Mark
  BY <1>3 DEF DeliverToDestroy, Declines, Dispatches, Janitor, JanitorSelects, JanitorDispatches,
     JanitorDispatchFails, ApplyFails, Mark, ApplyOK, Applies
<1>4. CASE Requested
  <2>1. Resolved.head \in 0..MaxHead
    BY <1>4, EvaluatedRun DEF Requested, Resolved, Payload, Payloads, PeopleOK, PullRequests, Heads
  <2> QED BY <1>4, <2>1 DEF Requested, ApplyOK, Applies
<1>5. CASE ApplySucceeds
  <2>1. apply.at = "apply"
    BY <1>5 DEF ApplySucceeds, GroupOK
  <2> QED BY <1>5, <2>1, HeadOfRun DEF ApplySucceeds, ApplyOK, Applies
<1>6. CASE Bootstrap
  BY <1>6, HeadOfRun DEF Bootstrap, ApplyOK, Applies
<1>7. CASE CICompletes \/ Workload \/ DispatchFails \/ NotDestroying \/ Settle \/ DestroyJob
  BY <1>7 DEF CICompletes, Workload, DispatchFails, NotDestroying, Settle, DestroyJob, CleanBefore, CleanAfter, CleanupFails,
     PreCleanFails, Salvage, DestroyInitial, DestroyRetry, RetryFails, Verify, VerifyFails, MarkInactive, MarkInactiveFails,
     Unmark, Rest, ApplyOK
<1>8. CASE UNCHANGED vars
  BY <1>8 DEF vars, ApplyOK
<1> QED BY <1>1, <1>2, <1>3, <1>4, <1>5, <1>6, <1>7, <1>8 DEF Next, AutoApply, AutoDestroy

LEMMA CloudStep ==
    ASSUME TypeInv, [Next]_vars
    PROVE  CloudOK'
<1> USE DEF TypeInv
<1>1. CASE PeopleAct
  BY <1>1 DEF PeopleAct, Push, Close, Reopen, ToDraft, Ready, Turn, Label, Unlabel, Edit, cloud, CloudOK
<1>2. CASE DeliverToApply \/ DeliverToBoth \/ ApplyFails
  BY <1>2, CutShortIsTyped DEF DeliverToApply, DeliverToBoth, ApplyFails, CancelApply, cloud, CloudOK
<1>3. CASE CICompletes \/ DeliverToDestroy \/ Declines \/ Requested \/ Bootstrap \/ Mark
           \/ Dispatches \/ DispatchFails \/ NotDestroying \/ Janitor \/ PreCleanFails
           \/ Verify \/ VerifyFails
  BY <1>3 DEF CICompletes, DeliverToDestroy, Declines, Requested, Bootstrap, Mark,
     Dispatches, DispatchFails, NotDestroying, Janitor, JanitorSelects, JanitorDispatches,
     JanitorDispatchFails, PreCleanFails, Verify, VerifyFails, cloud, CloudOK
<1>4. CASE ApplySucceeds \/ Workload
  BY <1>4, BoundsAreNaturals DEF ApplySucceeds, Workload, Makes, CloudOK
<1>5. CASE CleanBefore \/ CleanAfter \/ CleanupFails \/ Salvage
  BY <1>5, CleanupIsTyped DEF CleanBefore, CleanAfter, CleanupFails, Salvage
<1>6. CASE DestroyInitial \/ DestroyRetry \/ RetryFails
  BY <1>6, TerraformIsTyped DEF DestroyInitial, DestroyRetry, RetryFails, CloudOK
<1>7. CASE MarkInactive \/ MarkInactiveFails
  BY <1>7 DEF MarkInactive, MarkInactiveFails, Unmark, cloud, CloudOK
<1>8. CASE Settle
  BY <1>8 DEF Settle, CloudOK
<1>9. CASE UNCHANGED vars
  BY <1>9 DEF vars, CloudOK
<1> QED BY <1>1, <1>2, <1>3, <1>4, <1>5, <1>6, <1>7, <1>8, <1>9
        DEF Next, AutoApply, AutoDestroy, DestroyJob

(* A run other than an apply that joins the group throws out an apply that
   waited, and the run of Auto Apply with it. *)
LEMMA JoinKeepsGroup ==
    ASSUME GroupOK, NEW run \in Runs, run.kind \in {"decide", "destroy"},
           run.kind = "destroy" => run = Destroy("clean", FALSE),
           Enter(run), apply' = IF Ousted THEN Idle ELSE apply
    PROVE  GroupOK'
<1>1. CASE Free
  BY <1>1, KindsOfRuns DEF GroupOK, Enter, Ousted, Free, Nothing
<1>2. CASE ~Free
  <2>1. running' = running /\ waiting' = run /\ run.kind # "apply"
    BY <1>2 DEF Enter
  <2>2. running # Nothing
    BY <1>2 DEF Free, Nothing
  <2>3. (apply'.at = "apply") = (running.kind = "apply")
    BY <1>2 DEF GroupOK, Ousted, Idle
  <2> QED BY <2>1, <2>2, <2>3 DEF GroupOK
<1> QED BY <1>1, <1>2

(* The run that executed leaves, and it was no apply: what waited goes on. *)
LEMMA LeaveKeepsGroup ==
    ASSUME GroupOK, Leave, running.kind # "apply", apply' = apply
    PROVE  GroupOK'
BY KindsOfRuns DEF GroupOK, Leave, Runs, Nothing

LEMMA CleanIsDestroy == \A s \in Steps, b \in BOOLEAN : Destroy(s, b) \in Destroys
BY DEF Destroy, Destroys

LEMMA GroupStep ==
    ASSUME TypeInv, [Next]_vars
    PROVE  GroupOK'
<1> USE DEF TypeInv
<1>1. CASE PeopleAct
  BY <1>1 DEF PeopleAct, Push, Close, Reopen, ToDraft, Ready, Turn, Label, Unlabel, Edit, GroupOK
<1>2. CASE DeliverToApply
  <2>1. apply'.at = "evaluate"
    BY <1>2 DEF DeliverToApply
  <2>2. running'.kind # "apply" /\ waiting'.kind # "apply"
    BY <1>2, KindsOfRuns DEF DeliverToApply, CancelApply, Leave, GroupOK, Nothing
  <2>3. /\ running' \in Runs /\ waiting' \in Runs
        /\ waiting' # Nothing => running' # Nothing
        /\ waiting'.kind = "destroy" => waiting' = Destroy("clean", FALSE)
    BY <1>2, KindsOfRuns DEF DeliverToApply, CancelApply, Leave, GroupOK, Nothing, Runs
  <2> QED BY <2>1, <2>2, <2>3 DEF GroupOK
<1>3. CASE DeliverToDestroy
  <2>1. Decide(Head(inbox)) \in Runs /\ Decide(Head(inbox)).kind = "decide"
    BY <1>3, DeliveryIsTyped DEF DeliverToDestroy, Runs, Decide
  <2> QED BY <1>3, <2>1, JoinKeepsGroup DEF DeliverToDestroy
<1>4. CASE DeliverToBoth
  <2>1. Decide(Head(inbox)) \in Runs /\ Decide(Head(inbox)).kind = "decide"
    BY <1>4, DeliveryIsTyped DEF DeliverToBoth, Runs, Decide
  <2>2. apply'.at = "evaluate"
    BY <1>4 DEF DeliverToBoth
  <2>3. CASE running' = Decide(Head(inbox)) /\ waiting' = Nothing
    BY <2>1, <2>2, <2>3 DEF GroupOK, Nothing, Runs
  <2>4. CASE /\ running.kind = "apply" /\ waiting.kind # "nothing"
             /\ running' = waiting /\ waiting' = Decide(Head(inbox))
    <3>1. running' \in Runs /\ running'.kind # "apply" /\ running' # Nothing
      BY <2>4, KindsOfRuns DEF GroupOK
    <3> QED BY <2>1, <2>2, <2>4, <3>1 DEF GroupOK
  <2>5. CASE /\ running.kind \notin {"apply", "nothing"}
             /\ running' = running /\ waiting' = Decide(Head(inbox))
    <3>1. running \in Runs /\ running # Nothing
      BY <2>5, KindsOfRuns DEF GroupOK
    <3> QED BY <2>1, <2>2, <2>5, <3>1 DEF GroupOK
  <2> QED BY <1>4, <2>3, <2>4, <2>5 DEF DeliverToBoth
<1>5. CASE Requested
  <2>1. apply.at # "apply" /\ apply'.at = "apply" /\ Enter([kind |-> "apply"])
    BY <1>5 DEF Requested
  <2>2. CASE Free
    BY <2>1, <2>2, KindsOfRuns DEF GroupOK, Enter, Free, Nothing, Runs
  <2>3. CASE ~Free
    BY <2>1, <2>3 DEF GroupOK, Enter, Free, Nothing, Runs
  <2> QED BY <2>2, <2>3
<1>6. CASE ApplySucceeds \/ ApplyFails
  <2>1. apply.at = "apply" /\ waiting.kind # "apply"
    BY <1>6 DEF ApplySucceeds, ApplyFails, GroupOK
  <2>2. apply'.at # "apply"
    BY <1>6, <2>1, HeadOfRun DEF ApplySucceeds, ApplyFails, Idle
  <2>3. Leave
    BY <1>6 DEF ApplySucceeds, ApplyFails
  <2> QED BY <2>1, <2>2, <2>3, KindsOfRuns DEF Leave, GroupOK, Runs, Nothing
<1>7. CASE Declines \/ Bootstrap \/ Mark
  <2>1. apply.at # "apply" /\ apply'.at # "apply"
    BY <1>7, HeadOfRun DEF Declines, Bootstrap, Mark, Idle
  <2>2. UNCHANGED <<running, waiting>>
    BY <1>7 DEF Declines, Bootstrap, Mark
  <2> QED BY <2>1, <2>2 DEF GroupOK
<1>8. CASE Dispatches
  <2>1. running' = [kind |-> "decided"] /\ waiting' = Destroy("clean", FALSE) /\ ~Free
    BY <1>8 DEF Dispatches, Decides, Free
  <2>2. apply' = IF waiting.kind = "apply" THEN Idle ELSE apply
    BY <1>8, <2>1 DEF Dispatches, Ousted
  <2>3. apply'.at # "apply"
    BY <1>8, <2>2 DEF Dispatches, Decides, GroupOK, Idle
  <2>4. waiting' \in Runs /\ waiting'.kind = "destroy" /\ running' \in Runs /\ running' # Nothing
    BY <2>1 DEF Runs, Destroy, Destroys, Steps, Nothing
  <2> QED BY <2>1, <2>3, <2>4 DEF GroupOK
<1>9. CASE JanitorDispatches
  <2>1. Destroy("clean", FALSE) \in Runs /\ Destroy("clean", FALSE).kind = "destroy"
    BY DEF Runs, Destroy, Destroys, Steps
  <2> QED BY <1>9, <2>1, JoinKeepsGroup DEF JanitorDispatches
<1>10. CASE \/ DispatchFails \/ NotDestroying \/ (CleanupFails /\ ~At("clean")) \/ Salvage
            \/ RetryFails \/ VerifyFails \/ MarkInactive \/ MarkInactiveFails
  <2>1. Leave /\ running.kind # "apply" /\ apply' = apply
    BY <1>10 DEF DispatchFails, NotDestroying, Decides, CleanupFails, Salvage, RetryFails,
       VerifyFails, MarkInactive, MarkInactiveFails, Unmark, Rest, At
  <2> QED BY <2>1, LeaveKeepsGroup
<1>11. ASSUME NEW step \in Steps, NEW at \in Steps, At(at), GoOn(step), apply' = apply
       PROVE  GroupOK'
  <2>1. running \in Destroys
    BY <1>11, KindsOfRuns DEF At
  <2>2. running' \in Destroys /\ running'.kind = "destroy"
    BY <1>11, <2>1 DEF GoOn, Destroys
  <2> QED BY <1>11, <2>1, <2>2 DEF GoOn, GroupOK, Runs, Nothing, Destroys
<1>12. CASE \/ CleanBefore \/ CleanAfter \/ (CleanupFails /\ At("clean")) \/ PreCleanFails
            \/ DestroyRetry \/ Verify
  BY <1>11, <1>12 DEF CleanBefore, CleanAfter, CleanupFails, PreCleanFails, DestroyRetry, Verify,
     Rest, Steps
<1>13. CASE DestroyInitial
  <2>1. \E retry \in BOOLEAN : running' = Destroy("cleanAgain", retry)
    BY <1>13 DEF DestroyInitial
  <2>2. running' \in Runs /\ running'.kind = "destroy"
    BY <2>1 DEF Runs, Destroy, Destroys, Steps
  <2>3. running.kind = "destroy" /\ UNCHANGED <<waiting, apply>>
    BY <1>13 DEF DestroyInitial, At, Rest
  <2>4. running' # Nothing
    BY <2>2 DEF Nothing
  <2> QED BY <2>2, <2>3, <2>4 DEF GroupOK
<1>14. CASE CICompletes \/ Settle \/ Workload \/ JanitorSelects \/ JanitorDispatchFails
  BY <1>14 DEF CICompletes, Settle, Workload, JanitorSelects, JanitorDispatchFails, Rest, GroupOK
<1>15. CASE UNCHANGED vars
  BY <1>15 DEF vars, GroupOK
<1> QED BY <1>1, <1>2, <1>3, <1>4, <1>5, <1>6, <1>7, <1>8, <1>9, <1>10, <1>12, <1>13, <1>14, <1>15
        DEF Next, AutoApply, AutoDestroy, Janitor, DestroyJob

LEMMA TypeInitially == Init => TypeInv
<1> SUFFICES ASSUME Init
             PROVE  TypeInv
  OBVIOUS
<1>1. PeopleOK
  <2>1. pr \in PullRequests
    BY BoundsAreNaturals DEF Init, PullRequests, Heads
  <2>2. by \in [Labels -> Actors]
    BY DEF Init, Actors
  <2>3. inbox \in Seq(Events)
    BY DEF Init
  <2>4. fresh \subseteq Heads /\ backdated \subseteq Heads
    BY DEF Init
  <2>5. acts \in Nat /\ marked \in 0..MaxHead
    BY BoundsAreNaturals DEF Init
  <2>6. markedLate \in BOOLEAN /\ orphaned \in BOOLEAN /\ selected \in BOOLEAN
    BY DEF Init
  <2> QED BY <2>1, <2>2, <2>3, <2>4, <2>5, <2>6 DEF PeopleOK
<1>2. ApplyOK /\ GroupOK
  BY DEF Init, ApplyOK, GroupOK, Applies, Runs, Nothing, Idle
<1>3. CloudOK
  BY BoundsAreNaturals DEF Init, CloudOK
<1> QED BY <1>1, <1>2, <1>3 DEF TypeInv

(* The pull request, the runs and the sandbox keep their types, and the group
   its discipline: an apply executes or waits there exactly while its run of
   Auto Apply is at its infrastructure job (infrastructure.yml, concurrency). *)
THEOREM TypeCorrect == Spec => []TypeOK
<1>1. TypeInv /\ [Next]_vars => TypeInv'
  BY PeopleStep, ApplyStep, GroupStep, CloudStep DEF TypeInv
<1> QED BY TypeInitially, TypeParts, <1>1, PTL DEF Spec

-----------------------------------------------------------------------------
(* What the destroy job has achieved. *)

(* A run that was not a step of a destroy job is at its first one at most. *)
LEMMA NewRunKeepsTeardown ==
    ASSUME running' = Nothing \/ running'.kind \in {"apply", "decide", "decided", "nothing"}
           \/ running' = Destroy("clean", FALSE)
    PROVE  TeardownInv'
BY DEF TeardownInv, At, Destroy, Nothing

(* Nothing is left of a sandbox whose Terraform roots and network are gone and
   of which the convergence check finds nothing. *)
LEMMA ConvergedIsLeaving ==
    ASSUME TypeInv, (left \ Immediate) \ leaving \subseteq InNetwork, left \cap InNetwork = {},
           Converged
    PROVE  built = 0 /\ left \subseteq leaving
<1>1. built = 0 /\ Residual(left, leaving) = {}
  BY DEF Converged
<1>2. "volume" \notin left
  <2>1. left \cap HeldBy["volume"] = {}
    BY DEF HeldBy, InNetwork, AllKinds, Rank
  <2> QED BY <1>1, <2>1 DEF Residual, Available
<1>3. left \cap ({"interface"} \cup Groups) = {}
  BY DEF InNetwork
<1>4. left \cap Immediate = {}
  BY <1>2, <1>3 DEF Immediate
<1> QED BY <1>1, <1>4

LEMMA WholeCleanup ==
    ASSUME TypeInv, Cleanup(Passes)
    PROVE  left' \ Immediate \subseteq leaving' /\ left' \subseteq left
<1>1. left \in SUBSET AllKinds
  BY SandboxAssumption DEF TypeInv, CloudOK
<1>2. left \ Immediate \subseteq Begun(left, Passes)
  BY <1>1, AllBegun
<1> QED BY <1>2 DEF Cleanup

LEMMA WaitingIsNew ==
    ASSUME TypeInv
    PROVE  \/ waiting = Nothing \/ waiting.kind \in {"apply", "decide", "decided", "nothing"}
           \/ waiting = Destroy("clean", FALSE)
<1>1. waiting \in Runs /\ (waiting.kind = "destroy" => waiting = Destroy("clean", FALSE))
  BY DEF TypeInv, GroupOK
<1>2. CASE waiting \in Destroys
  BY <1>1, <1>2 DEF Destroys
<1>3. CASE waiting \in Decisions
  BY <1>3 DEF Decisions
<1>4. CASE waiting = [kind |-> "apply"]
  BY <1>4
<1>5. CASE waiting = [kind |-> "decided"]
  BY <1>5
<1> QED BY <1>1, <1>2, <1>3, <1>4, <1>5 DEF Runs

LEMMA LeaveKeepsTeardown ==
    ASSUME TypeInv, Leave
    PROVE  TeardownInv'
BY NewRunKeepsTeardown, WaitingIsNew DEF Leave

LEMMA TeardownStep ==
    ASSUME TypeInv, TeardownInv, [Next]_vars
    PROVE  TeardownInv'
<1>1. ASSUME UNCHANGED <<running, cloud>>
      PROVE  TeardownInv'
  BY <1>1 DEF cloud, TeardownInv, At
<1>2. CASE \/ PeopleAct \/ CICompletes \/ Declines \/ Bootstrap \/ Mark \/ UNCHANGED vars
           \/ JanitorSelects \/ JanitorDispatchFails
  <2>1. UNCHANGED <<running, cloud>>
    BY <1>2 DEF PeopleAct, Push, Close, Reopen, ToDraft, Ready, Turn, Label, Unlabel, Edit,
       CICompletes, Declines, Bootstrap, Mark, JanitorSelects, JanitorDispatchFails, vars, cloud
  <2> QED BY <1>1, <2>1
<1>3. ASSUME NEW run, Enter(run), UNCHANGED cloud,
             run.kind \in {"apply", "decide"} \/ run = Destroy("clean", FALSE)
      PROVE  TeardownInv'
  BY <1>1, <1>3, NewRunKeepsTeardown DEF Enter
<1>4. CASE DeliverToDestroy \/ Requested \/ JanitorDispatches
  BY <1>3, <1>4 DEF DeliverToDestroy, Requested, JanitorDispatches, Decide
<1>5. CASE DeliverToApply
  BY <1>1, <1>5, LeaveKeepsTeardown DEF DeliverToApply, CancelApply, cloud
<1>6. CASE DeliverToBoth
  <2>1. CASE running.kind = "apply" \/ running.kind = "nothing"
    <3>1. running' = Decide(Head(inbox)) \/ running' = waiting \/ running' = running
      BY <1>6 DEF DeliverToBoth
    <3>2. \/ running' = Nothing \/ running'.kind \in {"apply", "decide", "decided", "nothing"}
          \/ running' = Destroy("clean", FALSE)
      <4>1. CASE running' = waiting
        BY <4>1, WaitingIsNew
      <4>2. CASE running' = running
        BY <2>1, <4>2
      <4>3. CASE running' = Decide(Head(inbox))
        BY <4>3 DEF Decide
      <4> QED BY <3>1, <4>1, <4>2, <4>3
    <3> QED BY <3>2, NewRunKeepsTeardown
  <2>2. CASE ~(running.kind = "apply" \/ running.kind = "nothing")
    BY <1>1, <1>6, <2>2 DEF DeliverToBoth, cloud
  <2> QED BY <2>1, <2>2
<1>7. CASE \/ ApplySucceeds \/ ApplyFails \/ DispatchFails \/ NotDestroying \/ (CleanupFails /\ ~At("clean")) \/ Salvage
           \/ RetryFails \/ VerifyFails \/ MarkInactive \/ MarkInactiveFails
  BY <1>7, LeaveKeepsTeardown DEF ApplySucceeds, ApplyFails, DispatchFails, NotDestroying, CleanupFails, Salvage,
     RetryFails, VerifyFails, MarkInactive, MarkInactiveFails, Unmark
<1>8. CASE Dispatches
  BY <1>8, NewRunKeepsTeardown DEF Dispatches
<1>9. ASSUME NEW step, NEW at, At(at), GoOn(step)
      PROVE  /\ running \in Destroys
             /\ running'.kind = "destroy" /\ running'.step = step /\ running'.retry = running.retry
  BY <1>9, KindsOfRuns DEF At, GoOn, TypeInv, Destroys
<1>10. CASE CleanBefore
  BY <1>9, <1>10, WholeCleanup DEF CleanBefore, TeardownInv, At
<1>11. CASE CleanAfter
  <2>1. left' \ Immediate \subseteq leaving' /\ left' \subseteq left
    BY <1>11, WholeCleanup DEF CleanAfter
  <2>2. At("cleanAgain") /\ GoOn(IF running.retry THEN "retry" ELSE "verify")
    BY <1>11 DEF CleanAfter
  <2>3. running'.kind = "destroy" /\ running'.step = IF running.retry THEN "retry" ELSE "verify"
    BY <1>9, <2>2
  <2>4. running'.step = "verify" => built' = 0 /\ left \cap InNetwork = {}
    BY <1>11, <2>2, <2>3 DEF TeardownInv, At, CleanAfter, Cleanup
  <2> QED BY <2>1, <2>3, <2>4 DEF TeardownInv, At
<1>12. CASE DestroyInitial
  BY <1>12 DEF DestroyInitial, TerraformSucceeds, TeardownInv, At, Destroy
<1>13. CASE DestroyRetry
  BY <1>9, <1>13 DEF DestroyRetry, TerraformSucceeds, TeardownInv, At
<1>14. CASE Verify
  <2>1. built = 0 /\ left \subseteq leaving /\ UNCHANGED cloud
    BY <1>14, ConvergedIsLeaving DEF Verify, TeardownInv, At
  <2> QED BY <1>9, <1>14, <2>1 DEF Verify, TeardownInv, At, cloud
<1>15. CASE Settle
  BY <1>15 DEF Settle, TeardownInv, At
<1>17. CASE Workload
  <2>1. PICK k \in Kinds \cap ByWorkload : Makes({k})
    BY <1>17 DEF Workload
  <2>2. k \in Immediate \/ k \in InNetwork
    BY DEF ByWorkload, Immediate, InNetwork
  <2>3. built > 0 /\ built' = built /\ running' = running
    BY <1>17 DEF Workload
  <2>4. (left' \ Immediate) \ leaving' \subseteq ((left \ Immediate) \ leaving) \cup InNetwork
    BY <2>1, <2>2 DEF Makes
  <2> QED BY <2>3, <2>4 DEF TeardownInv, At
<1>16. CASE (CleanupFails /\ At("clean")) \/ PreCleanFails
  <2>1. running'.kind = "destroy" /\ running'.step = "salvage"
    BY <1>9, <1>16 DEF CleanupFails, PreCleanFails
  <2> QED BY <2>1 DEF TeardownInv, At
<1> QED BY <1>2, <1>4, <1>5, <1>6, <1>7, <1>8, <1>10, <1>11, <1>12, <1>13, <1>14, <1>15, <1>16,
        <1>17 DEF Next, AutoApply, AutoDestroy, Janitor, DestroyJob

-----------------------------------------------------------------------------
(* No sandbox is lost from sight. *)

UnlabelledInv ==
    Active \notin pr.labels /\ running.kind # "apply" /\ ~orphaned
        => built = 0 /\ left \subseteq leaving

LEMMA UnlabelledStep ==
    ASSUME TypeInv, TeardownInv, UnlabelledInv, [Next]_vars
    PROVE  UnlabelledInv'
<1>1. ASSUME Active \in pr.labels => Active \in pr'.labels, orphaned' = orphaned,
             UNCHANGED cloud, running.kind = "apply" => running'.kind = "apply"
      PROVE  UnlabelledInv'
  BY <1>1 DEF UnlabelledInv, cloud
<1>2. CASE PeopleAct
  <2>1. Active \in pr.labels => Active \in pr'.labels
    BY <1>2, SandboxAssumption
    DEF PeopleAct, Push, Close, Reopen, ToDraft, Ready, Turn, Label, Unlabel, Active, TypeInv, PeopleOK,
        PullRequests
  <2>2. /\ UNCHANGED cloud /\ orphaned' = orphaned
        /\ running' = running
    BY <1>2 DEF PeopleAct, Push, Close, Reopen, ToDraft, Ready, Turn, Label, Unlabel, Edit
  <2> QED BY <1>1, <2>1, <2>2
<1>3. CASE CICompletes \/ Declines \/ Bootstrap \/ UNCHANGED vars
  BY <1>1, <1>3 DEF CICompletes, Declines, Bootstrap, people, ghost, vars, cloud
<1>4. CASE Mark
  <2>1. Active \in pr.labels => Active \in pr'.labels
    BY <1>4 DEF Mark, TypeInv, PeopleOK, PullRequests
  <2> QED BY <1>1, <1>4, <2>1 DEF Mark
<1>5. CASE DeliverToDestroy \/ Requested \/ Janitor
  <2>1. running.kind = "apply" => running' = running
    BY <1>5 DEF DeliverToDestroy, Requested, Janitor, JanitorSelects, JanitorDispatches,
       JanitorDispatchFails, Enter, Free
  <2> QED BY <1>1, <1>5, <2>1 DEF DeliverToDestroy, Requested, Janitor, JanitorSelects,
          JanitorDispatches, JanitorDispatchFails, people, ghost
<1>6. CASE DeliverToApply \/ DeliverToBoth
  <2>1. CASE running.kind = "apply"
    BY <1>6, <2>1 DEF DeliverToApply, DeliverToBoth, CancelApply, CutShort, UnlabelledInv
  <2>2. CASE running.kind # "apply"
    BY <1>1, <1>6, <2>2 DEF DeliverToApply, DeliverToBoth, CancelApply, people, cloud
  <2> QED BY <2>1, <2>2
<1>7. CASE ApplySucceeds
  <2>1. Active \in pr'.labels
    BY <1>7 DEF ApplySucceeds, TypeInv, PeopleOK, PullRequests
  <2> QED BY <2>1 DEF UnlabelledInv
<1>8. CASE ApplyFails
  BY <1>8 DEF ApplyFails, CutShort, UnlabelledInv
<1>9. CASE Dispatches \/ DispatchFails \/ NotDestroying \/ PreCleanFails \/ VerifyFails
  BY <1>1, <1>9 DEF Dispatches, DispatchFails, NotDestroying, Decides, PreCleanFails, VerifyFails, At,
     Rest, people, ghost
<1>10. CASE CleanBefore \/ CleanAfter \/ CleanupFails \/ Salvage
  <2>1. left' \subseteq left /\ leaving \subseteq leaving' /\ built' = built
    BY <1>10 DEF CleanBefore, CleanAfter, CleanupFails, Salvage, Cleanup
  <2>2. UNCHANGED <<pr, orphaned>> /\ running.kind # "apply"
    BY <1>10 DEF CleanBefore, CleanAfter, CleanupFails, Salvage, Rest, people, ghost, At
  <2> QED BY <2>1, <2>2 DEF UnlabelledInv
<1>11. CASE DestroyInitial \/ DestroyRetry \/ RetryFails
  <2>1. built = 0 => built' = 0
    <3>1. TerraformSucceeds \/ TerraformFails
      BY <1>11 DEF DestroyInitial, DestroyRetry, RetryFails
    <3> QED BY <3>1, BoundsAreNaturals DEF TerraformSucceeds, TerraformFails
  <2>2. UNCHANGED <<pr, orphaned, left, leaving>> /\ running.kind # "apply"
    BY <1>11 DEF DestroyInitial, DestroyRetry, RetryFails, Rest, people, ghost, At
  <2> QED BY <2>1, <2>2 DEF UnlabelledInv
<1>12. CASE Verify
  BY <1>12, ConvergedIsLeaving DEF Verify, TeardownInv, At, cloud, UnlabelledInv
<1>13. CASE MarkInactive \/ MarkInactiveFails
  BY <1>13 DEF MarkInactive, MarkInactiveFails, Unmark, TeardownInv, At, cloud, UnlabelledInv
<1>14. CASE Settle
  BY <1>14 DEF Settle, Rest, people, ghost, UnlabelledInv
<1>15. CASE Workload
  BY <1>15 DEF Workload, people, ghost, UnlabelledInv
<1> QED BY <1>2, <1>3, <1>4, <1>5, <1>6, <1>7, <1>8, <1>9, <1>10, <1>11, <1>12, <1>13, <1>14, <1>15
        DEF Next, AutoApply, AutoDestroy, DestroyJob

(* Unless an apply was cut short, a pull request that is not marked as having
   a sandbox has none: neither Terraform state nor what the convergence check
   does not look at (sandbox-active, docs/sandbox-policy.md:80). It rests on
   TeardownInv: a node group or an instance that is still there when the job
   verifies is on its way out since the cleanup, and no volume is in use. *)
THEOREM NoSandboxIsLost == Spec => []NothingUnlabelled
<1>1. Init => TypeInv /\ TeardownInv /\ UnlabelledInv
  BY TypeInitially DEF Init, TeardownInv, UnlabelledInv, At, Nothing
<1>2. TypeInv /\ TeardownInv /\ UnlabelledInv /\ [Next]_vars
          => (TypeInv /\ TeardownInv /\ UnlabelledInv)'
  BY PeopleStep, ApplyStep, GroupStep, CloudStep, TeardownStep, UnlabelledStep DEF TypeInv
<1>3. UnlabelledInv => NothingUnlabelled
  BY DEF UnlabelledInv, NothingUnlabelled
<1> QED BY <1>1, <1>2, <1>3, PTL DEF Spec

(* The mark is taken off for a reason: whoever removes sandbox-active, with
   whatever runs are under way or waiting, removes it when there is no
   Terraform state left and all else is on its way out (mark-inactive,
   infrastructure.yml). Quota and janitor lose sight of a sandbox only then. *)
THEOREM UnmarkedOnlyWhenConverged ==
    Spec => [][(Active \in pr.labels /\ Active \notin pr'.labels)
                   => built = 0 /\ left \subseteq leaving]_vars
<1> DEFINE Unmarks == Active \in pr.labels /\ Active \notin pr'.labels
                          => built = 0 /\ left \subseteq leaving
<1>1. ASSUME TypeInv, TeardownInv, Next
      PROVE  Unmarks
  <2>1. CASE PeopleAct
    BY <1>1, <2>1, SandboxAssumption
    DEF PeopleAct, Push, Close, Reopen, ToDraft, Ready, Turn, Label, Unlabel, Active, TypeInv,
        PeopleOK, PullRequests
  <2>2. CASE ApplySucceeds \/ Mark
    BY <1>1, <2>2 DEF ApplySucceeds, Mark, TypeInv, PeopleOK, PullRequests
  <2>3. CASE MarkInactive \/ MarkInactiveFails
    BY <1>1, <2>3 DEF MarkInactive, MarkInactiveFails, Unmark, TeardownInv
  <2>4. CASE \/ CICompletes \/ Declines \/ Bootstrap \/ Workload \/ DeliverToDestroy \/ Requested
             \/ Janitor
    BY <2>4 DEF CICompletes, Declines, Bootstrap, Workload, DeliverToDestroy, Requested, Janitor,
       JanitorSelects, JanitorDispatches, JanitorDispatchFails, people
  <2>5. CASE \/ DeliverToApply \/ DeliverToBoth \/ ApplyFails
             \/ Dispatches \/ DispatchFails \/ NotDestroying \/ Settle
    BY <2>5 DEF DeliverToApply, DeliverToBoth, ApplyFails, Dispatches, DispatchFails,
       NotDestroying, Settle, Rest, people
  <2>6. CASE \/ CleanBefore \/ CleanAfter \/ CleanupFails \/ PreCleanFails \/ Salvage
             \/ Verify \/ VerifyFails
    BY <2>6 DEF CleanBefore, CleanAfter, CleanupFails, PreCleanFails, Salvage, Verify,
       VerifyFails, Rest, people
  <2>7. CASE DestroyInitial \/ DestroyRetry \/ RetryFails
    BY <2>7 DEF DestroyInitial, DestroyRetry, RetryFails, Rest, people
  <2> QED BY <1>1, <2>1, <2>2, <2>3, <2>4, <2>5, <2>6, <2>7
          DEF Next, AutoApply, AutoDestroy, DestroyJob
<1>2. TypeInv /\ TeardownInv /\ [Next]_vars => [Unmarks]_vars
  BY <1>1
<1>3. Init => TypeInv /\ TeardownInv
  BY TypeInitially DEF Init, TeardownInv, At, Nothing
<1>4. TypeInv /\ TeardownInv /\ [Next]_vars => (TypeInv /\ TeardownInv)'
  BY PeopleStep, ApplyStep, GroupStep, CloudStep, TeardownStep DEF TypeInv
<1> QED BY <1>2, <1>3, <1>4, PTL DEF Spec

-----------------------------------------------------------------------------
(* No head passes for the validation of another one. *)

SyncIn(q, i) == \E j \in DOMAIN q : j > i /\ q[j].on = "synchronize"

LEMMA CurrentOrSync ==
    \A h, i : Current(h, i) <=> h = pr.head \/ SyncIn(inbox, i)
BY DEF Current, SyncIn

(* What is appended hides nothing, and a push is seen from before it. *)
LEMMA SyncAppended ==
    ASSUME NEW q \in Seq(Events), NEW e \in Events, NEW i \in Nat
    PROVE  /\ SyncIn(q, i) => SyncIn(Append(q, e), i)
           /\ e.on = "synchronize" /\ i <= Len(q) => SyncIn(Append(q, e), i)
<1>1. ASSUME SyncIn(q, i)
      PROVE  SyncIn(Append(q, e), i)
  <2>1. PICK j \in DOMAIN q : j > i /\ q[j].on = "synchronize"
    BY <1>1 DEF SyncIn
  <2>2. j \in DOMAIN Append(q, e) /\ Append(q, e)[j] = q[j]
    OBVIOUS
  <2> QED BY <2>1, <2>2 DEF SyncIn
<1>2. ASSUME e.on = "synchronize", i <= Len(q)
      PROVE  SyncIn(Append(q, e), i)
  <2>1. Len(q) + 1 \in DOMAIN Append(q, e) /\ Append(q, e)[Len(q) + 1] = e
    OBVIOUS
  <2> QED BY <1>2, <2>1 DEF SyncIn
<1> QED BY <1>1, <1>2

LEMMA SyncDelivered ==
    ASSUME NEW q \in Seq(Events), q # <<>>, NEW i \in Nat
    PROVE  /\ SyncIn(q, i + 1) => SyncIn(Tail(q), i)
           /\ SyncIn(q, 0) /\ Head(q).on # "synchronize" => SyncIn(Tail(q), 0)
<1>1. ASSUME NEW k \in Nat, NEW j \in DOMAIN q, j > k + 1, q[j].on = "synchronize"
      PROVE  SyncIn(Tail(q), k)
  <2>1. j - 1 \in DOMAIN Tail(q) /\ Tail(q)[j - 1] = q[j]
    BY <1>1
  <2> QED BY <1>1, <2>1 DEF SyncIn
<1>2. SyncIn(q, i + 1) => SyncIn(Tail(q), i)
  BY <1>1 DEF SyncIn
<1>3. ASSUME SyncIn(q, 0), Head(q).on # "synchronize"
      PROVE  SyncIn(Tail(q), 0)
  <2>1. PICK j \in DOMAIN q : j > 0 /\ q[j].on = "synchronize"
    BY <1>3 DEF SyncIn
  <2>2. j # 1
    BY <1>3, <2>1
  <2> QED BY <1>1, <2>1, <2>2
<1> QED BY <1>2, <1>3

(* An event that is sent keeps every head current or announced. *)
LEMMA SendingKeepsHeads ==
    ASSUME TypeInv, HeadInv, NEW e \in Events, inbox' = Append(inbox, e), apply' = apply,
           pr' \in PullRequests, pr'.head = pr.head \/ e.on = "synchronize",
           e.on \in ApplyEvents \ {"workflow_run"} => e.pr.head = pr'.head,
           \A h \in fresh' : h <= pr'.head
    PROVE  HeadInv'
<1> DEFINE n == Len(inbox)
<1>1. inbox \in Seq(Events) /\ n \in Nat
  BY DEF TypeInv, PeopleOK
<1>2. ASSUME NEW h, NEW i \in Nat, i <= n, Current(h, i)
      PROVE  Current(h, i)'
  <2>1. e.on = "synchronize" => SyncIn(inbox', i)
    BY <1>1, <1>2, SyncAppended
  <2>2. SyncIn(inbox, i) => SyncIn(inbox', i)
    BY <1>1, <1>2, SyncAppended
  <2> QED BY <1>2, <2>1, <2>2 DEF Current, SyncIn
<1>3. ASSUME NEW i \in DOMAIN inbox', inbox'[i].on \in ApplyEvents \ {"workflow_run"}
      PROVE  Current(inbox[i].pr.head, i)' \/ inbox'[i].pr.head = pr'.head
  <2>1. CASE i = n + 1
    BY <1>1, <1>3, <2>1
  <2>2. CASE i # n + 1
    <3>1. i \in DOMAIN inbox /\ inbox'[i] = inbox[i] /\ i \in Nat /\ i <= n
      BY <1>1, <2>2
    <3>2. Current(inbox[i].pr.head, i)
      BY <1>3, <3>1 DEF HeadInv
    <3> QED BY <1>2, <3>1, <3>2 DEF Current
  <2> QED BY <2>1, <2>2
<1>4. \A i \in DOMAIN inbox' :
          inbox'[i].on \in ApplyEvents \ {"workflow_run"} => Current(inbox[i].pr.head, i)'
  BY <1>3 DEF Current
<1>5. /\ apply.at = "evaluate" /\ apply.on # "workflow_run" => Current(apply.pr.head, 0)'
      /\ apply.at \in {"apply", "bootstrap", "mark"} => Current(apply.head, 0)'
  BY <1>1, <1>2 DEF HeadInv, Current
<1> QED BY <1>4, <1>5 DEF HeadInv

LEMMA PeopleKeepHeads ==
    ASSUME TypeInv, HeadInv, PeopleAct
    PROVE  HeadInv'
<1> USE BoundsAreNaturals
<1>1. PICK actor \in Editors :
         \/ \E old \in BOOLEAN : Push(actor, old)
         \/ Close(actor) \/ Reopen(actor) \/ ToDraft(actor) \/ Ready(actor)
         \/ \E l \in Editable : Label(actor, l) \/ Unlabel(actor, l)
  BY DEF PeopleAct
<1>2. PICK on \in Ons, label \in Labels \cup {"none"} : Edit(on, actor, label)
         /\ (pr'.head = pr.head \/ on = "synchronize")
         /\ (\A h \in fresh' : h <= pr'.head)
  <2>1. pr \in PullRequests /\ pr.head \in Nat /\ Editable \subseteq Labels
    BY SandboxAssumption DEF TypeInv, PeopleOK, PullRequests, Heads
  <2>2. CASE \E old \in BOOLEAN : Push(actor, old)
    <3>1. Edit("synchronize", actor, "none")
      BY <2>2 DEF Push
    <3>2. \A h \in fresh' : h <= pr'.head
      BY <2>1, <2>2 DEF Push, HeadInv, PullRequests, TypeInv, PeopleOK, Heads
    <3> QED BY <3>1, <3>2 DEF Ons, ApplyEvents
  <2>3. CASE Close(actor) \/ Reopen(actor) \/ ToDraft(actor) \/ Ready(actor)
    <3>1. PICK on \in Ons, o \in BOOLEAN, d \in BOOLEAN : Turn(on, actor, o, d)
      BY <2>1, <2>3 DEF Close, Reopen, ToDraft, Ready, Ons, ApplyEvents, DestroyEvents, PullRequests
    <3>2. pr'.head = pr.head /\ fresh' = fresh /\ Edit(on, actor, "none")
      BY <2>1, <3>1 DEF Turn, PullRequests
    <3> QED BY <3>2 DEF HeadInv
  <2>4. ASSUME NEW l \in Editable, Label(actor, l)
        PROVE  pr'.head = pr.head /\ Edit("labeled", actor, l) /\ \A h \in fresh' : h <= pr'.head
    <3>1. pr'.head = pr.head /\ Edit("labeled", actor, l)
      BY <2>1, <2>4 DEF Label, PullRequests
    <3> QED BY <2>1, <2>4, <3>1 DEF Label, HeadInv
  <2>5. ASSUME NEW l \in Editable, Unlabel(actor, l)
        PROVE  pr'.head = pr.head /\ Edit("unlabeled", actor, l) /\ \A h \in fresh' : h <= pr'.head
    BY <2>1, <2>5 DEF Unlabel, HeadInv, PullRequests
  <2> QED BY <1>1, <2>1, <2>2, <2>3, <2>4, <2>5 DEF Ons, ApplyEvents, DestroyEvents
<1>3. PeopleOK'
  BY PeopleActIsTyped DEF TypeInv
<1>4. Event(on, actor, label) \in Events
  <2>1. Payload(pr') \in Payloads
    BY <1>3 DEF PeopleOK, Payload, Payloads, PullRequests, Heads
  <2>2. NoPayload \in Payloads
    BY DEF NoPayload, Payloads
  <2>3. pr'.labels \cap ({Active, Teardown} \cup DeployLabels) \in SUBSET Labels
    BY DEF Labels, Active, Teardown
  <2> QED BY <2>1, <2>2, <2>3 DEF Event, Events, Actors
<1>5. /\ inbox' = Append(inbox, Event(on, actor, label)) /\ apply' = apply
      /\ Event(on, actor, label).on = on
      /\ on \in ApplyEvents => Event(on, actor, label).pr.head = pr'.head
  BY <1>2 DEF Edit, Event, Payload
<1> QED BY <1>2, <1>3, <1>4, <1>5, SendingKeepsHeads DEF PeopleOK

(* A delivery takes the oldest event, and a push that is delivered starts a
   run that knows of it. *)
LEMMA DeliveryKeepsHeads ==
    ASSUME TypeInv, HeadInv, inbox # <<>>, inbox' = Tail(inbox), UNCHANGED <<pr, fresh>>,
           \/ apply'.at = "idle"
           \/ apply' = apply /\ Head(inbox).on # "synchronize"
           \/ /\ apply' = [at |-> "evaluate", on |-> Head(inbox).on, pr |-> Head(inbox).pr]
              /\ Head(inbox).on \in ApplyEvents
    PROVE  HeadInv'
<1>1. inbox \in Seq(Events)
  BY DEF TypeInv, PeopleOK
<1>2. ASSUME NEW i \in DOMAIN inbox', inbox'[i].on \in ApplyEvents \ {"workflow_run"}
      PROVE  inbox'[i].pr.head = pr'.head \/ SyncIn(inbox', i)
  <2>1. i + 1 \in DOMAIN inbox /\ inbox'[i] = inbox[i + 1] /\ i \in Nat
    BY <1>1
  <2>2. inbox[i + 1].pr.head = pr.head \/ SyncIn(inbox, i + 1)
    BY <1>2, <2>1, CurrentOrSync DEF HeadInv
  <2>3. SyncIn(inbox, i + 1) => SyncIn(inbox', i)
    BY <1>1, <2>1, SyncDelivered
  <2> QED BY <2>1, <2>2, <2>3
<1>3. CASE apply'.at = "idle"
  BY <1>2, <1>3 DEF HeadInv, Current, SyncIn
<1>4. CASE apply' = apply /\ Head(inbox).on # "synchronize"
  <2>1. SyncIn(inbox, 0) => SyncIn(inbox', 0)
    BY <1>1, <1>4, SyncDelivered
  <2> QED BY <1>2, <1>4, <2>1 DEF HeadInv, Current, SyncIn
<1>5. CASE /\ apply' = [at |-> "evaluate", on |-> Head(inbox).on, pr |-> Head(inbox).pr]
           /\ Head(inbox).on \in ApplyEvents
  <2>1. 1 \in DOMAIN inbox /\ Head(inbox) = inbox[1]
    BY <1>1
  <2>2. apply'.on # "workflow_run" => apply'.pr.head = pr.head \/ SyncIn(inbox, 1)
    BY <1>5, <2>1, CurrentOrSync DEF HeadInv
  <2>3. SyncIn(inbox, 1) => SyncIn(inbox', 0)
    BY <1>1, SyncDelivered
  <2> QED BY <1>2, <1>5, <2>2, <2>3 DEF HeadInv, Current, SyncIn
<1> QED BY <1>3, <1>4, <1>5

LEMMA HeadStep ==
    ASSUME TypeInv, HeadInv, [Next]_vars
    PROVE  HeadInv'
<1>1. ASSUME UNCHANGED <<inbox, apply, fresh>>, pr'.head = pr.head
      PROVE  HeadInv'
  BY <1>1 DEF HeadInv, Current
<1>2. ASSUME UNCHANGED <<inbox, fresh>>, pr'.head = pr.head, apply'.at = "idle"
      PROVE  HeadInv'
  BY <1>2 DEF HeadInv, Current
<1>3. CASE PeopleAct
  BY <1>3, PeopleKeepHeads
<1>4. CASE CICompletes
  <2> SUFFICES ASSUME NEW h \in 1..pr.head,
                      inbox' = Append(inbox, [on |-> "workflow_run", actor |-> Bot,
                          label |-> "none", pr |-> [NoPayload EXCEPT !.head = h], labels |-> {}])
               PROVE  HeadInv'
    BY <1>4 DEF CICompletes
  <2>0. h \in 0..MaxHead
    BY BoundsAreNaturals DEF TypeInv, PeopleOK, PullRequests, Heads
  <2>1. [NoPayload EXCEPT !.head = h] \in Payloads
    BY <2>0 DEF NoPayload, Payloads
  <2>2. [on |-> "workflow_run", actor |-> Bot, label |-> "none",
         pr |-> [NoPayload EXCEPT !.head = h], labels |-> {}] \in Events
    BY <2>1 DEF Events, Ons, ApplyEvents, Actors
  <2>3. apply' = apply /\ pr' = pr /\ fresh' = fresh /\ pr' \in PullRequests
    BY <1>4 DEF CICompletes, people, TypeInv, PeopleOK
  <2> QED BY <2>2, <2>3, SendingKeepsHeads DEF HeadInv
<1>5. CASE DeliverToApply \/ DeliverToBoth
  BY <1>5, DeliveryKeepsHeads DEF DeliverToApply, DeliverToBoth, people
<1>6. CASE DeliverToDestroy
  <2>1. Head(inbox).on # "synchronize"
    BY <1>6 DEF DeliverToDestroy, DestroyEvents
  <2>2. apply' = apply \/ apply'.at = "idle"
    BY <1>6 DEF DeliverToDestroy, Idle
  <2> QED BY <1>6, <2>1, <2>2, DeliveryKeepsHeads DEF DeliverToDestroy, people
<1>7. CASE Requested
  <2>1. Resolved.head = pr.head \/ SyncIn(inbox, 0)
    BY <1>7, CurrentOrSync DEF Requested, Resolved, Payload, HeadInv
  <2> QED BY <1>7, <2>1 DEF Requested, people, HeadInv, Current, SyncIn
<1>8. CASE ApplySucceeds
  <2>1. apply.at = "apply" /\ pr'.head = pr.head
    BY <1>8 DEF ApplySucceeds, TypeInv, GroupOK, PeopleOK, PullRequests
  <2>2. apply'.at = "bootstrap" /\ apply'.head = apply.head
    BY <1>8, <2>1, HeadOfRun DEF ApplySucceeds, TypeInv
  <2> QED BY <1>8, <2>1, <2>2 DEF ApplySucceeds, HeadInv, Current
<1>9. CASE Bootstrap
  <2>1. apply'.at = "idle" \/ (apply'.at = "mark" /\ apply'.head = apply.head)
    BY <1>9, HeadOfRun DEF Bootstrap, Idle, TypeInv
  <2> QED BY <1>9, <2>1 DEF Bootstrap, people, HeadInv, Current
<1>10. CASE Mark
  <2>1. pr'.head = pr.head /\ pr.head \in Nat
    BY <1>10, BoundsAreNaturals DEF Mark, TypeInv, PeopleOK, PullRequests, Heads
  <2> QED BY <1>10, <2>1 DEF Mark, Idle, HeadInv, Current
<1>11. CASE Declines \/ ApplyFails
  BY <1>2, <1>11 DEF Declines, ApplyFails, Idle, people
<1>12. CASE Dispatches \/ JanitorDispatches
  <2>1. UNCHANGED <<inbox, pr, fresh>> /\ apply' = IF Ousted THEN Idle ELSE apply
    BY <1>12 DEF Dispatches, JanitorDispatches, people
  <2>2. CASE Ousted
    BY <1>2, <2>1, <2>2 DEF Idle
  <2>3. CASE ~Ousted
    BY <1>1, <2>1, <2>3
  <2> QED BY <2>2, <2>3
<1>13. CASE MarkInactive \/ MarkInactiveFails
  <2>1. PICK gone : Unmark(gone)
    BY <1>13 DEF MarkInactive, MarkInactiveFails
  <2>2. pr'.head = pr.head
    BY <2>1 DEF Unmark, TypeInv, PeopleOK, PullRequests
  <2> QED BY <1>1, <2>1, <2>2 DEF Unmark
<1>14. CASE \/ NotDestroying \/ CleanBefore \/ CleanAfter \/ CleanupFails \/ PreCleanFails
            \/ Salvage \/ UNCHANGED vars
  BY <1>1, <1>14 DEF NotDestroying, CleanBefore, CleanAfter, CleanupFails, PreCleanFails, Salvage,
     Rest, people, vars
<1>15. CASE DestroyInitial \/ DestroyRetry \/ RetryFails
  BY <1>1, <1>15 DEF DestroyInitial, DestroyRetry, RetryFails, Rest, people
<1>16. CASE Verify \/ VerifyFails \/ Settle
  BY <1>1, <1>16 DEF Verify, VerifyFails, Settle, Rest, people
<1>17. CASE Workload \/ DispatchFails \/ JanitorSelects \/ JanitorDispatchFails
  BY <1>1, <1>17 DEF Workload, DispatchFails, JanitorSelects, JanitorDispatchFails, people
<1> QED BY <1>3, <1>4, <1>5, <1>6, <1>7, <1>8, <1>9, <1>10, <1>11, <1>12, <1>13, <1>14,
        <1>15, <1>16, <1>17 DEF Next, AutoApply, AutoDestroy, Janitor, DestroyJob

LEMMA MarkStep ==
    ASSUME TypeInv, HeadInv, MarkInv, [Next]_vars
    PROVE  MarkInv'
<1>0. pr \in PullRequests /\ pr.head \in Nat /\ by \in [Labels -> Actors] /\ pr' \in PullRequests
  BY PeopleStep, BoundsAreNaturals DEF TypeInv, PeopleOK, PullRequests, Heads
<1>1. ASSUME pr'.head = pr.head, Validated \in pr'.labels => Validated \in pr.labels,
             UNCHANGED <<by, fresh, marked, backdated, markedLate>>
      PROVE  MarkInv'
  BY <1>1 DEF MarkInv
<1>2. CASE PeopleAct
  <2>1. PICK actor \in Editors :
         \/ \E old \in BOOLEAN : Push(actor, old)
         \/ Close(actor) \/ Reopen(actor) \/ ToDraft(actor) \/ Ready(actor)
         \/ \E l \in Editable : Label(actor, l) \/ Unlabel(actor, l)
    BY <1>2 DEF PeopleAct
  <2>2. ASSUME NEW old \in BOOLEAN, Push(actor, old)
        PROVE  MarkInv'
    <3>1. pr'.head = pr.head + 1
      BY <1>0, <2>2 DEF Push, PullRequests
    <3>2. CASE old
      BY <2>2, <3>1, <3>2 DEF Push, MarkInv
    <3>3. CASE ~old
      <4>1. pr.head + 1 \notin fresh
        BY <1>0 DEF HeadInv
      <4> QED BY <2>2, <3>1, <3>3, <4>1 DEF Push, MarkInv
    <3> QED BY <3>2, <3>3
  <2>3. CASE Close(actor) \/ Reopen(actor) \/ ToDraft(actor) \/ Ready(actor)
    <3>1. PICK on, o, d : Turn(on, actor, o, d)
      BY <2>3 DEF Close, Reopen, ToDraft, Ready
    <3>2. pr'.head = pr.head /\ pr'.labels = pr.labels
      BY <1>0, <3>1 DEF Turn, PullRequests
    <3> QED BY <1>1, <3>1, <3>2 DEF Turn, Edit
  <2>4. ASSUME NEW l \in Editable, Label(actor, l)
        PROVE  MarkInv'
    <3>1. pr'.head = pr.head /\ pr'.labels = pr.labels \cup {l}
      BY <1>0, <2>4 DEF Label, PullRequests
    <3>2. CASE l = Validated
      <4>1. by'[Validated] # Bot
        BY <1>0, <2>4, <3>2, SandboxAssumption DEF Label, Labels, Bot
      <4> QED BY <4>1 DEF MarkInv
    <3>3. CASE l # Validated
      BY <1>0, <2>4, <3>1, <3>3 DEF Label, Edit, MarkInv
    <3> QED BY <3>2, <3>3
  <2>5. ASSUME NEW l \in Editable, Unlabel(actor, l)
        PROVE  MarkInv'
    <3>1. pr'.head = pr.head /\ pr'.labels = pr.labels \ {l}
      BY <1>0, <2>5 DEF Unlabel, PullRequests
    <3> QED BY <1>1, <2>5, <3>1 DEF Unlabel, Edit
  <2> QED BY <2>1, <2>2, <2>3, <2>4, <2>5
<1>3. CASE Mark
  <2>1. pr'.head = pr.head /\ marked' = apply.head /\ markedLate' = (apply.head # pr.head /\ Unnoticed)
    BY <1>0, <1>3 DEF Mark, PullRequests
  <2>2. apply.head = pr.head \/ Unnoticed
    BY <1>3 DEF Mark, HeadInv, Current, Unnoticed
  <2> QED BY <2>1, <2>2 DEF MarkInv
<1>4. CASE ApplySucceeds
  <2>1. pr'.head = pr.head /\ (Validated \in pr'.labels => Validated \in pr.labels)
    BY <1>0, <1>4 DEF ApplySucceeds, PullRequests, Validated, Active
  <2> QED BY <1>1, <1>4, <2>1 DEF ApplySucceeds
<1>5. CASE MarkInactive \/ MarkInactiveFails
  <2>1. PICK gone : Unmark(gone)
    BY <1>5 DEF MarkInactive, MarkInactiveFails
  <2>2. pr'.head = pr.head /\ pr'.labels = pr.labels \ gone
    BY <1>0, <2>1 DEF Unmark, PullRequests
  <2> QED BY <1>1, <2>1, <2>2 DEF Unmark, ghost
<1>6. CASE CICompletes \/ DeliverToDestroy \/ Declines \/ Requested \/ Bootstrap \/ UNCHANGED vars
  BY <1>1, <1>6 DEF CICompletes, DeliverToDestroy, Declines, Requested, Bootstrap, people, ghost, vars
<1>7. CASE DeliverToApply \/ DeliverToBoth \/ ApplyFails \/ Verify
  BY <1>1, <1>7 DEF DeliverToApply, DeliverToBoth, ApplyFails, Verify, people
<1>8. CASE Dispatches \/ DispatchFails \/ NotDestroying \/ Workload \/ Janitor
  BY <1>1, <1>8 DEF Dispatches, DispatchFails, NotDestroying, Workload, Janitor, JanitorSelects,
     JanitorDispatches, JanitorDispatchFails, people, ghost
<1>9. CASE CleanBefore \/ CleanAfter \/ CleanupFails \/ PreCleanFails \/ Salvage \/ Settle
  BY <1>1, <1>9 DEF CleanBefore, CleanAfter, CleanupFails, PreCleanFails, Salvage, Settle, Rest,
     people, ghost
<1>10. CASE DestroyInitial \/ DestroyRetry \/ RetryFails \/ VerifyFails
  BY <1>1, <1>10 DEF DestroyInitial, DestroyRetry, RetryFails, VerifyFails, Rest, people, ghost
<1> QED BY <1>2, <1>3, <1>4, <1>5, <1>6, <1>7, <1>8, <1>9, <1>10
        DEF Next, AutoApply, AutoDestroy, DestroyJob

(* Whatever order events, pushes and runs come in, the gate lets a critical
   head pass on the bot's word only if it was validated for that head, with
   the two exceptions the property names (docs/sandbox-policy.md:78;
   sandbox-auto-apply.yml, freshForHead and mark-sandbox-validated). *)
THEOREM GateHolds == Spec => []GateIsOfHead
<1>1. Init => TypeInv /\ HeadInv /\ MarkInv
  <2> SUFFICES ASSUME Init
               PROVE  TypeInv /\ HeadInv /\ MarkInv
    OBVIOUS
  <2>1. TypeInv
    BY TypeInitially
  <2>2. HeadInv
    BY DEF Init, HeadInv, Idle
  <2>3. MarkInv
    BY DEF Init, MarkInv
  <2> QED BY <2>1, <2>2, <2>3
<1>2. TypeInv /\ HeadInv /\ MarkInv /\ [Next]_vars => (TypeInv /\ HeadInv /\ MarkInv)'
  BY PeopleStep, ApplyStep, GroupStep, CloudStep, HeadStep, MarkStep DEF TypeInv
<1>3. MarkInv => GateIsOfHead
  <2> SUFFICES ASSUME MarkInv, Required(Request(pr)), ~Block(Request(pr)),
                      Skip \notin Request(pr).trusted
               PROVE  marked = pr.head \/ pr.head \in backdated \/ markedLate
    BY DEF GateIsOfHead
  <2>1. Validated \in Request(pr).trusted
    BY DEF Block, Governed
  <2>2. Trusted(pr, Validated)
    BY <2>1 DEF Request
  <2> QED BY <2>2 DEF Trusted, SystemLabels, MarkInv
<1> QED BY <1>1, <1>2, <1>3, PTL DEF Spec
=============================================================================
