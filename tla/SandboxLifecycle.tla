-------------------------- MODULE SandboxLifecycle ---------------------------
(***************************************************************************)
(* One pull request and its sandbox: the labels by which the owner asks    *)
(* for a sandbox or for its end, and the three workflows that act on them, *)
(*   sandbox-auto-apply.yml    builds it, deploys to it, marks the head    *)
(*   sandbox-auto-destroy.yml  sees that it has to go                      *)
(*   sandbox-janitor.yml       sees that it should have gone long ago      *)
(* with the jobs of infrastructure.yml that apply and destroy it.          *)
(* Events are delivered some time after what they report. A newer run of   *)
(* Auto Apply cancels the older one of the branch; everything that touches *)
(* the sandbox shares a concurrency group, in which one run executes and   *)
(* one waits, and a newer one takes the place of the one that waits.       *)
(***************************************************************************)
EXTENDS SandboxPolicy, SandboxTeardown, Sequences

CONSTANTS Editors,   \* who may push and label; one of them owns the repository
          Owner,
          Editable,  \* the labels people put on and take off
          Files,     \* the paths the pull request touches
          Kinds,     \* the kinds of resources a sandbox creates
          Roots,     \* Terraform roots, applied in order and destroyed in reverse
          MaxHead, MaxActs, MaxInbox   \* bounds

ASSUME SandboxAssumption ==
    /\ Owner \in Editors /\ "github-actions[bot]" \notin Editors
    /\ Editable \subseteq Labels \ {"sandbox-active"}
    /\ Files \subseteq Paths /\ Kinds \subseteq AllKinds
    /\ Roots \in Nat \ {0} /\ {MaxHead, MaxActs, MaxInbox} \subseteq Nat /\ MaxHead > 0

VARIABLES pr,       \* the pull request
          by,       \* label -> who put it on last
          fresh,    \* heads whose commit is not younger than sandbox-validated
          inbox,    \* events on their way to the workflows
          apply,    \* the run of Auto Apply of this branch
          running,  \* what executes in the concurrency group of the sandbox
          waiting,  \* what waits in it
          built,    \* roots with something in their Terraform state
          left, leaving,   \* see SandboxTeardown
          selected,   \* the janitor is about to ask for the end of this sandbox
          acts,    \* bound: acts of people, completions of CI and faults so far
          marked,      \* history: the head the last sandbox-validated was for
          backdated,   \* history: heads whose commit is older than their push
          markedLate,  \* history: marked for a head already replaced, unnoticed
          orphaned     \* history: an apply was interrupted or failed since the last full apply or destroy

ghost == <<marked, backdated, markedLate, orphaned>>
cloud == <<built, left, leaving>>
people == <<pr, by, fresh>>
vars == <<pr, by, fresh, inbox, apply, running, waiting, built, left, leaving,
          selected, acts, marked, backdated, markedLate, orphaned>>

Bot == "github-actions[bot]"
Active == "sandbox-active"
Teardown == "teardown-sandbox"
SystemLabels == {Validated}
Heads == 1..MaxHead

ApplyEvents == {"reopened", "synchronize", "ready_for_review", "labeled", "workflow_run"}
DestroyEvents == {"closed", "converted_to_draft", "labeled", "unlabeled"}
NoPayload == [draft |-> FALSE, head |-> 0, labels |-> {}]

Idle == [at |-> "idle", head |-> 0]
Nothing == [kind |-> "nothing"]
Destroy(step, retry) == [kind |-> "destroy", step |-> step, retry |-> retry]
Decide(e) == [kind |-> "decide", on |-> e.on, actor |-> e.actor, label |-> e.label,
              labels |-> e.labels]

Init ==
    /\ pr = [open |-> TRUE, draft |-> FALSE, head |-> 1, labels |-> {}]
    /\ by = [l \in Labels |-> Bot] /\ fresh = {}
    /\ inbox = <<>> /\ apply = Idle /\ running = Nothing /\ waiting = Nothing
    /\ built = 0 /\ left = {} /\ leaving = {}
    /\ selected = FALSE /\ acts = 0
    /\ marked = 0 /\ backdated = {} /\ markedLate = FALSE /\ orphaned = FALSE

-----------------------------------------------------------------------------
Act == acts < MaxActs /\ acts' = acts + 1

(* People. An event carries the pull request as it is then, of which Auto
   Apply uses "pr" and Auto Destroy, when it cannot look the labels up, those
   of its concern. *)

Payload(p) ==
    [draft |-> p.draft, head |-> p.head, labels |-> p.labels \ {Active, Teardown}]
Event(on, actor, label) ==
    [on |-> on, actor |-> actor, label |-> label,
     pr |-> IF on \in ApplyEvents THEN Payload(pr') ELSE NoPayload,
     labels |-> IF on \in DestroyEvents
                THEN pr'.labels \cap ({Active, Teardown} \cup DeployLabels) ELSE {}]

Edit(on, actor, label) ==
    /\ Act /\ Len(inbox) < MaxInbox
    /\ inbox' = Append(inbox, Event(on, actor, label))
    /\ UNCHANGED <<apply, running, waiting, cloud, selected, marked, markedLate, orphaned>>

(* A commit made before sandbox-validated was put on may be pushed after it. *)
Push(actor, old) ==
    /\ pr.open /\ pr.head < MaxHead
    /\ pr' = [pr EXCEPT !.head = @ + 1]
    /\ fresh' = IF old THEN fresh \cup {pr.head + 1} ELSE fresh
    /\ backdated' = IF old THEN backdated \cup {pr.head + 1} ELSE backdated
    /\ UNCHANGED by
    /\ Edit("synchronize", actor, "none")

Turn(on, actor, open, draft) ==
    /\ pr' = [pr EXCEPT !.open = open, !.draft = draft]
    /\ UNCHANGED <<by, fresh, backdated>>
    /\ Edit(on, actor, "none")

Close(actor) == pr.open /\ Turn("closed", actor, FALSE, pr.draft)
Reopen(actor) == ~pr.open /\ Turn("reopened", actor, TRUE, pr.draft)
ToDraft(actor) == pr.open /\ ~pr.draft /\ Turn("converted_to_draft", actor, TRUE, TRUE)
Ready(actor) == pr.open /\ pr.draft /\ Turn("ready_for_review", actor, TRUE, FALSE)

(* sandbox-validated put on by hand is as young as any, and by no bot. *)
Label(actor, l) ==
    /\ l \in Editable \ pr.labels
    /\ pr' = [pr EXCEPT !.labels = @ \cup {l}]
    /\ by' = [by EXCEPT ![l] = actor]
    /\ fresh' = IF l = Validated THEN 1..pr.head ELSE fresh
    /\ UNCHANGED backdated
    /\ Edit("labeled", actor, l)

Unlabel(actor, l) ==
    /\ l \in Editable \cap pr.labels
    /\ pr' = [pr EXCEPT !.labels = @ \ {l}]
    /\ UNCHANGED <<by, fresh, backdated>>
    /\ Edit("unlabeled", actor, l)

(* A CI workflow completes for some head of the branch. *)
CICompletes ==
    /\ pr.open /\ Act /\ Len(inbox) < MaxInbox
    /\ \E h \in 1..pr.head :
          inbox' = Append(inbox, [on |-> "workflow_run", actor |-> Bot, label |-> "none",
                                  pr |-> [NoPayload EXCEPT !.head = h], labels |-> {}])
    /\ UNCHANGED <<people, apply, running, waiting, cloud, selected, ghost>>

-----------------------------------------------------------------------------
(* The concurrency group infrastructure-sandbox-<number>. *)

Free == running.kind = "nothing"

(* A run that arrives executes if nothing does, else it takes the waiting
   place; an apply that loses the place is cancelled with its whole run. *)
Enter(run) ==
    /\ running' = IF Free THEN run ELSE running
    /\ waiting' = IF Free THEN waiting ELSE run
Ousted == ~Free /\ waiting.kind = "apply"
Leave == running' = waiting /\ waiting' = Nothing

(* What is made anew is there to stay, whatever of its kind was leaving. *)
Makes(made) == left' = left \cup made /\ leaving' = leaving \ made

(* An apply cut short, by an error or from outside: some roots are applied or
   none, the last of them perhaps in part. *)
CutShort ==
    /\ built' \in built..Roots
    /\ \E made \in IF built' = 0 THEN {{}} ELSE SUBSET Kinds : Makes(made)
    /\ orphaned' = TRUE

(* Mutant: the run that waits for the group is not cancelled. *)
CancelApplyRunning ==
    IF running.kind = "apply"
    THEN /\ CutShort /\ Leave
    ELSE UNCHANGED <<cloud, orphaned, running, waiting>>

(* Auto Apply cancels the run of the branch that is still under way. *)
CancelApply ==
    IF running.kind = "apply"
    THEN /\ CutShort /\ Leave
    ELSE /\ UNCHANGED <<cloud, orphaned, running>>
         /\ waiting' = IF waiting.kind = "apply" THEN Nothing ELSE waiting

(* GitHub starts the workflows an event is for: Auto Destroy joins the group
   at once, Auto Apply only when it has come to its infrastructure job. *)
DeliverToApply ==
    /\ inbox # <<>> /\ Head(inbox).on \in ApplyEvents \ DestroyEvents
    /\ inbox' = Tail(inbox)
    /\ CancelApply
    /\ apply' = [at |-> "evaluate", on |-> Head(inbox).on, pr |-> Head(inbox).pr]
    /\ UNCHANGED <<people, acts, selected, marked, backdated, markedLate>>

DeliverToDestroy ==
    /\ inbox # <<>> /\ Head(inbox).on \in DestroyEvents \ ApplyEvents
    /\ inbox' = Tail(inbox)
    /\ Enter(Decide(Head(inbox)))
    /\ apply' = IF Ousted THEN Idle ELSE apply
    /\ UNCHANGED <<people, cloud, acts, selected, ghost>>

(* Either may come first: the decision takes the waiting place and moves up
   when the apply is cancelled, or what waited moves up and it waits itself. *)
DeliverToBoth ==
    /\ inbox # <<>> /\ Head(inbox).on \in ApplyEvents \cap DestroyEvents
    /\ inbox' = Tail(inbox)
    /\ apply' = [at |-> "evaluate", on |-> Head(inbox).on, pr |-> Head(inbox).pr]
    /\ IF running.kind = "apply" THEN CutShort ELSE UNCHANGED <<cloud, orphaned>>
    /\ LET run == Decide(Head(inbox)) IN
       \/ /\ running.kind \in {"apply", "nothing"}
          /\ running' = run /\ waiting' = Nothing
       \/ /\ running.kind = "apply" /\ waiting.kind # "nothing"
          /\ running' = waiting /\ waiting' = run
       \/ /\ running.kind \notin {"apply", "nothing"}
          /\ running' = running /\ waiting' = run
    /\ UNCHANGED <<people, acts, selected, marked, backdated, markedLate>>

-----------------------------------------------------------------------------
(* sandbox-auto-apply.yml *)

(* Mutant: the label counts for whatever the head is by now. *)
TrustedStale(p, l) ==
    /\ l \in p.labels
    /\ IF l \in SystemLabels THEN by[l] = Bot ELSE by[l] = Owner

(* Who put a label on, and when, is read when the run evaluates it; the
   labels and the head are those of the pull request it was given. *)
Trusted(p, l) ==
    /\ l \in p.labels
    /\ IF l \in SystemLabels THEN by[l] = Bot /\ p.head \in fresh ELSE by[l] = Owner

Request(p) ==
    [sameRepo |-> TRUE, draft |-> p.draft, dependabot |-> FALSE, files |-> Files,
     trusted |-> {l \in Labels : Trusted(p, l)},
     approvers |-> {}, owners |-> {}, selfApprove |-> FALSE]

(* A run of CI speaks for the pull request only if its commit is the head. *)
Resolved == IF apply.on = "workflow_run" THEN Payload(pr) ELSE apply.pr
Stale == apply.on = "workflow_run" /\ apply.pr.head # pr.head

(* evaluate-policy and enforce-quota, ending without an apply: not eligible,
   a CI gate that is pending or red, another sandbox of the same author. *)
Declines ==
    /\ apply.at = "evaluate"
    /\ apply' = Idle
    /\ UNCHANGED <<people, inbox, running, waiting, cloud, acts, selected, ghost>>

Requested ==
    /\ apply.at = "evaluate" /\ ~Stale
    /\ AutoApplyEligible(Request(Resolved))
    /\ Enter([kind |-> "apply"])
    /\ apply' = [at |-> "apply", head |-> Resolved.head]
    /\ UNCHANGED <<people, inbox, cloud, acts, selected, ghost>>

(* The infrastructure job applies the roots, marks the pull request as active
   and refreshes the comment from which the janitor takes the age. A comment
   that fails leaves what a deployment that fails leaves. *)
ApplySucceeds ==
    /\ running.kind = "apply"
    /\ built' = Roots
    /\ \E made \in SUBSET Kinds : Makes(made)
    /\ pr' = [pr EXCEPT !.labels = @ \cup {Active}]
    /\ orphaned' = FALSE
    /\ apply' = [apply EXCEPT !.at = "bootstrap"]
    /\ Leave
    /\ UNCHANGED <<by, fresh, inbox, acts, selected, marked, backdated, markedLate>>

ApplyFails ==
    /\ running.kind = "apply"
    /\ Act /\ CutShort /\ Leave
    /\ apply' = Idle
    /\ UNCHANGED <<people, inbox, selected, marked, backdated, markedLate>>

(* What is deployed to the cluster makes resources of its own, whatever runs
   in the group meanwhile: a load balancer, nodes, volumes. *)
Workload ==
    /\ built > 0 /\ Act
    /\ \E k \in (Kinds \cap ByWorkload) \ (left \ leaving) : Makes({k})
    /\ UNCHANGED <<built, people, inbox, apply, running, waiting, selected, ghost>>

(* app-cd.yml deploys to the cluster, outside the group. *)
Bootstrap ==
    /\ apply.at = "bootstrap"
    /\ \/ built = Roots /\ apply' = [apply EXCEPT !.at = "mark"]
       \/ apply' = Idle
    /\ UNCHANGED <<people, inbox, running, waiting, cloud, acts, selected, ghost>>

Unnoticed == \E i \in DOMAIN inbox : inbox[i].on = "synchronize"

Mark ==
    /\ apply.at = "mark"
    /\ pr' = [pr EXCEPT !.labels = @ \cup {Validated}]
    /\ by' = [by EXCEPT ![Validated] = Bot]
    /\ fresh' = 1..pr.head
    /\ marked' = apply.head
    /\ markedLate' = (apply.head # pr.head /\ Unnoticed)
    /\ apply' = Idle
    /\ UNCHANGED <<inbox, running, waiting, cloud, acts, selected, backdated, orphaned>>

-----------------------------------------------------------------------------
(* sandbox-auto-destroy.yml: evaluated when its turn has come, over the labels
   the pull request has by then, or those of the event if the lookup fails.
   The destroy it asks for is a run of its own. *)

ShouldDestroy(e, labels) ==
    /\ e.actor = Owner
    /\ Active \in labels
    /\ \/ e.on \in {"closed", "converted_to_draft"}
       \/ e.on = "unlabeled" /\ e.label \in DeployLabels /\ labels \cap DeployLabels = {}
       \/ e.on = "labeled" /\ e.label = Teardown /\ Teardown \in labels

Decides(destroy) ==
    /\ running.kind = "decide"
    /\ \/ ShouldDestroy(running, pr.labels) = destroy /\ UNCHANGED acts
       \/ ShouldDestroy(running, running.labels) = destroy /\ Act

Dispatches ==
    /\ Decides(TRUE)
    /\ running' = [kind |-> "decided"]
    /\ waiting' = Destroy("clean", FALSE)
    /\ apply' = IF Ousted THEN Idle ELSE apply
    /\ UNCHANGED <<people, inbox, cloud, selected, ghost>>

DispatchFails ==
    /\ running.kind = "decide" /\ ShouldDestroy(running, pr.labels) /\ Act
    /\ Leave
    /\ UNCHANGED <<people, inbox, apply, cloud, selected, ghost>>

NotDestroying ==
    /\ \/ running.kind = "decided" /\ UNCHANGED acts
       \/ Decides(FALSE)
    /\ Leave
    /\ UNCHANGED <<people, inbox, apply, cloud, selected, ghost>>

(* sandbox-janitor.yml *)
(* Mutant: only open pull requests are listed. *)
JanitorReasonOpen(old) ==
    pr.open /\ ((Teardown \in pr.labels /\ by[Teardown] = Owner) \/ pr.draft \/ old)

JanitorReason(old) ==
    \/ ~pr.open
    \/ Teardown \in pr.labels /\ by[Teardown] = Owner
    \/ pr.draft
    \/ old

(* Two jobs: what is selected is destroyed whatever became of it meanwhile. *)
JanitorSelects ==
    /\ ~selected
    /\ Active \in pr.labels /\ \E old \in BOOLEAN : JanitorReason(old)
    /\ selected' = TRUE
    /\ UNCHANGED <<people, inbox, apply, running, waiting, cloud, acts, ghost>>

JanitorDispatches ==
    /\ selected /\ selected' = FALSE
    /\ Enter(Destroy("clean", FALSE))
    /\ apply' = IF Ousted THEN Idle ELSE apply
    /\ UNCHANGED <<people, inbox, cloud, acts, ghost>>

JanitorDispatchFails ==
    /\ selected /\ selected' = FALSE /\ Act
    /\ UNCHANGED <<people, inbox, apply, running, waiting, cloud, ghost>>

-----------------------------------------------------------------------------
(* The destroy job of infrastructure.yml. A step that fails ends the job,
   except the first terraform destroy, which is tried again after a second
   cleanup. *)

At(step) == running.kind = "destroy" /\ running.step = step
GoOn(step) == running' = [running EXCEPT !.step = step] /\ UNCHANGED waiting
Rest == <<people, inbox, apply, selected, ghost>>

Cleanup(n) ==
    /\ left' = left \ Removed(left, n)
    /\ leaving' = leaving \cup Begun(left, n)
    /\ UNCHANGED built

(* One call of the AWS CLI fails, after n passes; the pre-cleaning of the
   namespace before the terraform destroy fails. The cleanup after the destroy
   runs always, so even then, and the rest of the job does not. *)
CleanupFails ==
    /\ At("clean") \/ At("cleanAgain")
    /\ Act
    /\ \E n \in 0..(Passes - 1) : Cleanup(n)
    /\ IF At("clean") THEN GoOn("salvage") ELSE Leave
    /\ UNCHANGED Rest

PreCleanFails ==
    /\ At("destroy") /\ Act /\ GoOn("salvage")
    /\ UNCHANGED <<cloud, Rest>>

Salvage ==
    /\ At("salvage")
    /\ \E n \in 0..Passes : Cleanup(n)
    /\ Leave
    /\ UNCHANGED <<acts, Rest>>

CleanBefore == At("clean") /\ Cleanup(Passes) /\ GoOn("destroy") /\ UNCHANGED <<acts, Rest>>

CleanAfter ==
    /\ At("cleanAgain") /\ Cleanup(Passes)
    /\ GoOn(IF running.retry THEN "retry" ELSE "verify")
    /\ UNCHANGED <<acts, Rest>>

(* Terraform fails for what is left in the network, or for a fault. *)
TerraformSucceeds == left \cap InNetwork = {} /\ built' = 0 /\ UNCHANGED acts
TerraformFails ==
    /\ built' \in 0..built /\ (built > 0 => built' > 0)
    /\ IF left \cap InNetwork = {} THEN Act ELSE UNCHANGED acts

DestroyInitial ==
    /\ At("destroy")
    /\ \/ TerraformSucceeds /\ running' = Destroy("cleanAgain", FALSE)
       \/ TerraformFails /\ running' = Destroy("cleanAgain", TRUE)
    /\ UNCHANGED <<left, leaving, waiting, Rest>>

DestroyRetry ==
    /\ At("retry") /\ TerraformSucceeds /\ GoOn("verify")
    /\ UNCHANGED <<left, leaving, Rest>>

RetryFails ==
    /\ At("retry") /\ TerraformFails /\ Leave
    /\ UNCHANGED <<left, leaving, Rest>>

(* Mutant: the convergence check is left to the Terraform states. *)
ConvergedState == built = 0

Converged == built = 0 /\ Residual(left, leaving) = {}

Verify ==
    /\ At("verify") /\ Converged /\ GoOn("unlabel")
    /\ orphaned' = FALSE
    /\ UNCHANGED <<people, inbox, apply, cloud, acts, selected, marked, backdated, markedLate>>

VerifyFails ==
    /\ At("verify") /\ Leave
    /\ IF Converged THEN Act ELSE UNCHANGED acts
    /\ UNCHANGED <<cloud, Rest>>

(* Three labels are taken off, by a call each. *)
Unmark(gone) ==
    /\ At("unlabel")
    /\ pr' = [pr EXCEPT !.labels = @ \ gone]
    /\ Leave
    /\ UNCHANGED <<by, fresh, inbox, apply, cloud, selected, ghost>>

MarkInactive == Unmark({Active, Validated, Teardown}) /\ UNCHANGED acts
MarkInactiveFails == Act /\ \E gone \in {{}, {Active}, {Active, Validated}} : Unmark(gone)

(* AWS finishes a deletion it has accepted. *)
Settle ==
    /\ \E k \in leaving : left' = left \ {k} /\ leaving' = leaving \ {k}
    /\ UNCHANGED <<built, running, waiting, acts, Rest>>

-----------------------------------------------------------------------------

PeopleAct ==
    \E actor \in Editors :
       \/ \E old \in BOOLEAN : Push(actor, old)
       \/ Close(actor) \/ Reopen(actor) \/ ToDraft(actor) \/ Ready(actor)
       \/ \E l \in Editable : Label(actor, l) \/ Unlabel(actor, l)

AutoApply ==
    DeliverToApply \/ Declines \/ Requested \/ ApplySucceeds \/ ApplyFails \/ Bootstrap \/ Mark
AutoDestroy == DeliverToDestroy \/ Dispatches \/ DispatchFails \/ NotDestroying
Janitor == JanitorSelects \/ JanitorDispatches \/ JanitorDispatchFails
DestroyJob ==
    \/ CleanBefore \/ DestroyInitial \/ CleanAfter
    \/ CleanupFails \/ PreCleanFails \/ Salvage
    \/ DestroyRetry \/ RetryFails \/ Verify \/ VerifyFails
    \/ MarkInactive \/ MarkInactiveFails

Next ==
    \/ PeopleAct \/ CICompletes
    \/ DeliverToBoth \/ AutoApply \/ AutoDestroy
    \/ Workload \/ Janitor \/ DestroyJob \/ Settle

(* Deliveries are made, the run that executes in the group goes on and so
   does an evaluation, AWS finishes what it accepted, and the janitor, which is
   scheduled every hour, does not fail for ever. An apply ends one way or the
   other. No fairness for people, for CI, nor for what is deployed. *)
GroupGoesOn ==
    ApplySucceeds \/ ApplyFails \/ Dispatches \/ DispatchFails \/ NotDestroying \/ DestroyJob
Fairness ==
    /\ WF_vars(DeliverToApply \/ DeliverToDestroy \/ DeliverToBoth)
    /\ WF_vars(Declines)
    /\ WF_vars(GroupGoesOn)
    /\ WF_vars(Settle)
    /\ WF_vars(JanitorSelects \/ JanitorDispatches)

Spec == Init /\ [][Next]_vars /\ Fairness

-----------------------------------------------------------------------------
(* Type invariant. *)

PullRequests == [open : BOOLEAN, draft : BOOLEAN, head : Heads, labels : SUBSET Labels]
Payloads == [draft : BOOLEAN, head : 0..MaxHead, labels : SUBSET Labels]
Actors == Editors \cup {Bot}
Ons == ApplyEvents \cup DestroyEvents
Events == [on : Ons, actor : Actors, label : Labels \cup {"none"}, pr : Payloads,
           labels : SUBSET Labels]
Decisions == [kind : {"decide"}, on : DestroyEvents, actor : Actors,
              label : Labels \cup {"none"}, labels : SUBSET Labels]
Steps == {"clean", "destroy", "cleanAgain", "salvage", "retry", "verify", "unlabel"}
Destroys == [kind : {"destroy"}, step : Steps, retry : BOOLEAN]
Applies ==
    [at : {"evaluate"}, on : ApplyEvents, pr : Payloads]
    \cup [at : {"apply", "bootstrap", "mark"}, head : 0..MaxHead] \cup {Idle}
Runs == {Nothing, [kind |-> "apply"], [kind |-> "decided"]} \cup Decisions \cup Destroys

(* Types, and the group's discipline: an apply is in the group exactly while
   the run of Auto Apply waits for its infrastructure job, and nothing waits
   for nobody (concurrency, infrastructure.yml:111). *)
TypeOK ==
    /\ pr \in PullRequests /\ by \in [Labels -> Actors] /\ fresh \subseteq Heads
    /\ inbox \in Seq(Events) /\ apply \in Applies
    /\ running \in Runs /\ waiting \in Runs
    /\ waiting # Nothing => running # Nothing
    /\ (apply.at = "apply") = (running.kind = "apply" \/ waiting.kind = "apply")
    /\ ~(running.kind = "apply" /\ waiting.kind = "apply")
    /\ built \in 0..Roots /\ left \subseteq Kinds /\ leaving \subseteq left
    /\ selected \in BOOLEAN /\ acts \in Nat
    /\ marked \in 0..MaxHead /\ backdated \subseteq Heads
    /\ markedLate \in BOOLEAN /\ orphaned \in BOOLEAN

(* sandbox-active is how quota and cleanup know that a sandbox exists
   (docs/sandbox-policy.md:80): without it, and with no apply under way or
   cut short, nothing of the sandbox is left, neither Terraform state nor
   anything the convergence check does not look at. *)
NothingUnlabelled ==
    Active \notin pr.labels /\ running.kind # "apply" /\ ~orphaned
        => built = 0 /\ left \subseteq leaving

(* A critical pull request passes the gate without the owner's waiver only
   when the head it has now is the one the sandbox was validated for
   (docs/sandbox-policy.md:78), unless its commit is older than the push or
   the validation was overtaken by a push nobody was told of yet. *)
GateIsOfHead ==
    LET r == Request(pr) IN
    Required(r) /\ ~Block(r) /\ Skip \notin r.trusted
        => \/ marked = pr.head
           \/ pr.head \in backdated
           \/ markedLate

(* Every sandbox goes at last, whatever runs were ousted, cancelled or failed
   and whether or not anybody asks for it (sandbox-janitor.yml). *)
TornDown == (Active \in pr.labels) ~> (Active \notin pr.labels)
=============================================================================
