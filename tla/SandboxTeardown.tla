--------------------------- MODULE SandboxTeardown ---------------------------
(***************************************************************************)
(* What a sandbox leaves in the cloud account besides its Terraform        *)
(* states, and what one pass of scripts/cleanup_sandbox_aws_orphans.py     *)
(* does about it. The resources that carry a marker of the sandbox's       *)
(* cluster (has_cluster_marker) are abstracted to their kinds.             *)
(*   left      kinds of which something still exists                       *)
(*   leaving   kinds whose deletion was accepted and is not finished       *)
(***************************************************************************)
EXTENDS Naturals, FiniteSets

(* The order in which main() calls the passes. Security groups come in three
   kinds: those a rule of a group listed later refers to, those that refer to
   each other, and the others. *)
Rank == [nodegroup |-> 1, autoscaling |-> 2, instance |-> 3, elbv2 |-> 4, elb |-> 5,
         volume |-> 6, interface |-> 7, endpoint |-> 8, peering |-> 9,
         securitygroup |-> 10, referencedgroup |-> 10, mutualgroup |-> 10]
AllKinds == DOMAIN Rank
Passes == 10

Groups == {"securitygroup", "referencedgroup", "mutualgroup"}

(* Deleted at once by the call that deletes it; the others only begin to go. *)
Immediate == {"volume", "interface"} \cup Groups

(* Kinds that keep a volume or an interface from being "available", and what
   makes AWS refuse to delete a security group, which is skipped then. *)
HeldBy == [k \in AllKinds |->
    IF k = "volume" THEN {"instance"}
    ELSE IF k = "interface" THEN {"instance", "elbv2", "elb", "endpoint"}
    ELSE IF k = "securitygroup" THEN {"interface"}
    ELSE IF k = "referencedgroup" THEN {"interface", "securitygroup"}
    ELSE IF k = "mutualgroup" THEN {"interface", "mutualgroup"}
    ELSE {}]

Available(k, left) == HeldBy[k] \cap left = {}

(* What the deletions of the first n passes take away, looked at in state
   "left". Only a pass that comes earlier can free what a later one deletes. *)
FreedBefore(k, left) ==
    {j \in left \cap Immediate : Rank[j] < Rank[k] /\ Available(j, left)}
Removed(left, n) ==
    {k \in left \cap Immediate : Rank[k] <= n /\ Available(k, left \ FreedBefore(k, left))}
Begun(left, n) == {k \in left \ Immediate : Rank[k] <= n}

(* What the convergence check of infrastructure.yml reports: it does not look
   at node groups, Auto Scaling groups and instances, at volumes in use, and
   at endpoints already on their way out. *)
Residual(left, leaving) ==
    (left \cap (Groups \cup {"interface", "elbv2", "elb", "peering"}))
    \cup {k \in left \cap {"volume"} : Available(k, left)}
    \cup ((left \cap {"endpoint"}) \ leaving)

(* Terraform cannot destroy a network in which any of these exists. *)
InNetwork == Groups \cup {"instance", "elbv2", "elb", "interface", "endpoint"}

(* What the controllers in the cluster make for what is deployed to it. *)
ByWorkload == Groups \cup {"instance", "elbv2", "elb", "volume", "interface"}
=============================================================================
