-------------------------- MODULE ReleaseDelivery --------------------------
(***************************************************************************)
(* From a tag to running services: the publish-image workflow with the     *)
(* scripts release_record.py (images and release records) and              *)
(* execution_delivery.py (gates before and after the rollout), and the     *)
(* operator's bootstrap_execution_identity.py, which labels Deployments    *)
(* that predate the automation.  A workflow run may die between any two    *)
(* steps and leaves behind what it has done.                               *)
(*                                                                         *)
(* GitHub's concurrency groups serialize the prepare jobs of one tag and   *)
(* all deploy jobs.  A Deployment's image and labels change together: they *)
(* are one object.                                                         *)
(***************************************************************************)
EXTENDS Integers, DeploymentCheck

CONSTANTS
    NULL,
    Slots,        \* workflow runs that are in progress at the same time
    Operators,    \* operators who run the bootstrap
    MaxVersion,   \* bound: versions 1..MaxVersion; the cluster starts at 1
    Commits,      \* what a tag may point to
    MaxAttempts,  \* bound: workflow runs in all
    MaxMoves,     \* bound: moves of a tag
    MaxBoots      \* bound: invocations of the bootstrap

Versions == 1..MaxVersion
RoleOrder == <<"api", "publisher", "worker">>
Roles == ToSet(RoleOrder)
Execution == {"publisher", "worker"}

(* Builds are not reproducible: each workflow run makes images of its own. *)
Images == [version : Versions, commit : Commits, build : 0..MaxAttempts]
Release == [commit : Commits, images : [Roles -> Images]]

ASSUME ReleaseAssumption ==
    /\ MaxVersion \in Nat \ {0} /\ Commits # {}
    /\ {MaxAttempts, MaxMoves, MaxBoots} \subseteq Nat
    /\ NULL \notin Commits \cup Release

VARIABLES
    tag,       \* tag[v]: the commit that the tag of version v points to
    registry,  \* registry[role][v]: the image under that version tag, or NULL
    record,    \* record[v]: release.json of the GitHub release, or NULL
    live,      \* live[role]: the Deployment: image, version and commit labels, owner
    helm,      \* status of the Helm release mic3-execution
    schema,    \* the database has the migrations of the versions up to this one
    jobs,      \* jobs[n]: the migration Job of workflow run n
    work,      \* work[s]: the workflow run in slot s
    boot,      \* boot[o]: the bootstrap of operator o; role is labelled next
    used       \* workflow runs, tag moves and bootstraps so far

github == <<tag, registry, record>>
cluster == <<live, helm, schema, jobs>>
vars == <<github, cluster, work, boot, used, checkVars>>

Image(v, commit, n) == [version |-> v, commit |-> commit, build |-> n]

Deployment == [image : Images, version : 0..MaxVersion, commit : Commits \cup {NULL},
               owner : {"helm", "bootstrap"}]

NoWork == [pc |-> "idle", v |-> 0, n |-> 0, commit |-> NULL, images |-> <<>>,
           source |-> NULL]
NoBoot == [pc |-> "idle", v |-> 0, repair |-> FALSE, seen |-> <<>>, role |-> "publisher"]
Done == [NoWork EXCEPT !.pc = "done"]
FirstCommit == CHOOSE c \in Commits : TRUE

(* Version 1 was delivered by hand: its record exists, and the execution   *)
(* services may carry no labels, or labels owned by the bootstrap.         *)
Init ==
    /\ tag = [v \in Versions |-> FirstCommit]
    /\ registry = [r \in Roles |-> [v \in Versions |->
                     IF v = 1 THEN Image(1, FirstCommit, 0) ELSE NULL]]
    /\ record = [v \in Versions |-> IF v > 1 THEN NULL ELSE
                   [commit |-> FirstCommit,
                    images |-> [r \in Roles |-> Image(1, FirstCommit, 0)]]]
    /\ \E labelled, owned \in BOOLEAN :
        live = [r \in Roles |->
            [image |-> Image(1, FirstCommit, 0),
             version |-> IF r = "api" \/ labelled THEN 1 ELSE 0,
             commit |-> IF r = "api" \/ labelled THEN FirstCommit ELSE NULL,
             owner |-> IF r = "api" \/ ~labelled \/ owned THEN "helm" ELSE "bootstrap"]]
    /\ helm = "deployed" /\ schema = 1
    /\ jobs = [n \in 1..MaxAttempts |-> [v |-> 0, state |-> "none"]]
    /\ work = [s \in Slots |-> NoWork]
    /\ boot = [o \in Operators |-> NoBoot]
    /\ used = [attempts |-> 0, moves |-> 0, boots |-> 0]
    /\ CheckInit

At(s, pc) == work[s].pc = pc
Go(s, pc) == work' = [work EXCEPT ![s].pc = pc]

-----------------------------------------------------------------------------
(* The prepare job: release_record.py                                      *)

Preparing == {"discover", "preflight", "publish", "push", "save", "validate"}

(* Somebody moves a tag.                                                   *)
MoveTag(v) ==
    /\ used.moves < MaxMoves
    /\ used' = [used EXCEPT !.moves = @ + 1]
    /\ \E c \in Commits \ {tag[v]} : tag' = [tag EXCEPT ![v] = c]
    /\ UNCHANGED <<registry, record, cluster, work, boot, checkVars>>

(* A tag is pushed or the workflow dispatched, and the concurrency group   *)
(* of the tag is free: check out the tag, note its commit.                 *)
Checkout(s, v) ==
    /\ work[s].pc \in {"idle", "done"} /\ used.attempts < MaxAttempts
    /\ \A t \in Slots : work[t].pc \in Preparing => work[t].v # v
    /\ used' = [used EXCEPT !.attempts = @ + 1]
    /\ work' = [work EXCEPT ![s] =
         [NoWork EXCEPT !.pc = "discover", !.v = v, !.n = used.attempts + 1,
                        !.source = tag[v]]]
    /\ UNCHANGED <<github, cluster, boot, checkVars>>

(* An existing release is reused; only a 404 permits publication.          *)
discover(s) ==
    /\ At(s, "discover")
    /\ LET found == record[work[s].v] IN
       work' = [work EXCEPT ![s] =
         IF found = NULL THEN [@ EXCEPT !.pc = "preflight"]
         ELSE [@ EXCEPT !.pc = "validate", !.commit = found.commit,
                        !.images = found.images]]
    /\ UNCHANGED <<github, cluster, boot, used, checkVars>>

(* Every version tag is absent from the registry.                          *)
preflight(v) == \A r \in Roles : registry[r][v] = NULL

(* Once before the tests and the build of the three local images, and once *)
(* again before the first push.                                            *)
PreflightStep(s) ==
    /\ \/ At(s, "preflight") /\ Go(s, "publish")
       \/ At(s, "publish") /\ Go(s, "push")
    /\ preflight(work[s].v)
    /\ UNCHANGED <<github, cluster, boot, used, checkVars>>

(* publish: push one image after the other and note its digest.            *)
Push(s) ==
    /\ At(s, "push")
    /\ LET v == work[s].v
           role == RoleOrder[Len(work[s].images) + 1]
           image == Image(v, work[s].source, work[s].n)
           pushed == Append(work[s].images, image)
       IN /\ registry' = [registry EXCEPT ![role][v] = image]
          /\ work' = [work EXCEPT ![s] =
               IF Len(pushed) < Len(RoleOrder) THEN [@ EXCEPT !.images = pushed]
               ELSE [@ EXCEPT !.pc = "save", !.commit = work[s].source,
                              !.images = [r \in Roles |-> image]]]
    /\ UNCHANGED <<tag, record, cluster, boot, used, checkVars>>

(* gh release create --verify-tag, which fails if the release exists.      *)
SaveRecord(s) ==
    /\ At(s, "save") /\ record[work[s].v] = NULL
    /\ record' = [record EXCEPT ![work[s].v] =
                    [commit |-> work[s].commit, images |-> work[s].images]]
    /\ Go(s, "validate")
    /\ UNCHANGED <<tag, registry, cluster, boot, used, checkVars>>

(* The record names this tag and this commit.                              *)
validate(s) == work[s].commit = work[s].source

Validate(s) ==
    /\ At(s, "validate") /\ validate(s)
    /\ Go(s, "waiting")
    /\ UNCHANGED <<github, cluster, boot, used, checkVars>>

-----------------------------------------------------------------------------
(* The deploy job: execution_delivery.py                                   *)

Deploying == {"reject", "gate", "migrate", "migrating", "upgrade", "upgrading",
              "verify", "apply", "verification", "checking"}

(* Faulty variant: deploy jobs are not in one concurrency group.           *)
StartDeploy_Concurrent(s) ==
    /\ At(s, "waiting")
    /\ Go(s, "reject")
    /\ UNCHANGED <<github, cluster, boot, used, checkVars>>

StartDeploy(s) ==
    /\ At(s, "waiting")
    /\ \A t \in Slots : work[t].pc \notin Deploying
    /\ Go(s, "reject")
    /\ UNCHANGED <<github, cluster, boot, used, checkVars>>

(* The step "Reject older releases" looks at the API only.                 *)
RejectOlder(s) ==
    /\ At(s, "reject")
    /\ live["api"].version # 0 /\ live["api"].version <= work[s].v
    /\ live["api"].version = work[s].v => live["api"].image = work[s].images["api"]
    /\ Go(s, "gate")
    /\ UNCHANGED <<github, cluster, boot, used, checkVars>>

check_helm_status == helm \in {"deployed", "failed"}

(* Faulty variant: nothing but the API is compared with the target.        *)
check_deployment_ApiOnly(s, role) ==
    /\ live[role].version # 0
    /\ role = "api" => live[role].version <= work[s].v

(* A labelled Deployment that is not ahead of the target, and is the       *)
(* target itself if it has the target's version.                           *)
check_deployment(s, role) ==
    /\ live[role].version # 0
    /\ live[role].version <= work[s].v
    /\ live[role].version = work[s].v =>
         /\ live[role].image = work[s].images[role]
         /\ live[role].commit = work[s].commit

(* render and preflight.  The server-side dry run reports a conflict when  *)
(* another manager than Helm owns the labels.                              *)
Gate(s) ==
    /\ At(s, "gate")
    /\ check_helm_status
    /\ \A r \in Roles : check_deployment(s, r)
    /\ \A r \in Execution : live[r].owner = "helm"
    /\ Go(s, "migrate")
    /\ UNCHANGED <<github, cluster, boot, used, checkVars>>

(* Wait for the migration Jobs of earlier workflow runs, then create one.  *)
StartMigration(s) ==
    /\ At(s, "migrate")
    /\ \A n \in DOMAIN jobs : jobs[n].state # "running"
    /\ jobs' = [jobs EXCEPT ![work[s].n] = [v |-> work[s].v, state |-> "running"]]
    /\ Go(s, "migrating")
    /\ UNCHANGED <<github, live, helm, schema, boot, used, checkVars>>

(* alembic upgrade head, in the cluster: it goes on when the workflow run  *)
(* is gone.  An older image fails if a later release has added a revision  *)
(* that it does not know, and has nothing to do if none has.               *)
MigrationEnds(n) ==
    /\ jobs[n].state = "running"
    /\ \/ /\ schema' = Max({schema, jobs[n].v})
          /\ jobs' = [jobs EXCEPT ![n].state = "complete"]
       \/ /\ jobs' = [jobs EXCEPT ![n].state = "failed"]
          /\ UNCHANGED schema
    /\ UNCHANGED <<github, live, helm, work, boot, used, checkVars>>

AwaitMigration(s) ==
    /\ At(s, "migrating") /\ jobs[work[s].n].state = "complete"
    /\ Go(s, "upgrade")
    /\ UNCHANGED <<github, cluster, boot, used, checkVars>>

HelmUpgrade(s) ==
    /\ At(s, "upgrade")
    /\ helm' = "pending-upgrade"
    /\ Go(s, "upgrading")
    /\ UNCHANGED <<github, live, schema, jobs, boot, used, checkVars>>

Delivered(s, role) ==
    [image |-> work[s].images[role], version |-> work[s].v,
     commit |-> work[s].commit, owner |-> "helm"]

(* Helm applies one Deployment after the other.                            *)
HelmApply(s, role) ==
    /\ At(s, "upgrading") /\ live[role].owner = "helm"
    /\ live[role] # Delivered(s, role)
    /\ live' = [live EXCEPT ![role] = Delivered(s, role)]
    /\ UNCHANGED <<github, helm, schema, jobs, work, boot, used, checkVars>>

HelmReports(s) ==
    /\ At(s, "upgrading")
    /\ \/ /\ \A r \in Execution : live[r] = Delivered(s, r)
          /\ helm' = "deployed" /\ Go(s, "verify")
       \/ helm' = "failed" /\ work' = [work EXCEPT ![s] = NoWork]
    /\ UNCHANGED <<github, live, schema, jobs, boot, used, checkVars>>

(* execution_delivery.py verify, after the rollout.                        *)
Verify(s) ==
    /\ At(s, "verify")
    /\ \A r \in Execution : /\ check_deployment(s, r)
                            /\ live[r].version = work[s].v
    /\ Go(s, "apply")
    /\ UNCHANGED <<github, cluster, boot, used, checkVars>>

(* oc apply of the API, wait for its rollout, public endpoints answer.     *)
ApplyApi(s) ==
    /\ At(s, "apply")
    /\ live' = [live EXCEPT !["api"] = Delivered(s, "api")]
    /\ Go(s, "verification")
    /\ UNCHANGED <<github, helm, schema, jobs, boot, used, checkVars>>

CreateVerification(s) ==
    /\ At(s, "verification")
    /\ StartCheck
    /\ Go(s, "checking")
    /\ UNCHANGED <<github, cluster, boot, used>>

AwaitVerification(s) ==
    /\ At(s, "checking") /\ check.pc = "passed"
    /\ work' = [work EXCEPT ![s] = Done]
    /\ ForgetCheck
    /\ UNCHANGED <<github, cluster, boot, used>>

(* A gate refuses, a call fails, the runner dies: the job ends here, and   *)
(* nobody reads the verdict of a check that is still running.              *)
Stop(s) ==
    /\ work[s].pc \notin {"idle", "done"}
    /\ work' = [work EXCEPT ![s] = NoWork]
    /\ IF At(s, "checking") THEN ForgetCheck ELSE UNCHANGED checkVars
    /\ UNCHANGED <<github, cluster, boot, used>>

-----------------------------------------------------------------------------
(* bootstrap_execution_identity.py                                         *)

BootStart(o, v, repair) ==
    /\ boot[o].pc = "idle" /\ used.boots < MaxBoots
    /\ record[v] # NULL /\ check_helm_status
    /\ used' = [used EXCEPT !.boots = @ + 1]
    /\ boot' = [boot EXCEPT ![o] =
                  [pc |-> "read", v |-> v, repair |-> repair, seen |-> <<>>,
                   role |-> "publisher"]]
    /\ UNCHANGED <<github, cluster, work, checkVars>>

(* The live image is the record's and no label says otherwise.             *)
planned_annotations(o, role, doc) ==
    LET rec == record[boot[o].v] IN
    /\ doc.image = rec.images[role]
    /\ doc.version \in {0, boot[o].v} /\ doc.commit \in {NULL, rec.commit}

(* oc get of the three Deployments, one after the other; all are compared  *)
(* with the record before anything is written.                             *)
BootRead(o) ==
    /\ boot[o].pc = "read"
    /\ LET role == RoleOrder[Len(boot[o].seen) + 1] IN
       /\ planned_annotations(o, role, live[role])
       /\ boot' = [boot EXCEPT ![o].seen = Append(@, live[role]),
                     ![o].pc = IF role = "worker" THEN "annotate" ELSE @]
    /\ UNCHANGED <<github, cluster, work, used, checkVars>>

Labelled(o, doc) ==
    [doc EXCEPT !.version = boot[o].v, !.commit = record[boot[o].v].commit]

Position(role) == IF role = "publisher" THEN 2 ELSE 3

(* Faulty variant: oc annotate without --resource-version.                 *)
Annotate_Unguarded(o, role) ==
    /\ boot[o].pc = "annotate" /\ boot[o].role = role
    /\ live' = [live EXCEPT ![role] = [Labelled(o, @) EXCEPT !.owner = "bootstrap"]]
    /\ boot' = [boot EXCEPT ![o].pc = "release"]
    /\ UNCHANGED <<github, helm, schema, jobs, work, used, checkVars>>

(* write_annotations: only the Deployment that was read is labelled; a     *)
(* repair leaves labels alone that are right.                              *)
Annotate(o, role) ==
    LET doc == boot[o].seen[Position(role)] IN
    /\ boot[o].pc = "annotate" /\ boot[o].role = role
    /\ IF boot[o].repair /\ Labelled(o, doc) = doc THEN UNCHANGED live
       ELSE /\ live[role] = doc
            /\ live' = [live EXCEPT ![role] =
                          [Labelled(o, doc) EXCEPT !.owner = "bootstrap"]]
    /\ boot' = [boot EXCEPT ![o].pc = "release"]
    /\ UNCHANGED <<github, helm, schema, jobs, work, used, checkVars>>

(* ownership_patch, guarded by the resource version of a fresh read: give  *)
(* up the labels' ownership if the Deployment still is what was labelled.  *)
ReleaseOwnership(o, role) ==
    /\ boot[o].pc = "release" /\ boot[o].role = role
    /\ Labelled(o, live[role]) = live[role]
    /\ live[role].image = record[boot[o].v].images[role]
    /\ live' = [live EXCEPT ![role].owner = "helm"]
    /\ boot' = [boot EXCEPT ![o] = IF role = "worker" THEN NoBoot
                                   ELSE [@ EXCEPT !.pc = "annotate", !.role = "worker"]]
    /\ UNCHANGED <<github, helm, schema, jobs, work, used, checkVars>>

(* A check refuses, a conflict is reported, the operator interrupts.       *)
BootStop(o) ==
    /\ boot[o].pc # "idle"
    /\ boot' = [boot EXCEPT ![o] = NoBoot]
    /\ UNCHANGED <<github, cluster, work, used, checkVars>>

-----------------------------------------------------------------------------

Workflow(s) ==
    \/ \E v \in Versions : Checkout(s, v)
    \/ discover(s) \/ PreflightStep(s) \/ Push(s) \/ SaveRecord(s)
    \/ Validate(s) \/ StartDeploy(s) \/ RejectOlder(s) \/ Gate(s)
    \/ StartMigration(s) \/ AwaitMigration(s) \/ HelmUpgrade(s)
    \/ \E r \in Execution : HelmApply(s, r)
    \/ HelmReports(s) \/ Verify(s) \/ ApplyApi(s) \/ CreateVerification(s)
    \/ AwaitVerification(s) \/ Stop(s)

Bootstrap(o) ==
    \/ \E v \in Versions, repair \in BOOLEAN : BootStart(o, v, repair)
    \/ BootRead(o)
    \/ \E r \in Execution : Annotate(o, r) \/ ReleaseOwnership(o, r)
    \/ BootStop(o)

Next ==
    \/ \E v \in Versions : MoveTag(v)
    \/ \E s \in Slots : Workflow(s)
    \/ \E n \in DOMAIN jobs : MigrationEnds(n)
    \/ \E o \in Operators : Bootstrap(o)
    \/ CheckNext /\ UNCHANGED <<github, cluster, work, boot, used>>

Spec == Init /\ [][Next]_vars

-----------------------------------------------------------------------------

(* Types; and at most one migration of the database runs at a time, also   *)
(* after workflow runs that died while theirs was running (the step "Run   *)
(* database migration").                                                   *)
TypeOK ==
    /\ tag \in [Versions -> Commits]
    /\ record \in [Versions -> Release \cup {NULL}]
    /\ helm \in {"deployed", "failed", "pending-upgrade"}
    /\ schema \in Versions
    /\ \A s \in Slots : /\ work[s].v \in 0..MaxVersion
                        /\ work[s].n \in 0..MaxAttempts
                        /\ work[s].pc \in Preparing \cup Deploying
                                            \cup {"idle", "waiting", "done"}
    /\ live \in [Roles -> Deployment]
    /\ CheckTypeOK
    /\ Cardinality({n \in DOMAIN jobs : jobs[n].state = "running"}) <= 1

(* An image tag is written once, whatever was published halfway before     *)
(* (release_record.preflight and publish).                                 *)
TagsImmutable ==
    \A r \in Roles, v \in Versions :
        registry[r][v] # NULL => registry'[r][v] = registry[r][v]

(* No service ever goes back to an older image or an older label, in       *)
(* whatever order workflow runs reach the cluster and wherever they died   *)
(* (the step "Reject older releases", check_deployment).                   *)
NoDowngrade ==
    \A r \in Roles : /\ live'[r].image.version >= live[r].image.version
                     /\ live'[r].version >= live[r].version

(* The labels of a Deployment tell what it runs: the image that the record *)
(* of that version names, built from the commit of that record             *)
(* (check_deployment, planned_annotations, write_annotations).             *)
LabelsTrue ==
    \A r \in Roles : live[r].version # 0 =>
        LET rec == record[live[r].version] IN
        /\ rec # NULL
        /\ live[r].image = rec.images[r]
        /\ live[r].commit = rec.commit

(* No service runs against a database that lacks its migrations: the       *)
(* rollout starts only after its own migration Job is complete.            *)
SchemaFirst == \A r \in Roles : live[r].image.version <= schema

(* A deployed release is built from the commit its tag pointed to when the *)
(* workflow run started: a record of another commit is refused even if the *)
(* tag has moved (release_record.validate).                                *)
DeploysCheckedOutSource ==
    \A s \in Slots : work[s].pc \in Deploying =>
        \A r \in Roles : work[s].images[r].commit = work[s].source

(* What is live is what was meant: true labels, on a schema that is there, *)
(* from the source that was checked out, with one migration at a time      *)
(* (publish-image.yml, release_record.py, execution_delivery.py).          *)
LiveIsTrue == TypeOK /\ LabelsTrue /\ SchemaFirst /\ DeploysCheckedOutSource

(* A workflow run that succeeds has delivered all of its release.          *)
SuccessIsComplete ==
    \A s \in Slots : work[s].pc # "done" /\ work'[s].pc = "done" =>
        \A r \in Roles : /\ live[r].image = work[s].images[r]
                         /\ live[r].version = work[s].v

(* Deliveries only go forward: a published tag stays, no service goes      *)
(* back, and a run that reports success has moved all of them (preflight,  *)
(* check_deployment, the concurrency group of publish-image.yml).          *)
OnlyForward == [][TagsImmutable /\ NoDowngrade /\ SuccessIsComplete]_vars
=============================================================================
