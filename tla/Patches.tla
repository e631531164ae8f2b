------------------------------- MODULE Patches -------------------------------
(***************************************************************************)
(* Patches: what agents report missing (update_patches, api/routes/        *)
(* agents.py), its approval by people (api/routes/patches.py) and by       *)
(* policies (sync_patch_status), and its deployment (deploy_patches,       *)
(* api/tasks/patch_tasks.py).                                              *)
(*                                                                         *)
(* A deployment writes the list of patches into one script that all        *)
(* deployments share, and queues a run of it; the device gets the list     *)
(* that is there when it picks the run up.  Reports, approvals and         *)
(* deployments read in one step and write in a later one.                  *)
(***************************************************************************)
EXTENDS Naturals

CONSTANTS
  Devices, Names,
  WithKB,      \* patches that have a KB number
  AutoApproved, \* patches that some policy approves
  Others,      \* processes that handle reports and approvals
  Deployers,   \* Celery processes that run deploy_patches
  MaxRetries,  \* max_retries of deploy_patches
  MaxRecords,  \* bound: patch records
  MaxAsked,    \* bound: deployments asked for
  MaxFaults    \* bound: failures, redeliveries, lost answers, failed installations

ASSUME PatchesAssumption ==
  /\ Devices # {} /\ Names # {}
  /\ WithKB \subseteq Names /\ AutoApproved \subseteq Names
  /\ Others \intersect Deployers = {}
  /\ MaxRetries \in Nat /\ MaxRecords \in Nat /\ MaxAsked \in Nat /\ MaxFaults \in Nat

VARIABLES
  missing,  \* missing[d]: patches that device d lacks
  rec,      \* rec[i]: row of patch_records
  job,      \* job[t]: what process t has read and will write
  queue,    \* messages for deploy_patches
  asked,    \* deployments asked for
  content,  \* the list in the shared script
  run,      \* run[r]: row of script_runs for the shared script
  faults,
  granted,  \* history: records that were approved
  mixed,    \* history: runs that waited when the list was replaced
  stale,    \* history: records whose status was written over "deployed"
  broken,   \* history: runs that left a patch of their list out
  dropped   \* history: records of tasks that met no database error and so were not retried

vars == <<missing, rec, job, queue, asked, content, run, faults, granted, mixed, stale, broken, dropped>>

Thread == Others \union Deployers
RecId  == 1..MaxRecords
RunId  == 1..(MaxAsked + MaxFaults)

SomeDevice == CHOOSE d \in Devices : TRUE
SomeName   == CHOOSE n \in Names : TRUE

Record  == [st : {"none", "pending", "approved", "deployed"}, dev : Devices, name : Names]
Message == [dev : Devices, ids : SUBSET RecId, tries : 0..MaxRetries, no : 0..MaxAsked]
Job     == [kind : {"idle", "report", "approve", "deploy"}, dev : Devices, names : SUBSET Names,
            ids : SUBSET RecId, asked : SUBSET RecId, tries : 0..MaxRetries, no : 0..MaxAsked]
\* for: the records that the run was made for; body: the list it was given.
Run     == [st : {"none", "queued", "running", "done", "failed", "lost"}, dev : Devices,
            for : SUBSET RecId, body : SUBSET Names]

NoRecord == [st |-> "none", dev |-> SomeDevice, name |-> SomeName]
NoRun    == [st |-> "none", dev |-> SomeDevice, for |-> {}, body |-> {}]
Idle     == [kind |-> "idle", dev |-> SomeDevice, names |-> {}, ids |-> {}, asked |-> {},
             tries |-> 0, no |-> 0]

Reporting(d, N) == [kind |-> "report", dev |-> d, names |-> N, ids |-> {}, asked |-> {}, tries |-> 0, no |-> 0]
Approving(S) == [kind |-> "approve", dev |-> SomeDevice, names |-> {}, ids |-> S, asked |-> {}, tries |-> 0, no |-> 0]
Deploying(m, S) == [kind |-> "deploy", dev |-> m.dev, names |-> {}, ids |-> S, asked |-> m.ids,
                    tries |-> m.tries, no |-> m.no]

Init ==
  /\ missing \in [Devices -> SUBSET Names]
  /\ rec = [i \in RecId |-> NoRecord]
  /\ job = [t \in Thread |-> Idle]
  /\ queue = {} /\ asked = 0
  /\ content = {}
  /\ run = [r \in RunId |-> NoRun]
  /\ faults = 0
  /\ granted = {}
  /\ mixed = {} /\ stale = {} /\ broken = {} /\ dropped = {}

-----------------------------------------------------------------------------
(* What agents report.                                                     *)

Pending(d) == {i \in RecId : rec[i].st = "pending" /\ rec[i].dev = d}

Unused == {i \in RecId : rec[i].st = "none"}

\* The names that have no pending record yet.
NewNames(d) == missing[d] \ {rec[i].name : i \in Pending(d)}

ReportRead(t, d) ==
  /\ job[t].kind = "idle" /\ NewNames(d) # {} /\ Unused # {}
  /\ job' = [job EXCEPT ![t] = Reporting(d, NewNames(d))]
  /\ UNCHANGED <<missing, rec, queue, asked, content, run, faults, granted, mixed, stale, broken, dropped>>

\* Which unused row each name takes.
Placements(t) == {f \in [job[t].names -> Unused] : \A m, n \in job[t].names : m # n => f[m] # f[n]}

\* A record for each of them.
ReportCommit(t) ==
  /\ job[t].kind = "report" /\ Placements(t) # {}
  /\ LET f == CHOOSE f \in Placements(t) : TRUE
     IN rec' = [i \in RecId |->
                  IF \E n \in job[t].names : f[n] = i
                  THEN [st |-> "pending", dev |-> job[t].dev, name |-> CHOOSE n \in job[t].names : f[n] = i]
                  ELSE rec[i]]
  /\ job' = [job EXCEPT ![t] = Idle]
  /\ UNCHANGED <<missing, queue, asked, content, run, faults, granted, mixed, stale, broken, dropped>>

-----------------------------------------------------------------------------
(* Approval.                                                               *)

ApproveRead(t, S) ==
  /\ job[t].kind = "idle" /\ S # {}
  /\ job' = [job EXCEPT ![t] = Approving(S)]
  /\ UNCHANGED <<missing, rec, queue, asked, content, run, faults, granted, mixed, stale, broken, dropped>>

\* approve_patches, for any pending records.
ApproveByHand(t) == \E S \in SUBSET {i \in RecId : rec[i].st = "pending"} : ApproveRead(t, S)

\* sync_patch_status, for those that a policy approves.
ApproveByPolicy(t) ==
  ApproveRead(t, {i \in RecId : rec[i].st = "pending" /\ rec[i].name \in AutoApproved})

\* The records of t that somebody deployed after it had read them.
Overwritten(t) == {i \in job[t].ids : rec[i].st = "deployed"}

ApproveKeeps(t) ==  \* mutant of ApproveCommit
  /\ job[t].kind = "approve"
  /\ rec' = [i \in RecId |-> IF i \in job[t].ids THEN [rec[i] EXCEPT !.st = "approved"] ELSE rec[i]]
  /\ granted' = granted \union job[t].ids
  /\ stale' = stale \union Overwritten(t)
  /\ job' = [job EXCEPT ![t].kind = "idle"]
  /\ UNCHANGED <<missing, queue, asked, content, run, faults, mixed, broken, dropped>>

ApproveCommit(t) ==
  /\ job[t].kind = "approve"
  /\ rec' = [i \in RecId |-> IF i \in job[t].ids THEN [rec[i] EXCEPT !.st = "approved"] ELSE rec[i]]
  /\ granted' = granted \union job[t].ids
  /\ stale' = stale \union Overwritten(t)
  /\ job' = [job EXCEPT ![t] = Idle]
  /\ UNCHANGED <<missing, queue, asked, content, run, faults, mixed, broken, dropped>>

-----------------------------------------------------------------------------
(* Deployment.                                                             *)

\* deploy_patches_route: for any records that the operator sees.
AskDeploy(d, S) ==
  /\ asked < MaxAsked /\ S # {}
  /\ asked' = asked + 1
  /\ queue' = queue \union {[dev |-> d, ids |-> S, tries |-> 0, no |-> asked + 1]}
  /\ UNCHANGED <<missing, rec, job, content, run, faults, granted, mixed, stale, broken, dropped>>

ReadyListed(m) == {i \in m.ids : rec[i].st # "deployed" /\ rec[i].dev = m.dev}  \* mutant of Ready
\* The records asked for that are approved and of the device.
Ready(m) == {i \in m.ids : rec[i].st = "approved" /\ rec[i].dev = m.dev}

\* A process takes a message, which may be delivered again; nothing approved,
\* nothing to do.
TakeDeploy(t) ==
  /\ job[t].kind = "idle"
  /\ \E m \in queue :
       /\ \/ queue' = queue \ {m} /\ faults' = faults
          \/ queue' = queue /\ faults < MaxFaults /\ faults' = faults + 1
       /\ job' = IF Ready(m) = {} THEN job
                 ELSE [job EXCEPT ![t] = Deploying(m, Ready(m))]
  /\ UNCHANGED <<missing, rec, asked, content, run, granted, mixed, stale, broken, dropped>>

\* Patches without a KB number are not in the list.
Listed(S) == {rec[i].name : i \in S} \intersect WithKB

DeployedKeeps(t) == rec  \* mutant of Deployed
Deployed(t) ==
  [i \in RecId |-> IF i \in job[t].ids THEN [rec[i] EXCEPT !.st = "deployed"] ELSE rec[i]]

\* The list, the run and the status, in one transaction.
DeployCommit(t) ==
  /\ job[t].kind = "deploy"
  /\ content' = Listed(job[t].ids)
  /\ \E r \in RunId :
       /\ run[r].st = "none" /\ \A s \in RunId : run[s].st = "none" => r <= s
       /\ run' = [run EXCEPT ![r] = [st |-> "queued", dev |-> job[t].dev, for |-> job[t].ids, body |-> {}]]
  /\ mixed' = mixed \union {r \in RunId : run[r].st = "queued"}
  /\ rec' = Deployed(t)
  /\ stale' = stale \union Overwritten(t)
  /\ job' = [job EXCEPT ![t] = Idle]
  /\ UNCHANGED <<missing, queue, asked, faults, granted, broken, dropped>>

AgainNever(t) == {}  \* mutant of Again
\* self.retry on an OperationalError.
Again(t) ==
  IF job[t].kind = "deploy" /\ job[t].tries < MaxRetries
  THEN {[dev |-> job[t].dev, ids |-> job[t].asked, tries |-> job[t].tries + 1, no |-> job[t].no]}
  ELSE {}

\* The transaction of t is rolled back; only after a database error does the
\* task come back.
ThreadFails(t) ==
  /\ job[t].kind # "idle" /\ faults < MaxFaults
  /\ faults' = faults + 1
  /\ \/ queue' = queue \union Again(t) /\ dropped' = dropped
     \/ job[t].kind = "deploy" /\ queue' = queue /\ dropped' = dropped \union job[t].ids
  /\ job' = [job EXCEPT ![t] = Idle]
  /\ UNCHANGED <<missing, rec, asked, content, run, granted, mixed, stale, broken>>

-----------------------------------------------------------------------------
(* Devices.                                                                *)

Queued(d) == {r \in RunId : run[r].st = "queued" /\ run[r].dev = d}

\* get_tasks: all queued runs of the device, with the list as it is now; the
\* answer may be lost.
PickUp(d) ==
  /\ Queued(d) # {}
  /\ \/ /\ run' = [r \in RunId |-> IF r \in Queued(d)
                                   THEN [st |-> "running", dev |-> d, for |-> run[r].for, body |-> content]
                                   ELSE run[r]]
        /\ faults' = faults
     \/ /\ faults < MaxFaults /\ faults' = faults + 1
        /\ run' = [r \in RunId |-> IF r \in Queued(d) THEN [run[r] EXCEPT !.st = "lost"] ELSE run[r]]
  /\ UNCHANGED <<missing, rec, job, queue, asked, content, granted, mixed, stale, broken, dropped>>

\* The script installs what the device lacks.  It catches the failure of each
\* patch, or only starts the installer, and ends well all the same: a run
\* fails only when the script as a whole does, by its time limit say.
Install(r) ==
  /\ run[r].st = "running"
  /\ LET d   == run[r].dev
         fit == run[r].body \intersect missing[d]
     IN \E S \in SUBSET fit, st \in {"done", "failed"} :
          /\ missing' = [missing EXCEPT ![d] = @ \ S]
          /\ run' = [run EXCEPT ![r].st = st]
          /\ broken' = IF S = fit THEN broken ELSE broken \union {r}
          /\ IF S = fit /\ st = "done" THEN faults' = faults
             ELSE faults < MaxFaults /\ faults' = faults + 1
  /\ UNCHANGED <<rec, job, queue, asked, content, granted, mixed, stale, dropped>>

-----------------------------------------------------------------------------
(* The specification.                                                      *)

Handle(t) ==
  \/ \E d \in Devices : ReportRead(t, d)
  \/ ReportCommit(t) \/ ApproveByHand(t) \/ ApproveByPolicy(t) \/ ApproveCommit(t)

Deploy(t) == TakeDeploy(t) \/ DeployCommit(t)

Next ==
  \/ \E t \in Others : Handle(t)
  \/ \E t \in Deployers : Deploy(t)
  \/ \E t \in Thread : ThreadFails(t)
  \/ \E d \in Devices :
       \/ PickUp(d)
       \/ \E S \in SUBSET {i \in RecId : rec[i].st # "none" /\ rec[i].dev = d} : AskDeploy(d, S)
  \/ \E r \in RunId : Install(r)

Spec == Init /\ [][Next]_vars

\* Celery takes messages, agents poll and run what they get.
Fairness ==
  /\ \A t \in Deployers : WF_vars(Deploy(t))
  /\ \A d \in Devices : WF_vars(PickUp(d))
  /\ \A r \in RunId : WF_vars(Install(r))

FairSpec == Spec /\ Fairness

-----------------------------------------------------------------------------
(* Properties.                                                             *)

\* Every variable has its type, and a free process remembers nothing.
TypeOK ==
  /\ missing \in [Devices -> SUBSET Names]
  /\ rec \in [RecId -> Record]
  /\ job \in [Thread -> Job]
  /\ queue \subseteq Message
  /\ asked \in 0..MaxAsked
  /\ content \in SUBSET Names
  /\ run \in [RunId -> Run]
  /\ faults \in 0..MaxFaults
  /\ granted \in SUBSET RecId /\ stale \in SUBSET RecId /\ dropped \in SUBSET RecId
  /\ mixed \in SUBSET RunId /\ broken \in SUBSET RunId
  /\ \A t \in Thread : job[t].kind = "idle" => job[t] = Idle

\* A device is handed only patches that were approved for it, those that its
\* run was made for ("install approved patches on a device", deploy_patches),
\* unless a deployment replaced the shared list while the run waited.
InstallsApproved ==
  \A r \in RunId \ mixed : \A n \in run[r].body :
    \E i \in granted \intersect run[r].for : rec[i].dev = run[r].dev /\ rec[i].name = n

\* However often a deployment is asked for, retried and delivered, only a record
\* whose status was written over "deployed" by somebody who had read an earlier
\* one is deployed by two runs.  And a record with a KB number says deployed
\* with a reason: its patch is installed, or a run was made for it that is under
\* way, was lost, met another list or left a patch out, of which the record
\* says nothing.
DeployedOnce ==
  /\ \A r, s \in RunId : r # s => run[r].for \intersect run[s].for \subseteq stale
  /\ \A i \in RecId : rec[i].st = "deployed" /\ rec[i].name \in WithKB =>
       \/ rec[i].name \notin missing[rec[i].dev]
       \/ \E r \in RunId : /\ i \in run[r].for
                           /\ r \in mixed \union broken \/ run[r].st \in {"queued", "running", "lost"}

Requested(i) == rec[i].st = "approved" /\ \E m \in queue : m.dev = rec[i].dev /\ i \in m.ids

Underway(i) ==
  \/ Requested(i)
  \/ \E t \in Deployers : job[t].kind = "deploy" /\ i \in job[t].ids
  \/ \E r \in RunId : i \in run[r].for

\* A deployment that was asked for is forgotten only by a task that meets
\* something else than a database error: but for those the message, the task at
\* work or a run stands for each approved patch, whatever is read early and
\* written late, as long as there are no more failures than retries.
RequestsKept ==
  [][faults' <= MaxRetries => \A i \in RecId \ dropped' : Underway(i) => Underway(i)']_vars

\* An approved patch with a KB number whose deployment is asked for is
\* installed in the end, database errors included, unless its task met another
\* error, the retries were used up, its run was lost or met another list, or the
\* installation left a patch out.
RequestedIsInstalled ==
  \A i \in RecId :
    (Requested(i) /\ rec[i].name \in WithKB)
      ~> \/ rec[i].name \notin missing[rec[i].dev]
         \/ i \in dropped \/ faults > MaxRetries
         \/ \E r \in RunId : i \in run[r].for /\ (r \in mixed \union broken \/ run[r].st = "lost")

=============================================================================
