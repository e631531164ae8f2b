--------------------------- MODULE Patches_proofs ---------------------------
(***************************************************************************)
(* Proofs about Patches.tla, for any devices, patches and processes and    *)
(* any number of records, deployments, retries and faults.                 *)
(***************************************************************************)
EXTENDS Patches, TLAPS

-----------------------------------------------------------------------------
(* Jobs.                                                                   *)

LEMMA Somebody == SomeDevice \in Devices /\ SomeName \in Names
BY PatchesAssumption DEF PatchesAssumption, SomeDevice, SomeName

LEMMA Zero == 0 \in 0..MaxRetries /\ 0 \in 0..MaxAsked
BY PatchesAssumption DEF PatchesAssumption

LEMMA JobRecord ==
  ASSUME NEW k \in {"idle", "report", "approve", "deploy"}, NEW d \in Devices, NEW N \in SUBSET Names,
         NEW S \in SUBSET RecId, NEW A \in SUBSET RecId, NEW t \in 0..MaxRetries, NEW n \in 0..MaxAsked
  PROVE  [kind |-> k, dev |-> d, names |-> N, ids |-> S, asked |-> A, tries |-> t, no |-> n] \in Job
BY DEF Job

LEMMA IdleJob == Idle \in Job /\ Idle.kind = "idle"
<1>1. Idle \in Job
  BY Somebody, Zero, JobRecord DEF Idle
<1>2. QED
  BY <1>1 DEF Idle

LEMMA ReportingJob ==
  ASSUME NEW d \in Devices, NEW N \in SUBSET Names
  PROVE  Reporting(d, N) \in Job /\ Reporting(d, N).kind = "report"
<1>1. Reporting(d, N) \in Job
  BY Zero, JobRecord DEF Reporting
<1>2. QED
  BY <1>1 DEF Reporting

LEMMA ApprovingJob ==
  ASSUME NEW S \in SUBSET RecId
  PROVE  Approving(S) \in Job /\ Approving(S).kind = "approve" /\ Approving(S).ids = S
<1>1. Approving(S) \in Job
  BY Somebody, Zero, JobRecord DEF Approving
<1>2. QED
  BY <1>1 DEF Approving

LEMMA MessageFields ==
  ASSUME NEW m \in Message
  PROVE  /\ m.dev \in Devices /\ m.ids \in SUBSET RecId /\ m.tries \in 0..MaxRetries
         /\ m.no \in 0..MaxAsked
BY DEF Message

LEMMA DeployingJob ==
  ASSUME NEW m \in Message, NEW S \in SUBSET RecId
  PROVE  /\ Deploying(m, S) \in Job /\ Deploying(m, S).kind = "deploy"
         /\ Deploying(m, S).ids = S /\ Deploying(m, S).dev = m.dev
         /\ Deploying(m, S).asked = m.ids /\ Deploying(m, S).tries = m.tries
<1>1. Deploying(m, S) \in Job
  BY MessageFields, JobRecord DEF Deploying
<1>2. QED
  BY <1>1 DEF Deploying

LEMMA JobFields ==
  ASSUME TypeOK, NEW t \in Thread
  PROVE  /\ job[t].dev \in Devices /\ job[t].names \in SUBSET Names /\ job[t].ids \in SUBSET RecId
         /\ job[t].asked \in SUBSET RecId /\ job[t].tries \in 0..MaxRetries
         /\ job[t].no \in 0..MaxAsked
<1>1. job[t] \in Job
  BY DEF TypeOK
<1>2. QED
  BY <1>1 DEF Job

JobsOK ==
  /\ job \in [Thread -> Job]
  /\ \A t \in Thread : job[t].kind = "idle" => job[t] = Idle

\* Process t has job J, the others keep theirs.
Turns(t, J) == job'[t] = J /\ \A s \in Thread \ {t} : job'[s] = job[s]

LEMMA Turned ==
  ASSUME TypeOK, NEW t \in Thread, NEW J \in Job, J.kind = "idle" => J = Idle,
         job' = [job EXCEPT ![t] = J]
  PROVE  JobsOK' /\ Turns(t, J)
<1>1. job \in [Thread -> Job] /\ \A s \in Thread : job[s].kind = "idle" => job[s] = Idle
  BY DEF TypeOK
<1>2. job' \in [Thread -> Job]
  BY <1>1
<1>3. Turns(t, J)
  BY <1>1 DEF Turns
<1>4. \A s \in Thread : job'[s].kind = "idle" => job'[s] = Idle
  BY <1>1, <1>3, Zenon DEF Turns
<1>5. QED
  BY <1>2, <1>3, <1>4, Zenon DEF JobsOK

LEMMA Freed ==
  ASSUME TypeOK, NEW t \in Thread, job' = [job EXCEPT ![t] = Idle]
  PROVE  JobsOK' /\ Turns(t, Idle)
BY IdleJob, Turned

LEMMA JobsStay ==
  ASSUME TypeOK, job' = job
  PROVE  JobsOK'
BY Zenon DEF TypeOK, JobsOK

LEMMA ReportTurns ==
  ASSUME TypeOK, NEW t \in Thread, NEW d \in Devices, ReportRead(t, d)
  PROVE  JobsOK' /\ Turns(t, Reporting(d, NewNames(d)))
<1>1. NewNames(d) \in SUBSET Names
  BY DEF TypeOK, NewNames
<1>2. QED
  BY <1>1, ReportingJob, Turned DEF ReportRead

LEMMA ApproveTurns ==
  ASSUME TypeOK, NEW t \in Thread, NEW S \in SUBSET RecId, ApproveRead(t, S)
  PROVE  JobsOK' /\ Turns(t, Approving(S))
BY ApprovingJob, Turned DEF ApproveRead

LEMMA DeployTurns ==
  ASSUME TypeOK, NEW t \in Thread, NEW m \in Message, job' = [job EXCEPT ![t] = Deploying(m, Ready(m))]
  PROVE  JobsOK' /\ Turns(t, Deploying(m, Ready(m)))
<1>1. Ready(m) \in SUBSET RecId
  BY MessageFields DEF Ready
<1>2. QED
  BY <1>1, DeployingJob, Turned

-----------------------------------------------------------------------------
(* Records and runs.                                                        *)

LEMMA RecordFields ==
  ASSUME TypeOK, NEW i \in RecId
  PROVE  /\ rec[i] \in Record /\ rec[i].st \in {"none", "pending", "approved", "deployed"}
         /\ rec[i].dev \in Devices /\ rec[i].name \in Names
<1>1. rec[i] \in Record
  BY DEF TypeOK
<1>2. QED
  BY <1>1 DEF Record

\* The statuses of some records are set.
LEMMA StatusSet ==
  ASSUME TypeOK, NEW S \in SUBSET RecId, NEW c \in {"approved", "deployed"},
         rec' = [i \in RecId |-> IF i \in S THEN [rec[i] EXCEPT !.st = c] ELSE rec[i]]
  PROVE  /\ rec' \in [RecId -> Record]
         /\ \A i \in RecId : /\ rec'[i].dev = rec[i].dev /\ rec'[i].name = rec[i].name
                             /\ i \in S => rec'[i].st = c
                             /\ i \notin S => rec'[i] = rec[i]
<1>1. ASSUME NEW i \in RecId
      PROVE  LET e == [rec[i] EXCEPT !.st = c]
             IN e \in Record /\ e.st = c /\ e.dev = rec[i].dev /\ e.name = rec[i].name
  <2>1. [rec[i] EXCEPT !.st = c] = [st |-> c, dev |-> rec[i].dev, name |-> rec[i].name]
    BY RecordFields DEF Record
  <2>2. QED
    BY <2>1, RecordFields DEF Record
<1>2. \A i \in RecId : rec'[i] = IF i \in S THEN [rec[i] EXCEPT !.st = c] ELSE rec[i]
  OBVIOUS
<1>3. \A i \in RecId : rec'[i] \in Record
  BY <1>1, <1>2, RecordFields, Zenon
<1>4. rec' \in [RecId -> Record]
  BY <1>3
<1>5. \A i \in RecId : /\ rec'[i].dev = rec[i].dev /\ rec'[i].name = rec[i].name
                       /\ i \in S => rec'[i].st = c
                       /\ i \notin S => rec'[i] = rec[i]
  BY <1>1, <1>2, Zenon
<1>6. QED
  BY <1>4, <1>5

\* Reports fill unused rows only.
LEMMA ReportRows ==
  ASSUME TypeOK, NEW t \in Thread, ReportCommit(t)
  PROVE  /\ rec' \in [RecId -> Record]
         /\ \A i \in RecId : rec[i].st # "none" => rec'[i] = rec[i]
         /\ \A i \in RecId : rec[i].st = "none" => rec'[i] = rec[i] \/ rec'[i].st = "pending"
<1> DEFINE f == CHOOSE f \in Placements(t) : TRUE
           P(i) == [st |-> "pending", dev |-> job[t].dev, name |-> CHOOSE n \in job[t].names : f[n] = i]
<1>1. f \in [job[t].names -> Unused]
  BY DEF ReportCommit, Placements
<1>2. rec' = [i \in RecId |-> IF \E n \in job[t].names : f[n] = i THEN P(i) ELSE rec[i]]
  BY Zenon DEF ReportCommit
<1>3. \A n \in job[t].names : f[n] \in Unused
  BY <1>1
<1> HIDE DEF f
<1>4. \A i \in RecId : (\E n \in job[t].names : f[n] = i) => rec[i].st = "none"
  BY <1>3 DEF Unused
<1>5. ASSUME NEW i \in RecId, \E n \in job[t].names : f[n] = i
      PROVE  P(i) \in Record /\ P(i).st = "pending"
  <2>1. (CHOOSE n \in job[t].names : f[n] = i) \in Names
    BY <1>5, JobFields
  <2>2. job[t].dev \in Devices
    BY JobFields
  <2>3. QED
    BY <2>1, <2>2 DEF Record
<1> HIDE DEF P
<1>6. \A i \in RecId : rec'[i] = IF \E n \in job[t].names : f[n] = i THEN P(i) ELSE rec[i]
  BY <1>2
<1>7. ASSUME NEW i \in RecId
      PROVE  rec'[i] \in Record
  <2>1. CASE \E n \in job[t].names : f[n] = i
    <3>1. rec'[i] = P(i)
      BY <1>6, <2>1, Zenon
    <3>2. P(i) \in Record
      BY <1>5, <2>1, Zenon
    <3>3. QED
      BY <3>1, <3>2
  <2>2. CASE ~\E n \in job[t].names : f[n] = i
    <3>1. rec'[i] = rec[i]
      BY <1>6, <2>2, Zenon
    <3>2. QED
      BY <3>1, RecordFields
  <2>3. QED
    BY <2>1, <2>2
<1>8. rec' \in [RecId -> Record]
  <2>1. \A i \in RecId : (IF \E n \in job[t].names : f[n] = i THEN P(i) ELSE rec[i]) \in Record
    BY <1>6, <1>7
  <2>2. QED
    BY <1>2, <2>1, Zenon
<1>9. /\ \A i \in RecId : rec[i].st # "none" => rec'[i] = rec[i]
      /\ \A i \in RecId : rec[i].st = "none" => rec'[i] = rec[i] \/ rec'[i].st = "pending"
  <2>1. ASSUME NEW i \in RecId
        PROVE  rec'[i] = rec[i] \/ (rec[i].st = "none" /\ rec'[i].st = "pending")
    <3>1. CASE \E n \in job[t].names : f[n] = i
      <4>1. rec'[i] = P(i)
        BY <1>6, <3>1, Zenon
      <4>2. P(i).st = "pending" /\ rec[i].st = "none"
        BY <1>4, <1>5, <3>1, Zenon
      <4>3. QED
        BY <4>1, <4>2, Zenon
    <3>2. CASE ~\E n \in job[t].names : f[n] = i
      BY <1>6, <3>2, Zenon
    <3>3. QED
      BY <3>1, <3>2
  <2>2. QED
    BY <2>1
<1>10. QED
  BY <1>8, <1>9

RunStages == {"none", "queued", "running", "done", "failed", "lost"}

LEMMA RunRecord ==
  ASSUME NEW c \in RunStages, NEW d \in Devices, NEW F \in SUBSET RecId, NEW B \in SUBSET Names
  PROVE  [st |-> c, dev |-> d, for |-> F, body |-> B] \in Run
BY DEF Run, RunStages

LEMMA RunFields ==
  ASSUME TypeOK, NEW r \in RunId
  PROVE  /\ run[r] \in Run /\ run[r].st \in RunStages /\ run[r].dev \in Devices
         /\ run[r].for \in SUBSET RecId /\ run[r].body \in SUBSET Names
<1>1. run[r] \in Run
  BY DEF TypeOK
<1>2. QED
  BY <1>1 DEF Run, RunStages

\* Only the status of a run changes.
LEMMA RunStatus ==
  ASSUME TypeOK, NEW r \in RunId, NEW c \in RunStages
  PROVE  LET e == [run[r] EXCEPT !.st = c]
         IN e \in Run /\ e.st = c /\ e.dev = run[r].dev /\ e.for = run[r].for /\ e.body = run[r].body
<1>1. [run[r] EXCEPT !.st = c] = [st |-> c, dev |-> run[r].dev, for |-> run[r].for, body |-> run[r].body]
  BY RunFields DEF Run
<1>2. QED
  BY <1>1, RunFields, RunRecord

\* A run is queued.
LEMMA RunQueued ==
  ASSUME TypeOK, NEW t \in Thread, DeployCommit(t)
  PROVE  \E r \in RunId :
           /\ run' \in [RunId -> Run] /\ run[r].st = "none"
           /\ run'[r].st = "queued" /\ run'[r].dev = job[t].dev /\ run'[r].for = job[t].ids
           /\ run'[r].body = {}
           /\ \A s \in RunId \ {r} : run'[s] = run[s]
<1> DEFINE new == [st |-> "queued", dev |-> job[t].dev, for |-> job[t].ids, body |-> {}]
<1>1. PICK r \in RunId : run[r].st = "none" /\ run' = [run EXCEPT ![r] = new]
  BY DEF DeployCommit
<1>2. new \in Run
  BY JobFields, RunRecord DEF RunStages
<1>3. new.st = "queued" /\ new.dev = job[t].dev /\ new.for = job[t].ids /\ new.body = {}
  OBVIOUS
<1> HIDE DEF new
<1>4. run \in [RunId -> Run]
  BY DEF TypeOK
<1>5. run' \in [RunId -> Run] /\ run'[r] = new /\ \A s \in RunId \ {r} : run'[s] = run[s]
  BY <1>1, <1>2, <1>4
<1>6. QED
  BY <1>1, <1>3, <1>5

\* The runs of a device are picked up, with the list as it is, or lost.
LEMMA RunsPicked ==
  ASSUME TypeOK, NEW d \in Devices, PickUp(d)
  PROVE  /\ run' \in [RunId -> Run]
         /\ \A r \in RunId : run'[r].for = run[r].for /\ run'[r].dev = run[r].dev
         /\ \A r \in RunId :
              \/ run'[r] = run[r]
              \/ run[r].st = "queued" /\ run'[r].st = "running" /\ run'[r].body = content
              \/ run[r].st = "queued" /\ run'[r].st = "lost" /\ run'[r].body = run[r].body
<1>0. \A r \in Queued(d) : r \in RunId /\ run[r].st = "queued" /\ run[r].dev = d
  BY DEF Queued
<1>1. CASE run' = [r \in RunId |-> IF r \in Queued(d)
                                   THEN [st |-> "running", dev |-> d, for |-> run[r].for, body |-> content]
                                   ELSE run[r]]
  <2> DEFINE new(r) == [st |-> "running", dev |-> d, for |-> run[r].for, body |-> content]
  <2>1. ASSUME NEW r \in RunId
        PROVE  /\ new(r) \in Run /\ new(r).st = "running" /\ new(r).dev = d /\ new(r).for = run[r].for
               /\ new(r).body = content
    <3>1. content \in SUBSET Names
      BY DEF TypeOK
    <3>2. new(r) \in Run
      BY <3>1, RunFields, RunRecord DEF RunStages
    <3>3. QED
      BY <3>2
  <2>2. run' = [r \in RunId |-> IF r \in Queued(d) THEN new(r) ELSE run[r]]
    BY <1>1
  <2> HIDE DEF new
  <2>3. \A r \in RunId : run'[r] = IF r \in Queued(d) THEN new(r) ELSE run[r]
    BY <2>2
  <2>4. \A r \in RunId : run'[r] \in Run
    BY <2>1, <2>3, RunFields, Zenon
  <2>5. run' \in [RunId -> Run]
    BY <2>2, <2>4
  <2>6. QED
    BY <1>0, <2>1, <2>3, <2>5
<1>2. CASE run' = [r \in RunId |-> IF r \in Queued(d) THEN [run[r] EXCEPT !.st = "lost"] ELSE run[r]]
  <2> DEFINE e(r) == [run[r] EXCEPT !.st = "lost"]
  <2>1. ASSUME NEW r \in RunId
        PROVE  /\ e(r) \in Run /\ e(r).st = "lost" /\ e(r).dev = run[r].dev /\ e(r).for = run[r].for
               /\ e(r).body = run[r].body
    BY RunStatus DEF RunStages
  <2>2. run' = [r \in RunId |-> IF r \in Queued(d) THEN e(r) ELSE run[r]]
    BY <1>2
  <2> HIDE DEF e
  <2>3. /\ \A r \in RunId : run'[r] = IF r \in Queued(d) THEN e(r) ELSE run[r]
        /\ \A r \in RunId : run'[r] \in Run
    BY <2>1, <2>2, RunFields
  <2>4. run' \in [RunId -> Run]
    BY <2>2, <2>3
  <2>5. \A r \in RunId : \/ run'[r] = run[r]
                         \/ /\ run[r].st = "queued" /\ run'[r].st = "lost"
                            /\ run'[r].for = run[r].for /\ run'[r].dev = run[r].dev
                            /\ run'[r].body = run[r].body
    BY <1>0, <2>1, <2>3
  <2>6. QED
    BY <2>4, <2>5
<1>3. QED
  BY <1>1, <1>2 DEF PickUp

\* A run ends.
LEMMA RunEnds ==
  ASSUME TypeOK, NEW r \in RunId, Install(r)
  PROVE  /\ run' \in [RunId -> Run]
         /\ \A s \in RunId : run'[s].for = run[s].for
         /\ \A s \in RunId : s # r => run'[s] = run[s]
         /\ run[r].st = "running" /\ run'[r].st \in {"done", "failed"}
         /\ run'[r].dev = run[r].dev /\ run'[r].body = run[r].body
         /\ missing' \in [Devices -> SUBSET Names]
         /\ \A d \in Devices : missing'[d] \subseteq missing[d]
         /\ broken' \in SUBSET RunId /\ broken \subseteq broken'
         /\ r \in broken' \/ run[r].body \intersect missing'[run[r].dev] = {}
         /\ faults' = faults \/ (faults < MaxFaults /\ faults' = faults + 1)
<1> DEFINE fit == run[r].body \intersect missing[run[r].dev]
<1>1. PICK S \in SUBSET fit, c \in {"done", "failed"} :
        /\ missing' = [missing EXCEPT ![run[r].dev] = @ \ S]
        /\ run' = [run EXCEPT ![r].st = c]
        /\ broken' = IF S = fit THEN broken ELSE broken \union {r}
        /\ faults' = faults \/ (faults < MaxFaults /\ faults' = faults + 1)
  BY DEF Install
<1>2. run \in [RunId -> Run] /\ c \in RunStages
  BY DEF TypeOK, RunStages
<1>3. run' = [run EXCEPT ![r] = [run[r] EXCEPT !.st = c]]
  BY <1>1, <1>2
<1> DEFINE e == [run[r] EXCEPT !.st = c]
<1>4. e \in Run /\ e.st = c /\ e.for = run[r].for /\ e.dev = run[r].dev /\ e.body = run[r].body
  BY <1>2, RunStatus, Zenon
<1>5. run' = [run EXCEPT ![r] = e]
  BY <1>3
<1> HIDE DEF e
<1>6. run' \in [RunId -> Run] /\ run'[r] = e /\ \A s \in RunId : s # r => run'[s] = run[s]
  BY <1>2, <1>4, <1>5
<1>7. /\ missing' \in [Devices -> SUBSET Names]
      /\ \A d \in Devices : missing'[d] \subseteq missing[d]
      /\ missing'[run[r].dev] = missing[run[r].dev] \ S
  BY <1>1, RunFields DEF TypeOK
<1>8. /\ broken' \in SUBSET RunId /\ broken \subseteq broken'
      /\ r \in broken' \/ run[r].body \intersect missing'[run[r].dev] = {}
  BY <1>1, <1>7 DEF TypeOK
<1>9. run[r].st = "running"
  BY DEF Install
<1>10. QED
  BY <1>1, <1>4, <1>6, <1>7, <1>8, <1>9

-----------------------------------------------------------------------------
(* Types.                                                                  *)

RowsOK ==
  /\ missing \in [Devices -> SUBSET Names]
  /\ rec \in [RecId -> Record] /\ run \in [RunId -> Run]
LogsOK ==
  /\ queue \subseteq Message /\ asked \in 0..MaxAsked /\ faults \in 0..MaxFaults
  /\ content \in SUBSET Names
  /\ granted \in SUBSET RecId /\ stale \in SUBSET RecId /\ dropped \in SUBSET RecId
  /\ mixed \in SUBSET RunId /\ broken \in SUBSET RunId

LEMMA TypeParts == TypeOK <=> JobsOK /\ RowsOK /\ LogsOK
BY DEF TypeOK, JobsOK, RowsOK, LogsOK

LEMMA TypePartsNext == JobsOK' /\ RowsOK' /\ LogsOK' => TypeOK'
BY DEF TypeOK, JobsOK, RowsOK, LogsOK

LEMMA TypeInit == Init => TypeOK
<1> SUFFICES ASSUME Init PROVE TypeOK
  OBVIOUS
<1>1. JobsOK
  <2>1. job = [t \in Thread |-> Idle]
    BY DEF Init
  <2>2. QED
    BY <2>1, IdleJob DEF JobsOK
<1>2. RowsOK
  <2>1. NoRecord \in Record
    BY Somebody DEF NoRecord, Record
  <2>2. NoRun \in Run
    BY Somebody, RunRecord DEF NoRun, RunStages
  <2>3. rec = [i \in RecId |-> NoRecord] /\ run = [r \in RunId |-> NoRun]
    BY DEF Init
  <2>4. rec \in [RecId -> Record] /\ run \in [RunId -> Run]
    BY <2>1, <2>2, <2>3
  <2>5. missing \in [Devices -> SUBSET Names]
    BY DEF Init
  <2>6. QED
    BY <2>4, <2>5 DEF RowsOK
<1>3. LogsOK
  <2>1. mixed = {} /\ stale = {} /\ broken = {} /\ dropped = {}
    BY DEF Init
  <2>2. asked \in 0..MaxAsked /\ faults \in 0..MaxFaults
    BY PatchesAssumption DEF Init, PatchesAssumption
  <2>3. queue \subseteq Message /\ content \in SUBSET Names /\ granted \in SUBSET RecId
    BY DEF Init
  <2>4. QED
    BY <2>1, <2>2, <2>3 DEF LogsOK
<1>4. QED
  BY <1>1, <1>2, <1>3, TypeParts

LEMMA FaultCounts ==
  ASSUME faults \in 0..MaxFaults, faults < MaxFaults, faults' = faults + 1
  PROVE  faults' \in 0..MaxFaults
BY PatchesAssumption DEF PatchesAssumption

LEMMA AgainMessages ==
  ASSUME TypeOK, NEW t \in Thread
  PROVE  Again(t) \subseteq Message
<1>1. ASSUME job[t].kind = "deploy", job[t].tries < MaxRetries
      PROVE  [dev |-> job[t].dev, ids |-> job[t].asked, tries |-> job[t].tries + 1, no |-> job[t].no] \in Message
  <2>1. job[t].tries + 1 \in 0..MaxRetries
    BY <1>1, JobFields, PatchesAssumption DEF PatchesAssumption
  <2>2. QED
    BY <2>1, JobFields DEF Message
<1>2. QED
  BY <1>1 DEF Again

LEMMA NewMessage ==
  ASSUME TypeOK, asked < MaxAsked, NEW d \in Devices, NEW S \in SUBSET RecId
  PROVE  [dev |-> d, ids |-> S, tries |-> 0, no |-> asked + 1] \in Message
<1>1. asked + 1 \in 0..MaxAsked
  BY PatchesAssumption DEF TypeOK, PatchesAssumption
<1>2. QED
  BY <1>1, Zero DEF Message

\* A deploying process takes a message and remembers it, or does nothing.
LEMMA TakeTurns ==
  ASSUME TypeOK, NEW t \in Thread, TakeDeploy(t)
  PROVE  /\ JobsOK'
         /\ job' = job \/ \E m \in Message : Turns(t, Deploying(m, Ready(m)))
         /\ queue' \subseteq queue
         /\ faults' = faults \/ (faults < MaxFaults /\ faults' = faults + 1)
         /\ UNCHANGED <<missing, rec, asked, content, run, granted, mixed, stale, broken, dropped>>
<1>1. PICK m \in queue :
        /\ queue' \subseteq queue
        /\ faults' = faults \/ (faults < MaxFaults /\ faults' = faults + 1)
        /\ job' = job \/ job' = [job EXCEPT ![t] = Deploying(m, Ready(m))]
  BY DEF TakeDeploy
<1>2. m \in Message
  BY DEF TypeOK
<1>3. UNCHANGED <<missing, rec, asked, content, run, granted, mixed, stale, broken, dropped>>
  BY DEF TakeDeploy
<1>4. CASE job' = job
  BY <1>1, <1>3, <1>4, JobsStay
<1>5. CASE job' = [job EXCEPT ![t] = Deploying(m, Ready(m))]
  BY <1>1, <1>2, <1>3, <1>5, DeployTurns
<1>6. QED
  BY <1>1, <1>4, <1>5

LEMMA TypeStep == TypeOK /\ [Next]_vars => TypeOK'
<1> SUFFICES ASSUME TypeOK, [Next]_vars PROVE TypeOK'
  OBVIOUS
<1>0. RowsOK /\ LogsOK
  BY TypeParts
<1>1. ASSUME NEW t \in Others, NEW d \in Devices, ReportRead(t, d)
      PROVE  TypeOK'
  <2>1. JobsOK'
    BY <1>1, ReportTurns DEF Thread
  <2>2. RowsOK' /\ LogsOK'
    BY <1>0, <1>1 DEF ReportRead, RowsOK, LogsOK
  <2>3. QED
    BY <2>1, <2>2, TypePartsNext
<1>2. ASSUME NEW t \in Others, ReportCommit(t)
      PROVE  TypeOK'
  <2>1. JobsOK' /\ rec' \in [RecId -> Record]
    BY <1>2, Freed, ReportRows DEF ReportCommit, Thread
  <2>2. RowsOK' /\ LogsOK'
    BY <1>0, <1>2, <2>1 DEF ReportCommit, RowsOK, LogsOK
  <2>3. QED
    BY <2>1, <2>2, TypePartsNext
<1>3. ASSUME NEW t \in Others, ApproveByHand(t) \/ ApproveByPolicy(t)
      PROVE  TypeOK'
  <2>1. PICK S \in SUBSET RecId : ApproveRead(t, S)
    BY <1>3 DEF ApproveByHand, ApproveByPolicy
  <2>2. JobsOK'
    BY <2>1, ApproveTurns DEF Thread
  <2>3. RowsOK' /\ LogsOK'
    BY <1>0, <2>1 DEF ApproveRead, RowsOK, LogsOK
  <2>4. QED
    BY <2>2, <2>3, TypePartsNext
<1>4. ASSUME NEW t \in Others, ApproveCommit(t)
      PROVE  TypeOK'
  <2>1. job[t].ids \in SUBSET RecId
    BY JobFields DEF Thread
  <2>2. rec' \in [RecId -> Record]
    BY <1>4, <2>1, StatusSet DEF ApproveCommit
  <2>3. JobsOK'
    BY <1>4, Freed DEF ApproveCommit, Thread
  <2>4. granted' \in SUBSET RecId
    BY <1>0, <1>4, <2>1 DEF ApproveCommit, LogsOK
  <2>5. stale' \in SUBSET RecId
    BY <1>0, <1>4, <2>1 DEF ApproveCommit, LogsOK, Overwritten
  <2>6. RowsOK' /\ LogsOK'
    BY <1>0, <1>4, <2>2, <2>4, <2>5, Zenon DEF ApproveCommit, RowsOK, LogsOK
  <2>7. QED
    BY <2>3, <2>6, TypePartsNext
<1>5. ASSUME NEW t \in Deployers, TakeDeploy(t)
      PROVE  TypeOK'
  <2>1. JobsOK' /\ queue' \subseteq queue
        /\ UNCHANGED <<missing, rec, asked, content, run, granted, mixed, stale, broken, dropped>>
    BY <1>5, TakeTurns DEF Thread
  <2>2. faults' \in 0..MaxFaults
    BY <1>0, <1>5, TakeTurns, FaultCounts DEF Thread, LogsOK
  <2>3. RowsOK' /\ LogsOK'
    BY <1>0, <2>1, <2>2 DEF RowsOK, LogsOK
  <2>4. QED
    BY <2>1, <2>3, TypePartsNext
<1>6. ASSUME NEW t \in Deployers, DeployCommit(t)
      PROVE  TypeOK'
  <2>1. job[t].ids \in SUBSET RecId
    BY JobFields DEF Thread
  <2>2. rec' \in [RecId -> Record]
    BY <1>6, <2>1, StatusSet DEF DeployCommit, Deployed
  <2>3. JobsOK' /\ run' \in [RunId -> Run]
    BY <1>6, Freed, RunQueued DEF DeployCommit, Thread
  <2>4. content' \in SUBSET Names
    BY <1>6, <2>1, RecordFields DEF DeployCommit, Listed
  <2>5. mixed' \in SUBSET RunId /\ stale' \in SUBSET RecId
    BY <1>0, <1>6, <2>1 DEF DeployCommit, LogsOK, Overwritten
  <2>6. RowsOK'
    BY <1>0, <1>6, <2>2, <2>3 DEF DeployCommit, RowsOK
  <2>7. LogsOK'
    BY <1>0, <1>6, <2>4, <2>5, Zenon DEF DeployCommit, LogsOK
  <2>8. QED
    BY <2>3, <2>6, <2>7, TypePartsNext
<1>7. ASSUME NEW t \in Thread, ThreadFails(t)
      PROVE  TypeOK'
  <2>1. JobsOK'
    BY <1>7, Freed DEF ThreadFails
  <2>2. queue' \subseteq Message
    BY <1>0, <1>7, AgainMessages DEF ThreadFails, LogsOK
  <2>3. faults' \in 0..MaxFaults /\ dropped' \in SUBSET RecId
    BY <1>0, <1>7, FaultCounts, JobFields DEF ThreadFails, LogsOK
  <2>4. RowsOK' /\ LogsOK'
    BY <1>0, <1>7, <2>2, <2>3 DEF ThreadFails, RowsOK, LogsOK
  <2>5. QED
    BY <2>1, <2>4, TypePartsNext
<1>8. ASSUME NEW d \in Devices, PickUp(d)
      PROVE  TypeOK'
  <2>1. JobsOK'
    BY <1>8, JobsStay DEF PickUp
  <2>2. run' \in [RunId -> Run]
    BY <1>8, RunsPicked
  <2>3. faults' \in 0..MaxFaults
    BY <1>0, <1>8, FaultCounts DEF PickUp, LogsOK
  <2>4. RowsOK' /\ LogsOK'
    BY <1>0, <1>8, <2>2, <2>3 DEF PickUp, RowsOK, LogsOK
  <2>5. QED
    BY <2>1, <2>4, TypePartsNext
<1>9. ASSUME NEW d \in Devices, NEW S \in SUBSET RecId, AskDeploy(d, S)
      PROVE  TypeOK'
  <2>1. JobsOK'
    BY <1>9, JobsStay DEF AskDeploy
  <2>2. queue' \subseteq Message
    BY <1>0, <1>9, NewMessage DEF AskDeploy, LogsOK
  <2>3. asked' \in 0..MaxAsked
    BY <1>0, <1>9, PatchesAssumption DEF AskDeploy, LogsOK, PatchesAssumption
  <2>4. RowsOK' /\ LogsOK'
    BY <1>0, <1>9, <2>2, <2>3 DEF AskDeploy, RowsOK, LogsOK
  <2>5. QED
    BY <2>1, <2>4, TypePartsNext
<1>10. ASSUME NEW r \in RunId, Install(r)
       PROVE  TypeOK'
  <2>1. JobsOK'
    BY <1>10, JobsStay DEF Install
  <2>2. /\ run' \in [RunId -> Run] /\ missing' \in [Devices -> SUBSET Names]
        /\ broken' \in SUBSET RunId
        /\ faults' = faults \/ (faults < MaxFaults /\ faults' = faults + 1)
    BY <1>10, RunEnds
  <2>3. faults' \in 0..MaxFaults
    BY <1>0, <2>2, FaultCounts DEF LogsOK
  <2>4. UNCHANGED <<rec, job, queue, asked, content, granted, mixed, stale, dropped>>
    BY <1>10 DEF Install
  <2>5. RowsOK' /\ LogsOK'
    BY <1>0, <2>2, <2>3, <2>4 DEF RowsOK, LogsOK
  <2>6. QED
    BY <2>1, <2>5, TypePartsNext
<1>11. CASE UNCHANGED vars
  <2>1. JobsOK'
    BY <1>11, JobsStay DEF vars
  <2>2. RowsOK' /\ LogsOK'
    BY <1>0, <1>11 DEF vars, RowsOK, LogsOK
  <2>3. QED
    BY <2>1, <2>2, TypePartsNext
<1>12. QED
  BY <1>1, <1>2, <1>3, <1>4, <1>5, <1>6, <1>7, <1>8, <1>9, <1>10, <1>11 DEF Next, Handle, Deploy

\* Every variable keeps its type, and a free process remembers nothing.
THEOREM TypeCorrect == Spec => []TypeOK
BY TypeInit, TypeStep, PTL DEF Spec

-----------------------------------------------------------------------------
(* What was approved.                                                       *)

\* Approved records were granted, and processes have read what they write.
KnownInv ==
  /\ \A i \in RecId : i \in granted => rec[i].st # "none"
  /\ \A i \in RecId : rec[i].st \in {"approved", "deployed"} => i \in granted
  /\ \A t \in Thread : job[t].kind = "approve" => \A i \in job[t].ids : rec[i].st # "none"
  /\ \A t \in Thread : job[t].kind = "deploy" =>
                         \A i \in job[t].ids : i \in granted /\ rec[i].dev = job[t].dev

\* Rows stay and keep their device and name; what was granted stays so.
RowsKeep ==
  /\ \A i \in RecId : rec[i].st # "none" =>
        rec'[i].st # "none" /\ rec'[i].dev = rec[i].dev /\ rec'[i].name = rec[i].name
  /\ granted \subseteq granted'

LEMMA KnownInit == Init => KnownInv
<1> SUFFICES ASSUME Init PROVE KnownInv
  OBVIOUS
<1>1. \A i \in RecId : rec[i].st = "none"
  BY DEF Init, NoRecord
<1>2. \A t \in Thread : job[t].kind = "idle"
  BY IdleJob DEF Init
<1>3. granted = {}
  BY DEF Init
<1>4. QED
  BY <1>1, <1>2, <1>3 DEF KnownInv

LEMMA KnownQuiet ==
  ASSUME TypeOK, KnownInv, UNCHANGED <<rec, granted>>,
         \A t \in Thread : \/ job'[t] = job[t]
                           \/ job'[t].kind \in {"idle", "report"}
                           \/ /\ job'[t].kind = "approve"
                              /\ \A i \in job'[t].ids : rec[i].st # "none"
                           \/ /\ job'[t].kind = "deploy"
                              /\ \A i \in job'[t].ids : i \in granted /\ rec[i].dev = job'[t].dev
  PROVE  KnownInv' /\ RowsKeep
<1>1. RowsKeep
  BY DEF RowsKeep
<1>2. KnownInv'
  BY DEF KnownInv
<1>3. QED
  BY <1>1, <1>2

LEMMA KnownStep == TypeOK /\ KnownInv /\ [Next]_vars => KnownInv' /\ RowsKeep
<1> SUFFICES ASSUME TypeOK, KnownInv, [Next]_vars PROVE KnownInv' /\ RowsKeep
  OBVIOUS
<1>0. \A t \in Thread : job[t].ids \subseteq RecId
  BY JobFields
<1>1. ASSUME NEW t \in Others, NEW d \in Devices, ReportRead(t, d)
      PROVE  KnownInv' /\ RowsKeep
  <2>1. Turns(t, Reporting(d, NewNames(d))) /\ Reporting(d, NewNames(d)).kind = "report"
    BY <1>1, ReportTurns, ReportingJob DEF Thread, Reporting
  <2>2. UNCHANGED <<rec, granted>>
    BY <1>1 DEF ReportRead
  <2>3. QED
    BY <2>1, <2>2, KnownQuiet DEF Turns
<1>2. ASSUME NEW t \in Others, ReportCommit(t)
      PROVE  KnownInv' /\ RowsKeep
  <2>1. Turns(t, Idle) /\ Idle.kind = "idle" /\ granted' = granted
    BY <1>2, Freed, IdleJob DEF ReportCommit, Thread
  <2>2. /\ \A i \in RecId : rec[i].st # "none" => rec'[i] = rec[i]
        /\ \A i \in RecId : rec[i].st = "none" => rec'[i] = rec[i] \/ rec'[i].st = "pending"
    BY <1>2, ReportRows DEF Thread
  <2>3. RowsKeep
    BY <2>1, <2>2 DEF RowsKeep
  <2>4. /\ \A i \in RecId : i \in granted => rec'[i] = rec[i]
        /\ \A i \in RecId : rec'[i].st \in {"approved", "deployed"} => rec'[i] = rec[i]
    BY <2>2 DEF KnownInv
  <2>5. \A s \in Thread : job'[s].kind # "idle" => job'[s] = job[s]
    BY <2>1 DEF Turns
  <2>6. KnownInv'
    BY <1>0, <2>1, <2>2, <2>4, <2>5 DEF KnownInv
  <2>7. QED
    BY <2>3, <2>6
<1>3. ASSUME NEW t \in Others, ApproveByHand(t) \/ ApproveByPolicy(t)
      PROVE  KnownInv' /\ RowsKeep
  <2>1. PICK S \in SUBSET RecId : ApproveRead(t, S) /\ \A i \in S : rec[i].st = "pending"
    BY <1>3 DEF ApproveByHand, ApproveByPolicy
  <2>2. Turns(t, Approving(S)) /\ Approving(S).kind = "approve" /\ Approving(S).ids = S
    BY <2>1, ApproveTurns, ApprovingJob DEF Thread
  <2>3. UNCHANGED <<rec, granted>>
    BY <2>1 DEF ApproveRead
  <2>4. QED
    BY <2>1, <2>2, <2>3, KnownQuiet DEF Turns
<1>4. ASSUME NEW t \in Others, ApproveCommit(t)
      PROVE  KnownInv' /\ RowsKeep
  <2>1. job[t].ids \in SUBSET RecId /\ job[t].kind = "approve" /\ granted' = granted \union job[t].ids
    BY <1>4, JobFields DEF ApproveCommit, Thread
  <2>2. \A i \in RecId : /\ rec'[i].dev = rec[i].dev /\ rec'[i].name = rec[i].name
                         /\ i \in job[t].ids => rec'[i].st = "approved"
                         /\ i \notin job[t].ids => rec'[i] = rec[i]
    BY <1>4, <2>1, StatusSet DEF ApproveCommit
  <2>3. Turns(t, Idle) /\ Idle.kind = "idle"
    BY <1>4, Freed, IdleJob DEF ApproveCommit, Thread
  <2>4. RowsKeep
    BY <2>1, <2>2 DEF RowsKeep
  <2>5. \A s \in Thread : job'[s].kind # "idle" => job'[s] = job[s]
    BY <2>3 DEF Turns
  <2>6. KnownInv'
    BY <1>0, <2>1, <2>2, <2>5 DEF KnownInv
  <2>7. QED
    BY <2>4, <2>6
<1>5. ASSUME NEW t \in Deployers, TakeDeploy(t)
      PROVE  KnownInv' /\ RowsKeep
  <2>1. UNCHANGED <<rec, granted>> /\ (job' = job \/ \E m \in Message : Turns(t, Deploying(m, Ready(m))))
    BY <1>5, TakeTurns DEF Thread
  <2>2. CASE job' = job
    BY <2>1, <2>2, KnownQuiet
  <2>3. ASSUME NEW m \in Message, Turns(t, Deploying(m, Ready(m)))
        PROVE  KnownInv' /\ RowsKeep
    <3>1. Ready(m) \in SUBSET RecId
      BY MessageFields DEF Ready
    <3>2. /\ Deploying(m, Ready(m)).kind = "deploy" /\ Deploying(m, Ready(m)).ids = Ready(m)
          /\ Deploying(m, Ready(m)).dev = m.dev
      BY <3>1, DeployingJob
    <3>3. \A i \in Ready(m) : i \in granted /\ rec[i].dev = m.dev
      BY <3>1 DEF Ready, KnownInv
    <3>4. QED
      BY <2>1, <2>3, <3>2, <3>3, KnownQuiet DEF Turns
  <2>4. QED
    BY <2>1, <2>2, <2>3
<1>6. ASSUME NEW t \in Deployers, DeployCommit(t)
      PROVE  KnownInv' /\ RowsKeep
  <2>1. job[t].ids \in SUBSET RecId /\ job[t].kind = "deploy" /\ granted' = granted
    BY <1>6, JobFields DEF DeployCommit, Thread
  <2>2. \A i \in RecId : /\ rec'[i].dev = rec[i].dev /\ rec'[i].name = rec[i].name
                         /\ i \in job[t].ids => rec'[i].st = "deployed"
                         /\ i \notin job[t].ids => rec'[i] = rec[i]
    BY <1>6, <2>1, StatusSet DEF DeployCommit, Deployed
  <2>3. Turns(t, Idle) /\ Idle.kind = "idle"
    BY <1>6, Freed, IdleJob DEF DeployCommit, Thread
  <2>4. RowsKeep
    BY <2>1, <2>2 DEF RowsKeep
  <2>5. \A s \in Thread : job'[s].kind # "idle" => job'[s] = job[s]
    BY <2>3 DEF Turns
  <2>6. \A i \in job[t].ids : i \in granted
    BY <2>1 DEF KnownInv, Thread
  <2>7. KnownInv'
    BY <1>0, <2>1, <2>2, <2>5, <2>6 DEF KnownInv
  <2>8. QED
    BY <2>4, <2>7
<1>7. ASSUME NEW t \in Thread, ThreadFails(t)
      PROVE  KnownInv' /\ RowsKeep
  <2>1. Turns(t, Idle) /\ Idle.kind = "idle" /\ UNCHANGED <<rec, granted>>
    BY <1>7, Freed, IdleJob DEF ThreadFails
  <2>2. QED
    BY <2>1, KnownQuiet DEF Turns
<1>8. ASSUME UNCHANGED <<rec, granted, job>>
      PROVE  KnownInv' /\ RowsKeep
  BY <1>8, KnownQuiet
<1>9. ASSUME \/ \E d \in Devices : PickUp(d) \/ \E S \in SUBSET RecId : AskDeploy(d, S)
             \/ \E r \in RunId : Install(r)
             \/ UNCHANGED vars
      PROVE  UNCHANGED <<rec, granted, job>>
  BY <1>9 DEF PickUp, AskDeploy, Install, vars
<1>10. QED
  BY <1>1, <1>2, <1>3, <1>4, <1>5, <1>6, <1>7, <1>8, <1>9 DEF Next, Handle, Deploy

-----------------------------------------------------------------------------
(* What devices get.                                                        *)

\* A record that a run was made for is deployed, and no other run was made for
\* it, unless its status was written over "deployed".
OnceInv ==
  /\ \A r \in RunId : \A i \in run[r].for : rec[i].st = "deployed" \/ i \in stale
  /\ \A r, s \in RunId : r # s => run[r].for \intersect run[s].for \subseteq stale

\* What was approved stays approved until it is deployed, and what is deployed
\* was put in a run; a run is for what was approved for its device.
MarkInv ==
  /\ \A i \in granted : rec[i].st \in {"approved", "deployed"}
  /\ \A i \in RecId : rec[i].st = "deployed" => \E r \in RunId : i \in run[r].for
ForInv ==
  /\ \A r \in RunId : \A i \in run[r].for : i \in granted /\ rec[i].dev = run[r].dev
  /\ \A r \in RunId : run[r].st = "none" => run[r].for = {}

\* The list of a run that waits is in the shared script, that of a run that was
\* picked up is the body it was given; what a run that ended was given is not
\* missing, unless it left a patch out.
ListInv ==
  /\ \A r \in RunId \ mixed :
       /\ run[r].st = "queued" => content = Listed(run[r].for)
       /\ run[r].st \in {"running", "done", "failed"} => run[r].body = Listed(run[r].for)
       /\ run[r].st \in {"none", "queued", "lost"} => run[r].body = {}
  /\ \A r \in RunId \ broken :
       run[r].st \in {"done", "failed"} => run[r].body \intersect missing[run[r].dev] = {}

\* Every try costs a fault, and a task works on what it was asked for.
TryInv ==
  /\ \A m \in queue : m.tries <= faults
  /\ \A t \in Thread : job[t].kind = "deploy" => job[t].tries <= faults /\ job[t].ids \subseteq job[t].asked

TraceInv == MarkInv /\ ForInv /\ ListInv /\ TryInv

IInv == TypeOK /\ KnownInv /\ OnceInv /\ TraceInv

LEMMA OnceInit == Init => OnceInv
<1> SUFFICES ASSUME Init PROVE OnceInv
  OBVIOUS
<1>1. \A r \in RunId : run[r].for = {}
  BY DEF Init, NoRun
<1>2. QED
  BY <1>1 DEF OnceInv

LEMMA OnceStep == IInv /\ [Next]_vars => OnceInv'
<1> SUFFICES ASSUME IInv, [Next]_vars PROVE OnceInv'
  OBVIOUS
<1>0. TypeOK /\ OnceInv /\ \A r \in RunId : run[r].for \subseteq RecId
  BY RunFields DEF IInv
<1>1. ASSUME stale \subseteq stale', \A r \in RunId : run'[r].for = run[r].for,
             \A i \in RecId : rec[i].st = "deployed" => rec'[i].st = "deployed" \/ i \in stale'
      PROVE  OnceInv'
  BY <1>0, <1>1 DEF OnceInv
<1>2. ASSUME NEW t \in Others, ApproveCommit(t)
      PROVE  OnceInv'
  <2>1. run' = run /\ stale' = stale \union {i \in job[t].ids : rec[i].st = "deployed"}
    BY <1>2 DEF ApproveCommit, Overwritten
  <2>2. job[t].ids \in SUBSET RecId
    BY <1>0, JobFields DEF Thread
  <2>3. \A i \in RecId : i \notin job[t].ids => rec'[i] = rec[i]
    BY <1>0, <1>2, <2>2, StatusSet DEF ApproveCommit
  <2>4. \A i \in RecId : rec[i].st = "deployed" => rec'[i].st = "deployed" \/ i \in stale'
    BY <2>1, <2>3
  <2>5. QED
    BY <1>1, <2>1, <2>4
<1>3. ASSUME NEW t \in Others, ReportCommit(t)
      PROVE  OnceInv'
  <2>1. \A i \in RecId : rec[i].st # "none" => rec'[i] = rec[i]
    BY <1>0, <1>3, ReportRows DEF Thread
  <2>2. stale' = stale /\ run' = run
    BY <1>3 DEF ReportCommit
  <2>3. QED
    BY <1>1, <2>1, <2>2
<1>4. ASSUME NEW t \in Deployers, DeployCommit(t)
      PROVE  OnceInv'
  <2>1. stale' = stale \union {i \in job[t].ids : rec[i].st = "deployed"}
    BY <1>4 DEF DeployCommit, Overwritten
  <2>2. PICK r \in RunId : run'[r].for = job[t].ids /\ \A s \in RunId \ {r} : run'[s] = run[s]
    BY <1>0, <1>4, RunQueued DEF Thread
  <2>3. job[t].ids \in SUBSET RecId
    BY <1>0, JobFields DEF Thread
  <2>4. /\ \A i \in job[t].ids : rec'[i].st = "deployed"
        /\ \A i \in RecId : i \notin job[t].ids => rec'[i] = rec[i]
    BY <1>0, <1>4, <2>3, StatusSet DEF DeployCommit, Deployed
  <2>5. \A s \in RunId : run[s].for \intersect job[t].ids \subseteq stale'
    BY <1>0, <2>1 DEF OnceInv
  <2>6. \A s \in RunId : \A i \in run'[s].for : rec'[i].st = "deployed" \/ i \in stale'
    BY <1>0, <2>1, <2>2, <2>4 DEF OnceInv
  <2>7. \A p, q \in RunId : p # q => run'[p].for \intersect run'[q].for \subseteq stale'
    BY <1>0, <2>1, <2>2, <2>5 DEF OnceInv
  <2>8. QED
    BY <2>6, <2>7 DEF OnceInv
<1>5. ASSUME NEW d \in Devices, PickUp(d)
      PROVE  OnceInv'
  <2>1. stale' = stale /\ rec' = rec /\ \A r \in RunId : run'[r].for = run[r].for
    BY <1>0, <1>5, RunsPicked DEF PickUp
  <2>2. QED
    BY <1>1, <2>1
<1>6. ASSUME NEW r \in RunId, Install(r)
      PROVE  OnceInv'
  <2>1. stale' = stale /\ rec' = rec /\ \A s \in RunId : run'[s].for = run[s].for
    BY <1>0, <1>6, RunEnds DEF Install
  <2>2. QED
    BY <1>1, <2>1
<1>7. ASSUME \/ \E t \in Others : ApproveByHand(t) \/ ApproveByPolicy(t) \/ \E d \in Devices : ReportRead(t, d)
             \/ \E t \in Thread : ThreadFails(t)
             \/ \E t \in Deployers : TakeDeploy(t)
             \/ \E d \in Devices : \E S \in SUBSET RecId : AskDeploy(d, S)
             \/ UNCHANGED vars
      PROVE  UNCHANGED <<rec, run, stale>>
  BY <1>7 DEF ThreadFails, TakeDeploy, AskDeploy, vars, ReportRead, ApproveByHand, ApproveByPolicy, ApproveRead
<1>8. QED
  BY <1>1, <1>2, <1>3, <1>4, <1>5, <1>6, <1>7 DEF Next, Handle, Deploy

-----------------------------------------------------------------------------
(* What becomes of a request.                                              *)

\* Run r is queued by process t.
Queues(t, r) ==
  /\ job[t].kind = "deploy" /\ run[r].st = "none" /\ run'[r].st = "queued"
  /\ run'[r].for = job[t].ids /\ run'[r].dev = job[t].dev /\ run'[r].body = {}
  /\ content' = Listed(job[t].ids)

\* What a step does to run r.
RunKind(r) ==
  \/ run'[r] = run[r]
  \/ \E t \in Deployers : Queues(t, r)
  \/ /\ run[r].st = "queued" /\ run'[r].for = run[r].for /\ run'[r].dev = run[r].dev
     /\ \/ run'[r].st = "running" /\ run'[r].body = content
        \/ run'[r].st = "lost" /\ run'[r].body = run[r].body
  \/ /\ run[r].st = "running" /\ run'[r].st \in {"done", "failed"}
     /\ run'[r].for = run[r].for /\ run'[r].dev = run[r].dev /\ run'[r].body = run[r].body
     /\ r \in broken' \/ run[r].body \intersect missing'[run[r].dev] = {}

\* The runs that wait when the list is replaced are mixed; devices lack no more
\* than they did.
ListKept ==
  /\ content' = content \/ \A r \in RunId : run[r].st = "queued" => r \in mixed'
  /\ mixed \subseteq mixed' /\ broken \subseteq broken'
  /\ \A d \in Devices : missing'[d] \subseteq missing[d]

LEMMA RunKinds == TypeOK /\ [Next]_vars => ListKept /\ \A r \in RunId : RunKind(r)
<1> SUFFICES ASSUME TypeOK, [Next]_vars PROVE ListKept /\ \A r \in RunId : RunKind(r)
  OBVIOUS
<1>1. ASSUME UNCHANGED <<missing, content, run, mixed, broken>>
      PROVE  ListKept /\ \A r \in RunId : RunKind(r)
  BY <1>1, Zenon DEF ListKept, RunKind
<1>2. ASSUME NEW t \in Deployers, DeployCommit(t)
      PROVE  ListKept /\ \A r \in RunId : RunKind(r)
  <2>1. /\ job[t].kind = "deploy" /\ content' = Listed(job[t].ids) /\ UNCHANGED <<missing, broken>>
        /\ mixed' = mixed \union {r \in RunId : run[r].st = "queued"}
    BY <1>2 DEF DeployCommit
  <2>2. PICK r \in RunId :
          /\ run[r].st = "none"
          /\ run'[r].st = "queued" /\ run'[r].dev = job[t].dev /\ run'[r].for = job[t].ids
          /\ run'[r].body = {}
          /\ \A s \in RunId \ {r} : run'[s] = run[s]
    BY <1>2, RunQueued DEF Thread
  <2>3. Queues(t, r)
    BY <2>1, <2>2 DEF Queues
  <2>4. \A s \in RunId : RunKind(s)
    BY <2>2, <2>3 DEF RunKind
  <2>5. ListKept
    BY <2>1 DEF ListKept
  <2>6. QED
    BY <2>4, <2>5
<1>3. ASSUME NEW d \in Devices, PickUp(d)
      PROVE  ListKept /\ \A r \in RunId : RunKind(r)
  <2>1. UNCHANGED <<missing, content, mixed, broken>>
    BY <1>3 DEF PickUp
  <2>2. \A r \in RunId :
          /\ run'[r].for = run[r].for /\ run'[r].dev = run[r].dev
          /\ \/ run'[r] = run[r]
             \/ run[r].st = "queued" /\ run'[r].st = "running" /\ run'[r].body = content
             \/ run[r].st = "queued" /\ run'[r].st = "lost" /\ run'[r].body = run[r].body
    BY <1>3, RunsPicked
  <2>3. QED
    BY <2>1, <2>2 DEF ListKept, RunKind
<1>4. ASSUME NEW r \in RunId, Install(r)
      PROVE  ListKept /\ \A s \in RunId : RunKind(s)
  <2>1. UNCHANGED <<content, mixed>>
    BY <1>4 DEF Install
  <2>2. /\ run'[r].for = run[r].for /\ \A s \in RunId : s # r => run'[s] = run[s]
        /\ run[r].st = "running" /\ run'[r].st \in {"done", "failed"}
        /\ run'[r].dev = run[r].dev /\ run'[r].body = run[r].body
        /\ \A d \in Devices : missing'[d] \subseteq missing[d]
        /\ broken \subseteq broken'
        /\ r \in broken' \/ run[r].body \intersect missing'[run[r].dev] = {}
    BY <1>4, RunEnds
  <2>3. QED
    BY <2>1, <2>2 DEF ListKept, RunKind
<1>5. ASSUME \/ \E t \in Others : Handle(t)
             \/ \E t \in Thread : ThreadFails(t)
             \/ \E t \in Deployers : TakeDeploy(t)
             \/ \E d \in Devices : \E S \in SUBSET RecId : AskDeploy(d, S)
             \/ UNCHANGED vars
      PROVE  UNCHANGED <<missing, content, run, mixed, broken>>
  BY <1>5 DEF Handle, ThreadFails, TakeDeploy, AskDeploy, vars, ReportRead, ReportCommit, ApproveByHand,
     ApproveByPolicy, ApproveRead, ApproveCommit
<1>6. QED
  BY <1>1, <1>2, <1>3, <1>4, <1>5 DEF Next, Deploy

\* What a step does to record i.
RowKind(i) ==
  /\ \/ rec'[i] = rec[i]
     \/ rec[i].st = "none" /\ rec'[i].st = "pending"
     \/ rec'[i].st = "approved"
     \/ rec'[i].st = "deployed" /\ \E r \in RunId : i \in run'[r].for
  /\ i \in granted' => i \in granted \/ rec'[i].st = "approved"

LEMMA RowKinds == TypeOK /\ [Next]_vars => \A i \in RecId : RowKind(i)
<1> SUFFICES ASSUME TypeOK, [Next]_vars PROVE \A i \in RecId : RowKind(i)
  OBVIOUS
<1>1. ASSUME UNCHANGED <<rec, granted>>
      PROVE  \A i \in RecId : RowKind(i)
  BY <1>1 DEF RowKind
<1>2. ASSUME NEW t \in Others, ReportCommit(t)
      PROVE  \A i \in RecId : RowKind(i)
  <2>1. /\ \A i \in RecId : rec[i].st # "none" => rec'[i] = rec[i]
        /\ \A i \in RecId : rec[i].st = "none" => rec'[i] = rec[i] \/ rec'[i].st = "pending"
    BY <1>2, ReportRows DEF Thread
  <2>2. granted' = granted
    BY <1>2 DEF ReportCommit
  <2>3. QED
    BY <2>1, <2>2 DEF RowKind
<1>3. ASSUME NEW t \in Others, ApproveCommit(t)
      PROVE  \A i \in RecId : RowKind(i)
  <2>1. job[t].ids \in SUBSET RecId /\ granted' = granted \union job[t].ids
    BY <1>3, JobFields DEF ApproveCommit, Thread
  <2>2. \A i \in RecId : /\ i \in job[t].ids => rec'[i].st = "approved"
                         /\ i \notin job[t].ids => rec'[i] = rec[i]
    BY <1>3, <2>1, StatusSet DEF ApproveCommit
  <2>3. QED
    BY <2>1, <2>2 DEF RowKind
<1>4. ASSUME NEW t \in Deployers, DeployCommit(t)
      PROVE  \A i \in RecId : RowKind(i)
  <2>1. job[t].ids \in SUBSET RecId /\ granted' = granted
    BY <1>4, JobFields DEF DeployCommit, Thread
  <2>2. \A i \in RecId : /\ i \in job[t].ids => rec'[i].st = "deployed"
                         /\ i \notin job[t].ids => rec'[i] = rec[i]
    BY <1>4, <2>1, StatusSet DEF DeployCommit, Deployed
  <2>3. PICK r \in RunId : run'[r].for = job[t].ids
    BY <1>4, RunQueued DEF Thread
  <2>4. QED
    BY <2>1, <2>2, <2>3 DEF RowKind
<1>5. ASSUME \/ \E t \in Others : ApproveByHand(t) \/ ApproveByPolicy(t) \/ \E d \in Devices : ReportRead(t, d)
             \/ \E t \in Thread : ThreadFails(t)
             \/ \E t \in Deployers : TakeDeploy(t)
             \/ \E d \in Devices : PickUp(d) \/ \E S \in SUBSET RecId : AskDeploy(d, S)
             \/ \E r \in RunId : Install(r)
             \/ UNCHANGED vars
      PROVE  UNCHANGED <<rec, granted>>
  BY <1>5 DEF ThreadFails, TakeDeploy, AskDeploy, PickUp, Install, vars, ReportRead, ApproveByHand,
     ApproveByPolicy, ApproveRead
<1>6. QED
  BY <1>1, <1>2, <1>3, <1>4, <1>5 DEF Next, Handle, Deploy

\* The records of a run are there for good.
LEMMA ForStays ==
  ASSUME ForInv, NEW r \in RunId, RunKind(r)
  PROVE  /\ run[r].for \subseteq run'[r].for
         /\ run[r].st # "none" => run'[r].for = run[r].for
<1>1. CASE \E t \in Deployers : Queues(t, r)
  BY <1>1 DEF Queues, ForInv
<1>2. CASE ~\E t \in Deployers : Queues(t, r)
  BY <1>2 DEF RunKind
<1>3. QED
  BY <1>1, <1>2

LEMMA MarkStep == IInv /\ [Next]_vars => MarkInv'
<1> SUFFICES ASSUME IInv, [Next]_vars PROVE MarkInv'
  OBVIOUS
<1>0. TypeOK /\ KnownInv /\ MarkInv /\ ForInv
  BY DEF IInv, TraceInv
<1>1. \A i \in RecId : RowKind(i)
  BY <1>0, RowKinds
<1>2. \A r \in RunId : run[r].for \subseteq run'[r].for
  BY <1>0, RunKinds, ForStays
<1>3. granted' \in SUBSET RecId
  BY <1>0, TypeStep DEF TypeOK
<1>4. \A i \in granted' : rec'[i].st \in {"approved", "deployed"}
  BY <1>0, <1>1, <1>3 DEF RowKind, MarkInv
<1>5. \A i \in RecId : rec'[i].st = "deployed" => \E r \in RunId : i \in run'[r].for
  BY <1>0, <1>1, <1>2 DEF RowKind, MarkInv
<1>6. QED
  BY <1>4, <1>5 DEF MarkInv

LEMMA ForStep == IInv /\ RowsKeep /\ [Next]_vars => ForInv'
<1> SUFFICES ASSUME IInv, RowsKeep, [Next]_vars PROVE ForInv'
  OBVIOUS
<1>0. TypeOK /\ KnownInv /\ ForInv /\ granted \in SUBSET RecId
  BY DEF IInv, TraceInv, TypeOK
<1>1. \A i \in granted : i \in granted' /\ rec'[i].dev = rec[i].dev
  BY <1>0 DEF KnownInv, RowsKeep
<1>2. ASSUME NEW r \in RunId
      PROVE  /\ \A i \in run'[r].for : i \in granted' /\ rec'[i].dev = run'[r].dev
             /\ run'[r].st = "none" => run'[r].for = {}
  <2>1. RunKind(r)
    BY <1>0, RunKinds
  <2>2. ASSUME NEW t \in Deployers, Queues(t, r)
        PROVE  /\ \A i \in run'[r].for : i \in granted' /\ rec'[i].dev = run'[r].dev
               /\ run'[r].st = "none" => run'[r].for = {}
    <3>1. \A i \in job[t].ids : i \in granted /\ rec[i].dev = job[t].dev
      BY <1>0, <2>2 DEF KnownInv, Queues, Thread
    <3>2. QED
      BY <1>1, <2>2, <3>1 DEF Queues
  <2>3. ASSUME run'[r].for = run[r].for, run'[r].dev = run[r].dev,
               run'[r].st # "none" \/ run'[r].st = run[r].st
        PROVE  /\ \A i \in run'[r].for : i \in granted' /\ rec'[i].dev = run'[r].dev
               /\ run'[r].st = "none" => run'[r].for = {}
    BY <1>0, <1>1, <2>3 DEF ForInv
  <2>4. QED
    BY <2>1, <2>2, <2>3 DEF RunKind
<1>3. QED
  BY <1>2 DEF ForInv

\* The list of granted records is the same after a step.
LEMMA ListedStays ==
  ASSUME TypeOK, KnownInv, RowsKeep, NEW S \in SUBSET granted, NEW R, R = S
  PROVE  {rec'[i].name : i \in R} \intersect WithKB = Listed(S)
<1>1. \A i \in S : rec'[i].name = rec[i].name
  BY DEF TypeOK, KnownInv, RowsKeep
<1>2. QED
  BY <1>1 DEF Listed

LEMMA ListStep == IInv /\ RowsKeep /\ [Next]_vars => ListInv'
<1> SUFFICES ASSUME IInv, RowsKeep, [Next]_vars PROVE ListInv'
  OBVIOUS
<1>0. TypeOK /\ KnownInv /\ ForInv /\ ListInv
  BY DEF IInv, TraceInv
<1>1. (\A r \in RunId : RunKind(r)) /\ ListKept
  BY <1>0, RunKinds
<1> DEFINE L(r) == {rec'[i].name : i \in run'[r].for} \intersect WithKB
<1>2. ASSUME NEW r \in RunId, run'[r].for = run[r].for
      PROVE  L(r) = Listed(run[r].for)
  <2>1. run[r].for \in SUBSET granted
    BY <1>0 DEF ForInv
  <2>2. QED
    BY <1>0, <1>2, <2>1, ListedStays
<1>3. ASSUME NEW r \in RunId, NEW t \in Deployers, Queues(t, r)
      PROVE  L(r) = Listed(job[t].ids)
  <2>1. job[t].ids \in SUBSET granted
    BY <1>0, <1>3 DEF KnownInv, Queues, Thread
  <2>2. QED
    BY <1>0, <1>3, <2>1, ListedStays DEF Queues
<1>4. ASSUME NEW r \in RunId, r \notin mixed'
      PROVE  /\ run'[r].st = "queued" => content' = L(r)
             /\ run'[r].st \in {"running", "done", "failed"} => run'[r].body = L(r)
             /\ run'[r].st \in {"none", "queued", "lost"} => run'[r].body = {}
  <2>1. /\ run[r].st = "queued" => content = Listed(run[r].for)
        /\ run[r].st \in {"running", "done", "failed"} => run[r].body = Listed(run[r].for)
        /\ run[r].st \in {"none", "queued", "lost"} => run[r].body = {}
        /\ run[r].st = "queued" => content' = content
    BY <1>0, <1>1, <1>4 DEF ListInv, ListKept
  <2> HIDE DEF L
  <2>2. CASE \E t \in Deployers : Queues(t, r)
    BY <1>3, <2>2 DEF Queues
  <2>3. CASE run'[r] = run[r]
    BY <1>2, <2>1, <2>3
  <2>4. CASE ~(\E t \in Deployers : Queues(t, r)) /\ run'[r] # run[r]
    <3>1. \/ /\ run[r].st = "queued" /\ run'[r].for = run[r].for
             /\ \/ run'[r].st = "running" /\ run'[r].body = content
                \/ run'[r].st = "lost" /\ run'[r].body = run[r].body
          \/ /\ run[r].st = "running" /\ run'[r].st \in {"done", "failed"}
             /\ run'[r].for = run[r].for /\ run'[r].body = run[r].body
      BY <1>1, <2>4 DEF RunKind
    <3>2. QED
      BY <1>2, <2>1, <3>1
  <2>5. QED
    BY <2>2, <2>3, <2>4
<1>5. ASSUME NEW r \in RunId, r \notin broken', run'[r].st \in {"done", "failed"}
      PROVE  run'[r].body \intersect missing'[run'[r].dev] = {}
  <2>1. r \notin broken /\ missing'[run[r].dev] \subseteq missing[run[r].dev]
    BY <1>0, <1>1, <1>5, RunFields DEF ListKept
  <2>2. CASE run'[r] = run[r]
    BY <1>0, <1>5, <2>1, <2>2 DEF ListInv
  <2>3. CASE run'[r] # run[r]
    BY <1>1, <1>5, <2>3 DEF RunKind, Queues
  <2>4. QED
    BY <2>2, <2>3
<1>6. QED
  BY <1>4, <1>5 DEF ListInv, Listed

\* What a step does to the job of process t.
JobKind(t) ==
  \/ job'[t] = job[t]
  \/ job'[t].kind # "deploy"
  \/ \E m \in queue : m \in Message /\ job'[t] = Deploying(m, Ready(m))

\* A message is not new, or is asked for, or is put back at the cost of a fault.
MessageKind(m) ==
  \/ m \in queue
  \/ m.tries = 0
  \/ /\ faults' = faults + 1
     /\ \E t \in Thread : job[t].kind = "deploy" /\ m.tries = job[t].tries + 1

LEMMA RequestKinds ==
  TypeOK /\ [Next]_vars => /\ \A t \in Thread : JobKind(t)
                           /\ \A m \in queue' : MessageKind(m)
                           /\ faults' \in Nat /\ faults' >= faults
<1> SUFFICES ASSUME TypeOK, [Next]_vars
             PROVE  /\ \A t \in Thread : JobKind(t)
                    /\ \A m \in queue' : MessageKind(m)
                    /\ faults' \in Nat /\ faults' >= faults
  OBVIOUS
<1> DEFINE Calm == faults' = faults \/ faults' = faults + 1
<1>1. ASSUME Calm PROVE faults' \in Nat /\ faults' >= faults
  BY <1>1 DEF TypeOK
<1>2. ASSUME NEW t \in Thread, NEW J \in Job, Turns(t, J), J.kind # "deploy"
      PROVE  \A s \in Thread : JobKind(s)
  BY <1>2, Zenon DEF Turns, JobKind
<1>3. ASSUME NEW t \in Others, NEW d \in Devices, ReportRead(t, d)
      PROVE  (\A s \in Thread : JobKind(s)) /\ queue' = queue /\ Calm
  <2>1. NewNames(d) \in SUBSET Names
    BY DEF TypeOK, NewNames
  <2>2. Reporting(d, NewNames(d)) \in Job /\ Reporting(d, NewNames(d)).kind # "deploy"
    BY <2>1, ReportingJob
  <2>3. Turns(t, Reporting(d, NewNames(d)))
    BY <1>3, ReportTurns DEF Thread
  <2>4. \A s \in Thread : JobKind(s)
    BY <1>2, <2>2, <2>3 DEF Thread
  <2>5. QED
    BY <1>3, <2>4 DEF ReportRead
<1>4. ASSUME NEW t \in Others, ApproveByHand(t) \/ ApproveByPolicy(t)
      PROVE  (\A s \in Thread : JobKind(s)) /\ queue' = queue /\ Calm
  <2>1. PICK S \in SUBSET RecId : ApproveRead(t, S)
    BY <1>4 DEF ApproveByHand, ApproveByPolicy
  <2>2. Approving(S) \in Job /\ Approving(S).kind # "deploy" /\ Turns(t, Approving(S))
    BY <2>1, ApproveTurns, ApprovingJob DEF Thread
  <2>3. \A s \in Thread : JobKind(s)
    BY <1>2, <2>2 DEF Thread
  <2>4. QED
    BY <2>1, <2>3 DEF ApproveRead
<1>5. ASSUME NEW t \in Thread, job' = [job EXCEPT ![t] = Idle]
      PROVE  \A s \in Thread : JobKind(s)
  <2>1. Turns(t, Idle) /\ Idle \in Job /\ Idle.kind # "deploy"
    BY <1>5, Freed, IdleJob
  <2>2. QED
    BY <1>2, <2>1
<1>6. ASSUME \/ \E t \in Others : ReportCommit(t) \/ ApproveCommit(t)
             \/ \E t \in Deployers : DeployCommit(t)
      PROVE  (\A s \in Thread : JobKind(s)) /\ queue' = queue /\ Calm
  <2>1. (\E t \in Thread : job' = [job EXCEPT ![t] = Idle]) /\ queue' = queue /\ faults' = faults
    BY <1>6, Zenon DEF ReportCommit, ApproveCommit, DeployCommit, Thread
  <2>2. QED
    BY <1>5, <2>1
<1>7. ASSUME NEW t \in Deployers, TakeDeploy(t)
      PROVE  (\A s \in Thread : JobKind(s)) /\ queue' \subseteq queue /\ Calm
  <2>1. PICK m \in queue : /\ queue' \subseteq queue /\ Calm
                           /\ job' = job \/ job' = [job EXCEPT ![t] = Deploying(m, Ready(m))]
    BY <1>7 DEF TakeDeploy
  <2>2. m \in Message
    BY DEF TypeOK
  <2>3. CASE job' = job
    BY <2>1, <2>3 DEF JobKind
  <2>4. CASE job' = [job EXCEPT ![t] = Deploying(m, Ready(m))]
    <3>1. Turns(t, Deploying(m, Ready(m)))
      BY <2>2, <2>4, DeployTurns DEF Thread
    <3>2. \A s \in Thread : JobKind(s)
      BY <2>2, <3>1, Zenon DEF Turns, JobKind
    <3>3. QED
      BY <2>1, <3>2
  <2>5. QED
    BY <2>1, <2>3, <2>4
<1>8. ASSUME NEW t \in Thread, ThreadFails(t)
      PROVE  (\A s \in Thread : JobKind(s)) /\ (\A m \in queue' : MessageKind(m)) /\ Calm
  <2>1. (\A s \in Thread : JobKind(s)) /\ faults' = faults + 1 /\ queue' \subseteq queue \union Again(t)
    BY <1>5, <1>8 DEF ThreadFails
  <2>2. \A m \in Again(t) : job[t].kind = "deploy" /\ m.tries = job[t].tries + 1
    BY DEF Again
  <2>3. QED
    BY <2>1, <2>2 DEF MessageKind
<1>9. ASSUME NEW d \in Devices, NEW S \in SUBSET RecId, AskDeploy(d, S)
      PROVE  (\A s \in Thread : JobKind(s)) /\ (\A m \in queue' : MessageKind(m)) /\ Calm
  <2>1. job' = job /\ faults' = faults
    BY <1>9 DEF AskDeploy
  <2>2. \A m \in queue' : m \in queue \/ m.tries = 0
    BY <1>9 DEF AskDeploy
  <2>3. QED
    BY <2>1, <2>2 DEF JobKind, MessageKind
<1>10. ASSUME (\E d \in Devices : PickUp(d)) \/ (\E r \in RunId : Install(r)) \/ UNCHANGED vars
       PROVE  (\A s \in Thread : JobKind(s)) /\ queue' = queue /\ Calm
  <2>1. job' = job /\ queue' = queue /\ Calm
    BY <1>10 DEF PickUp, Install, vars
  <2>2. QED
    BY <2>1 DEF JobKind
<1>11. \A m \in queue : MessageKind(m)
  BY DEF MessageKind
<1> HIDE DEF Calm
<1>12. QED
  BY <1>1, <1>3, <1>4, <1>6, <1>7, <1>8, <1>9, <1>10, <1>11 DEF Next, Handle, Deploy

LEMMA TryStep == IInv /\ [Next]_vars => TryInv'
<1> SUFFICES ASSUME IInv, [Next]_vars PROVE TryInv'
  OBVIOUS
<1>0. TypeOK /\ TryInv /\ faults \in Nat
  BY DEF IInv, TraceInv, TypeOK
<1>1. /\ \A t \in Thread : JobKind(t)
      /\ \A m \in queue' : MessageKind(m)
      /\ faults' \in Nat /\ faults' >= faults
  BY <1>0, RequestKinds
<1>2. ASSUME NEW m \in queue'
      PROVE  m.tries <= faults'
  <2>1. CASE m \in queue
    <3>1. m.tries <= faults /\ m.tries \in Nat
      BY <1>0, <2>1, MessageFields DEF TypeOK, TryInv
    <3>2. QED
      BY <1>0, <1>1, <3>1
  <2>2. CASE m.tries = 0
    BY <1>1, <2>2
  <2>3. ASSUME NEW t \in Thread, job[t].kind = "deploy", m.tries = job[t].tries + 1, faults' = faults + 1
        PROVE  m.tries <= faults'
    <3>1. job[t].tries <= faults /\ job[t].tries \in Nat
      BY <1>0, <2>3, JobFields DEF TryInv
    <3>2. QED
      BY <1>0, <2>3, <3>1
  <2>4. QED
    BY <1>1, <2>1, <2>2, <2>3 DEF MessageKind
<1>3. ASSUME NEW t \in Thread, job'[t].kind = "deploy"
      PROVE  job'[t].tries <= faults' /\ job'[t].ids \subseteq job'[t].asked
  <2>1. CASE job'[t] = job[t]
    <3>1. job[t].tries <= faults /\ job[t].tries \in Nat /\ job[t].ids \subseteq job[t].asked
      BY <1>0, <1>3, <2>1, JobFields DEF TryInv
    <3>2. QED
      BY <1>0, <1>1, <2>1, <3>1
  <2>2. ASSUME NEW m \in queue, m \in Message, job'[t] = Deploying(m, Ready(m))
        PROVE  job'[t].tries <= faults' /\ job'[t].ids \subseteq job'[t].asked
    <3>1. Ready(m) \subseteq m.ids
      BY DEF Ready
    <3>2. /\ Deploying(m, Ready(m)).ids = Ready(m) /\ Deploying(m, Ready(m)).asked = m.ids
          /\ Deploying(m, Ready(m)).tries = m.tries
      BY <2>2, <3>1, MessageFields, DeployingJob
    <3>3. m.tries <= faults /\ m.tries \in Nat
      BY <1>0, <2>2, MessageFields DEF TryInv
    <3>4. m.tries <= faults'
      BY <1>0, <1>1, <3>3
    <3>5. QED
      BY <2>2, <3>1, <3>2, <3>4
  <2>3. QED
    BY <1>1, <1>3, <2>1, <2>2 DEF JobKind
<1>4. QED
  BY <1>2, <1>3 DEF TryInv

LEMMA TraceInit == Init => TraceInv
<1> SUFFICES ASSUME Init PROVE TraceInv
  OBVIOUS
<1>1. /\ granted = {} /\ queue = {}
      /\ \A i \in RecId : rec[i].st = "none"
      /\ \A r \in RunId : run[r].st = "none" /\ run[r].for = {} /\ run[r].body = {}
  BY DEF Init, NoRecord, NoRun
<1>2. \A t \in Thread : job[t].kind = "idle"
  BY IdleJob DEF Init
<1>3. MarkInv /\ ForInv /\ ListInv /\ TryInv
  BY <1>1, <1>2 DEF MarkInv, ForInv, ListInv, TryInv
<1>4. QED
  BY <1>3 DEF TraceInv

LEMMA TraceStep == IInv /\ RowsKeep /\ [Next]_vars => TraceInv'
BY MarkStep, ForStep, ListStep, TryStep DEF TraceInv

LEMMA Invariant == Spec => []IInv
<1>1. Init => IInv
  BY TypeInit, KnownInit, OnceInit, TraceInit DEF IInv
<1>2. IInv /\ [Next]_vars => IInv'
  BY TypeStep, KnownStep, OnceStep, TraceStep DEF IInv
<1>3. QED
  BY <1>1, <1>2, PTL DEF Spec

\* A device is handed only patches that were approved for it, those that its
\* run was made for, unless a deployment replaced the shared list while the run
\* waited.
THEOREM InstallsApprovedAlways == Spec => []InstallsApproved
<1>1. IInv => InstallsApproved
  <2> SUFFICES ASSUME IInv, NEW r \in RunId \ mixed, NEW n \in run[r].body
               PROVE  \E i \in granted \intersect run[r].for : rec[i].dev = run[r].dev /\ rec[i].name = n
    BY DEF InstallsApproved
  <2>1. run[r].body = Listed(run[r].for)
    <3>1. run[r].st \in RunStages
      BY RunFields DEF IInv
    <3>2. QED
      BY <3>1 DEF IInv, TraceInv, ListInv, RunStages
  <2>2. PICK i \in run[r].for : rec[i].name = n
    BY <2>1 DEF Listed
  <2>3. i \in granted /\ rec[i].dev = run[r].dev
    BY <2>2 DEF IInv, TraceInv, ForInv
  <2>4. QED
    BY <2>2, <2>3
<1>2. QED
  BY <1>1, Invariant, PTL

LEMMA DeployedTrue == IInv => DeployedOnce
<1> SUFFICES ASSUME IInv PROVE DeployedOnce
  OBVIOUS
<1>1. \A r, s \in RunId : r # s => run[r].for \intersect run[s].for \subseteq stale
  BY DEF IInv, OnceInv
<1>2. ASSUME NEW i \in RecId, rec[i].st = "deployed", rec[i].name \in WithKB
      PROVE  \/ rec[i].name \notin missing[rec[i].dev]
             \/ \E r \in RunId : /\ i \in run[r].for
                                 /\ r \in mixed \union broken \/ run[r].st \in {"queued", "running", "lost"}
  <2>1. PICK r \in RunId : i \in run[r].for
    BY <1>2 DEF IInv, TraceInv, MarkInv
  <2>2. run[r].st # "none" /\ rec[i].dev = run[r].dev
    BY <2>1 DEF IInv, TraceInv, ForInv
  <2>3. CASE run[r].st \in {"done", "failed"} /\ r \notin mixed \union broken
    <3>1. rec[i].name \in Listed(run[r].for)
      BY <1>2, <2>1 DEF Listed
    <3>2. run[r].body = Listed(run[r].for) /\ run[r].body \intersect missing[run[r].dev] = {}
      BY <2>3 DEF IInv, TraceInv, ListInv
    <3>3. QED
      BY <2>2, <3>1, <3>2
  <2>4. CASE ~(run[r].st \in {"done", "failed"} /\ r \notin mixed \union broken)
    BY <2>1, <2>2, <2>4, RunFields DEF IInv, RunStages
  <2>5. QED
    BY <2>3, <2>4
<1>3. QED
  BY <1>1, <1>2 DEF DeployedOnce

\* Only a record whose status was written over "deployed" is deployed by two
\* runs; and the patch of a deployed record is installed, or a run was made for
\* it that is under way, was lost, met another list or left a patch out.
THEOREM DeployedOnceAlways == Spec => []DeployedOnce
<1>1. IInv => DeployedOnce
  BY DeployedTrue
<1>2. QED
  BY <1>1, Invariant, PTL

\* A message that is not put back was taken, by a process that works on what
\* it found ready.
LEMMA RequestTaken ==
  ASSUME TypeOK, [Next]_vars, NEW m \in queue, m \notin queue'
  PROVE  \E t \in Deployers : job' = IF Ready(m) = {} THEN job ELSE [job EXCEPT ![t] = Deploying(m, Ready(m))]
<1>1. \/ \E t \in Deployers : TakeDeploy(t)
      \/ queue \subseteq queue'
  BY DEF Next, Handle, Deploy, ReportRead, ReportCommit, ApproveByHand, ApproveByPolicy, ApproveRead, ApproveCommit,
     DeployCommit, ThreadFails, PickUp, AskDeploy, Install, vars
<1>2. PICK t \in Deployers : TakeDeploy(t)
  BY <1>1
<1>3. PICK k \in queue :
        /\ queue' = queue \ {k} \/ queue' = queue
        /\ job' = IF Ready(k) = {} THEN job ELSE [job EXCEPT ![t] = Deploying(k, Ready(k))]
  BY <1>2 DEF TakeDeploy
<1>4. k = m
  BY <1>3
<1>5. QED
  BY <1>3, <1>4

\* A deployment that ends has queued its run, or failed.
LEMMA DeployEnds ==
  ASSUME TypeOK, [Next]_vars, NEW t \in Deployers, job[t].kind = "deploy", job'[t] # job[t]
  PROVE  DeployCommit(t) \/ ThreadFails(t)
<1>1. t \in Thread /\ t \notin Others
  BY PatchesAssumption DEF Thread, PatchesAssumption
<1>2. ASSUME NEW s \in Others, NEW d \in Devices, ReportRead(s, d)
      PROVE  FALSE
  BY <1>1, <1>2, ReportTurns DEF Turns, Thread
<1>3. ASSUME NEW s \in Others, ApproveByHand(s) \/ ApproveByPolicy(s)
      PROVE  FALSE
  <2>1. PICK S \in SUBSET RecId : ApproveRead(s, S)
    BY <1>3 DEF ApproveByHand, ApproveByPolicy
  <2>2. QED
    BY <1>1, <2>1, ApproveTurns DEF Turns, Thread
<1>4. ASSUME NEW s \in Thread, s # t, job' = [job EXCEPT ![s] = Idle]
      PROVE  FALSE
  BY <1>1, <1>4, Freed DEF Turns
<1>5. ASSUME NEW s \in Others, ReportCommit(s) \/ ApproveCommit(s)
      PROVE  FALSE
  BY <1>1, <1>4, <1>5 DEF ReportCommit, ApproveCommit, Thread
<1>6. ASSUME NEW s \in Deployers, TakeDeploy(s)
      PROVE  FALSE
  <2>1. s # t /\ s \in Thread
    BY <1>6 DEF TakeDeploy, Thread
  <2>2. job' = job \/ \E m \in Message : Turns(s, Deploying(m, Ready(m)))
    BY <1>6, <2>1, TakeTurns
  <2>3. QED
    BY <1>1, <2>1, <2>2 DEF Turns
<1>7. ASSUME NEW s \in Deployers, DeployCommit(s)
      PROVE  s = t
  BY <1>4, <1>7 DEF DeployCommit, Thread
<1>8. ASSUME NEW s \in Thread, ThreadFails(s)
      PROVE  s = t
  BY <1>4, <1>8 DEF ThreadFails
<1>9. ASSUME \/ \E d \in Devices : PickUp(d) \/ \E S \in SUBSET RecId : AskDeploy(d, S)
             \/ \E r \in RunId : Install(r)
             \/ UNCHANGED vars
      PROVE  FALSE
  BY <1>9 DEF PickUp, AskDeploy, Install, vars
<1>10. QED
  BY <1>2, <1>3, <1>5, <1>6, <1>7, <1>8, <1>9 DEF Next, Handle, Deploy

\* A request whose message is still there, or whose record was deployed, stands.
LEMMA StillRequested ==
  ASSUME IInv, IInv', RowsKeep, NEW i \in granted, NEW m \in queue', m.dev = rec[i].dev, i \in m.ids
  PROVE  Underway(i)'
<1>1. i \in RecId /\ rec[i].st # "none" /\ i \in granted'
  BY DEF IInv, TypeOK, KnownInv, RowsKeep
<1>2. rec'[i].dev = rec[i].dev /\ rec'[i].st \in {"approved", "deployed"}
  BY <1>1 DEF IInv, RowsKeep, TraceInv, MarkInv
<1>3. CASE rec'[i].st = "approved"
  BY <1>2, <1>3 DEF Underway, Requested
<1>4. CASE rec'[i].st = "deployed"
  BY <1>1, <1>4 DEF IInv, TraceInv, MarkInv, Underway
<1>5. QED
  BY <1>2, <1>3, <1>4

LEMMA RequestsStep ==
  ASSUME IInv, IInv', RowsKeep, [Next]_vars, faults' <= MaxRetries, NEW i \in RecId \ dropped', Underway(i)
  PROVE  Underway(i)'
<1>0. TypeOK /\ KnownInv /\ ForInv /\ TryInv
  BY DEF IInv, TraceInv
<1>1. ASSUME NEW r \in RunId, i \in run[r].for
      PROVE  Underway(i)'
  <2>1. i \in run'[r].for
    BY <1>0, <1>1, RunKinds, ForStays
  <2>2. QED
    BY <2>1 DEF Underway
<1>2. ASSUME Requested(i)
      PROVE  Underway(i)'
  <2>1. PICK m \in queue : m.dev = rec[i].dev /\ i \in m.ids
    BY <1>2 DEF Requested
  <2>2. i \in granted /\ rec[i].st = "approved" /\ m \in Message
    BY <1>0, <1>2 DEF Requested, KnownInv, TypeOK
  <2>3. CASE m \in queue'
    BY <2>1, <2>2, <2>3, StillRequested
  <2>4. CASE m \notin queue'
    <3>1. i \in Ready(m)
      BY <2>1, <2>2 DEF Ready
    <3>2. PICK t \in Deployers : job' = [job EXCEPT ![t] = Deploying(m, Ready(m))]
      BY <1>0, <2>4, <3>1, RequestTaken
    <3>3. Turns(t, Deploying(m, Ready(m)))
      BY <1>0, <2>2, <3>2, DeployTurns DEF Thread
    <3>4. Ready(m) \in SUBSET RecId
      BY <2>2, MessageFields DEF Ready
    <3>5. job'[t].kind = "deploy" /\ job'[t].ids = Ready(m)
      BY <2>2, <3>3, <3>4, DeployingJob DEF Turns
    <3>6. QED
      BY <3>1, <3>5 DEF Underway
  <2>5. QED
    BY <2>3, <2>4
<1>3. ASSUME NEW t \in Deployers, job[t].kind = "deploy", i \in job[t].ids
      PROVE  Underway(i)'
  <2>1. t \in Thread /\ i \in granted /\ rec[i].dev = job[t].dev
    BY <1>0, <1>3 DEF KnownInv, Thread
  <2>2. CASE job'[t] = job[t]
    BY <1>3, <2>2 DEF Underway
  <2>3. CASE DeployCommit(t)
    <3>1. \E r \in RunId : run'[r].for = job[t].ids
      BY <1>0, <2>1, <2>3, RunQueued
    <3>2. QED
      BY <1>3, <3>1 DEF Underway
  <2>4. CASE ThreadFails(t)
    <3> DEFINE m == [dev |-> job[t].dev, ids |-> job[t].asked, tries |-> job[t].tries + 1, no |-> job[t].no]
    <3>1. /\ job[t].tries <= faults /\ job[t].tries \in Nat /\ i \in job[t].asked
          /\ faults \in Nat /\ faults' = faults + 1
      BY <1>0, <1>3, <2>1, <2>4, JobFields DEF TryInv, ThreadFails, TypeOK
    <3>2. job[t].tries < MaxRetries
      BY <3>1, PatchesAssumption DEF PatchesAssumption
    <3>3. m \in queue'
      <4>1. queue' = queue \union Again(t)
        BY <1>3, <2>4 DEF ThreadFails
      <4>2. QED
        BY <1>3, <3>2, <4>1 DEF Again
    <3>4. m.dev = rec[i].dev /\ i \in m.ids
      BY <2>1, <3>1
    <3> HIDE DEF m
    <3>5. QED
      BY <2>1, <3>3, <3>4, StillRequested
  <2>5. QED
    BY <1>0, <1>3, <2>2, <2>3, <2>4, DeployEnds
<1>4. QED
  BY <1>1, <1>2, <1>3 DEF Underway

\* A deployment that was asked for is forgotten only by a task that meets
\* something else than a database error: otherwise its message, the task at work
\* or a run stands for every approved patch in it, as long as there are no more
\* failures than retries.
THEOREM RequestsKeptAlways == Spec => RequestsKept
<1>1. IInv /\ IInv' /\ [Next]_vars =>
        [faults' <= MaxRetries => \A i \in RecId \ dropped' : Underway(i) => Underway(i)']_vars
  <2> SUFFICES ASSUME IInv, IInv', [Next]_vars, faults' <= MaxRetries, NEW i \in RecId \ dropped', Underway(i)
               PROVE  Underway(i)'
    OBVIOUS
  <2>1. RowsKeep
    BY KnownStep DEF IInv
  <2>2. QED
    BY <2>1, RequestsStep
<1>2. QED
  BY <1>1, Invariant, PTL DEF Spec, RequestsKept

=============================================================================
