---------------------------- MODULE PsaSync_proofs ----------------------------
(***************************************************************************)
(* Proofs about PsaSync.tla, for any sets of tickets and processes, any    *)
(* retries, failures and windows.                                          *)
(***************************************************************************)
EXTENDS PsaSync, TLAPS

-----------------------------------------------------------------------------
(* Invariants.                                                             *)

Made(e) == copy[e].st # "none"

TicketsOK == tk \in [Tickets -> {"none", "open", "done", "deleted"}] /\ map \in [Tickets -> 0..MaxCopies]
CopiesOK  == copy \in [Copy -> Outside \union {NoCopy}]
JobsOK    == job \in [Workers -> Job] /\ \A w \in Workers : job[w].pc = "idle" => job[w] = Idle
RestOK ==
  /\ active \in BOOLEAN /\ fails \in 0..MaxFailures
  /\ queue \subseteq Message
  /\ manual \in 0..MaxManual /\ faults \in 0..MaxFaults
  /\ unsafe \in BOOLEAN /\ dry \in 0..Window

\* What the map and the processes name are copies; copies are pushed first.
MadeInv ==
  /\ \A t \in Tickets : map[t] # 0 => Made(map[t]) /\ copy[map[t]].of = t
  /\ \A w \in Workers : \A e \in job[w].mine : Made(e)
  /\ \A w \in Workers : job[w].pc # "push" => job[w].todo = {} /\ job[w].mine = {}

\* One synchronisation runs; a copy is known, or in the hands of the one that
\* made it; what is to be pushed has none.
Alone  == \A v, w \in Workers : job[v].pc # "idle" /\ job[w].pc # "idle" => v = w
KnownInv ==
  \A e \in Copy : Made(e) => \/ map[copy[e].of] = e
                             \/ tk[copy[e].of] = "deleted"
                             \/ \E w \in Workers : e \in job[w].mine
TodoInv == \A w \in Workers : \A t \in job[w].todo : \A e \in Copy : Made(e) => copy[e].of # t
Single  == \A e, f \in Copy : Made(e) /\ Made(f) /\ copy[e].of = copy[f].of => e = f

Once    == Alone /\ KnownInv /\ TodoInv /\ Single
OnceInv == ~unsafe => Once

-----------------------------------------------------------------------------
(* Types.                                                                  *)

LEMMA TypeParts == TypeOK <=> TicketsOK /\ CopiesOK /\ JobsOK /\ RestOK
  BY DEF TypeOK, TicketsOK, CopiesOK, JobsOK, RestOK

LEMMA IdleIsJob == Idle \in Job
  BY PsaAssumption DEF Idle, Job

\* One process moves to j.
LEMMA JobSet ==
  ASSUME JobsOK, NEW w \in Workers, NEW j \in Job, j.pc = "idle" => j = Idle,
         job' = [job EXCEPT ![w] = j]
  PROVE  JobsOK' /\ job'[w] = j /\ \A v \in Workers : v # w => job'[v] = job[v]
  BY DEF JobsOK

LEMMA JobFields ==
  ASSUME JobsOK, NEW w \in Workers
  PROVE  /\ job[w] \in Job
         /\ job[w].pc \in {"idle", "push", "pull", "update", "end"} /\ job[w].tries \in 0..MaxRetries
         /\ job[w].todo \in SUBSET Tickets /\ job[w].mine \in SUBSET Copy
         /\ job[w].upd \in SUBSET (Tickets \X {"open", "done"})
         /\ job[w] = [pc |-> job[w].pc, tries |-> job[w].tries, todo |-> job[w].todo,
                      mine |-> job[w].mine, upd |-> job[w].upd]
  BY DEF JobsOK, Job

\* Idle with three fields changed, for any sets the fields are in.
LEMMA ThreeChanged ==
  ASSUME NEW P, NEW N, NEW T, NEW M, NEW U,
         NEW J \in [pc : P, tries : N, todo : T, mine : M, upd : U],
         NEW p \in P, NEW t \in T, NEW n \in N
  PROVE  /\ [J EXCEPT !.pc = p, !.todo = t, !.tries = n] \in [pc : P, tries : N, todo : T, mine : M, upd : U]
         /\ [J EXCEPT !.pc = p, !.todo = t, !.tries = n].pc = p
         /\ [J EXCEPT !.pc = p, !.todo = t, !.tries = n].todo = t
         /\ [J EXCEPT !.pc = p, !.todo = t, !.tries = n].mine = J.mine
  OBVIOUS

\* The new job of a process, for every step that changes it.
LEMMA TakenJob ==
  ASSUME JobsOK, NEW w \in Workers, NEW m \in Message,
         job' = [job EXCEPT ![w] = [Idle EXCEPT !.pc = "push", !.todo = Unmapped, !.tries = m.tries]]
  PROVE  /\ JobsOK'
         /\ job'[w].pc = "push" /\ job'[w].todo = Unmapped /\ job'[w].mine = {}
         /\ \A v \in Workers : v # w => job'[v] = job[v]
<1> DEFINE j == [Idle EXCEPT !.pc = "push", !.todo = Unmapped, !.tries = m.tries]
<1>1. m.tries \in 0..MaxRetries
  BY DEF Message
<1>2. Unmapped \in SUBSET Tickets
  BY DEF Unmapped
<1>3. "push" \in {"idle", "push", "pull", "update", "end"}
  OBVIOUS
<1>4. j \in Job /\ j.pc = "push" /\ j.todo = Unmapped /\ j.mine = Idle.mine
  BY <1>1, <1>2, <1>3, IdleIsJob, ThreeChanged, Zenon DEF Job
<1>5. Idle.mine = {}
  BY DEF Idle
<1> HIDE DEF j
<1>6. job' = [job EXCEPT ![w] = j]
  BY DEF j
<1> QED BY <1>4, <1>5, <1>6, JobSet

LEMMA PushedJob ==
  ASSUME JobsOK, NEW w \in Workers, NEW t, NEW M \in SUBSET Copy, job[w].pc = "push",
         \/ job' = [job EXCEPT ![w].todo = @ \ {t}] /\ M = job[w].mine
         \/ job' = [job EXCEPT ![w].todo = @ \ {t}, ![w].mine = M]
  PROVE  /\ JobsOK'
         /\ job'[w].pc = "push" /\ job'[w].todo = job[w].todo \ {t} /\ job'[w].mine = M
         /\ \A v \in Workers : v # w => job'[v] = job[v]
<1> DEFINE T == job[w].todo \ {t}
           j == [job[w] EXCEPT !.todo = T]
           k == [job[w] EXCEPT !.todo = T, !.mine = M]
<1>1. job[w] \in Job /\ T \in SUBSET Tickets
  BY JobFields
<1>2. CASE job' = [job EXCEPT ![w] = j] /\ M = job[w].mine
  <2>1. j \in Job /\ j.pc = "push" /\ j.todo = T /\ j.mine = M
    BY <1>1, <1>2 DEF Job
  <2> HIDE DEF j, T
  <2>2. JobsOK' /\ job'[w] = j /\ \A v \in Workers : v # w => job'[v] = job[v]
    BY <1>2, <2>1, JobSet
  <2> QED BY <2>1, <2>2 DEF T
<1>3. CASE job' = [job EXCEPT ![w] = k]
  <2>1. k \in Job /\ k.pc = "push" /\ k.todo = T /\ k.mine = M
    BY <1>1 DEF Job
  <2> HIDE DEF k, T
  <2>2. JobsOK' /\ job'[w] = k /\ \A v \in Workers : v # w => job'[v] = job[v]
    BY <1>3, <2>1, JobSet
  <2> QED BY <2>1, <2>2 DEF T
<1> QED BY <1>2, <1>3

LEMMA CommittedJob ==
  ASSUME JobsOK, NEW w \in Workers, job' = [job EXCEPT ![w].pc = "pull", ![w].mine = {}]
  PROVE  /\ JobsOK'
         /\ job'[w].pc = "pull" /\ job'[w].todo = job[w].todo /\ job'[w].mine = {}
         /\ \A v \in Workers : v # w => job'[v] = job[v]
<1> DEFINE j == [job[w] EXCEPT !.pc = "pull", !.mine = {}]
<1>0. job[w] \in Job
  BY JobFields
<1>1. j \in Job /\ j.pc = "pull" /\ j.todo = job[w].todo /\ j.mine = {}
  BY <1>0 DEF Job
<1> HIDE DEF j
<1>2. job' = [job EXCEPT ![w] = j]
  BY DEF j
<1> QED BY <1>1, <1>2, JobSet

LEMMA ReadJob ==
  ASSUME JobsOK, NEW w \in Workers, NEW U \in SUBSET (Tickets \X {"open", "done"}),
         NEW p \in {"update", "end"},
         \/ job' = [job EXCEPT ![w].pc = p, ![w].upd = U]
         \/ job' = [job EXCEPT ![w].pc = p]
  PROVE  /\ JobsOK'
         /\ job'[w].pc = p /\ job'[w].todo = job[w].todo /\ job'[w].mine = job[w].mine
         /\ \A v \in Workers : v # w => job'[v] = job[v]
<1> DEFINE j == [job[w] EXCEPT !.pc = p, !.upd = U]
           k == [job[w] EXCEPT !.pc = p]
<1>0. job[w] \in Job
  BY JobFields
<1>1. /\ j \in Job /\ j.pc = p /\ j.todo = job[w].todo /\ j.mine = job[w].mine
      /\ k \in Job /\ k.pc = p /\ k.todo = job[w].todo /\ k.mine = job[w].mine
  BY <1>0 DEF Job
<1>2. job' = [job EXCEPT ![w] = j] \/ job' = [job EXCEPT ![w] = k]
  OBVIOUS
<1> HIDE DEF j, k
<1>3. CASE job' = [job EXCEPT ![w] = j]
  BY <1>1, <1>3, JobSet
<1>4. CASE job' = [job EXCEPT ![w] = k]
  BY <1>1, <1>4, JobSet
<1> QED BY <1>2, <1>3, <1>4

LEMMA EndedJob ==
  ASSUME JobsOK, NEW w \in Workers, job' = [job EXCEPT ![w] = Idle]
  PROVE  /\ JobsOK'
         /\ job'[w].pc = "idle" /\ job'[w].todo = {} /\ job'[w].mine = {}
         /\ \A v \in Workers : v # w => job'[v] = job[v]
<1>1. JobsOK' /\ job'[w] = Idle /\ \A v \in Workers : v # w => job'[v] = job[v]
  BY IdleIsJob, JobSet
<1> QED BY <1>1 DEF Idle

-----------------------------------------------------------------------------
(* Most steps make no copy, and change neither the map nor what a          *)
(* process has in hand, unless it loses that.                              *)

QuietJob(w) ==
  /\ job'[w].todo \subseteq job[w].todo /\ job'[w].mine \subseteq job[w].mine
  /\ ~unsafe' => job'[w].mine = job[w].mine
  /\ job'[w].pc # "idle" => job[w].pc # "idle"
  /\ job'[w].pc # "push" => job[w].pc # "push" \/ (job'[w].todo = {} /\ job'[w].mine = {})

Quiet ==
  /\ map' = map
  /\ \A e \in Copy : (Made(e)' <=> Made(e)) /\ copy'[e].of = copy[e].of
  /\ \A t \in Tickets : tk[t] = "deleted" => tk'[t] = "deleted"
  /\ \A w \in Workers : QuietJob(w)
  /\ unsafe => unsafe'

Typed == TypeOK /\ MadeInv

LEMMA SameJobs ==
  ASSUME UNCHANGED job
  PROVE  \A w \in Workers : QuietJob(w)
  BY DEF QuietJob

LEMMA OneJob ==
  ASSUME NEW w \in Workers, \A v \in Workers : v # w => job'[v] = job[v], QuietJob(w)
  PROVE  \A v \in Workers : QuietJob(v)
  BY DEF QuietJob

LEMMA SameCopies ==
  ASSUME UNCHANGED copy
  PROVE  /\ \A e \in Copy : (Made(e)' <=> Made(e)) /\ copy'[e].of = copy[e].of
         /\ CopiesOK => CopiesOK'
  BY DEF Made, CopiesOK

\* A failure forgets the job and counts.
LEMMA FailsFacts ==
  ASSUME TypeOK, NEW w \in Workers, Fails(w), job[w].pc # "idle",
         UNCHANGED <<manual, dry>>, faults' \in 0..MaxFaults
  PROVE  /\ JobsOK' /\ RestOK' /\ (unsafe => unsafe')
         /\ \A v \in Workers : QuietJob(v)
<1>1. JobsOK /\ RestOK
  BY TypeParts
<1>2. job' = [job EXCEPT ![w] = Idle]
  BY DEF Fails
<1>3. /\ JobsOK' /\ job'[w].pc = "idle" /\ job'[w].todo = {} /\ job'[w].mine = {}
      /\ \A v \in Workers : v # w => job'[v] = job[v]
  BY <1>1, <1>2, EndedJob
<1>4. unsafe' = (unsafe \/ job[w].mine # {})
  BY DEF Fails, Unsaved
<1>5. unsafe' \in BOOLEAN /\ (unsafe => unsafe') /\ (~unsafe' => job[w].mine = {})
  BY <1>4
<1>6. QuietJob(w)
  BY <1>3, <1>5 DEF QuietJob
<1>7. fails' \in 0..MaxFailures
  BY <1>1, PsaAssumption DEF Fails, RestOK
<1>8. active' \in BOOLEAN
  BY DEF Fails
<1>9. queue' \subseteq Message
  <2>1. Again(w) \subseteq Message
    <3>1. job[w].tries \in 0..MaxRetries
      BY <1>1, JobFields
    <3>2. job[w].tries < MaxRetries => job[w].tries + 1 \in 0..MaxRetries
      BY <3>1, PsaAssumption
    <3> QED BY <3>2 DEF Again, Message
  <2> QED BY <1>1, <2>1 DEF Fails, RestOK
<1>10. RestOK'
  BY <1>1, <1>5, <1>7, <1>8, <1>9 DEF RestOK
<1> QED BY <1>3, <1>5, <1>6, <1>10, OneJob

LEMMA OutsideFacts ==
  ASSUME NEW c \in Outside
  PROVE  /\ c.of \in Tickets /\ c.st \in {"open", "done", "hidden"} /\ c.age \in 0..Window
         /\ c.st # "none"
  BY DEF Outside

LEMMA OutsideChanged ==
  ASSUME NEW T, NEW S, NEW A, NEW c \in [of : T, st : S, age : A], NEW s \in S, NEW a \in A
  PROVE  /\ [c EXCEPT !.st = s, !.age = a] \in [of : T, st : S, age : A]
         /\ [c EXCEPT !.st = s, !.age = a].of = c.of
  OBVIOUS

\* What is made is a ticket outside.
LEMMA MadeOutside ==
  ASSUME CopiesOK, NEW e \in Copy
  PROVE  Made(e) <=> copy[e] \in Outside
  BY DEF CopiesOK, Made, Outside, NoCopy

-----------------------------------------------------------------------------
(* The quiet steps.                                                        *)

LEMMA QuietUsers ==
  ASSUME Typed,
         \/ \E t \in Tickets, st \in {"open", "done"} : SetStatus(t, st)
         \/ \E b \in BOOLEAN : SetActive(b)
         \/ TriggerSync \/ UNCHANGED vars
  PROVE  TypeOK' /\ Quiet
<1>1. TicketsOK /\ CopiesOK /\ JobsOK /\ RestOK
  BY TypeParts DEF Typed
<1>2. ASSUME NEW t \in Tickets, NEW st \in {"open", "done"}, SetStatus(t, st)
      PROVE  TypeOK' /\ Quiet
  <2>1. TicketsOK' /\ \A u \in Tickets : tk[u] = "deleted" => tk'[u] = "deleted"
    BY <1>1, <1>2 DEF SetStatus, TicketsOK
  <2>2. CopiesOK' /\ JobsOK' /\ RestOK'
    BY <1>1, <1>2 DEF SetStatus, CopiesOK, JobsOK, RestOK
  <2>3. map' = map /\ UNCHANGED copy /\ UNCHANGED job /\ unsafe' = unsafe
    BY <1>2 DEF SetStatus
  <2>4. TypeOK'
    BY <2>1, <2>2, TypeParts DEF TypeOK, TicketsOK, CopiesOK, JobsOK, RestOK
  <2> QED BY <2>1, <2>3, <2>4, SameJobs, SameCopies DEF Quiet
<1>3. ASSUME (\E b \in BOOLEAN : SetActive(b)) \/ TriggerSync \/ UNCHANGED vars
      PROVE  TypeOK' /\ Quiet
  <2>1. tk' = tk /\ map' = map /\ UNCHANGED copy /\ UNCHANGED job /\ unsafe' = unsafe
    BY <1>3 DEF SetActive, TriggerSync, vars
  <2>2. RestOK'
    <3>1. CASE \E b \in BOOLEAN : SetActive(b)
      BY <1>1, <3>1 DEF SetActive, RestOK
    <3>2. CASE TriggerSync
      <4>1. [tries |-> 0] \in Message
        BY PsaAssumption DEF Message
      <4> QED BY <1>1, <3>2, <4>1, PsaAssumption DEF TriggerSync, RestOK
    <3>3. CASE UNCHANGED vars
      BY <1>1, <3>3 DEF vars, RestOK
    <3> QED BY <1>3, <3>1, <3>2, <3>3
  <2>3. TicketsOK' /\ CopiesOK' /\ JobsOK'
    BY <1>1, <2>1 DEF TicketsOK, CopiesOK, JobsOK
  <2>4. TypeOK'
    BY <2>2, <2>3 DEF TypeOK, TicketsOK, CopiesOK, JobsOK, RestOK
  <2> QED BY <2>1, <2>4, SameJobs, SameCopies DEF Quiet
<1> QED BY <1>2, <1>3

LEMMA QuietOutside ==
  ASSUME Typed, (\E e \in Copy : ChangeOutside(e)) \/ NextInterval
  PROVE  TypeOK' /\ Quiet
<1>1. TicketsOK /\ CopiesOK /\ JobsOK /\ RestOK
  BY TypeParts DEF Typed
<1>2. ASSUME NEW e \in Copy, ChangeOutside(e)
      PROVE  TypeOK' /\ Quiet
  <2>1. Made(e)
    <3>1. CASE \E t \in Tickets : map[t] = e
      BY <1>1, <3>1, PsaAssumption DEF Typed, MadeInv, Copy
    <3>2. CASE \E w \in Workers : e \in job[w].mine
      BY <3>2 DEF Typed, MadeInv
    <3> QED BY <1>2, <3>1, <3>2 DEF ChangeOutside
  <2>2. copy[e] \in Outside
    BY <1>1, <2>1, MadeOutside
  <2>3. PICK st \in {"open", "done", "hidden"} : copy' = [copy EXCEPT ![e].st = st, ![e].age = 0]
    BY <1>2 DEF ChangeOutside
  <2> DEFINE c == [copy[e] EXCEPT !.st = st, !.age = 0]
  <2>4. c \in Outside /\ c.of = copy[e].of
    <3>1. 0 \in 0..Window
      BY PsaAssumption
    <3>2. c \in Outside
      BY <2>2, <3>1, OutsideChanged, Zenon DEF Outside
    <3>3. c.of = copy[e].of
      BY <2>2, <3>1, OutsideChanged, Zenon DEF Outside
    <3> QED BY <3>2, <3>3
  <2> HIDE DEF c
  <2>5. copy' = [copy EXCEPT ![e] = c]
    BY <2>3 DEF c
  <2>6. CopiesOK'
    BY <1>1, <2>4, <2>5 DEF CopiesOK
  <2>7. c.st # "none"
    BY <2>4, OutsideFacts
  <2>8. copy'[e] = c /\ \A f \in Copy : f # e => copy'[f] = copy[f]
    BY <1>1, <2>5 DEF CopiesOK
  <2>9. \A f \in Copy : (Made(f)' <=> Made(f)) /\ copy'[f].of = copy[f].of
    BY <2>1, <2>4, <2>7, <2>8 DEF Made
  <2>10. tk' = tk /\ map' = map /\ UNCHANGED job /\ unsafe' = unsafe
    BY <1>2 DEF ChangeOutside
  <2>11. TicketsOK' /\ JobsOK' /\ RestOK'
    BY <1>1, <1>2 DEF ChangeOutside, TicketsOK, JobsOK, RestOK
  <2>12. TypeOK'
    BY <2>6, <2>11 DEF TypeOK, TicketsOK, CopiesOK, JobsOK, RestOK
  <2> QED BY <2>9, <2>10, <2>12, SameJobs DEF Quiet
<1>3. ASSUME NextInterval
      PROVE  TypeOK' /\ Quiet
  <2>1. \A e \in Copy : /\ copy'[e] \in Outside \union {NoCopy}
                        /\ (Made(e)' <=> Made(e)) /\ copy'[e].of = copy[e].of
    <3> TAKE e \in Copy
    <3>1. CASE copy[e].st # "none" /\ copy[e].age < Window
      <4>1. copy[e] \in Outside
        BY <1>1, <3>1, MadeOutside DEF Made
      <4>2. copy'[e] = [copy[e] EXCEPT !.age = copy[e].age + 1]
        BY <1>3, <3>1 DEF NextInterval
      <4> QED BY <3>1, <4>1, <4>2, PsaAssumption DEF Outside, Made
    <3>2. CASE ~(copy[e].st # "none" /\ copy[e].age < Window)
      <4>1. copy'[e] = copy[e]
        BY <1>3, <3>2 DEF NextInterval
      <4> QED BY <1>1, <4>1 DEF CopiesOK, Made
    <3> QED BY <3>1, <3>2
  <2>2. copy' = [e \in Copy |-> copy'[e]]
    BY <1>3 DEF NextInterval
  <2>3. CopiesOK'
    BY <2>1, <2>2 DEF CopiesOK
  <2>4. tk' = tk /\ map' = map /\ UNCHANGED job /\ unsafe' = unsafe
    BY <1>3 DEF NextInterval
  <2>5. [tries |-> 0] \in Message
    BY PsaAssumption DEF Message
  <2>6. queue' \subseteq Message /\ faults' \in 0..MaxFaults /\ dry' \in 0..Window
    BY <1>1, <1>3, <2>5, PsaAssumption DEF NextInterval, RestOK
  <2>7. TicketsOK' /\ JobsOK' /\ RestOK'
    BY <1>1, <1>3, <2>6 DEF NextInterval, TicketsOK, JobsOK, RestOK
  <2>8. TypeOK'
    BY <2>3, <2>7 DEF TypeOK, TicketsOK, CopiesOK, JobsOK, RestOK
  <2> QED BY <2>1, <2>4, <2>8, SameJobs DEF Quiet
<1> QED BY <1>2, <1>3

LEMMA QuietFailure ==
  ASSUME Typed, NEW w \in Workers, PushConflict(w) \/ UpdateGone(w) \/ SyncFails(w), Fails(w)
  PROVE  TypeOK' /\ Quiet
<1>1. TicketsOK /\ CopiesOK /\ JobsOK /\ RestOK
  BY TypeParts DEF Typed
<1>2. tk' = tk /\ map' = map /\ UNCHANGED copy /\ UNCHANGED <<manual, dry>>
  BY DEF PushConflict, UpdateGone, SyncFails
<1>3. job[w].pc # "idle" /\ faults' \in 0..MaxFaults
  BY <1>1, PsaAssumption DEF PushConflict, UpdateGone, SyncFails, RestOK
<1>4. /\ JobsOK' /\ RestOK' /\ (unsafe => unsafe')
      /\ \A v \in Workers : QuietJob(v)
  BY <1>2, <1>3, FailsFacts DEF Typed
<1>5. TicketsOK' /\ CopiesOK'
  BY <1>1, <1>2 DEF TicketsOK, CopiesOK
<1>6. TypeOK'
  BY <1>4, <1>5 DEF TypeOK, TicketsOK, CopiesOK, JobsOK, RestOK
<1> QED BY <1>2, <1>4, <1>6, SameCopies DEF Quiet

\* A failure that is not even counted.
Forgotten(w) == SyncFails(w) /\ Dropped(w)

LEMMA QuietEnd ==
  ASSUME Typed, NEW w \in Workers, EndSync(w) \/ WorkerDies(w) \/ Forgotten(w)
  PROVE  TypeOK' /\ Quiet
<1>1. TicketsOK /\ CopiesOK /\ JobsOK /\ RestOK
  BY TypeParts DEF Typed
<1>2. tk' = tk /\ map' = map /\ UNCHANGED copy
  BY DEF EndSync, WorkerDies, Forgotten, SyncFails, Dropped
<1>3. job' = [job EXCEPT ![w] = Idle] /\ job[w].pc # "idle"
  BY DEF EndSync, WorkerDies, Forgotten, SyncFails, Dropped
<1>4. /\ JobsOK' /\ job'[w].pc = "idle" /\ job'[w].todo = {} /\ job'[w].mine = {}
      /\ \A v \in Workers : v # w => job'[v] = job[v]
  BY <1>1, <1>3, EndedJob
<1>5. /\ unsafe' \in BOOLEAN /\ (unsafe => unsafe')
      /\ ~unsafe' => job[w].mine = {}
  <2>1. CASE EndSync(w)
    BY <1>1, <2>1 DEF EndSync, Typed, MadeInv, RestOK
  <2>2. CASE WorkerDies(w)
    BY <2>2 DEF WorkerDies, Unsaved
  <2>3. CASE Forgotten(w)
    BY <2>3 DEF Forgotten, Dropped, Unsaved
  <2> QED BY <2>1, <2>2, <2>3
<1>6. QuietJob(w)
  BY <1>4, <1>5 DEF QuietJob
<1>7. RestOK'
  <2>1. CASE EndSync(w)
    BY <1>1, <2>1, PsaAssumption DEF EndSync, RestOK
  <2>2. CASE WorkerDies(w)
    <3>1. [tries |-> job[w].tries] \in Message
      BY <1>1, JobFields DEF Message
    <3> QED BY <1>1, <1>5, <2>2, <3>1, PsaAssumption DEF WorkerDies, RestOK
  <2>3. CASE Forgotten(w)
    BY <1>1, <1>5, <2>3, PsaAssumption DEF Forgotten, SyncFails, Dropped, RestOK
  <2> QED BY <2>1, <2>2, <2>3
<1>8. TicketsOK' /\ CopiesOK'
  BY <1>1, <1>2 DEF TicketsOK, CopiesOK
<1>9. TypeOK'
  BY <1>4, <1>7, <1>8 DEF TypeOK, TicketsOK, CopiesOK, JobsOK, RestOK
<1> QED BY <1>2, <1>4, <1>5, <1>6, <1>9, OneJob, SameCopies DEF Quiet

LEMMA QuietPull ==
  ASSUME Typed, NEW w \in Workers, PullRead(w) \/ UpdateCommit(w)
  PROVE  TypeOK' /\ Quiet
<1>1. TicketsOK /\ CopiesOK /\ JobsOK /\ RestOK
  BY TypeParts DEF Typed
<1>2. map' = map /\ UNCHANGED copy /\ unsafe' = unsafe
  BY DEF PullRead, UpdateCommit
<1>3. Differing \in SUBSET (Tickets \X {"open", "done"})
  BY DEF Differing
<1>4. PICK p \in {"update", "end"} :
        \/ job' = [job EXCEPT ![w].pc = p, ![w].upd = Differing]
        \/ job' = [job EXCEPT ![w].pc = p]
  BY Zenon DEF PullRead, UpdateCommit
<1>5. job[w].pc \in {"pull", "update"}
  BY DEF PullRead, UpdateCommit
<1>6. /\ JobsOK' /\ job'[w].pc = p /\ job'[w].todo = job[w].todo /\ job'[w].mine = job[w].mine
      /\ \A v \in Workers : v # w => job'[v] = job[v]
  <2>1. CASE job' = [job EXCEPT ![w].pc = p, ![w].upd = Differing]
    BY <1>1, <1>3, <2>1, ReadJob
  <2>2. CASE job' = [job EXCEPT ![w].pc = p]
    BY <1>1, <1>3, <2>2, ReadJob
  <2> QED BY <1>4, <2>1, <2>2
<1>7. QuietJob(w)
  BY <1>5, <1>6 DEF QuietJob
<1>8. /\ TicketsOK'
      /\ \A t \in Tickets : tk[t] = "deleted" => tk'[t] = "deleted"
  <2>1. CASE PullRead(w)
    BY <1>1, <2>1 DEF PullRead, TicketsOK
  <2>2. CASE UpdateCommit(w)
    <3>1. \A u \in job[w].upd : u \in Tickets \X {"open", "done"} /\ tk[u[1]] # "deleted"
      BY <1>1, <2>2, JobFields DEF UpdateCommit, Gone
    <3>2. ASSUME NEW t \in Tickets
          PROVE  /\ tk'[t] \in {"none", "open", "done", "deleted"}
                 /\ tk[t] = "deleted" => tk'[t] = "deleted"
      <4>1. CASE \E u \in job[w].upd : u[1] = t
        <5> DEFINE v == CHOOSE u \in job[w].upd : u[1] = t
        <5>1. v \in job[w].upd /\ v[1] = t
          BY <4>1
        <5>2. tk'[t] = v[2]
          BY <2>2, <4>1 DEF UpdateCommit
        <5> HIDE DEF v
        <5> QED BY <3>1, <5>1, <5>2
      <4>2. CASE ~\E u \in job[w].upd : u[1] = t
        <5>1. tk'[t] = tk[t]
          BY <2>2, <4>2 DEF UpdateCommit
        <5> QED BY <1>1, <5>1 DEF TicketsOK
      <4> QED BY <4>1, <4>2
    <3>3. tk' = [t \in Tickets |-> tk'[t]]
      BY <2>2 DEF UpdateCommit
    <3>4. tk' \in [Tickets -> {"none", "open", "done", "deleted"}]
      BY <3>2, <3>3
    <3> QED BY <1>1, <1>2, <3>2, <3>4 DEF TicketsOK
  <2> QED BY <2>1, <2>2
<1>9. RestOK'
  BY <1>1, PsaAssumption DEF PullRead, UpdateCommit, RestOK
<1>10. CopiesOK'
  BY <1>1, <1>2 DEF CopiesOK
<1>11. TypeOK'
  BY <1>6, <1>8, <1>9, <1>10 DEF TypeOK, TicketsOK, CopiesOK, JobsOK, RestOK
<1> QED BY <1>2, <1>6, <1>7, <1>8, <1>11, OneJob, SameCopies DEF Quiet

\* A push that makes no copy, and one that makes one.
NoneMade(w, t) ==
  /\ job' = [job EXCEPT ![w].todo = @ \ {t}]
  /\ copy' = copy /\ unsafe' = unsafe

OneMade(w, t, e) ==
  /\ copy[e].st = "none"
  /\ copy' = [copy EXCEPT ![e] = [of |-> t, st |-> "open", age |-> 0]]
  /\ \/ /\ job' = [job EXCEPT ![w].todo = @ \ {t}, ![w].mine = @ \union {e}]
        /\ unsafe' = unsafe
     \/ /\ job' = [job EXCEPT ![w].todo = @ \ {t}]
        /\ unsafe' = TRUE

LEMMA PushFacts ==
  ASSUME Typed, NEW w \in Workers, NEW t \in Tickets, PushOne(w, t)
  PROVE  /\ job[w].pc = "push" /\ t \in job[w].todo
         /\ tk' = tk /\ map' = map
         /\ NoneMade(w, t) \/ \E e \in Copy : OneMade(w, t, e)
         /\ TicketsOK' /\ RestOK'
<1>1. TicketsOK /\ RestOK
  BY TypeParts DEF Typed
<1>2. /\ job[w].pc = "push" /\ t \in job[w].todo
      /\ tk' = tk /\ map' = map /\ active' = active /\ fails' = fails /\ queue' = queue
      /\ manual' = manual /\ dry' = dry
  BY DEF PushOne
<1>3. NoneMade(w, t) \/ \E e \in Copy : OneMade(w, t, e)
  BY DEF PushOne, NoneMade, OneMade
<1>4. faults' \in 0..MaxFaults
  <2>1. faults' = faults \/ (faults < MaxFaults /\ faults' = faults + 1)
    BY DEF PushOne
  <2> QED BY <1>1, <2>1, PsaAssumption DEF RestOK
<1>5. unsafe' \in BOOLEAN
  BY <1>1, <1>3 DEF NoneMade, OneMade, RestOK
<1> QED BY <1>1, <1>2, <1>3, <1>4, <1>5 DEF TicketsOK, RestOK

LEMMA QuietPush ==
  ASSUME Typed, NEW w \in Workers, NEW t \in Tickets, PushOne(w, t), NoneMade(w, t)
  PROVE  TypeOK' /\ Quiet
<1>1. TicketsOK /\ CopiesOK /\ JobsOK /\ RestOK
  BY TypeParts DEF Typed
<1>2. /\ JobsOK'
      /\ job'[w].pc = "push" /\ job'[w].todo = job[w].todo \ {t} /\ job'[w].mine = job[w].mine
      /\ \A v \in Workers : v # w => job'[v] = job[v]
  <2>1. job[w].mine \in SUBSET Copy
    BY <1>1, JobFields
  <2> QED BY <1>1, <2>1, PushFacts, PushedJob DEF NoneMade
<1>3. QuietJob(w)
  BY <1>2, PushFacts DEF QuietJob
<1>4. UNCHANGED copy /\ unsafe' = unsafe /\ tk' = tk /\ map' = map /\ TicketsOK' /\ RestOK'
  BY PushFacts DEF NoneMade
<1>5. TypeOK'
  BY <1>1, <1>2, <1>4 DEF TypeOK, TicketsOK, CopiesOK, JobsOK, RestOK
<1> QED BY <1>2, <1>3, <1>4, <1>5, OneJob, SameCopies DEF Quiet

-----------------------------------------------------------------------------
(* What the quiet steps keep.                                              *)

LEMMA QuietMade ==
  ASSUME Typed, Quiet
  PROVE  MadeInv'
<1>1. TicketsOK /\ JobsOK
  BY TypeParts DEF Typed
<1>2. \A t \in Tickets : map'[t] # 0 => copy'[map'[t]].st # "none" /\ copy'[map'[t]].of = t
  <2> SUFFICES ASSUME NEW t \in Tickets, map'[t] # 0
               PROVE  copy'[map'[t]].st # "none" /\ copy'[map'[t]].of = t
    OBVIOUS
  <2>1. map'[t] = map[t] /\ map[t] \in Copy
    BY <1>1, PsaAssumption DEF Quiet, TicketsOK, Copy
  <2>2. Made(map[t]) /\ copy[map[t]].of = t
    BY <2>1 DEF Typed, MadeInv
  <2> QED BY <2>1, <2>2 DEF Quiet, Made
<1>3. \A w \in Workers : \A e \in job'[w].mine : Made(e)'
  <2> SUFFICES ASSUME NEW w \in Workers, NEW e \in job'[w].mine
               PROVE  Made(e)'
    OBVIOUS
  <2>1. e \in job[w].mine
    BY DEF Quiet, QuietJob
  <2>2. e \in Copy /\ Made(e)
    BY <1>1, <2>1, JobFields DEF Typed, MadeInv
  <2> QED BY <2>2 DEF Quiet
<1>4. \A w \in Workers : job'[w].pc # "push" => job'[w].todo = {} /\ job'[w].mine = {}
  BY DEF Quiet, QuietJob, Typed, MadeInv
<1> QED BY <1>2, <1>3, <1>4 DEF MadeInv, Made

LEMMA QuietOnce ==
  ASSUME Typed, Quiet, OnceInv
  PROVE  OnceInv'
<1> SUFFICES ASSUME ~unsafe'
             PROVE  Once'
  BY DEF OnceInv
<1>1. Once
  BY DEF OnceInv, Quiet
<1>2. CopiesOK
  BY TypeParts DEF Typed
<1>3. Alone'
  BY <1>1 DEF Once, Alone, Quiet, QuietJob
<1>4. KnownInv'
  <2> SUFFICES ASSUME NEW e \in Copy, Made(e)'
               PROVE  \/ map'[copy'[e].of] = e
                      \/ tk'[copy'[e].of] = "deleted"
                      \/ \E w \in Workers : e \in job'[w].mine
    BY DEF KnownInv, Made
  <2>1. Made(e) /\ copy'[e].of = copy[e].of /\ copy[e].of \in Tickets
    BY <1>2, MadeOutside, OutsideFacts DEF Quiet
  <2>2. \/ map[copy[e].of] = e
        \/ tk[copy[e].of] = "deleted"
        \/ \E w \in Workers : e \in job[w].mine
    BY <1>1, <2>1 DEF Once, KnownInv
  <2> QED BY <2>1, <2>2 DEF Quiet, QuietJob
<1>5. TodoInv'
  BY <1>1 DEF Once, TodoInv, Quiet, QuietJob, Made
<1>6. Single'
  BY <1>1 DEF Once, Single, Quiet, Made
<1> QED BY <1>3, <1>4, <1>5, <1>6 DEF Once

-----------------------------------------------------------------------------
(* The other steps.                                                        *)

LEMMA DeleteStep ==
  ASSUME Typed, NEW t \in Tickets, DeleteTicket(t)
  PROVE  TypeOK' /\ MadeInv' /\ (OnceInv => OnceInv')
<1>1. TicketsOK /\ CopiesOK /\ JobsOK /\ RestOK
  BY TypeParts DEF Typed
<1>2. UNCHANGED <<copy, active, fails, job, queue, manual, faults, unsafe, dry>>
  BY DEF DeleteTicket
<1>3. /\ tk' = [tk EXCEPT ![t] = "deleted"]
      /\ map' = [map EXCEPT ![t] = 0]
  BY DEF DeleteTicket
<1>4. TypeOK'
  <2>1. TicketsOK'
    BY <1>1, <1>3, PsaAssumption DEF TicketsOK
  <2> QED BY <1>1, <1>2, <2>1 DEF TypeOK, TicketsOK, CopiesOK, JobsOK, RestOK
<1>5. /\ map'[t] = 0 /\ tk'[t] = "deleted"
      /\ \A u \in Tickets : u # t => map'[u] = map[u] /\ tk'[u] = tk[u]
  BY <1>1, <1>3 DEF TicketsOK
<1>6. MadeInv'
  BY <1>2, <1>5 DEF Typed, MadeInv, Made
<1>7. ASSUME OnceInv, ~unsafe'
      PROVE  Once'
  <2>1. Once
    BY <1>2, <1>7 DEF OnceInv
  <2>2. Alone' /\ TodoInv' /\ Single'
    BY <1>2, <2>1 DEF Once, Alone, TodoInv, Single, Made
  <2>3. KnownInv'
    <3> SUFFICES ASSUME NEW e \in Copy, Made(e)
                 PROVE  \/ map'[copy[e].of] = e
                        \/ tk'[copy[e].of] = "deleted"
                        \/ \E w \in Workers : e \in job[w].mine
      BY <1>2 DEF KnownInv, Made
    <3>1. copy[e].of \in Tickets
      BY <1>1, MadeOutside, OutsideFacts
    <3> QED BY <1>5, <2>1, <3>1 DEF Once, KnownInv
  <2> QED BY <2>2, <2>3 DEF Once
<1> QED BY <1>4, <1>6, <1>7 DEF OnceInv

LEMMA TakeStep ==
  ASSUME Typed, NEW w \in Workers, TakeSync(w)
  PROVE  TypeOK' /\ MadeInv' /\ (OnceInv => OnceInv')
<1>1. TicketsOK /\ CopiesOK /\ JobsOK /\ RestOK
  BY TypeParts DEF Typed
<1>2. UNCHANGED <<tk, copy, map, active, fails, manual, dry>> /\ job[w].pc = "idle"
  BY DEF TakeSync
<1>3. PICK m \in queue :
        /\ \/ queue' = queue \ {m} /\ faults' = faults
           \/ queue' = queue /\ faults < MaxFaults /\ faults' = faults + 1
        /\ job' = IF ~active THEN job
                  ELSE [job EXCEPT ![w] = [Idle EXCEPT !.pc = "push", !.todo = Unmapped, !.tries = m.tries]]
        /\ unsafe' = (unsafe \/ (active /\ \E v \in Workers : job[v].pc # "idle"))
  BY DEF TakeSync
<1>4. m \in Message
  BY <1>1, <1>3 DEF RestOK
<1>5. unsafe' \in BOOLEAN /\ (unsafe => unsafe')
  BY <1>3
<1>6. TicketsOK' /\ CopiesOK' /\ RestOK'
  <2>1. faults' \in 0..MaxFaults /\ queue' \subseteq Message
    BY <1>1, <1>3, PsaAssumption DEF RestOK
  <2> QED BY <1>1, <1>2, <1>5, <2>1 DEF TicketsOK, CopiesOK, RestOK
<1>7. CASE ~active
  <2>1. UNCHANGED job
    BY <1>3, <1>7
  <2>2. Quiet
    BY <1>2, <1>5, <2>1, SameJobs, SameCopies DEF Quiet
  <2>3. TypeOK'
    BY <1>1, <1>6, <2>1 DEF TypeOK, TicketsOK, CopiesOK, JobsOK, RestOK
  <2> QED BY <2>2, <2>3, QuietMade, QuietOnce
<1>8. CASE active
  <2>1. job' = [job EXCEPT ![w] = [Idle EXCEPT !.pc = "push", !.todo = Unmapped, !.tries = m.tries]]
    BY <1>3, <1>8
  <2>2. /\ JobsOK'
        /\ job'[w].pc = "push" /\ job'[w].todo = Unmapped /\ job'[w].mine = {}
        /\ \A v \in Workers : v # w => job'[v] = job[v]
    BY <1>1, <1>4, <2>1, TakenJob
  <2>3. TypeOK'
    BY <1>6, <2>2 DEF TypeOK, TicketsOK, CopiesOK, JobsOK, RestOK
  <2>4. MadeInv'
    <3>1. \A t \in Tickets : map'[t] # 0 => copy'[map'[t]].st # "none" /\ copy'[map'[t]].of = t
      BY <1>2 DEF Typed, MadeInv, Made
    <3>2. \A v \in Workers : \A e \in job'[v].mine : Made(e)'
      BY <1>2, <2>2 DEF Typed, MadeInv, Made
    <3>3. \A v \in Workers : job'[v].pc # "push" => job'[v].todo = {} /\ job'[v].mine = {}
      BY <2>2 DEF Typed, MadeInv
    <3> QED BY <3>1, <3>2, <3>3 DEF MadeInv, Made
  <2>5. ASSUME OnceInv, ~unsafe'
        PROVE  Once'
    <3>1. Once
      BY <1>5, <2>5 DEF OnceInv
    <3>2. \A v \in Workers : job[v].pc = "idle"
      BY <1>3, <1>8, <2>5
    <3>3. \A v \in Workers : job[v].todo = {} /\ job[v].mine = {}
      BY <3>2 DEF Typed, MadeInv
    <3>4. Alone'
      BY <2>2, <3>2 DEF Alone
    <3>5. \A e \in Copy : Made(e) => map[copy[e].of] = e \/ tk[copy[e].of] = "deleted"
      BY <3>1, <3>3 DEF Once, KnownInv
    <3>6. KnownInv'
      BY <1>2, <3>5 DEF KnownInv, Made
    <3>7. TodoInv'
      <4> SUFFICES ASSUME NEW v \in Workers, NEW t \in job'[v].todo, NEW e \in Copy, Made(e)
                   PROVE  copy[e].of # t
        BY <1>2 DEF TodoInv, Made
      <4>1. t \in Unmapped
        BY <2>2, <3>3
      <4>2. tk[t] = "open" /\ map[t] = 0
        BY <4>1 DEF Unmapped
      <4>3. e # 0
        BY PsaAssumption DEF Copy
      <4> QED BY <3>5, <4>2, <4>3
    <3>8. Single'
      BY <1>2, <3>1 DEF Once, Single, Made
    <3> QED BY <3>4, <3>6, <3>7, <3>8 DEF Once
  <2> QED BY <2>3, <2>4, <2>5 DEF OnceInv
<1> QED BY <1>7, <1>8

\* A copy is made: of a ticket that had none, by the only one at work.
LEMMA MadeStep ==
  ASSUME Typed, NEW w \in Workers, NEW t \in Tickets, PushOne(w, t), NEW e \in Copy, OneMade(w, t, e)
  PROVE  TypeOK' /\ MadeInv' /\ (OnceInv => OnceInv')
<1> DEFINE c == [of |-> t, st |-> "open", age |-> 0]
<1>1. TicketsOK /\ CopiesOK /\ JobsOK /\ RestOK
  BY TypeParts DEF Typed
<1>2. /\ job[w].pc = "push" /\ t \in job[w].todo
      /\ tk' = tk /\ map' = map /\ TicketsOK' /\ RestOK'
  BY PushFacts
<1>3. c \in Outside /\ c.of = t /\ c.st # "none"
  BY PsaAssumption DEF Outside
<1> HIDE DEF c
<1>4. /\ copy' = [copy EXCEPT ![e] = c] /\ ~Made(e)
      /\ unsafe => unsafe'
  BY DEF OneMade, Made, c
<1>5. CopiesOK'
  BY <1>1, <1>3, <1>4 DEF CopiesOK
<1>6. copy'[e] = c /\ \A f \in Copy : f # e => copy'[f] = copy[f]
  BY <1>1, <1>4 DEF CopiesOK
<1>7. /\ JobsOK'
      /\ job'[w].pc = "push" /\ job'[w].todo = job[w].todo \ {t}
      /\ job'[w].mine = job[w].mine \/ job'[w].mine = job[w].mine \union {e}
      /\ ~unsafe' => e \in job'[w].mine
      /\ \A v \in Workers : v # w => job'[v] = job[v]
  <2>1. job[w].mine \in SUBSET Copy /\ job[w].mine \union {e} \in SUBSET Copy
    BY <1>1, JobFields
  <2>2. CASE job' = [job EXCEPT ![w].todo = @ \ {t}, ![w].mine = @ \union {e}]
    <3> DEFINE M == job[w].mine \union {e}
    <3>1. job' = [job EXCEPT ![w].todo = @ \ {t}, ![w].mine = M]
      BY <2>2
    <3>2. M \in SUBSET Copy /\ e \in M
      BY <2>1
    <3> HIDE DEF M
    <3>3. /\ JobsOK'
          /\ job'[w].pc = "push" /\ job'[w].todo = job[w].todo \ {t} /\ job'[w].mine = M
          /\ \A v \in Workers : v # w => job'[v] = job[v]
      BY <1>1, <1>2, <3>1, <3>2, PushedJob
    <3> QED BY <3>2, <3>3 DEF M
  <2>3. CASE job' = [job EXCEPT ![w].todo = @ \ {t}] /\ unsafe' = TRUE
    BY <1>1, <1>2, <2>1, <2>3, PushedJob
  <2> QED BY <2>2, <2>3 DEF OneMade
<1>8. TypeOK'
  BY <1>2, <1>5, <1>7 DEF TypeOK, TicketsOK, CopiesOK, JobsOK, RestOK
<1>9. MadeInv'
  <2>1. \A u \in Tickets : map'[u] # 0 => copy'[map'[u]].st # "none" /\ copy'[map'[u]].of = u
    <3> SUFFICES ASSUME NEW u \in Tickets, map[u] # 0
                 PROVE  copy'[map[u]].st # "none" /\ copy'[map[u]].of = u
      BY <1>2
    <3>1. map[u] \in Copy
      BY <1>1, PsaAssumption DEF TicketsOK, Copy
    <3>2. copy[map[u]].st # "none" /\ copy[map[u]].of = u
      BY DEF Typed, MadeInv, Made
    <3> QED BY <1>4, <1>6, <3>1, <3>2 DEF Made
  <2>2. \A v \in Workers : \A f \in job'[v].mine : Made(f)'
    <3> SUFFICES ASSUME NEW v \in Workers, NEW f \in job'[v].mine
                 PROVE  Made(f)'
      OBVIOUS
    <3>1. CASE f = e
      BY <1>3, <1>6, <3>1 DEF Made
    <3>2. CASE f # e
      <4>1. f \in job[v].mine
        BY <1>7, <3>2
      <4>2. f \in Copy /\ Made(f)
        BY <1>1, <4>1, JobFields DEF Typed, MadeInv
      <4> QED BY <1>6, <3>2, <4>2 DEF Made
    <3> QED BY <3>1, <3>2
  <2>3. \A v \in Workers : job'[v].pc # "push" => job'[v].todo = {} /\ job'[v].mine = {}
    BY <1>7 DEF Typed, MadeInv
  <2> QED BY <2>1, <2>2, <2>3 DEF MadeInv, Made
<1>10. ASSUME OnceInv, ~unsafe'
       PROVE  Once'
  <2>1. Once
    BY <1>4, <1>10 DEF OnceInv
  <2>2. Alone'
    BY <1>2, <1>7, <2>1 DEF Once, Alone
  <2>3. \A f \in Copy : Made(f) => copy[f].of # t
    BY <1>2, <2>1 DEF Once, TodoInv
  <2>4. \A f \in Copy : Made(f)' => (f = e /\ copy'[f].of = t) \/ (f # e /\ Made(f) /\ copy'[f].of = copy[f].of)
    BY <1>3, <1>6 DEF Made
  <2>5. KnownInv'
    <3> SUFFICES ASSUME NEW f \in Copy, Made(f)'
                 PROVE  \/ map'[copy'[f].of] = f
                        \/ tk'[copy'[f].of] = "deleted"
                        \/ \E v \in Workers : f \in job'[v].mine
      BY DEF KnownInv, Made
    <3>1. CASE f = e
      BY <1>7, <1>10, <3>1
    <3>2. CASE f # e
      <4>1. Made(f) /\ copy'[f].of = copy[f].of
        BY <2>4, <3>2
      <4>2. \/ map[copy[f].of] = f
            \/ tk[copy[f].of] = "deleted"
            \/ \E v \in Workers : f \in job[v].mine
        BY <2>1, <4>1 DEF Once, KnownInv
      <4> QED BY <1>2, <1>7, <4>1, <4>2
    <3> QED BY <3>1, <3>2
  <2>6. TodoInv'
    <3> SUFFICES ASSUME NEW v \in Workers, NEW u \in job'[v].todo, NEW f \in Copy, Made(f)'
                 PROVE  copy'[f].of # u
      BY DEF TodoInv, Made
    <3>1. job[v].pc = "push"
      BY <1>2, <1>7 DEF Typed, MadeInv
    <3>2. v = w
      BY <1>2, <2>1, <3>1 DEF Once, Alone
    <3>3. u # t /\ u \in job[w].todo
      BY <1>7, <3>2
    <3> QED BY <2>1, <2>4, <3>3 DEF Once, TodoInv
  <2>7. Single'
    BY <2>1, <2>3, <2>4 DEF Once, Single
  <2> QED BY <2>2, <2>5, <2>6, <2>7 DEF Once
<1> QED BY <1>8, <1>9, <1>10 DEF OnceInv

\* The copies in hand become known.
LEMMA CommitStep ==
  ASSUME Typed, NEW w \in Workers, PushCommit(w)
  PROVE  TypeOK' /\ MadeInv' /\ (OnceInv => OnceInv')
<1>1. TicketsOK /\ CopiesOK /\ JobsOK /\ RestOK
  BY TypeParts DEF Typed
<1>2. UNCHANGED <<tk, copy, active, fails, queue, manual, faults, unsafe, dry>> /\ job[w].pc = "push" /\ job[w].todo = {}
  BY DEF PushCommit
<1>3. job' = [job EXCEPT ![w].pc = "pull", ![w].mine = {}]
  BY DEF PushCommit
<1>4. /\ JobsOK'
      /\ job'[w].pc = "pull" /\ job'[w].todo = {} /\ job'[w].mine = {}
      /\ \A v \in Workers : v # w => job'[v] = job[v]
  BY <1>1, <1>2, <1>3, CommittedJob
<1>5. \A e \in job[w].mine : e \in Copy /\ Made(e)
  BY <1>1, JobFields DEF Typed, MadeInv
<1>6. \A t \in Tickets :
        \/ map'[t] = map[t] /\ ~\E e \in job[w].mine : copy[e].of = t
        \/ map'[t] \in job[w].mine /\ copy[map'[t]].of = t
  <2> TAKE t \in Tickets
  <2>1. CASE \E e \in job[w].mine : copy[e].of = t
    <3> DEFINE c == CHOOSE e \in job[w].mine : copy[e].of = t
    <3>1. c \in job[w].mine /\ copy[c].of = t
      BY <2>1
    <3>2. map'[t] = c
      BY <2>1 DEF PushCommit
    <3> HIDE DEF c
    <3> QED BY <3>1, <3>2
  <2>2. CASE ~\E e \in job[w].mine : copy[e].of = t
    BY <2>2 DEF PushCommit
  <2> QED BY <2>1, <2>2
<1>7. TypeOK'
  <2>1. \A t \in Tickets : map'[t] \in 0..MaxCopies
    BY <1>1, <1>5, <1>6, PsaAssumption DEF TicketsOK, Copy
  <2>2. map' = [t \in Tickets |-> map'[t]]
    BY DEF PushCommit
  <2>3. map' \in [Tickets -> 0..MaxCopies]
    BY <2>1, <2>2
  <2>4. TicketsOK' /\ CopiesOK' /\ RestOK'
    BY <1>1, <1>2, <2>3 DEF TicketsOK, CopiesOK, RestOK
  <2> QED BY <1>4, <2>4 DEF TypeOK, TicketsOK, CopiesOK, JobsOK, RestOK
<1>8. MadeInv'
  <2>1. \A t \in Tickets : map'[t] # 0 => copy'[map'[t]].st # "none" /\ copy'[map'[t]].of = t
    BY <1>2, <1>5, <1>6 DEF Typed, MadeInv, Made
  <2>2. \A v \in Workers : \A e \in job'[v].mine : Made(e)'
    BY <1>2, <1>4 DEF Typed, MadeInv, Made
  <2>3. \A v \in Workers : job'[v].pc # "push" => job'[v].todo = {} /\ job'[v].mine = {}
    BY <1>4 DEF Typed, MadeInv
  <2> QED BY <2>1, <2>2, <2>3 DEF MadeInv, Made
<1>9. ASSUME OnceInv, ~unsafe'
      PROVE  Once'
  <2>1. Once
    BY <1>2, <1>9 DEF OnceInv
  <2>2. Alone'
    BY <1>2, <1>4, <2>1 DEF Once, Alone
  <2>3. TodoInv'
    BY <1>2, <1>4, <2>1 DEF Once, TodoInv, Made
  <2>4. Single'
    BY <1>2, <2>1 DEF Once, Single, Made
  <2>5. KnownInv'
    <3> SUFFICES ASSUME NEW e \in Copy, Made(e)
                 PROVE  \/ map'[copy[e].of] = e
                        \/ tk[copy[e].of] = "deleted"
                        \/ \E v \in Workers : e \in job'[v].mine
      BY <1>2 DEF KnownInv, Made
    <3>1. copy[e].of \in Tickets
      BY <1>1, MadeOutside, OutsideFacts
    <3>2. CASE \E f \in job[w].mine : copy[f].of = copy[e].of
      <4>1. map'[copy[e].of] \in job[w].mine /\ copy[map'[copy[e].of]].of = copy[e].of
        BY <1>6, <3>1, <3>2
      <4> QED BY <1>5, <2>1, <4>1 DEF Once, Single
    <3>3. CASE ~\E f \in job[w].mine : copy[f].of = copy[e].of
      <4>1. map'[copy[e].of] = map[copy[e].of]
        BY <1>6, <3>1, <3>3
      <4>2. e \notin job[w].mine
        BY <3>3
      <4> QED BY <1>4, <2>1, <4>1, <4>2 DEF Once, KnownInv
    <3> QED BY <3>2, <3>3
  <2> QED BY <2>2, <2>3, <2>4, <2>5 DEF Once
<1> QED BY <1>7, <1>8, <1>9 DEF OnceInv

-----------------------------------------------------------------------------
(* Every step, and the theorems.                                           *)

LEMMA InitStep == Init => Typed /\ OnceInv
<1> SUFFICES ASSUME Init
             PROVE  Typed /\ OnceInv
  OBVIOUS
<1>1. TicketsOK /\ RestOK
  <2>1. TicketsOK
    BY PsaAssumption DEF Init, TicketsOK
  <2>2. /\ fails \in 0..MaxFailures /\ manual \in 0..MaxManual /\ faults \in 0..MaxFaults
        /\ dry \in 0..Window
    BY PsaAssumption DEF Init
  <2>3. active \in BOOLEAN /\ unsafe \in BOOLEAN /\ queue \subseteq Message
    BY DEF Init
  <2> QED BY <2>1, <2>2, <2>3 DEF RestOK
<1>2. CopiesOK /\ \A e \in Copy : ~Made(e)
  BY DEF Init, CopiesOK, Made, NoCopy
<1>3. JobsOK /\ \A w \in Workers : job[w] = Idle
  BY IdleIsJob DEF Init, JobsOK
<1>4. TypeOK
  BY <1>1, <1>2, <1>3, TypeParts
<1>5. \A w \in Workers : job[w].pc = "idle" /\ job[w].todo = {} /\ job[w].mine = {}
  BY <1>3 DEF Idle
<1>6. MadeInv
  BY <1>5 DEF Init, MadeInv
<1>7. Once
  BY <1>2, <1>5 DEF Once, Alone, KnownInv, TodoInv, Single
<1> QED BY <1>4, <1>6, <1>7 DEF Typed, OnceInv

LEMMA AnyStep ==
  ASSUME Typed, [Next]_vars
  PROVE  Typed' /\ (OnceInv => OnceInv')
<1> DEFINE Goal == TypeOK' /\ MadeInv' /\ (OnceInv => OnceInv')
<1>1. ASSUME TypeOK' /\ Quiet
      PROVE  Goal
  BY <1>1, QuietMade, QuietOnce
<1>2. ASSUME NEW t \in Tickets, DeleteTicket(t)
      PROVE  Goal
  BY <1>2, DeleteStep
<1>3. ASSUME NEW w \in Workers, TakeSync(w)
      PROVE  Goal
  BY <1>3, TakeStep
<1>4. ASSUME NEW w \in Workers, NEW t \in Tickets, PushOne(w, t)
      PROVE  Goal
  <2>1. CASE NoneMade(w, t)
    BY <1>1, <1>4, <2>1, QuietPush
  <2>2. CASE \E e \in Copy : OneMade(w, t, e)
    BY <1>4, <2>2, MadeStep
  <2> QED BY <1>4, <2>1, <2>2, PushFacts
<1>5. ASSUME NEW w \in Workers, PushCommit(w)
      PROVE  Goal
  BY <1>5, CommitStep
<1>6. ASSUME \/ \E t \in Tickets, st \in {"open", "done"} : SetStatus(t, st)
             \/ \E b \in BOOLEAN : SetActive(b)
             \/ TriggerSync \/ UNCHANGED vars
      PROVE  Goal
  BY <1>1, <1>6, QuietUsers
<1>7. ASSUME (\E e \in Copy : ChangeOutside(e)) \/ NextInterval
      PROVE  Goal
  BY <1>1, <1>7, QuietOutside
<1>8. ASSUME NEW w \in Workers, PushConflict(w) \/ UpdateGone(w) \/ SyncFails(w)
      PROVE  Goal
  <2>1. Fails(w) \/ Forgotten(w)
    BY <1>8 DEF PushConflict, UpdateGone, SyncFails, Forgotten
  <2>2. CASE Fails(w)
    BY <1>1, <1>8, <2>2, QuietFailure
  <2>3. CASE Forgotten(w)
    BY <1>1, <2>3, QuietEnd
  <2> QED BY <2>1, <2>2, <2>3
<1>9. ASSUME NEW w \in Workers, EndSync(w) \/ WorkerDies(w)
      PROVE  Goal
  BY <1>1, <1>9, QuietEnd
<1>10. ASSUME NEW w \in Workers, PullRead(w) \/ UpdateCommit(w)
       PROVE  Goal
  BY <1>1, <1>10, QuietPull
<1>11. Goal
  <2> HIDE DEF Goal
  <2> QED BY <1>2, <1>3, <1>4, <1>5, <1>6, <1>7, <1>8, <1>9, <1>10 DEF Next, Sync
<1> QED BY <1>11 DEF Typed

\* Every variable keeps its type, and what the map and the synchronisations
\* name are copies that were made.
THEOREM TypeCorrect == Spec => [](TypeOK /\ MadeInv)
<1>1. Init => TypeOK /\ MadeInv
  BY InitStep DEF Typed
<1>2. TypeOK /\ MadeInv /\ [Next]_vars => (TypeOK /\ MadeInv)'
  BY AnyStep DEF Typed
<1> QED BY <1>1, <1>2, PTL DEF Spec

\* A ticket is copied once, and no copy is forgotten, unless a push was not
\* committed or two synchronisations overlapped, however tickets, their copies,
\* the integration and the failures change in between; and the map never
\* names a copy of another ticket.
THEOREM PushedOnceAlways == Spec => []PushedOnce
<1>1. Init => Typed /\ OnceInv
  BY InitStep
<1>2. Typed /\ OnceInv /\ [Next]_vars => (Typed /\ OnceInv)'
  BY AnyStep
<1>3. Typed /\ OnceInv => PushedOnce
  BY DEF Typed, MadeInv, OnceInv, Once, Single, KnownInv, PushedOnce, Mapped, Made
<1> QED BY <1>1, <1>2, <1>3, PTL DEF Spec

=============================================================================
