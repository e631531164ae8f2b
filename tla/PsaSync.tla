------------------------------- MODULE PsaSync -------------------------------
(***************************************************************************)
(* Tickets and their copies in an outside service desk: what technicians   *)
(* do to tickets (api/routes/tickets.py) and the synchronisation of one    *)
(* integration (api/tasks/psa_tasks.py, api/routes/psa.py).                *)
(*                                                                         *)
(* Beat starts a synchronisation in every interval; an administrator may   *)
(* start others.  A synchronisation pushes the open tickets that have no   *)
(* copy, one by one, and commits what it learnt; then it pulls what        *)
(* changed outside lately and writes it over the tickets.  Calls to the    *)
(* outside never raise: a push that fails yields no identifier, a pull     *)
(* that fails no tickets (api/utils/psa/connectwise.py).  Autotask's pull  *)
(* leaves out tickets that are done (api/utils/psa/autotask.py).           *)
(***************************************************************************)
EXTENDS Naturals

CONSTANTS
  Tickets, Workers,
  MaxRetries,   \* max_retries of sync_psa_integration
  MaxFailures,  \* _MAX_CONSECUTIVE_FAILURES
  Window,       \* intervals for which a change is pulled: two hours
  MaxCopies,    \* bound: copies made outside
  MaxManual,    \* bound: synchronisations started by hand
  MaxFaults     \* bound: failures, crashes, redeliveries, answers lost

ASSUME PsaAssumption ==
  /\ MaxRetries \in Nat /\ MaxFailures \in Nat \ {0} /\ Window \in Nat \ {0}
  /\ MaxCopies \in Nat /\ MaxManual \in Nat /\ MaxFaults \in Nat

VARIABLES
  tk,      \* tk[t]: status of a ticket; "open" stands for in_progress, too
  copy,    \* copy[e]: a ticket outside
  map,     \* map[t]: psa_ticket_maps, the copy of t that is known, 0 for none
  active,  \* is_active of the integration
  fails,   \* consecutive_failures
  job,     \* job[w]: the synchronisation that process w runs
  queue,   \* messages for sync_psa_integration
  manual, faults,
  unsafe,  \* history: a push was not committed, or synchronisations overlapped
  dry      \* history: intervals since a pull was answered and saved

vars == <<tk, copy, map, active, fails, job, queue, manual, faults, unsafe, dry>>

Copy == 1..MaxCopies

\* hidden: done in Autotask, whose pull leaves these out; done in ConnectWise.
Outside  == [of : Tickets, st : {"open", "done", "hidden"}, age : 0..Window]
NoCopy   == [of |-> "nobody", st |-> "none", age |-> 0]
Message  == [tries : 0..MaxRetries]
\* todo: tickets to push; mine: copies made and not committed; upd: statuses read.
Job      == [pc : {"idle", "push", "pull", "update", "end"}, tries : 0..MaxRetries,
             todo : SUBSET Tickets, mine : SUBSET Copy, upd : SUBSET (Tickets \X {"open", "done"})]
Idle     == [pc |-> "idle", tries |-> 0, todo |-> {}, mine |-> {}, upd |-> {}]

Init ==
  /\ tk = [t \in Tickets |-> "none"]
  /\ copy = [e \in Copy |-> NoCopy]
  /\ map = [t \in Tickets |-> 0]
  /\ active = TRUE /\ fails = 0
  /\ job = [w \in Workers |-> Idle]
  /\ queue = {} /\ manual = 0 /\ faults = 0
  /\ unsafe = FALSE /\ dry = 0

-----------------------------------------------------------------------------
(* Technicians, administrators and the outside.                            *)

\* Create, resolve, reopen.
SetStatus(t, st) ==
  /\ tk[t] # "deleted" /\ (tk[t] = "none" => st = "open")
  /\ tk' = [tk EXCEPT ![t] = st]
  /\ UNCHANGED <<copy, map, active, fails, job, queue, manual, faults, unsafe, dry>>

\* The row of the map goes with the ticket.
DeleteTicket(t) ==
  /\ tk[t] \in {"open", "done"}
  /\ tk' = [tk EXCEPT ![t] = "deleted"]
  /\ map' = [map EXCEPT ![t] = 0]
  /\ UNCHANGED <<copy, active, fails, job, queue, manual, faults, unsafe, dry>>

SetActive(b) ==
  /\ active # b /\ active' = b
  /\ UNCHANGED <<tk, copy, map, fails, job, queue, manual, faults, unsafe, dry>>

\* trigger_sync.
TriggerSync ==
  /\ active /\ manual < MaxManual
  /\ manual' = manual + 1
  /\ queue' = queue \union {[tries |-> 0]}
  /\ UNCHANGED <<tk, copy, map, active, fails, job, faults, unsafe, dry>>

\* Changes of copies that nobody here will ever know are left out.
ChangeOutside(e) ==
  /\ \/ \E t \in Tickets : map[t] = e
     \/ \E w \in Workers : e \in job[w].mine
  /\ \E st \in {"open", "done", "hidden"} : copy' = [copy EXCEPT ![e].st = st, ![e].age = 0]
  /\ UNCHANGED <<tk, map, active, fails, job, queue, manual, faults, unsafe, dry>>

\* Fifteen minutes: what one interval started, its retries included, is over.
\* The task that starts the synchronisations may fail and start none.
NextInterval ==
  /\ queue = {} /\ \A w \in Workers : job[w].pc = "idle"
  /\ copy' = [e \in Copy |-> IF copy[e].st # "none" /\ copy[e].age < Window
                             THEN [copy[e] EXCEPT !.age = @ + 1] ELSE copy[e]]
  /\ dry' = IF dry < Window THEN dry + 1 ELSE dry
  /\ \/ queue' = (IF active THEN {[tries |-> 0]} ELSE {}) /\ faults' = faults
     \/ queue' = {} /\ active /\ faults < MaxFaults /\ faults' = faults + 1
  /\ UNCHANGED <<tk, map, active, fails, job, manual, unsafe>>

-----------------------------------------------------------------------------
(* A synchronisation.                                                      *)

AllOpen == {t \in Tickets : tk[t] = "open"}  \* mutant of Unmapped
Unmapped == {t \in Tickets : tk[t] = "open" /\ map[t] = 0}

\* A process takes a message, which may be delivered again.
TakeSync(w) ==
  /\ job[w].pc = "idle"
  /\ \E m \in queue :
       /\ \/ queue' = queue \ {m} /\ faults' = faults
          \/ queue' = queue /\ faults < MaxFaults /\ faults' = faults + 1
       /\ job' = IF ~active THEN job
                 ELSE [job EXCEPT ![w] = [Idle EXCEPT !.pc = "push", !.todo = Unmapped, !.tries = m.tries]]
       /\ unsafe' = (unsafe \/ (active /\ \E v \in Workers : job[v].pc # "idle"))
  /\ UNCHANGED <<tk, copy, map, active, fails, manual, dry>>

\* push_ticket: a copy, of which the answer tells, or may fail to; or none,
\* the outside being out of reach for this call, for days or for ever.
PushOne(w, t) ==
  /\ job[w].pc = "push" /\ t \in job[w].todo
  /\ \/ \E e \in Copy :
          /\ copy[e].st = "none" /\ \A f \in Copy : copy[f].st = "none" => e <= f
          /\ copy' = [copy EXCEPT ![e] = [of |-> t, st |-> "open", age |-> 0]]
          /\ \/ /\ job' = [job EXCEPT ![w].todo = @ \ {t}, ![w].mine = @ \union {e}]
                /\ faults' = faults /\ unsafe' = unsafe
             \/ /\ faults < MaxFaults /\ faults' = faults + 1
                /\ job' = [job EXCEPT ![w].todo = @ \ {t}]
                /\ unsafe' = TRUE
     \/ /\ job' = [job EXCEPT ![w].todo = @ \ {t}]
        /\ copy' = copy /\ unsafe' = unsafe /\ faults' = faults
  /\ UNCHANGED <<tk, map, active, fails, queue, manual, dry>>

Unsaved(w) == unsafe \/ job[w].mine # {}

Again(w) ==
  IF job[w].tries < MaxRetries THEN {[tries |-> job[w].tries + 1]} ELSE {}

\* Roll back, count the failure, retry; too many failures disable.
Fails(w) ==
  /\ fails' = IF fails < MaxFailures THEN fails + 1 ELSE fails
  /\ active' = (active /\ fails + 1 < MaxFailures)
  /\ queue' = queue \union Again(w)
  /\ unsafe' = Unsaved(w)
  /\ job' = [job EXCEPT ![w] = Idle]

\* The map has a copy of the ticket already, or the ticket is gone.
Conflict(w) == \E e \in job[w].mine : map[copy[e].of] # 0 \/ tk[copy[e].of] = "deleted"

PushCommit(w) ==
  /\ job[w].pc = "push" /\ job[w].todo = {} /\ ~Conflict(w)
  /\ map' = [t \in Tickets |-> IF \E e \in job[w].mine : copy[e].of = t
                               THEN CHOOSE e \in job[w].mine : copy[e].of = t ELSE map[t]]
  /\ job' = [job EXCEPT ![w].pc = "pull", ![w].mine = {}]
  /\ UNCHANGED <<tk, copy, active, fails, queue, manual, faults, unsafe, dry>>

PushConflict(w) ==
  /\ job[w].pc = "push" /\ job[w].todo = {} /\ Conflict(w)
  /\ Fails(w)
  /\ UNCHANGED <<tk, copy, map, manual, faults, dry>>

LastInterval(e) == copy[e].age = 0  \* mutant of Recent
Recent(e) == copy[e].age < Window

\* What changed outside lately and is different here.
Differing == {u \in Tickets \X {"open", "done"} :
                /\ map[u[1]] # 0 /\ Recent(map[u[1]])
                /\ copy[map[u[1]]].st = u[2] /\ tk[u[1]] # u[2]}

\* A pull that fails is one that finds nothing.
PullRead(w) ==
  /\ job[w].pc = "pull"
  /\ \/ job' = [job EXCEPT ![w].pc = "update", ![w].upd = Differing]
     \/ job' = [job EXCEPT ![w].pc = "end"]
  /\ UNCHANGED <<tk, copy, map, active, fails, queue, manual, faults, unsafe, dry>>

Gone(w) == \E u \in job[w].upd : tk[u[1]] = "deleted"

\* The statuses are written over whatever the tickets have become.
UpdateCommit(w) ==
  /\ job[w].pc = "update" /\ ~Gone(w)
  /\ tk' = [t \in Tickets |-> IF \E u \in job[w].upd : u[1] = t
                              THEN (CHOOSE u \in job[w].upd : u[1] = t)[2] ELSE tk[t]]
  /\ job' = [job EXCEPT ![w].pc = "end"]
  /\ dry' = 0
  /\ UNCHANGED <<copy, map, active, fails, queue, manual, faults, unsafe>>

UpdateGone(w) ==
  /\ job[w].pc = "update" /\ Gone(w)
  /\ Fails(w)
  /\ UNCHANGED <<tk, copy, map, manual, faults, dry>>

EndKeeps(w) ==  \* mutant of EndSync
  /\ job[w].pc = "end"
  /\ fails' = 0
  /\ job' = [job EXCEPT ![w].pc = "idle"]
  /\ UNCHANGED <<tk, copy, map, active, queue, manual, faults, unsafe, dry>>

\* The last commit: a success ends a series of failures.
EndSync(w) ==
  /\ job[w].pc = "end"
  /\ fails' = 0
  /\ job' = [job EXCEPT ![w] = Idle]
  /\ UNCHANGED <<tk, copy, map, active, queue, manual, faults, unsafe, dry>>

\* The commit of the failure fails as well: it is not counted, nor retried.
Dropped(w) ==
  /\ unsafe' = Unsaved(w)
  /\ job' = [job EXCEPT ![w] = Idle]
  /\ UNCHANGED <<active, fails, queue>>

\* The database fails.
SyncFails(w) ==
  /\ job[w].pc # "idle" /\ faults < MaxFaults
  /\ faults' = faults + 1
  /\ Fails(w) \/ Dropped(w)
  /\ UNCHANGED <<tk, copy, map, manual, dry>>

\* The worker dies; its message is delivered again.
WorkerDies(w) ==
  /\ job[w].pc # "idle" /\ faults < MaxFaults
  /\ faults' = faults + 1
  /\ queue' = queue \union {[tries |-> job[w].tries]}
  /\ unsafe' = Unsaved(w)
  /\ job' = [job EXCEPT ![w] = Idle]
  /\ UNCHANGED <<tk, copy, map, active, fails, manual, dry>>

-----------------------------------------------------------------------------
(* The specification.                                                      *)

Sync(w) ==
  \/ TakeSync(w) \/ \E t \in Tickets : PushOne(w, t)
  \/ PushCommit(w) \/ PushConflict(w) \/ PullRead(w) \/ UpdateCommit(w) \/ UpdateGone(w) \/ EndSync(w)

Next ==
  \/ \E t \in Tickets : DeleteTicket(t) \/ \E st \in {"open", "done"} : SetStatus(t, st)
  \/ \E b \in BOOLEAN : SetActive(b)
  \/ TriggerSync \/ NextInterval
  \/ \E e \in Copy : ChangeOutside(e)
  \/ \E w \in Workers : Sync(w) \/ SyncFails(w) \/ WorkerDies(w)

Spec == Init /\ [][Next]_vars

\* Celery runs what is queued; time passes.
FairSpec ==
  /\ Spec
  /\ \A w \in Workers : WF_vars(Sync(w))
  /\ WF_vars(NextInterval)

-----------------------------------------------------------------------------
(* Properties.                                                             *)

\* Every variable has its type, and a free process remembers nothing.
TypeOK ==
  /\ tk \in [Tickets -> {"none", "open", "done", "deleted"}]
  /\ copy \in [Copy -> Outside \union {NoCopy}]
  /\ map \in [Tickets -> 0..MaxCopies]
  /\ active \in BOOLEAN /\ fails \in 0..MaxFailures
  /\ job \in [Workers -> Job]
  /\ queue \subseteq Message
  /\ manual \in 0..MaxManual /\ faults \in 0..MaxFaults
  /\ unsafe \in BOOLEAN /\ dry \in 0..Window
  /\ \A w \in Workers : job[w].pc = "idle" => job[w] = Idle

Mapped(e) == copy[e].st # "none" /\ map[copy[e].of] = e

\* A ticket is copied once, however often it is resolved and reopened between
\* synchronisations, and each copy is in the map, in the hands of the
\* synchronisation that made it, or of a ticket deleted since: unless what a
\* push told was lost before the commit or two synchronisations overlapped.
\* Whatever happens, the map names no copy of another ticket, whose status
\* a pull would then write over this one's.
PushedOnce ==
  /\ \A t \in Tickets : map[t] # 0 => copy[map[t]].of = t
  /\ ~unsafe => \A e \in Copy : copy[e].st # "none" =>
       /\ \A f \in Copy : copy[f].st # "none" /\ copy[e].of = copy[f].of => e = f
       /\ \/ Mapped(e)
          \/ tk[copy[e].of] = "deleted"
          \/ \E w \in Workers : e \in job[w].mine

\* The window passed without a pull that was answered and saved.
Expired(e) == copy[e].age = Window /\ dry = Window

\* A change made outside reaches the ticket, although calls and whole
\* synchronisations fail, as long as they do not fail for ever: unless all of
\* them failed for as long as the change is pulled, the integration was
\* disabled, the ticket was deleted, or the copy was completed in Autotask.
OutsideArrives ==
  []<>(dry = 0) =>
    \A e \in Copy :
      (Mapped(e) /\ copy[e].age = 0 /\ copy[e].st \notin {tk[copy[e].of], "hidden"})
        ~> \/ Mapped(e) /\ tk[copy[e].of] = copy[e].st
           \/ Expired(e) \/ copy[e].st = "hidden"
           \/ ~active \/ ~Mapped(e)

\* "auto-disable an integration after this many consecutive sync failures
\* instead of retrying a permanently-broken one (e.g. revoked credentials)
\* forever": an integration of which no call is answered from some time on, no
\* push and no pull, is disabled.
Answered ==
  \/ \E e \in Copy : copy[e].st = "none" /\ copy'[e].st # "none"
  \/ \E w \in Workers : job[w].pc = "pull" /\ job'[w].pc = "update"

BrokenIsDisabled == <>[][~Answered]_vars => <>~active

=============================================================================
