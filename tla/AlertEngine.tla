----------------------------- MODULE AlertEngine -----------------------------
(***************************************************************************)
(* Alerts: the rule evaluation and the offline marking that Celery runs    *)
(* (api/tasks/alert_tasks.py), the heartbeats and registrations of agents  *)
(* (api/routes/agents.py) and what users do to alerts                      *)
(* (api/services/alert_service.py).                                        *)
(*                                                                         *)
(* Two rules: one on a metric, one on devices going offline.  An           *)
(* evaluation reads everything it needs in one go, decides, notifies       *)
(* people, and commits; a heartbeat reads its device first and commits     *)
(* later.  Marking devices offline locks the rows it changes until its     *)
(* commit and is one step.  Time is a tick.                                *)
(***************************************************************************)
EXTENDS Naturals, FiniteSets, Functions

CONSTANTS
  Devices,
  Evaluators,    \* Celery processes that may evaluate rules at the same time
  MaxAlerts,     \* bound: alerts created in a behaviour
  MaxFaults,     \* bound: Redis failures and failed or killed evaluations
  MaxEval,       \* bound: ticks an evaluation may last
  LockTTL,       \* _EVAL_LOCK_TTL, in ticks
  Cooldown,      \* cooldown_minutes of the metric rule, in ticks
  MaxCooldown,   \* the longest cooldown of all rules, in ticks
  Switchable,    \* the rules that users switch on and off
  OfflineAfter   \* ticks without a heartbeat before a device is offline

ASSUME AlertAssumption ==
  /\ Devices # {}
  /\ MaxAlerts \in Nat /\ MaxFaults \in Nat /\ MaxEval \in Nat
  /\ LockTTL \in Nat \ {0} /\ OfflineAfter \in Nat
  /\ Switchable \subseteq {"metric", "offline"}
  /\ Cooldown \in Nat /\ MaxCooldown \in Nat /\ Cooldown <= MaxCooldown

VARIABLES
  dev,      \* dev[d]: is_online, ticks since last_seen, latest metric too high
  hb,       \* hb[d]: a heartbeat that has read the device, and what it read
  active,   \* active[r]: is_active of rule r
  alert,    \* alert[a]: row of alerts
  lock,     \* ticks the evaluation lock still holds, 0 when it is free
  ev,       \* ev[e]: the evaluation of process e
  faults,
  unsafe    \* history: an evaluation ran without the lock or outlived it

vars == <<dev, hb, active, alert, lock, ev, faults, unsafe>>

Rule  == {"metric", "offline"}
Alert == 1..MaxAlerts

OldestAge == MaxCooldown + 1   \* where the age of a resolution saturates

DeviceRow  == [online : BOOLEAN, silent : 0..(OfflineAfter + 1), high : BOOLEAN]
AlertRow   == [st : {"none", "open", "acknowledged", "resolved"}, rule : Rule,
               dev : Devices, age : 0..OldestAge]  \* age: ticks since resolved_at
Evaluation == [running : BOOLEAN, holds : BOOLEAN, age : 0..MaxEval,
               fire : SUBSET Devices,     \* devices that will get an alert
               calm : SUBSET Devices]     \* devices whose alert will be resolved

NoEvaluation == [running |-> FALSE, holds |-> FALSE, age |-> 0, fire |-> {}, calm |-> {}]

Init ==
  /\ dev = [d \in Devices |-> [online |-> TRUE, silent |-> 0, high |-> FALSE]]
  /\ hb = [d \in Devices |-> "none"]
  /\ active = [r \in Rule |-> TRUE]
  /\ alert = [a \in Alert |-> [st |-> "none", rule |-> "metric",
                               dev |-> CHOOSE d \in Devices : TRUE, age |-> 0]]
  /\ lock = 0
  /\ ev = [e \in Evaluators |-> NoEvaluation]
  /\ faults = 0 /\ unsafe = FALSE

Of(a, r, d) == alert[a].st # "none" /\ alert[a].rule = r /\ alert[a].dev = d
Open(a, r, d) == Of(a, r, d) /\ alert[a].st = "open"
Live(a, r, d) == Of(a, r, d) /\ alert[a].st \in {"open", "acknowledged"}


-----------------------------------------------------------------------------
(* Rows of alerts.                                                         *)

\* Room for one more alert for every device of D among the rows of T.
Slots(T, D) == Injection(D, {a \in Alert : T[a].st = "none"})

\* The rows T with a new open alert of rule r for every device of D.
WithNew(T, r, D) ==
  LET slot == CHOOSE s \in Slots(T, D) : TRUE
  IN [a \in Alert |->
        IF \E d \in D : slot[d] = a
        THEN [st |-> "open", rule |-> r, dev |-> CHOOSE d \in D : slot[d] = a, age |-> 0]
        ELSE T[a]]

AgeOf(n) == IF n < OldestAge THEN n ELSE OldestAge

ResolvedLive(r, D, n) ==  \* mutant of Resolved: acknowledged alerts as well
  [a \in Alert |-> IF \E d \in D : Live(a, r, d)
                   THEN [alert[a] EXCEPT !.st = "resolved", !.age = n] ELSE alert[a]]
ResolvedNone(r, D, n) == alert  \* mutant of Resolved
ResolvedMisspelt(r, D, n) ==  \* mutant of Resolved
  [a \in Alert |-> IF \E d \in D : Open(a, r, d)
                   THEN [alert[a] EXCEPT !.st = "closed", !.age = n] ELSE alert[a]]
\* The open alerts of rule r and of the devices of D resolved, n ticks ago.
Resolved(r, D, n) ==
  [a \in Alert |-> IF \E d \in D : Open(a, r, d)
                   THEN [alert[a] EXCEPT !.st = "resolved", !.age = n] ELSE alert[a]]

-----------------------------------------------------------------------------
(* evaluate_all_rules.                                                     *)

\* One entry of resolved_alert_map: of several alerts of the device that were
\* resolved within the longest cooldown, any one (the query has no order).
Recent(d) ==
  {a \in Alert : Of(a, "metric", d) /\ alert[a].st = "resolved" /\ alert[a].age <= MaxCooldown}

Cooling(a) == alert[a].age <= Cooldown

\* What the loop decides for the online devices.
HasLive(d) == \E a \in Alert : Live(a, "metric", d)
MayFireAlways(d, entry) == ~HasLive(d)                             \* mutant of MayFire
MayFireOnce(d, entry)   == \A a \in Alert : ~Of(a, "metric", d)    \* mutant of MayFire
MayFire(d, entry) ==
  /\ ~HasLive(d)
  /\ \A a \in entry[d] : ~Cooling(a)

Online == {d \in Devices : dev[d].online}

Entries == {f \in [Devices -> SUBSET Alert] :
              \A d \in Devices : IF Recent(d) = {} THEN f[d] = {}
                                 ELSE \E a \in Recent(d) : f[d] = {a}}

LockFreeAlways == TRUE  \* mutant of LockFree
LockFree == lock = 0

Unlocked(e) ==
  IF ev[e].holds
  THEN \/ lock' = 0 /\ UNCHANGED faults
       \/ lock' = lock /\ faults < MaxFaults /\ faults' = faults + 1
  ELSE UNCHANGED <<lock, faults>>

\* The lock is taken (or Redis fails and the evaluation runs without it) and
\* everything is read.  Without an active rule or an online device the task
\* returns at once, and releases the lock it took.
Begin(e) ==
  /\ ~ev[e].running
  /\ active["metric"] /\ Online # {}
  /\ \E locks \in BOOLEAN, entry \in Entries :
       /\ IF locks THEN LockFree /\ lock' = LockTTL /\ UNCHANGED <<faults, unsafe>>
                   ELSE /\ faults < MaxFaults /\ faults' = faults + 1
                        /\ unsafe' = TRUE /\ UNCHANGED lock
       /\ ev' = [ev EXCEPT ![e] =
                   [running |-> TRUE, holds |-> locks, age |-> 0,
                    fire |-> {d \in Online : dev[d].high /\ MayFire(d, entry)},
                    calm |-> {d \in Online : ~dev[d].high /\ HasLive(d)}]]
  /\ UNCHANGED <<dev, hb, active, alert>>

\* The new alerts and the resolved ones are committed together.
Commit(e) ==
  /\ ev[e].running
  /\ LET rest == Resolved("metric", ev[e].calm, AgeOf(ev[e].age))
     IN /\ Slots(rest, ev[e].fire) # {}
        /\ alert' = WithNew(rest, "metric", ev[e].fire)
  /\ Unlocked(e)
  /\ ev' = [ev EXCEPT ![e] = NoEvaluation]
  /\ UNCHANGED <<dev, hb, active, unsafe>>

\* A database error: everything is rolled back, the lock is released, and the
\* task may run again later.
EvaluationFails(e) ==
  /\ ev[e].running
  /\ faults < MaxFaults
  /\ faults' = faults + 1
  /\ lock' = IF ev[e].holds THEN 0 ELSE lock
  /\ ev' = [ev EXCEPT ![e] = NoEvaluation]
  /\ UNCHANGED <<dev, hb, active, alert, unsafe>>

\* The worker process is killed; its lock stays until it expires.
EvaluationDies(e) ==
  /\ ev[e].running
  /\ faults < MaxFaults
  /\ faults' = faults + 1
  /\ ev' = [ev EXCEPT ![e] = NoEvaluation]
  /\ UNCHANGED <<dev, hb, active, alert, lock, unsafe>>

-----------------------------------------------------------------------------
(* Devices come and go.                                                    *)

AlertedOpen(d)  == \E a \in Alert : Open(a, "offline", d)
AlertedNever(d) == FALSE  \* mutant of Alerted
\* mark_offline_devices looks for open offline alerts only.
Alerted(d) == AlertedOpen(d)

Silent == {d \in Devices : dev[d].online /\ dev[d].silent > OfflineAfter}

\* mark_offline_devices, whose commit also releases the devices' rows.
MarkOffline ==
  LET fresh == IF active["offline"] THEN {d \in Silent : ~Alerted(d)} ELSE {}
  IN /\ Silent # {}
     /\ dev' = [d \in Devices |-> IF d \in Silent THEN [dev[d] EXCEPT !.online = FALSE] ELSE dev[d]]
     /\ Slots(alert, fresh) # {}
     /\ alert' = WithNew(alert, "offline", fresh)
     /\ UNCHANGED <<hb, active, lock, ev, faults, unsafe>>

\* A heartbeat reads its device.
HeartbeatRead(d) ==
  /\ hb[d] = "none"
  /\ hb' = [hb EXCEPT ![d] = IF dev[d].online THEN "wasOnline" ELSE "wasOffline"]
  /\ UNCHANGED <<dev, active, alert, lock, ev, faults, unsafe>>

\* It commits.  A column that gets the value it was read with is not written,
\* so a device marked offline in between stays offline.
HeartbeatCommit(d, high) ==
  /\ hb[d] # "none"
  /\ hb' = [hb EXCEPT ![d] = "none"]
  /\ dev' = [dev EXCEPT ![d] = [online |-> hb[d] = "wasOffline" \/ @.online,
                                silent |-> 0, high |-> high]]
  /\ alert' = IF hb[d] = "wasOffline" /\ active["offline"]
              THEN Resolved("offline", {d}, 0) ELSE alert
  /\ UNCHANGED <<active, lock, ev, faults, unsafe>>

\* An agent registers again: the device is online at once, alerts stay.
Register(d) ==
  /\ dev' = [dev EXCEPT ![d].online = TRUE, ![d].silent = 0]
  /\ UNCHANGED <<hb, active, alert, lock, ev, faults, unsafe>>

-----------------------------------------------------------------------------
(* Users.                                                                  *)

\* acknowledge_alert_service does not look at the status it replaces.
Acknowledge(a) ==
  /\ alert[a].st # "none"
  /\ alert' = [alert EXCEPT ![a].st = "acknowledged"]
  /\ UNCHANGED <<dev, hb, active, lock, ev, faults, unsafe>>

\* Nor does resolve_alert_service.
Resolve(a) ==
  /\ alert[a].st # "none"
  /\ alert' = [alert EXCEPT ![a].st = "resolved", ![a].age = 0]
  /\ UNCHANGED <<dev, hb, active, lock, ev, faults, unsafe>>

\* update_rule switches a rule on or off.
SwitchRule(r) ==
  /\ r \in Switchable
  /\ active' = [active EXCEPT ![r] = ~@]
  /\ UNCHANGED <<dev, hb, alert, lock, ev, faults, unsafe>>

-----------------------------------------------------------------------------
(* Time.                                                                   *)

Older(n, limit) == IF n < limit THEN n + 1 ELSE n

\* Heartbeats are short: none lasts into the next tick.
Tick ==
  /\ \A d \in Devices : hb[d] = "none"
  /\ \A e \in Evaluators : ev[e].running => ev[e].age < MaxEval
  /\ dev' = [d \in Devices |-> [dev[d] EXCEPT !.silent = Older(@, OfflineAfter + 1)]]
  /\ alert' = [a \in Alert |-> IF alert[a].st = "resolved"
                               THEN [alert[a] EXCEPT !.age = Older(@, OldestAge)] ELSE alert[a]]
  /\ lock' = IF lock = 0 THEN 0 ELSE lock - 1
  /\ ev' = [e \in Evaluators |-> IF ev[e].running THEN [ev[e] EXCEPT !.age = @ + 1] ELSE ev[e]]
  /\ unsafe' = (unsafe \/ \E e \in Evaluators : ev[e].running /\ ev[e].age + 1 >= LockTTL)
  /\ UNCHANGED <<hb, active, faults>>

-----------------------------------------------------------------------------

Evaluate == \E e \in Evaluators : \/ Begin(e)
                                  \/ Commit(e)
                                  \/ EvaluationFails(e)
                                  \/ EvaluationDies(e)

Agents == \E d \in Devices : \/ HeartbeatRead(d)
                             \/ \E high \in BOOLEAN : HeartbeatCommit(d, high)
                             \/ Register(d)

People == \/ \E a \in Alert : Acknowledge(a) \/ Resolve(a)
          \/ \E r \in Rule : SwitchRule(r)

Next == Evaluate \/ Agents \/ People \/ MarkOffline \/ Tick

Spec == Init /\ [][Next]_vars

\* Beat keeps starting evaluations, what has begun goes on, and time passes
\* (heartbeats hold it up, not for ever).  Agents, people and faults owe nothing.
FairSpec ==
  /\ Spec
  /\ WF_vars(\E e \in Evaluators : Begin(e))
  /\ \A e \in Evaluators : WF_vars(Commit(e))
  /\ \A d \in Devices : WF_vars(\E high \in BOOLEAN : HeartbeatCommit(d, high))
  /\ SF_vars(Tick)

-----------------------------------------------------------------------------
(* Properties.                                                             *)

\* Every variable keeps to the values the code can give it.
TypeOK ==
  /\ dev \in [Devices -> DeviceRow]
  /\ hb \in [Devices -> {"none", "wasOnline", "wasOffline"}]
  /\ active \in [Rule -> BOOLEAN]
  /\ alert \in [Alert -> AlertRow]
  /\ lock \in 0..LockTTL
  /\ ev \in [Evaluators -> Evaluation]
  /\ faults \in 0..MaxFaults
  /\ unsafe \in BOOLEAN

\* Two evaluations overlap only if one of them ran without the lock or outlived
\* it, although the lock says nothing of its owner and expires by itself.
ExclusiveUnlessUnsafe ==
  ~unsafe => \A e, f \in Evaluators : ev[e].running /\ ev[f].running => e = f

\* A device has at most one open alert of the metric rule while evaluations keep
\* to the lock ("Already open -- don't storm"), and never two open offline alerts.
OneOpen ==
  \A d \in Devices, a, b \in Alert :
    /\ Open(a, "offline", d) /\ Open(b, "offline", d) => a = b
    /\ ~unsafe /\ Open(a, "metric", d) /\ Open(b, "metric", d) => a = b

\* Alert a does not hold up a new alert: it is not resolved, or was resolved
\* longer ago than the cooldown, or since evaluation e began.
Passed(a, e) ==
  alert[a].st = "resolved" => ~Cooling(a) \/ alert[a].age <= ev[e].age

\* In a step in which evaluation e ends and gives device d a new alert, every
\* earlier alert of d has passed.  If some rule has a longer cooldown than this
\* one, the evaluation may have looked at one that had passed instead.
CooldownStep(e, d) ==
  /\ ev[e].running /\ ~ev'[e].running
  /\ \E a \in Alert : Open(a, "metric", d)' /\ ~Of(a, "metric", d)
  => \/ \A a \in Alert : Of(a, "metric", d) => Passed(a, e)
     \/ Cooldown < MaxCooldown /\ \E a \in Alert : Of(a, "metric", d) /\ Passed(a, e)

\* While evaluations keep to the lock, none gives a new alert to a device whose
\* alert was resolved within the cooldown ("Respect cooldown after last
\* resolve"), unless that happened while it was running or the query for the
\* longest cooldown hid it behind an older alert.
CooldownRespected ==
  [][~unsafe => \A e \in Evaluators, d \in Devices : CooldownStep(e, d)]_vars

\* An acknowledged alert is never resolved by the machine, also when it was
\* acknowledged after an evaluation had read it as open.
AcknowledgementKept ==
  [][\A a \in Alert : alert[a].st = "acknowledged" /\ alert'[a].st = "resolved"
                      => ev' = ev /\ hb' = hb]_vars

\* A metric that stays too high on an online device brings an alert, unless
\* people keep resolving the device's alerts.
Full == \A a \in Alert : alert[a].st # "none"
HighIsAlerted ==
  \A d \in Devices :
    dev[d].online /\ dev[d].high /\ active["metric"]
    ~> \/ ~dev[d].online \/ ~dev[d].high \/ ~active["metric"]
       \/ HasLive(d)
       \/ \E a \in Alert : alert[a].st = "resolved" /\ alert[a].age = 0
       \/ Full

\* The open alert of a device that stays online with its metric back to normal
\* is resolved ("auto-resolve on recovery").
RecoveryResolved ==
  \A d \in Devices :
    dev[d].online /\ ~dev[d].high /\ active["metric"] /\ (\E a \in Alert : Open(a, "metric", d))
    ~> \/ ~dev[d].online \/ dev[d].high \/ ~active["metric"]
       \/ \A a \in Alert : ~Open(a, "metric", d)
       \/ Full

=============================================================================
