------------------------- MODULE AlertEngine_proofs -------------------------
(***************************************************************************)
(* Proofs about AlertEngine.tla, for any devices and evaluating processes, *)
(* any times and any number of alerts and faults.                          *)
(***************************************************************************)
EXTENDS AlertEngine, TLAPS

-----------------------------------------------------------------------------
(* The rows of alerts.                                                     *)

\* W is T with free rows made open alerts of r, one per device of D at most.
IsNew(W, T, r, D) ==
  /\ W \in [Alert -> AlertRow]
  /\ \A a \in Alert : \/ W[a] = T[a]
                      \/ T[a].st = "none" /\ W[a].st = "open" /\ W[a].rule = r /\ W[a].dev \in D
  /\ \A a, b \in Alert : /\ T[a].st = "none" /\ W[a].st = "open"
                         /\ T[b].st = "none" /\ W[b].st = "open"
                         /\ W[a].dev = W[b].dev
                         => a = b

LEMMA NewFacts ==
  ASSUME NEW T \in [Alert -> AlertRow], NEW r \in Rule, NEW D \in SUBSET Devices, Slots(T, D) # {}
  PROVE  IsNew(WithNew(T, r, D), T, r, D)
<1> DEFINE slot == CHOOSE s \in Slots(T, D) : TRUE
           W == WithNew(T, r, D)
           taken == {a \in Alert : \E d \in D : slot[d] = a}
           at == [a \in Alert |-> CHOOSE d \in D : slot[d] = a]
<1>1. slot \in Slots(T, D)
  OBVIOUS
<1>2. /\ slot \in [D -> {a \in Alert : T[a].st = "none"}]
      /\ \A d, e \in D : slot[d] = slot[e] => d = e
  BY <1>1 DEF Slots, Injection, IsInjective
<1>3. W = [a \in Alert |-> IF a \in taken
                          THEN [st |-> "open", rule |-> r, dev |-> at[a], age |-> 0] ELSE T[a]]
  BY DEF WithNew
<1>4. \A a \in taken : a \in Alert /\ at[a] \in D /\ slot[at[a]] = a /\ T[a].st = "none"
  <2> SUFFICES ASSUME NEW a \in taken PROVE a \in Alert /\ at[a] \in D /\ slot[at[a]] = a /\ T[a].st = "none"
    OBVIOUS
  <2> HIDE DEF slot
  <2>1. PICK d \in D : slot[d] = a
    OBVIOUS
  <2>2. at[a] \in D /\ slot[at[a]] = a
    BY <2>1
  <2>3. QED
    BY <1>2, <2>2
<1> HIDE DEF slot, W, taken, at
<1>5. \A a \in taken : /\ W[a].st = "open" /\ W[a].rule = r /\ W[a].dev = at[a] /\ W[a].age = 0
                       /\ W[a] = [st |-> "open", rule |-> r, dev |-> at[a], age |-> 0]
  BY <1>3, <1>4
<1>6. \A a \in Alert \ taken : W[a] = T[a]
  BY <1>3
<1>7. 0 \in 0 .. OldestAge
  BY AlertAssumption DEF AlertAssumption, OldestAge
<1>8. \A a \in taken : W[a] \in AlertRow
  <2> SUFFICES ASSUME NEW a \in taken PROVE W[a] \in AlertRow
    OBVIOUS
  <2>1. at[a] \in Devices
    BY <1>4
  <2>2. \A d \in Devices, n \in 0 .. OldestAge : [st |-> "open", rule |-> r, dev |-> d, age |-> n] \in AlertRow
    BY DEF AlertRow
  <2>3. QED
    BY <1>5, <1>7, <2>1, <2>2, Zenon
<1>9. \A a \in Alert \ taken : W[a] \in AlertRow
  BY <1>6
<1>10. W \in [Alert -> AlertRow]
  BY <1>3, <1>8, <1>9
<1>11. \A a \in Alert : \/ W[a] = T[a]
                        \/ T[a].st = "none" /\ W[a].st = "open" /\ W[a].rule = r /\ W[a].dev \in D
  BY <1>4, <1>5, <1>6
<1>12. ASSUME NEW a \in Alert, NEW b \in Alert, T[a].st = "none", W[a].st = "open",
              T[b].st = "none", W[b].st = "open", W[a].dev = W[b].dev
       PROVE  a = b
  <2>1. a \in taken /\ b \in taken
    BY <1>6, <1>12
  <2>2. at[a] = at[b]
    BY <1>5, <1>12, <2>1
  <2>3. QED
    BY <1>4, <2>1, <2>2
<1>13. QED
  BY <1>10, <1>11, <1>12 DEF W, IsNew

\* R is alert with open alerts of r and of devices of D resolved.
IsResolved(R, r, D, n) ==
  /\ R \in [Alert -> AlertRow]
  /\ \A a \in Alert :
       \/ R[a] = alert[a]
       \/ /\ alert[a].st = "open" /\ alert[a].rule = r /\ alert[a].dev \in D
          /\ R[a].st = "resolved" /\ R[a].rule = r /\ R[a].dev = alert[a].dev /\ R[a].age = n

LEMMA ResolvedFacts ==
  ASSUME alert \in [Alert -> AlertRow], NEW r \in Rule, NEW D \in SUBSET Devices, NEW n \in 0 .. OldestAge
  PROVE  IsResolved(Resolved(r, D, n), r, D, n)
BY DEF IsResolved, Resolved, Open, Of, AlertRow

-----------------------------------------------------------------------------
(* Types.                                                                  *)

AlertsOK == alert \in [Alert -> AlertRow]
DevicesOK ==
  /\ dev \in [Devices -> DeviceRow]
  /\ hb \in [Devices -> {"none", "wasOnline", "wasOffline"}]
EvaluationsOK ==
  /\ lock \in 0..LockTTL
  /\ ev \in [Evaluators -> Evaluation]
  /\ faults \in 0..MaxFaults
SwitchesOK == active \in [Rule -> BOOLEAN]
HistoryOK == unsafe \in BOOLEAN

LEMMA TypeParts == TypeOK <=> AlertsOK /\ DevicesOK /\ EvaluationsOK /\ SwitchesOK /\ HistoryOK
BY DEF TypeOK, AlertsOK, DevicesOK, EvaluationsOK, SwitchesOK, HistoryOK

LEMMA AgeFacts ==
  /\ \A n \in Nat : AgeOf(n) \in 0 .. OldestAge
  /\ \A n \in 0 .. OldestAge : Older(n, OldestAge) \in 0 .. OldestAge
  /\ 0 \in 0 .. OldestAge
BY AlertAssumption DEF AlertAssumption, AgeOf, Older, OldestAge

\* A commit changes free rows into open ones and open ones of quiet devices
\* into resolved ones.
LEMMA CommitFacts ==
  ASSUME AlertsOK, EvaluationsOK, NEW e \in Evaluators, Commit(e)
  PROVE  /\ alert' \in [Alert -> AlertRow]
         /\ \A a \in Alert :
              \/ alert'[a] = alert[a]
              \/ /\ alert[a].st = "open" /\ alert[a].rule = "metric"
                 /\ alert'[a].st = "resolved" /\ alert'[a].rule = "metric" /\ alert'[a].dev = alert[a].dev
              \/ /\ alert[a].st = "none"
                 /\ alert'[a].st = "open" /\ alert'[a].rule = "metric" /\ alert'[a].dev \in ev[e].fire
         /\ \A a, b \in Alert :
              /\ alert[a].st = "none" /\ alert'[a].st = "open"
              /\ alert[b].st = "none" /\ alert'[b].st = "open"
              /\ alert'[a].dev = alert'[b].dev
              => a = b
<1> DEFINE D == ev[e].calm
           F == ev[e].fire
           n == AgeOf(ev[e].age)
           rest == Resolved("metric", D, n)
<1>1. D \in SUBSET Devices /\ F \in SUBSET Devices /\ ev[e].age \in Nat
  BY AlertAssumption DEF AlertAssumption, EvaluationsOK, Evaluation
<1>2. n \in 0 .. OldestAge /\ "metric" \in Rule
  BY <1>1, AgeFacts DEF Rule
<1>3. Slots(rest, F) # {} /\ alert' = WithNew(rest, "metric", F)
  BY DEF Commit
<1> HIDE DEF D, F, n, rest
<1>4. IsResolved(rest, "metric", D, n)
  BY <1>1, <1>2, ResolvedFacts DEF AlertsOK, rest
<1>5. IsNew(alert', rest, "metric", F)
  <2>1. IsNew(WithNew(rest, "metric", F), rest, "metric", F)
    BY <1>1, <1>2, <1>3, <1>4, NewFacts DEF IsResolved
  <2>2. QED
    BY <1>3, <2>1
<1>6. \A a \in Alert :
        \/ rest[a] = alert[a]
        \/ /\ alert[a].st = "open" /\ alert[a].rule = "metric"
           /\ rest[a].st = "resolved" /\ rest[a].rule = "metric" /\ rest[a].dev = alert[a].dev
  BY <1>4 DEF IsResolved
<1>7. \A a \in Alert : alert[a].st = "none" => rest[a] = alert[a]
  BY <1>6
<1>8. alert' \in [Alert -> AlertRow]
  BY <1>5 DEF IsNew
<1>9. \A a \in Alert : \/ alert'[a] = rest[a]
                       \/ /\ rest[a].st = "none" /\ alert'[a].st = "open"
                          /\ alert'[a].rule = "metric" /\ alert'[a].dev \in F
  BY <1>5 DEF IsNew
<1>10. \A a, b \in Alert :
         /\ rest[a].st = "none" /\ alert'[a].st = "open"
         /\ rest[b].st = "none" /\ alert'[b].st = "open"
         /\ alert'[a].dev = alert'[b].dev
         => a = b
  BY <1>5 DEF IsNew
<1>11. QED
  BY <1>6, <1>7, <1>8, <1>9, <1>10 DEF F

\* Marking devices offline opens an alert for devices that have no open one.
LEMMA MarkFacts ==
  ASSUME AlertsOK, MarkOffline
  PROVE  \E D \in SUBSET Devices :
           /\ \A d \in D, a \in Alert : ~Open(a, "offline", d)
           /\ IsNew(alert', alert, "offline", D)
<1> DEFINE D == IF active["offline"] THEN {d \in Silent : ~Alerted(d)} ELSE {}
<1>1. D \in SUBSET Devices /\ "offline" \in Rule
  BY DEF Silent, Rule
<1>2. \A d \in D, a \in Alert : ~Open(a, "offline", d)
  BY DEF Alerted, AlertedOpen
<1>3. Slots(alert, D) # {} /\ alert' = WithNew(alert, "offline", D)
  BY DEF MarkOffline
<1> HIDE DEF D
<1>4. IsNew(WithNew(alert, "offline", D), alert, "offline", D)
  BY <1>1, <1>3, NewFacts DEF AlertsOK
<1>5. IsNew(alert', alert, "offline", D)
  BY <1>3, <1>4
<1>6. QED
  BY <1>1, <1>2, <1>5

\* A heartbeat that ends an outage resolves open offline alerts.
LEMMA HeartbeatFacts ==
  ASSUME AlertsOK, NEW d \in Devices, NEW high \in BOOLEAN, HeartbeatCommit(d, high)
  PROVE  alert' = alert \/ IsResolved(alert', "offline", {d}, 0)
<1>1. alert' = alert \/ alert' = Resolved("offline", {d}, 0)
  BY DEF HeartbeatCommit
<1>2. IsResolved(Resolved("offline", {d}, 0), "offline", {d}, 0)
  BY AgeFacts, ResolvedFacts DEF AlertsOK, Rule
<1>3. QED
  BY <1>1, <1>2

\* People replace the status of one alert.
LEMMA PeopleFacts ==
  ASSUME AlertsOK, NEW a \in Alert, Acknowledge(a) \/ Resolve(a)
  PROVE  /\ alert' \in [Alert -> AlertRow]
         /\ \A b \in Alert :
              \/ alert'[b] = alert[b]
              \/ /\ b = a /\ alert[a].st # "none"
                 /\ alert'[a].rule = alert[a].rule /\ alert'[a].dev = alert[a].dev
                 /\ \/ Acknowledge(a) /\ alert'[a].st = "acknowledged"
                    \/ Resolve(a) /\ alert'[a].st = "resolved" /\ alert'[a].age = 0
<1>1. CASE Acknowledge(a)
  BY <1>1 DEF Acknowledge, AlertsOK, AlertRow
<1>2. CASE Resolve(a)
  <2>1. alert[a] \in AlertRow /\ [alert[a] EXCEPT !.st = "resolved", !.age = 0] \in AlertRow
    BY AgeFacts DEF AlertsOK, AlertRow
  <2>2. alert[a].st # "none" /\ alert' = [alert EXCEPT ![a] = [@ EXCEPT !.st = "resolved", !.age = 0]]
    BY <1>2 DEF Resolve
  <2>3. alert' \in [Alert -> AlertRow]
    BY <2>1, <2>2 DEF AlertsOK
  <2>4. \A b \in Alert : b # a => alert'[b] = alert[b]
    BY <2>2 DEF AlertsOK
  <2>5. /\ alert'[a].rule = alert[a].rule /\ alert'[a].dev = alert[a].dev
        /\ alert'[a].st = "resolved" /\ alert'[a].age = 0
    BY <2>1, <2>2 DEF AlertsOK, AlertRow
  <2>6. QED
    BY <1>2, <2>2, <2>3, <2>4, <2>5
<1>3. QED
  BY <1>1, <1>2

\* Time only ages resolved alerts.
LEMMA TickFacts ==
  ASSUME AlertsOK, Tick
  PROVE  /\ alert' \in [Alert -> AlertRow]
         /\ \A a \in Alert : /\ alert'[a].st = alert[a].st
                             /\ alert'[a].rule = alert[a].rule /\ alert'[a].dev = alert[a].dev
                             /\ alert[a].st = "resolved" => alert'[a].age = Older(alert[a].age, OldestAge)
<1>1. alert' = [a \in Alert |-> IF alert[a].st = "resolved"
                                THEN [alert[a] EXCEPT !.age = Older(alert[a].age, OldestAge)] ELSE alert[a]]
  BY DEF Tick
<1>2. QED
  BY <1>1, AgeFacts DEF AlertsOK, AlertRow

-----------------------------------------------------------------------------
(* The type invariant is inductive.                                        *)

LEMMA AlertsStep ==
  ASSUME AlertsOK, EvaluationsOK, [Next]_vars
  PROVE  AlertsOK'
<1>1. ASSUME NEW e \in Evaluators, Commit(e)
      PROVE  AlertsOK'
  BY <1>1, CommitFacts DEF AlertsOK
<1>2. ASSUME MarkOffline
      PROVE  AlertsOK'
  BY <1>2, MarkFacts DEF AlertsOK, IsNew
<1>3. ASSUME NEW d \in Devices, NEW high \in BOOLEAN, HeartbeatCommit(d, high)
      PROVE  AlertsOK'
  BY <1>3, HeartbeatFacts DEF AlertsOK, IsResolved
<1>4. ASSUME NEW a \in Alert, Acknowledge(a) \/ Resolve(a)
      PROVE  AlertsOK'
  BY <1>4, PeopleFacts DEF AlertsOK
<1>5. ASSUME Tick
      PROVE  AlertsOK'
  BY <1>5, TickFacts DEF AlertsOK
<1>6. CASE UNCHANGED alert
  BY <1>6 DEF AlertsOK
<1>7. QED
  BY <1>1, <1>2, <1>3, <1>4, <1>5, <1>6
  DEF Next, Evaluate, Agents, People, Begin, EvaluationFails, EvaluationDies,
      HeartbeatRead, Register, SwitchRule, vars

LEMMA DevicesStep ==
  ASSUME DevicesOK, [Next]_vars
  PROVE  DevicesOK'
<1> USE AlertAssumption DEF AlertAssumption
<1>1. CASE MarkOffline
  BY <1>1 DEF MarkOffline, DevicesOK, DeviceRow
<1>2. ASSUME NEW d \in Devices, HeartbeatRead(d) \/ Register(d)
      PROVE  DevicesOK'
  <2>1. CASE HeartbeatRead(d)
    BY <2>1 DEF HeartbeatRead, DevicesOK
  <2>2. CASE Register(d)
    <3>1. hb' = hb /\ dev' = [dev EXCEPT ![d].online = TRUE, ![d].silent = 0]
      BY <2>2 DEF Register
    <3>2. dev' = [dev EXCEPT ![d] = [[dev[d] EXCEPT !.online = TRUE] EXCEPT !.silent = 0]]
      BY <3>1 DEF DevicesOK
    <3>3. \A x \in DeviceRow : [x EXCEPT !.online = TRUE] \in DeviceRow
      BY DEF DeviceRow
    <3>4. \A x \in DeviceRow : [x EXCEPT !.silent = 0] \in DeviceRow
      BY DEF DeviceRow
    <3>5. dev[d] \in DeviceRow
      BY DEF DevicesOK
    <3>6. [[dev[d] EXCEPT !.online = TRUE] EXCEPT !.silent = 0] \in DeviceRow
      BY <3>3, <3>4, <3>5, Zenon
    <3>7. dev' \in [Devices -> DeviceRow]
      <4> DEFINE row == [[dev[d] EXCEPT !.online = TRUE] EXCEPT !.silent = 0]
      <4>1. dev' = [dev EXCEPT ![d] = row] /\ row \in DeviceRow
        BY <3>2, <3>6
      <4>2. dev \in [Devices -> DeviceRow]
        BY DEF DevicesOK
      <4> HIDE DEF row
      <4>3. QED
        BY <4>1, <4>2
    <3>8. QED
      BY <3>1, <3>7 DEF DevicesOK
  <2>3. QED
    BY <1>2, <2>1, <2>2
<1>3. ASSUME NEW d \in Devices, NEW high \in BOOLEAN, HeartbeatCommit(d, high)
      PROVE  DevicesOK'
  <2>1. (hb[d] = "wasOffline" \/ dev[d].online) \in BOOLEAN
    OBVIOUS
  <2>2. \A x \in BOOLEAN : [online |-> x, silent |-> 0, high |-> high] \in DeviceRow
    BY DEF DeviceRow
  <2>3. [online |-> hb[d] = "wasOffline" \/ dev[d].online, silent |-> 0, high |-> high] \in DeviceRow
    BY <2>1, <2>2, Zenon
  <2>4. /\ dev' = [dev EXCEPT ![d] = [online |-> hb[d] = "wasOffline" \/ dev[d].online,
                                      silent |-> 0, high |-> high]]
        /\ hb' = [hb EXCEPT ![d] = "none"]
    BY <1>3, Zenon DEF HeartbeatCommit
  <2>5. dev' \in [Devices -> DeviceRow]
    BY <2>3, <2>4, Zenon DEF DevicesOK
  <2>6. QED
    BY <2>4, <2>5 DEF DevicesOK
<1>4. CASE Tick
  <2>1. /\ dev' = [d \in Devices |-> [dev[d] EXCEPT !.silent = Older(dev[d].silent, OfflineAfter + 1)]]
        /\ hb' = hb
    BY <1>4 DEF Tick
  <2>2. \A n \in 0..(OfflineAfter + 1) : Older(n, OfflineAfter + 1) \in 0..(OfflineAfter + 1)
    BY DEF Older
  <2>3. \A x \in DeviceRow : /\ x.silent \in 0..(OfflineAfter + 1)
                             /\ \A n \in 0..(OfflineAfter + 1) : [x EXCEPT !.silent = n] \in DeviceRow
    BY DEF DeviceRow
  <2>4. dev' \in [Devices -> DeviceRow]
    BY <2>1, <2>2, <2>3 DEF DevicesOK
  <2>5. QED
    BY <2>1, <2>4 DEF DevicesOK
<1>5. CASE UNCHANGED <<dev, hb>>
  BY <1>5 DEF DevicesOK
<1>6. QED
  BY <1>1, <1>2, <1>3, <1>4, <1>5
  DEF Next, Evaluate, Agents, People, Begin, Commit, EvaluationFails, EvaluationDies,
      Acknowledge, Resolve, SwitchRule, vars

LEMMA EvaluationsStep ==
  ASSUME EvaluationsOK, [Next]_vars
  PROVE  EvaluationsOK'
<1> USE AlertAssumption DEF AlertAssumption
<1>1. NoEvaluation \in Evaluation
  BY DEF NoEvaluation, Evaluation
<1>2. ASSUME NEW e \in Evaluators, Begin(e)
      PROVE  EvaluationsOK'
  <2>1. PICK locks \in BOOLEAN, entry \in Entries :
          /\ IF locks THEN LockFree /\ lock' = LockTTL /\ UNCHANGED <<faults, unsafe>>
                      ELSE /\ faults < MaxFaults /\ faults' = faults + 1
                           /\ unsafe' = TRUE /\ UNCHANGED lock
          /\ ev' = [ev EXCEPT ![e] =
                      [running |-> TRUE, holds |-> locks, age |-> 0,
                       fire |-> {d \in Online : dev[d].high /\ MayFire(d, entry)},
                       calm |-> {d \in Online : ~dev[d].high /\ HasLive(d)}]]
    BY <1>2 DEF Begin
  <2>2. \A x, y \in SUBSET Devices :
          [running |-> TRUE, holds |-> locks, age |-> 0, fire |-> x, calm |-> y] \in Evaluation
    BY DEF Evaluation
  <2>3. /\ {d \in Online : dev[d].high /\ MayFire(d, entry)} \in SUBSET Devices
        /\ {d \in Online : ~dev[d].high /\ HasLive(d)} \in SUBSET Devices
    BY DEF Online
  <2>4. ev' \in [Evaluators -> Evaluation]
    BY <2>1, <2>2, <2>3, Zenon DEF EvaluationsOK
  <2>5. lock' \in 0..LockTTL /\ faults' \in 0..MaxFaults
    BY <2>1 DEF EvaluationsOK
  <2>6. QED
    BY <2>4, <2>5 DEF EvaluationsOK
<1>3. ASSUME NEW e \in Evaluators, Commit(e) \/ EvaluationFails(e) \/ EvaluationDies(e)
      PROVE  EvaluationsOK'
  <2>1. ev' = [ev EXCEPT ![e] = NoEvaluation]
    BY <1>3 DEF Commit, EvaluationFails, EvaluationDies
  <2>2. lock' \in 0..LockTTL /\ faults' \in 0..MaxFaults
    BY <1>3 DEF Commit, EvaluationFails, EvaluationDies, Unlocked, EvaluationsOK
  <2>3. QED
    BY <1>1, <2>1, <2>2 DEF EvaluationsOK
<1>4. CASE Tick
  <2>1. \A e \in Evaluators : ev[e].running => ev[e].age < MaxEval
    BY <1>4 DEF Tick
  <2>2. \A x \in Evaluation : /\ x.age \in 0..MaxEval
                              /\ \A n \in 0..MaxEval : [x EXCEPT !.age = n] \in Evaluation
    BY DEF Evaluation
  <2>3. ev' = [e \in Evaluators |-> IF ev[e].running THEN [ev[e] EXCEPT !.age = ev[e].age + 1] ELSE ev[e]]
    BY <1>4 DEF Tick
  <2>4. ASSUME NEW e \in Evaluators
        PROVE  ev'[e] \in Evaluation
    <3>0. ev[e] \in Evaluation
      BY DEF EvaluationsOK
    <3>1. ev[e].running => ev[e].age + 1 \in 0..MaxEval
      BY <2>1, <2>2, <3>0
    <3>2. ev[e].running => [ev[e] EXCEPT !.age = ev[e].age + 1] \in Evaluation
      BY <2>2, <3>0, <3>1
    <3>3. ev'[e] = IF ev[e].running THEN [ev[e] EXCEPT !.age = ev[e].age + 1] ELSE ev[e]
      BY <2>3
    <3>4. CASE ev[e].running
      BY <3>2, <3>3, <3>4
    <3>5. CASE ~ev[e].running
      BY <3>0, <3>3, <3>5
    <3>6. QED
      BY <3>4, <3>5
  <2>5. ev' \in [Evaluators -> Evaluation]
    BY <2>3, <2>4
  <2>6. faults' = faults /\ lock' \in 0..LockTTL
    <3>1. lock' = (IF lock = 0 THEN 0 ELSE lock - 1) /\ faults' = faults
      BY <1>4 DEF Tick
    <3>2. lock \in 0..LockTTL /\ LockTTL \in Nat
      BY DEF EvaluationsOK
    <3>3. QED
      BY <3>1, <3>2
  <2>7. QED
    BY <2>5, <2>6 DEF EvaluationsOK
<1>5. CASE UNCHANGED <<lock, ev, faults>>
  BY <1>5 DEF EvaluationsOK
<1>6. QED
  BY <1>2, <1>3, <1>4, <1>5
  DEF Next, Evaluate, Agents, People, MarkOffline, HeartbeatRead, HeartbeatCommit, Register,
      Acknowledge, Resolve, SwitchRule, vars

LEMMA SwitchesStep ==
  ASSUME SwitchesOK, [Next]_vars
  PROVE  SwitchesOK'
<1>1. ASSUME NEW r \in Rule, SwitchRule(r)
      PROVE  SwitchesOK'
  <2>1. active' = [active EXCEPT ![r] = ~active[r]]
    BY <1>1, Zenon DEF SwitchRule
  <2>2. QED
    BY <2>1, Zenon DEF SwitchesOK
<1>2. CASE UNCHANGED active
  BY <1>2, Zenon DEF SwitchesOK
<1>3. QED
  BY <1>1, <1>2
  DEF Next, Evaluate, Agents, People, Begin, Commit, EvaluationFails, EvaluationDies, MarkOffline,
      HeartbeatRead, HeartbeatCommit, Register, Acknowledge, Resolve, Tick, vars

\* The mark of unsafe evaluations is never taken back.
LEMMA HistoryStep ==
  ASSUME [Next]_vars
  PROVE  (HistoryOK => HistoryOK') /\ (unsafe => unsafe')
<1>1. ASSUME NEW e \in Evaluators, Begin(e)
      PROVE  (HistoryOK => HistoryOK') /\ (unsafe => unsafe')
  BY <1>1, Zenon DEF Begin, HistoryOK
<1>2. ASSUME Tick
      PROVE  (HistoryOK => HistoryOK') /\ (unsafe => unsafe')
  BY <1>2, Zenon DEF Tick, HistoryOK
<1>3. CASE unsafe' = unsafe
  BY <1>3, Zenon DEF HistoryOK
<1>4. QED
  BY <1>1, <1>2, <1>3, Zenon
  DEF Next, Evaluate, Agents, People, Commit, EvaluationFails, EvaluationDies, MarkOffline,
      HeartbeatRead, HeartbeatCommit, Register, Acknowledge, Resolve, SwitchRule, vars

LEMMA InitTypes == Init => TypeOK
<1> SUFFICES ASSUME Init PROVE TypeOK
  OBVIOUS
<1> USE AlertAssumption DEF AlertAssumption
<1>1. AlertsOK
  <2>1. (CHOOSE d \in Devices : TRUE) \in Devices
    OBVIOUS
  <2>2. \A d \in Devices : [st |-> "none", rule |-> "metric", dev |-> d, age |-> 0] \in AlertRow
    BY AgeFacts DEF AlertRow, Rule
  <2>3. [st |-> "none", rule |-> "metric", dev |-> CHOOSE d \in Devices : TRUE, age |-> 0] \in AlertRow
    BY <2>1, <2>2
  <2>4. QED
    BY <2>3 DEF Init, AlertsOK
<1>2. DevicesOK
  <2>1. [online |-> TRUE, silent |-> 0, high |-> FALSE] \in DeviceRow
    BY DEF DeviceRow
  <2>2. QED
    BY <2>1 DEF Init, DevicesOK
<1>3. EvaluationsOK
  BY DEF Init, EvaluationsOK, Evaluation, NoEvaluation
<1>4. SwitchesOK /\ HistoryOK
  BY Zenon DEF Init, SwitchesOK, HistoryOK
<1>5. QED
  BY <1>1, <1>2, <1>3, <1>4, TypeParts

LEMMA TypeStep == TypeOK /\ [Next]_vars => TypeOK'
<1> SUFFICES ASSUME TypeOK, [Next]_vars PROVE TypeOK'
  OBVIOUS
<1>1. AlertsOK /\ DevicesOK /\ EvaluationsOK /\ SwitchesOK /\ HistoryOK
  BY TypeParts
<1>2. AlertsOK' /\ DevicesOK' /\ EvaluationsOK' /\ SwitchesOK' /\ HistoryOK'
  BY <1>1, AlertsStep, DevicesStep, EvaluationsStep, SwitchesStep, HistoryStep
<1>3. QED
  BY <1>2 DEF TypeOK, AlertsOK, DevicesOK, EvaluationsOK, SwitchesOK, HistoryOK

\* Every variable keeps its type, for any number of alerts, faults and
\* evaluating processes.
THEOREM TypeCorrect == Spec => []TypeOK
BY InitTypes, TypeStep, PTL DEF Spec

-----------------------------------------------------------------------------
(* Evaluations exclude each other.                                         *)

\* While no evaluation has run without the lock or outlived it, whoever runs
\* holds the lock, for LockTTL ticks since it began.
LockInv ==
  ~unsafe => \A e \in Evaluators : ev[e].running =>
               ev[e].holds /\ ev[e].age < LockTTL /\ LockTTL <= lock + ev[e].age

ExclusiveInv == LockInv /\ ExclusiveUnlessUnsafe

LEMMA InitExclusive == Init => ExclusiveInv
BY DEF Init, ExclusiveInv, LockInv, ExclusiveUnlessUnsafe, NoEvaluation

\* What the end of an evaluation leaves of evaluations and lock.
LEMMA EndFacts ==
  ASSUME EvaluationsOK, ExclusiveInv, NEW e \in Evaluators,
         ev[e].running, ev' = [ev EXCEPT ![e] = NoEvaluation], unsafe' = unsafe
  PROVE  ExclusiveInv' /\ \A f \in Evaluators : ~unsafe => ~ev'[f].running
<1>1. ~NoEvaluation.running
  BY DEF NoEvaluation
<1>2. \A f \in Evaluators : ~unsafe => ~ev'[f].running
  BY <1>1 DEF ExclusiveInv, ExclusiveUnlessUnsafe, EvaluationsOK
<1>3. QED
  BY <1>2 DEF ExclusiveInv, ExclusiveUnlessUnsafe, LockInv

\* No alert of device d was resolved of late, or one that was has passed
\* because another rule has a longer cooldown.
Fresh(d) ==
  \/ Recent(d) = {}
  \/ Cooldown < MaxCooldown /\ \E a \in Recent(d) : ~Cooling(a)

\* What the beginning of one makes of them.
LEMMA BeginFacts ==
  ASSUME NEW e \in Evaluators, Begin(e)
  PROVE  \E new \in Evaluation :
           /\ ev' = [ev EXCEPT ![e] = new] /\ alert' = alert
           /\ new.running /\ new.age = 0
           /\ ~unsafe' => new.holds /\ lock = 0 /\ lock' = LockTTL /\ ~unsafe
           /\ \A d \in new.fire : ~HasLive(d)
           /\ AlertsOK => \A d \in new.fire : Fresh(d)
<1> USE AlertAssumption DEF AlertAssumption
<1>1. PICK locks \in BOOLEAN, entry \in Entries :
        /\ IF locks THEN LockFree /\ lock' = LockTTL /\ UNCHANGED <<faults, unsafe>>
                    ELSE /\ faults < MaxFaults /\ faults' = faults + 1
                         /\ unsafe' = TRUE /\ UNCHANGED lock
        /\ ev' = [ev EXCEPT ![e] =
                    [running |-> TRUE, holds |-> locks, age |-> 0,
                     fire |-> {d \in Online : dev[d].high /\ MayFire(d, entry)},
                     calm |-> {d \in Online : ~dev[d].high /\ HasLive(d)}]]
  BY DEF Begin
<1> DEFINE new == [running |-> TRUE, holds |-> locks, age |-> 0,
                   fire |-> {d \in Online : dev[d].high /\ MayFire(d, entry)},
                   calm |-> {d \in Online : ~dev[d].high /\ HasLive(d)}]
<1>2. ~unsafe' => locks /\ lock = 0 /\ lock' = LockTTL /\ ~unsafe
  BY <1>1 DEF LockFree
<1>3. new \in Evaluation
  BY DEF Evaluation, Online
<1>4. new.running /\ new.holds = locks /\ new.age = 0
  OBVIOUS
<1>5. ASSUME NEW d \in new.fire
      PROVE  ~HasLive(d) /\ (AlertsOK => Fresh(d))
  <2>1. d \in Devices /\ ~HasLive(d) /\ \A a \in entry[d] : ~Cooling(a)
    BY <1>5 DEF Online, MayFire
  <2>2. CASE Recent(d) = {}
    BY <2>1, <2>2 DEF Fresh
  <2>3. ASSUME AlertsOK, Recent(d) # {}
        PROVE  Fresh(d)
    <3>1. PICK a \in Recent(d) : entry[d] = {a}
      BY <2>1, <2>3 DEF Entries
    <3>2. ~Cooling(a)
      BY <2>1, <3>1
    <3>3. a \in Alert /\ alert[a].age <= MaxCooldown
      BY <3>1 DEF Recent
    <3>4. alert[a].age \in Nat
      BY <2>3, <3>3 DEF AlertsOK, AlertRow, OldestAge
    <3>5. Cooldown < MaxCooldown
      BY <3>2, <3>3, <3>4 DEF Cooling
    <3>6. QED
      BY <3>1, <3>2, <3>5 DEF Fresh
  <2>4. QED
    BY <2>1, <2>2, <2>3
<1>6. ev' = [ev EXCEPT ![e] = new]
  BY <1>1, Zenon
<1>7. alert' = alert
  BY DEF Begin
<1> HIDE DEF new
<1>8. ~unsafe' => new.holds
  BY <1>2, <1>4, Zenon
<1>9. QED
  BY <1>2, <1>3, <1>4, <1>5, <1>6, <1>7, <1>8

LEMMA ExclusiveStep ==
  ASSUME EvaluationsOK, ExclusiveInv, [Next]_vars
  PROVE  ExclusiveInv'
<1> USE AlertAssumption DEF AlertAssumption
<1>1. ASSUME NEW e \in Evaluators, Begin(e)
      PROVE  ExclusiveInv'
  <2>1. CASE unsafe'
    BY <2>1 DEF ExclusiveInv, LockInv, ExclusiveUnlessUnsafe
  <2>2. CASE ~unsafe'
    <3>1. PICK new \in Evaluation : /\ ev' = [ev EXCEPT ![e] = new]
                                    /\ new.running /\ new.holds /\ new.age = 0
                                    /\ lock = 0 /\ lock' = LockTTL /\ ~unsafe
      BY <1>1, <2>2, BeginFacts
    <3>2. \A f \in Evaluators : ~ev[f].running
      BY <3>1 DEF ExclusiveInv, LockInv, EvaluationsOK, Evaluation
    <3>3. ev'[e] = new /\ \A f \in Evaluators : f # e => ~ev'[f].running
      BY <3>1, <3>2 DEF EvaluationsOK
    <3>4. QED
      BY <3>1, <3>3 DEF ExclusiveInv, LockInv, ExclusiveUnlessUnsafe
  <2>3. QED
    BY <2>1, <2>2
<1>2. ASSUME NEW e \in Evaluators, Commit(e) \/ EvaluationFails(e) \/ EvaluationDies(e)
      PROVE  ExclusiveInv'
  <2>1. ev[e].running /\ ev' = [ev EXCEPT ![e] = NoEvaluation] /\ unsafe' = unsafe
    BY <1>2 DEF Commit, EvaluationFails, EvaluationDies
  <2>2. QED
    BY <2>1, EndFacts
<1>3. CASE Tick
  <2>1. CASE unsafe'
    BY <2>1 DEF ExclusiveInv, LockInv, ExclusiveUnlessUnsafe
  <2>2. CASE ~unsafe'
    <3>1. ~unsafe /\ \A e \in Evaluators : ev[e].running => ev[e].age + 1 < LockTTL
      <4>1. ~unsafe /\ \A e \in Evaluators : ev[e].running => ~(ev[e].age + 1 >= LockTTL)
        BY <1>3, <2>2, Zenon DEF Tick
      <4>2. QED
        BY <4>1 DEF EvaluationsOK, Evaluation
    <3>2. \A e \in Evaluators : /\ ev'[e].running = ev[e].running /\ ev'[e].holds = ev[e].holds
                                /\ ev[e].running => ev'[e].age = ev[e].age + 1
      BY <1>3 DEF Tick, EvaluationsOK, Evaluation
    <3>3. lock' = IF lock = 0 THEN 0 ELSE lock - 1
      BY <1>3 DEF Tick
    <3>4. LockInv'
      BY <3>1, <3>2, <3>3 DEF ExclusiveInv, LockInv, EvaluationsOK, Evaluation
    <3>5. ExclusiveUnlessUnsafe'
      BY <3>1, <3>2 DEF ExclusiveInv, ExclusiveUnlessUnsafe
    <3>6. QED
      BY <3>4, <3>5 DEF ExclusiveInv
  <2>3. QED
    BY <2>1, <2>2
<1>4. CASE UNCHANGED <<lock, ev, unsafe>>
  BY <1>4 DEF ExclusiveInv, LockInv, ExclusiveUnlessUnsafe
<1>5. QED
  BY <1>1, <1>2, <1>3, <1>4
  DEF Next, Evaluate, Agents, People, MarkOffline, HeartbeatRead, HeartbeatCommit, Register,
      Acknowledge, Resolve, SwitchRule, vars

\* Only one evaluation runs at a time, unless one ran without the lock or
\* outlived it.
THEOREM ExclusiveAlways == Spec => []ExclusiveUnlessUnsafe
<1> DEFINE I == TypeOK /\ ExclusiveInv
<1>1. Init => I
  BY InitTypes, InitExclusive
<1>2. I /\ [Next]_vars => I'
  BY TypeStep, ExclusiveStep, TypeParts
<1>3. I => ExclusiveUnlessUnsafe
  BY DEF ExclusiveInv
<1>4. QED
  BY <1>1, <1>2, <1>3, PTL DEF Spec

-----------------------------------------------------------------------------
(* One open alert.                                                         *)

\* What a running evaluation will alert about has no open alert yet.
FireInv ==
  ~unsafe => \A e \in Evaluators : ev[e].running =>
               \A d \in ev[e].fire, a \in Alert : ~Open(a, "metric", d)

OpenInv == FireInv /\ OneOpen

\* Steps that open nothing and begin nothing.
LEMMA NothingOpened ==
  ASSUME OpenInv, [Next]_vars,
         \A a \in Alert, r \in Rule, d \in Devices : Open(a, r, d)' => Open(a, r, d),
         \A e \in Evaluators : ev'[e].running =>
            ev[e].running /\ ev'[e].fire = ev[e].fire /\ ev[e].fire \subseteq Devices
  PROVE  OpenInv'
<1>1. unsafe => unsafe'
  BY HistoryStep
<1>2. "metric" \in Rule /\ "offline" \in Rule
  BY DEF Rule
<1>3. FireInv'
  BY <1>1, <1>2 DEF OpenInv, FireInv
<1>4. OneOpen'
  BY <1>1, <1>2 DEF OpenInv, OneOpen
<1>5. QED
  BY <1>3, <1>4 DEF OpenInv

LEMMA OpenStep ==
  ASSUME AlertsOK, EvaluationsOK, ExclusiveInv, OpenInv, [Next]_vars
  PROVE  OpenInv'
<1> USE AlertAssumption DEF AlertAssumption
<1>1. \A e \in Evaluators : ev[e].fire \subseteq Devices
  BY DEF EvaluationsOK, Evaluation
<1>2. ASSUME NEW e \in Evaluators, Begin(e)
      PROVE  OpenInv'
  <2>1. PICK new \in Evaluation : /\ ev' = [ev EXCEPT ![e] = new] /\ alert' = alert
                                  /\ \A d \in new.fire : ~HasLive(d)
    BY <1>2, BeginFacts
  <2>2. \A d \in new.fire, a \in Alert : ~Open(a, "metric", d)'
    BY <2>1 DEF HasLive, Live, Open, Of
  <2>3. OneOpen'
    BY <2>1, HistoryStep DEF OpenInv, OneOpen, Open, Of
  <2>4. unsafe => unsafe'
    BY HistoryStep
  <2>5. FireInv'
    BY <2>1, <2>2, <2>4 DEF OpenInv, FireInv, Open, Of, EvaluationsOK
  <2>6. QED
    BY <2>3, <2>5 DEF OpenInv
<1>3. ASSUME NEW e \in Evaluators, Commit(e)
      PROVE  OpenInv'
  <2>1. ev[e].running /\ ev' = [ev EXCEPT ![e] = NoEvaluation] /\ unsafe' = unsafe
    BY <1>3 DEF Commit
  <2>2. \A f \in Evaluators : ~unsafe => ~ev'[f].running
    BY <2>1, EndFacts
  <2>3. FireInv'
    BY <2>1, <2>2 DEF FireInv
  <2>4. ASSUME NEW d \in Devices, NEW a \in Alert, NEW b \in Alert,
               Open(a, "offline", d)', Open(b, "offline", d)'
        PROVE  a = b
    <3>1. Open(a, "offline", d) /\ Open(b, "offline", d)
      BY <1>3, <2>4, CommitFacts DEF Open, Of
    <3>2. QED
      BY <3>1 DEF OpenInv, OneOpen
  <2>5. ASSUME NEW d \in Devices, NEW a \in Alert, NEW b \in Alert, ~unsafe,
               Open(a, "metric", d)', Open(b, "metric", d)'
        PROVE  a = b
    <3>1. \A c \in {a, b} : \/ Open(c, "metric", d)
                            \/ alert[c].st = "none" /\ alert'[c].st = "open" /\ alert'[c].dev = d /\ d \in ev[e].fire
      BY <1>3, <2>5, CommitFacts DEF Open, Of
    <3>2. CASE d \in ev[e].fire
      <4>1. ~Open(a, "metric", d) /\ ~Open(b, "metric", d)
        BY <2>1, <2>5, <3>2 DEF OpenInv, FireInv
      <4>2. QED
        BY <1>3, <3>1, <4>1, CommitFacts
    <3>3. CASE d \notin ev[e].fire
      BY <2>5, <3>1, <3>3 DEF OpenInv, OneOpen
    <3>4. QED
      BY <3>2, <3>3
  <2>6. OneOpen'
    BY <2>1, <2>4, <2>5 DEF OneOpen
  <2>7. QED
    BY <2>3, <2>6 DEF OpenInv
<1>4. CASE MarkOffline
  <2>1. ev' = ev /\ unsafe' = unsafe
    BY <1>4 DEF MarkOffline
  <2>2. PICK D \in SUBSET Devices :
           /\ \A d \in D, a \in Alert : ~Open(a, "offline", d)
           /\ IsNew(alert', alert, "offline", D)
    BY <1>4, MarkFacts
  <2>3. \A d \in Devices, a \in Alert : Open(a, "metric", d)' => Open(a, "metric", d)
    BY <2>2 DEF IsNew, Open, Of
  <2>4. \A d \in Devices, a \in Alert :
          Open(a, "offline", d)' =>
            \/ Open(a, "offline", d)
            \/ alert[a].st = "none" /\ alert'[a].st = "open" /\ alert'[a].dev = d /\ d \in D
    BY <2>2 DEF IsNew, Open, Of
  <2>5. ASSUME NEW d \in Devices, NEW a \in Alert, NEW b \in Alert,
               Open(a, "offline", d)', Open(b, "offline", d)'
        PROVE  a = b
    <3>1. CASE d \in D
      <4>1. ~Open(a, "offline", d) /\ ~Open(b, "offline", d)
        BY <2>2, <3>1
      <4>2. QED
        BY <2>2, <2>4, <2>5, <4>1 DEF IsNew
    <3>2. CASE d \notin D
      BY <2>4, <2>5, <3>2 DEF OpenInv, OneOpen
    <3>3. QED
      BY <3>1, <3>2
  <2>6. OneOpen'
    BY <2>1, <2>3, <2>5 DEF OpenInv, OneOpen
  <2>7. FireInv'
    BY <1>1, <2>1, <2>3 DEF OpenInv, FireInv
  <2>8. QED
    BY <2>6, <2>7 DEF OpenInv
<1>5. ASSUME NEW d \in Devices, NEW high \in BOOLEAN, HeartbeatCommit(d, high)
      PROVE  OpenInv'
  <2>1. ev' = ev
    BY <1>5 DEF HeartbeatCommit
  <2>2. \A a \in Alert, r \in Rule, c \in Devices : Open(a, r, c)' => Open(a, r, c)
    BY <1>5, HeartbeatFacts DEF IsResolved, Open, Of
  <2>3. QED
    BY <1>1, <2>1, <2>2, NothingOpened
<1>6. ASSUME NEW a \in Alert, Acknowledge(a) \/ Resolve(a)
      PROVE  OpenInv'
  <2>1. ev' = ev
    BY <1>6 DEF Acknowledge, Resolve
  <2>2. \A b \in Alert, r \in Rule, c \in Devices : Open(b, r, c)' => Open(b, r, c)
    BY <1>6, PeopleFacts DEF Open, Of
  <2>3. QED
    BY <1>1, <2>1, <2>2, NothingOpened
<1>7. CASE Tick
  <2>1. \A e \in Evaluators : ev'[e].running = ev[e].running /\ ev'[e].fire = ev[e].fire
    BY <1>7 DEF Tick, EvaluationsOK, Evaluation
  <2>2. \A a \in Alert, r \in Rule, c \in Devices : Open(a, r, c)' => Open(a, r, c)
    BY <1>7, TickFacts DEF Open, Of
  <2>3. QED
    BY <1>1, <2>1, <2>2, NothingOpened
<1>8. ASSUME NEW e \in Evaluators, EvaluationFails(e) \/ EvaluationDies(e)
      PROVE  OpenInv'
  <2>1. alert' = alert /\ ev' = [ev EXCEPT ![e] = NoEvaluation]
    BY <1>8 DEF EvaluationFails, EvaluationDies
  <2>2. \A f \in Evaluators : ev'[f].running => ev'[f] = ev[f]
    BY <2>1 DEF EvaluationsOK, NoEvaluation
  <2>3. \A a \in Alert, r \in Rule, c \in Devices : Open(a, r, c)' => Open(a, r, c)
    BY <2>1 DEF Open, Of
  <2>4. QED
    BY <1>1, <2>2, <2>3, NothingOpened
<1>9. CASE UNCHANGED <<alert, ev>>
  <2>1. \A a \in Alert, r \in Rule, c \in Devices : Open(a, r, c)' => Open(a, r, c)
    BY <1>9 DEF Open, Of
  <2>2. QED
    BY <1>1, <1>9, <2>1, NothingOpened
<1>10. QED
  BY <1>2, <1>3, <1>4, <1>5, <1>6, <1>7, <1>8, <1>9
  DEF Next, Evaluate, Agents, People, HeartbeatRead, Register, SwitchRule, vars

\* A device has at most one open offline alert, and at most one of the metric
\* rule while evaluations keep to the lock.
THEOREM OneOpenAlways == Spec => []OneOpen
<1> DEFINE I == TypeOK /\ ExclusiveInv /\ OpenInv
<1>1. Init => I
  <2>1. Init => OpenInv
    BY DEF Init, OpenInv, FireInv, OneOpen, Open, Of, NoEvaluation
  <2>2. QED
    BY <2>1, InitTypes, InitExclusive
<1>2. I /\ [Next]_vars => I'
  BY TypeStep, ExclusiveStep, OpenStep, TypeParts
<1>3. I => OneOpen
  BY DEF OpenInv
<1>4. QED
  BY <1>1, <1>2, <1>3, PTL DEF Spec

-----------------------------------------------------------------------------
(* Acknowledgements and cooldowns.                                         *)

\* No evaluation and no heartbeat resolves an acknowledged alert.
THEOREM AcknowledgementAlways == Spec => AcknowledgementKept
<1>1. ASSUME AlertsOK, EvaluationsOK, Next, NEW a \in Alert,
             alert[a].st = "acknowledged", alert'[a].st = "resolved"
      PROVE  ev' = ev /\ hb' = hb
  <2>1. \A e \in Evaluators : ~Commit(e)
    BY <1>1, CommitFacts
  <2>2. \A d \in Devices, high \in BOOLEAN : ~HeartbeatCommit(d, high)
    BY <1>1, HeartbeatFacts DEF IsResolved
  <2>3. ~Tick
    BY <1>1, TickFacts
  <2>4. alert' # alert
    BY <1>1
  <2>5. QED
    BY <1>1, <2>1, <2>2, <2>3, <2>4
    DEF Next, Evaluate, Agents, People, Begin, EvaluationFails, EvaluationDies, MarkOffline,
        HeartbeatRead, Register, Acknowledge, Resolve, SwitchRule
<1>2. TypeOK /\ [Next]_vars
      => [\A a \in Alert : alert[a].st = "acknowledged" /\ alert'[a].st = "resolved"
                           => ev' = ev /\ hb' = hb]_vars
  BY <1>1, TypeParts
<1>3. QED
  BY <1>2, InitTypes, TypeStep, PTL DEF Spec, AcknowledgementKept

\* While evaluations keep to the lock: what the cooldown asks of a device that
\* a running evaluation will alert about holds as long as it runs.
CoolInv ==
  ~unsafe => \A e \in Evaluators : ev[e].running =>
    \A d \in ev[e].fire :
      \/ \A a \in Alert : Of(a, "metric", d) => Passed(a, e)
      \/ Cooldown < MaxCooldown /\ \E a \in Alert : Of(a, "metric", d) /\ Passed(a, e)

\* An alert that evaluation e has passed stays so, and it is passed when it is new.
Keeps(e) ==
  \A d \in Devices, a \in Alert :
    /\ Of(a, "metric", d) => Of(a, "metric", d)'
    /\ Of(a, "metric", d)' /\ (Of(a, "metric", d) => Passed(a, e)) => Passed(a, e)'

\* Steps after which every running evaluation has passed what it had passed.
LEMMA PassedStays ==
  ASSUME CoolInv, [Next]_vars,
         NEW E \in SUBSET Evaluators,
         \A e \in E : ev'[e].running =>
           ev[e].running /\ ev'[e].fire = ev[e].fire /\ ev[e].fire \subseteq Devices /\ Keeps(e)
  PROVE  ~unsafe' => \A e \in E : ev'[e].running =>
           \A d \in ev'[e].fire :
             \/ \A a \in Alert : Of(a, "metric", d)' => Passed(a, e)'
             \/ Cooldown < MaxCooldown /\ \E a \in Alert : Of(a, "metric", d)' /\ Passed(a, e)'
<1>1. SUFFICES ASSUME ~unsafe', NEW e \in E, ev'[e].running, NEW d \in ev'[e].fire
               PROVE  \/ \A a \in Alert : Of(a, "metric", d)' => Passed(a, e)'
                      \/ Cooldown < MaxCooldown /\ \E a \in Alert : Of(a, "metric", d)' /\ Passed(a, e)'
  OBVIOUS
<1>2. ~unsafe
  BY <1>1, HistoryStep
<1>3. ev[e].running /\ d \in ev[e].fire /\ d \in Devices /\ Keeps(e)
  BY <1>1
<1>4. CASE \A a \in Alert : Of(a, "metric", d) => Passed(a, e)
  BY <1>3, <1>4 DEF Keeps
<1>5. CASE Cooldown < MaxCooldown /\ \E a \in Alert : Of(a, "metric", d) /\ Passed(a, e)
  BY <1>3, <1>5 DEF Keeps
<1>6. QED
  BY <1>2, <1>3, <1>4, <1>5 DEF CoolInv

\* Rows that keep their place and are resolved now or not at all are passed.
LEMMA RowsKeep ==
  ASSUME AlertsOK, EvaluationsOK, NEW e \in Evaluators, ev'[e].age = ev[e].age,
         \A a \in Alert :
           \/ alert'[a] = alert[a]
           \/ /\ alert[a].st # "none" => alert'[a].rule = alert[a].rule /\ alert'[a].dev = alert[a].dev
              /\ alert'[a].st # "none"
              /\ alert'[a].st # "resolved" \/ alert'[a].age = 0 \/ alert'[a].rule = "offline"
  PROVE  Keeps(e)
<1>1. ev[e].age \in Nat
  BY AlertAssumption DEF AlertAssumption, EvaluationsOK, Evaluation
<1>2. SUFFICES ASSUME NEW d \in Devices, NEW a \in Alert
               PROVE  /\ Of(a, "metric", d) => Of(a, "metric", d)'
                      /\ Of(a, "metric", d)' /\ (Of(a, "metric", d) => Passed(a, e)) => Passed(a, e)'
  BY DEF Keeps
<1>3. CASE alert'[a] = alert[a]
  BY <1>3 DEF Of, Passed, Cooling
<1>4. CASE /\ alert[a].st # "none" => alert'[a].rule = alert[a].rule /\ alert'[a].dev = alert[a].dev
           /\ alert'[a].st # "none"
           /\ alert'[a].st # "resolved" \/ alert'[a].age = 0 \/ alert'[a].rule = "offline"
  <2>1. Of(a, "metric", d) => Of(a, "metric", d)'
    BY <1>4 DEF Of
  <2>2. ASSUME Of(a, "metric", d)'
        PROVE  Passed(a, e)'
    <3>1. alert'[a].rule = "metric"
      BY <2>2 DEF Of
    <3>2. alert'[a].st = "resolved" => alert'[a].age = 0
      BY <1>4, <3>1
    <3>3. QED
      BY <1>1, <3>2 DEF Passed
  <2>3. QED
    BY <2>1, <2>2
<1>5. QED
  BY <1>2, <1>3, <1>4

\* A tick makes both the resolution and the evaluation older by one.
LEMMA TickKeeps ==
  ASSUME AlertsOK, EvaluationsOK, Tick, NEW e \in Evaluators, ev[e].running
  PROVE  Keeps(e)
<1> USE AlertAssumption DEF AlertAssumption
<1>1. ev'[e].age = ev[e].age + 1 /\ ev[e].age \in Nat
  BY DEF Tick, EvaluationsOK, Evaluation
<1>2. SUFFICES ASSUME NEW d \in Devices, NEW a \in Alert
               PROVE  /\ Of(a, "metric", d) => Of(a, "metric", d)'
                      /\ Of(a, "metric", d)' /\ (Of(a, "metric", d) => Passed(a, e)) => Passed(a, e)'
  BY DEF Keeps
<1>3. /\ alert'[a].st = alert[a].st
      /\ alert'[a].rule = alert[a].rule /\ alert'[a].dev = alert[a].dev
      /\ alert[a].st = "resolved" => alert'[a].age = Older(alert[a].age, OldestAge)
  BY TickFacts
<1>4. alert[a].age \in 0 .. OldestAge
  BY DEF AlertsOK, AlertRow
<1>5. Of(a, "metric", d)' <=> Of(a, "metric", d)
  BY <1>3 DEF Of
<1>6. ASSUME Passed(a, e)
      PROVE  Passed(a, e)'
  <2>1. SUFFICES ASSUME alert'[a].st = "resolved"
                 PROVE  ~(alert'[a].age <= Cooldown) \/ alert'[a].age <= ev'[e].age
    BY DEF Passed, Cooling
  <2>2. alert'[a].age = Older(alert[a].age, OldestAge) /\ (~(alert[a].age <= Cooldown) \/ alert[a].age <= ev[e].age)
    BY <1>3, <1>6, <2>1 DEF Passed, Cooling
  <2>3. QED
    BY <1>1, <1>4, <2>2 DEF Older, OldestAge
<1>7. QED
  BY <1>5, <1>6

\* Every step but a tick keeps the rows as RowsKeep asks, if evaluations exclude
\* each other: the alerts a commit resolves are resolved when no other runs.
LEMMA StepKeeps ==
  ASSUME AlertsOK, EvaluationsOK, [Next]_vars, ~Tick, \A f \in Evaluators : ~Commit(f)
  PROVE  \A a \in Alert :
           \/ alert'[a] = alert[a]
           \/ /\ alert[a].st # "none" => alert'[a].rule = alert[a].rule /\ alert'[a].dev = alert[a].dev
              /\ alert'[a].st # "none"
              /\ alert'[a].st # "resolved" \/ alert'[a].age = 0 \/ alert'[a].rule = "offline"
<1> DEFINE Kept == \A a \in Alert :
           \/ alert'[a] = alert[a]
           \/ /\ alert[a].st # "none" => alert'[a].rule = alert[a].rule /\ alert'[a].dev = alert[a].dev
              /\ alert'[a].st # "none"
              /\ alert'[a].st # "resolved" \/ alert'[a].age = 0 \/ alert'[a].rule = "offline"
<1>1. CASE MarkOffline
  BY <1>1, MarkFacts DEF IsNew
<1>2. ASSUME NEW c \in Devices, NEW high \in BOOLEAN, HeartbeatCommit(c, high)
      PROVE  Kept
  BY <1>2, HeartbeatFacts DEF IsResolved
<1>3. ASSUME NEW c \in Alert, Acknowledge(c) \/ Resolve(c)
      PROVE  Kept
  BY <1>3, PeopleFacts
<1>4. CASE alert' = alert
  BY <1>4
<1>5. QED
  BY <1>1, <1>2, <1>3, <1>4
  DEF Next, Evaluate, Agents, People, Begin, EvaluationFails, EvaluationDies,
      HeartbeatRead, Register, SwitchRule, vars

LEMMA CoolStep ==
  ASSUME AlertsOK, EvaluationsOK, ExclusiveInv, CoolInv, [Next]_vars
  PROVE  CoolInv'
<1> USE AlertAssumption DEF AlertAssumption
<1>1. \A e \in Evaluators : ev[e].fire \subseteq Devices /\ ev[e].age \in Nat
  BY DEF EvaluationsOK, Evaluation
<1>2. \A a \in Alert : alert[a].age \in 0..OldestAge
  BY DEF AlertsOK, AlertRow
<1> DEFINE Cool(e) == \A d \in ev'[e].fire :
             \/ \A a \in Alert : Of(a, "metric", d)' => Passed(a, e)'
             \/ Cooldown < MaxCooldown /\ \E a \in Alert : Of(a, "metric", d)' /\ Passed(a, e)'
<1>3. SUFFICES ~unsafe' => \A e \in Evaluators : ev'[e].running => Cool(e)
  BY DEF CoolInv
<1>4. ASSUME NEW e \in Evaluators, Begin(e), NEW f \in Evaluators, ~unsafe', ev'[f].running
      PROVE  Cool(f)
  <2>1. PICK new \in Evaluation : /\ ev' = [ev EXCEPT ![e] = new] /\ alert' = alert
                                  /\ \A d \in new.fire : Fresh(d)
    BY <1>4, BeginFacts
  <2>2. \A a \in Alert, d \in Devices : Of(a, "metric", d)' = Of(a, "metric", d)
    BY <2>1 DEF Of
  <2>3. CASE f # e
    <3>1. ev'[f] = ev[f]
      BY <2>1, <2>3 DEF EvaluationsOK
    <3>2. Keeps(f)
      BY <2>1, <3>1, RowsKeep
    <3>3. \A g \in {f} : ev'[g].running =>
            ev[g].running /\ ev'[g].fire = ev[g].fire /\ ev[g].fire \subseteq Devices /\ Keeps(g)
      BY <1>1, <3>1, <3>2
    <3>4. {f} \in SUBSET Evaluators
      OBVIOUS
    <3>5. QED
      BY <1>4, <3>3, <3>4, PassedStays
  <2>4. CASE f = e
    <3>1. ev'[f].fire = new.fire /\ new.fire \subseteq Devices
      BY <2>1, <2>4 DEF EvaluationsOK, Evaluation
    <3>2. SUFFICES ASSUME NEW d \in new.fire
                   PROVE  \/ \A a \in Alert : Of(a, "metric", d)' => Passed(a, f)'
                          \/ Cooldown < MaxCooldown /\ \E a \in Alert : Of(a, "metric", d)' /\ Passed(a, f)'
      BY <3>1
    <3>3. d \in Devices /\ Fresh(d)
      BY <2>1, <3>1
    <3>4. \A a \in Alert : Of(a, "metric", d)' = Of(a, "metric", d)
      BY <2>2, <3>3
    <3>5. \A a \in Alert : (alert[a].st # "resolved" \/ ~Cooling(a)) => Passed(a, f)'
      BY <2>1 DEF Passed, Cooling
    <3>6. ASSUME Recent(d) = {}
          PROVE  \A a \in Alert : Of(a, "metric", d)' => Passed(a, f)'
      <4>1. SUFFICES ASSUME NEW a \in Alert, Of(a, "metric", d), alert[a].st = "resolved"
                     PROVE  ~Cooling(a)
        BY <3>4, <3>5
      <4>2. ~(alert[a].age <= MaxCooldown)
        BY <3>6, <4>1 DEF Recent
      <4>3. QED
        BY <1>2, <4>2 DEF Cooling, OldestAge
    <3>7. ASSUME NEW a \in Recent(d), ~Cooling(a)
          PROVE  a \in Alert /\ Of(a, "metric", d)' /\ Passed(a, f)'
      BY <3>4, <3>5, <3>7 DEF Recent
    <3>8. QED
      BY <3>3, <3>6, <3>7 DEF Fresh
  <2>5. QED
    BY <2>3, <2>4
<1>5. ASSUME NEW e \in Evaluators, Commit(e) \/ EvaluationFails(e) \/ EvaluationDies(e)
      PROVE  ~unsafe' => \A f \in Evaluators : ~ev'[f].running
  <2>1. ev[e].running /\ ev' = [ev EXCEPT ![e] = NoEvaluation] /\ unsafe' = unsafe
    BY <1>5 DEF Commit, EvaluationFails, EvaluationDies
  <2>2. QED
    BY <2>1, EndFacts
<1>6. ASSUME Tick, NEW e \in Evaluators, ev'[e].running
      PROVE  ev[e].running /\ ev'[e].fire = ev[e].fire /\ ev[e].fire \subseteq Devices /\ Keeps(e)
  <2>1. ev[e].running /\ ev'[e].fire = ev[e].fire
    BY <1>6 DEF Tick, EvaluationsOK, Evaluation
  <2>2. QED
    BY <1>1, <1>6, <2>1, TickKeeps
<1>7. ASSUME ~Tick, \A f \in Evaluators : ~Commit(f), ev' = ev, NEW e \in Evaluators, ev'[e].running
      PROVE  ev[e].running /\ ev'[e].fire = ev[e].fire /\ ev[e].fire \subseteq Devices /\ Keeps(e)
  BY <1>1, <1>7, StepKeeps, RowsKeep
<1>8. Evaluators \in SUBSET Evaluators
  OBVIOUS
<1>9. \/ Tick
      \/ \E e \in Evaluators : Begin(e)
      \/ \E e \in Evaluators : Commit(e) \/ EvaluationFails(e) \/ EvaluationDies(e)
      \/ ev' = ev
  BY DEF Next, Evaluate, Agents, People, MarkOffline, HeartbeatRead, HeartbeatCommit, Register,
         Acknowledge, Resolve, SwitchRule, vars
<1>10. CASE Tick
  BY <1>6, <1>8, <1>10, PassedStays
<1>11. CASE ev' = ev /\ ~Tick /\ \A f \in Evaluators : ~Commit(f)
  BY <1>7, <1>8, <1>11, PassedStays
<1>12. QED
  BY <1>4, <1>5, <1>9, <1>10, <1>11

\* An evaluation respects the cooldown while evaluations keep to the lock, for
\* any cooldown, any other rule's, and any number of processes.
THEOREM CooldownAlways == Spec => CooldownRespected
<1> DEFINE I == TypeOK /\ ExclusiveInv /\ CoolInv
<1>1. Init => I
  <2>1. Init => CoolInv
    BY DEF Init, CoolInv, NoEvaluation
  <2>2. QED
    BY <2>1, InitTypes, InitExclusive
<1>2. I /\ [Next]_vars => I'
  BY TypeStep, ExclusiveStep, CoolStep, TypeParts
<1>3. ASSUME TypeOK, CoolInv, Next, ~unsafe, NEW e \in Evaluators, NEW d \in Devices
      PROVE  CooldownStep(e, d)
  <2>1. SUFFICES ASSUME ev[e].running, ~ev'[e].running,
                        NEW a \in Alert, Open(a, "metric", d)', ~Of(a, "metric", d)
                 PROVE  \/ \A b \in Alert : Of(b, "metric", d) => Passed(b, e)
                        \/ Cooldown < MaxCooldown /\ \E b \in Alert : Of(b, "metric", d) /\ Passed(b, e)
    BY DEF CooldownStep
  <2>2. AlertsOK /\ EvaluationsOK
    BY <1>3, TypeParts
  <2>3. alert'[a].st = "open" /\ alert'[a].rule = "metric" /\ alert'[a].dev = d
    BY <2>1 DEF Open, Of
  <2>4. alert'[a] # alert[a] /\ ev' # ev
    BY <2>1 DEF Open, Of
  <2>5. ~Tick
    BY <2>1, <2>2 DEF Tick, EvaluationsOK, Evaluation
  <2>6. PICK f \in Evaluators : Commit(f)
    BY <1>3, <2>4, <2>5
    DEF Next, Evaluate, Agents, People, Begin, EvaluationFails, EvaluationDies, MarkOffline,
        HeartbeatRead, HeartbeatCommit, Register, Acknowledge, Resolve, SwitchRule
  <2>7. f = e
    BY <2>1, <2>2, <2>6 DEF Commit, EvaluationsOK
  <2>8. d \in ev[e].fire
    BY <2>2, <2>3, <2>4, <2>6, <2>7, CommitFacts
  <2>9. QED
    BY <1>3, <2>1, <2>8 DEF CoolInv
<1>4. I /\ [Next]_vars => [~unsafe => \A e \in Evaluators, d \in Devices : CooldownStep(e, d)]_vars
  BY <1>3
<1>5. QED
  BY <1>1, <1>2, <1>4, PTL DEF Spec, CooldownRespected
=============================================================================
