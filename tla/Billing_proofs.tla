--------------------------- MODULE Billing_proofs ---------------------------
(***************************************************************************)
(* Proofs about Billing.tla, for any customers and writers and any number  *)
(* of invoices, months, retries, sessions and faults.                      *)
(***************************************************************************)
EXTENDS Billing, FiniteSetTheorems, TLAPS

-----------------------------------------------------------------------------
(* Sets of invoices.                                                       *)

LEMMA FiniteIds ==
  ASSUME NEW S \in SUBSET Id
  PROVE  IsFiniteSet(S) /\ Cardinality(S) \in Nat
<1>1. IsFiniteSet(Id)
  BY FS_Interval, BillingAssumption DEF Id, BillingAssumption
<1>2. QED
  BY <1>1, FS_Subset, FS_CardinalityType

LEMMA AddedId ==
  ASSUME NEW S \in SUBSET Id, NEW i \in Id, i \notin S
  PROVE  Cardinality(S \union {i}) = Cardinality(S) + 1
BY FiniteIds, FS_AddElement

LEMMA MoreIds ==
  ASSUME NEW T \in SUBSET Id, NEW S \in SUBSET T
  PROVE  /\ Cardinality(S) <= Cardinality(T)
         /\ S # T => Cardinality(S) + 1 <= Cardinality(T)
<1>1. IsFiniteSet(T) /\ Cardinality(T) \in Nat /\ Cardinality(S) \in Nat
  BY FiniteIds
<1>2. Cardinality(S) <= Cardinality(T) /\ (Cardinality(S) = Cardinality(T) => S = T)
  BY <1>1, FS_Subset
<1>3. QED
  BY <1>1, <1>2

-----------------------------------------------------------------------------
(* Jobs.                                                                   *)

Stages == {"idle", "next", "count", "insert"}

LEMMA Someones == Someone \in Customers
BY BillingAssumption DEF Someone, BillingAssumption

LEMMA Zeros == 0 \in 0..MaxMonths /\ 0 \in 0..MaxRetries /\ 0 \in 0..MaxSessions
BY BillingAssumption DEF BillingAssumption

LEMMA JobRecord ==
  ASSUME NEW c \in Stages, NEW b \in BOOLEAN, NEW p \in 0..MaxMonths, NEW t \in 0..MaxRetries,
         NEW T \in SUBSET Customers, NEW k \in Customers, NEW n \in Nat, NEW M \in SUBSET Id
  PROVE  [pc |-> c, auto |-> b, period |-> p, tries |-> t, todo |-> T, cust |-> k, no |-> n,
          mine |-> M] \in Job
BY DEF Job, Stages

LEMMA JobFields ==
  ASSUME TypeOK, NEW w \in Writers
  PROVE  /\ job[w].pc \in Stages /\ job[w].auto \in BOOLEAN /\ job[w].period \in 0..MaxMonths
         /\ job[w].tries \in 0..MaxRetries /\ job[w].todo \in SUBSET Customers
         /\ job[w].cust \in Customers /\ job[w].no \in Nat /\ job[w].mine \in SUBSET Id
<1>1. job[w] \in Job
  BY DEF TypeOK
<1>2. QED
  BY <1>1 DEF Job, Stages

LEMMA IdleJob == Idle \in Job /\ Idle.pc = "idle" /\ Idle.mine = {} /\ ~Idle.auto
<1>1. Idle \in Job
  BY Someones, Zeros, JobRecord DEF Idle, Stages
<1>2. Idle.pc = "idle" /\ Idle.mine = {}
  BY DEF Idle
<1>3. ~Idle.auto
  BY DEF Idle
<1>4. QED
  BY <1>1, <1>2, <1>3

LEMMA RunningJob ==
  ASSUME NEW m \in Message
  PROVE  Running(m) \in Job /\ Running(m).pc = "next" /\ Running(m).mine = {} /\ Running(m).auto
<1>1. m.period \in 0..MaxMonths /\ m.tries \in 0..MaxRetries
  BY DEF Message
<1>2. Running(m) \in Job
  BY <1>1, Someones, JobRecord DEF Running, Stages
<1>3. QED
  BY <1>2 DEF Running

LEMMA ByHandJob ==
  ASSUME NEW c \in Customers, NEW p \in 0..MaxMonths
  PROVE  /\ ByHand(c, p) \in Job /\ ByHand(c, p).pc = "count" /\ ByHand(c, p).mine = {}
         /\ ~ByHand(c, p).auto
<1>1. ByHand(c, p) \in Job
  BY Zeros, JobRecord DEF ByHand, Stages
<1>2. QED
  BY <1>1 DEF ByHand

LEMMA AtJob ==
  ASSUME TypeOK, NEW w \in Writers, NEW c \in Stages, NEW T \in SUBSET Customers,
         NEW k \in Customers, NEW n \in Nat, NEW M \in SUBSET Id
  PROVE  At(w, c, T, k, n, M) \in Job
BY JobFields, JobRecord DEF At

LEMMA AtFields ==
  ASSUME NEW w, NEW c, NEW T, NEW k, NEW n, NEW M
  PROVE  /\ At(w, c, T, k, n, M).pc = c /\ At(w, c, T, k, n, M).auto = job[w].auto
         /\ At(w, c, T, k, n, M).period = job[w].period /\ At(w, c, T, k, n, M).todo = T
         /\ At(w, c, T, k, n, M).cust = k /\ At(w, c, T, k, n, M).no = n
         /\ At(w, c, T, k, n, M).mine = M
BY DEF At

JobsOK ==
  /\ job \in [Writers -> Job]
  /\ \A w \in Writers : job[w].pc = "idle" => job[w].mine = {}

\* Writer w has job J, the others keep theirs.
Turns(w, J) == job'[w] = J /\ \A v \in Writers \ {w} : job'[v] = job[v]

LEMMA Turned ==
  ASSUME TypeOK, NEW w \in Writers, NEW J \in Job, J.pc = "idle" => J.mine = {},
         job' = [job EXCEPT ![w] = J]
  PROVE  JobsOK' /\ Turns(w, J)
<1>1. job \in [Writers -> Job] /\ \A v \in Writers : job[v].pc = "idle" => job[v].mine = {}
  BY DEF TypeOK
<1>2. job' \in [Writers -> Job]
  BY <1>1
<1>3. Turns(w, J)
  BY <1>1 DEF Turns
<1>4. \A v \in Writers : job'[v].pc = "idle" => job'[v].mine = {}
  BY <1>1, <1>3, Zenon DEF Turns
<1>5. QED
  BY <1>2, <1>3, <1>4, Zenon DEF JobsOK

LEMMA JobsStay ==
  ASSUME TypeOK, job' = job
  PROVE  JobsOK'
BY Zenon DEF TypeOK, JobsOK

LEMMA TakeTurns ==
  ASSUME TypeOK, NEW w \in Writers, NEW m \in Message, job' = [job EXCEPT ![w] = Running(m)]
  PROVE  JobsOK' /\ Turns(w, Running(m))
BY RunningJob, Turned

LEMMA HandTurns ==
  ASSUME TypeOK, NEW w \in Writers, NEW c \in Customers, NEW p \in 0..MaxMonths,
         job' = [job EXCEPT ![w] = ByHand(c, p)]
  PROVE  JobsOK' /\ Turns(w, ByHand(c, p))
BY ByHandJob, Turned

LEMMA AtTurns ==
  ASSUME TypeOK, NEW w \in Writers, NEW c \in Stages \ {"idle"}, NEW T \in SUBSET Customers,
         NEW k \in Customers, NEW n \in Nat, NEW M \in SUBSET Id,
         job' = [job EXCEPT ![w] = At(w, c, T, k, n, M)]
  PROVE  JobsOK' /\ Turns(w, At(w, c, T, k, n, M))
<1>1. At(w, c, T, k, n, M) \in Job /\ At(w, c, T, k, n, M).pc # "idle"
  BY AtJob, AtFields
<1>2. QED
  BY <1>1, Turned

LEMMA IdleTurns ==
  ASSUME TypeOK, NEW w \in Writers, job' = [job EXCEPT ![w] = Idle]
  PROVE  JobsOK' /\ Turns(w, Idle)
BY IdleJob, Turned

LEMMA SeenIds == ASSUME TypeOK, NEW w \in Writers PROVE Visible(w) \in SUBSET Id /\ Committed \in SUBSET Id
BY JobFields DEF Visible, Committed

LEMMA NumberIsNat ==
  ASSUME TypeOK, NEW w \in Writers
  PROVE  NextNumber(w) \in Nat
<1>1. Cardinality(Visible(w)) \in Nat
  BY SeenIds, FiniteIds
<1>2. QED
  BY <1>1 DEF NextNumber

-----------------------------------------------------------------------------
(* Invoices.                                                               *)

RowStages == {"none", "open", "paid", "deleted"}

LEMMA RowRecord ==
  ASSUME NEW c \in RowStages, NEW k \in Customers, NEW p \in 0..MaxMonths, NEW n \in Nat,
         NEW b \in BOOLEAN, NEW s \in 0..MaxSessions
  PROVE  [st |-> c, cust |-> k, period |-> p, no |-> n, auto |-> b, pi |-> s] \in Row
BY DEF Row, RowStages

LEMMA RowParts ==
  ASSUME NEW r \in Row
  PROVE  /\ r.st \in RowStages /\ r.cust \in Customers /\ r.period \in 0..MaxMonths /\ r.no \in Nat
         /\ r.auto \in BOOLEAN /\ r.pi \in 0..MaxSessions
BY DEF Row, RowStages

LEMMA StatusOf ==
  ASSUME NEW r \in Row, NEW c
  PROVE  [r EXCEPT !.st = c] = [st |-> c, cust |-> r.cust, period |-> r.period, no |-> r.no,
                                auto |-> r.auto, pi |-> r.pi]
BY DEF Row

LEMMA RowFields ==
  ASSUME TypeOK, NEW i \in Id
  PROVE  /\ row[i] \in Row /\ row[i].st \in RowStages /\ row[i].cust \in Customers
         /\ row[i].period \in 0..MaxMonths /\ row[i].no \in Nat /\ row[i].auto \in BOOLEAN
         /\ row[i].pi \in 0..MaxSessions
<1>1. row[i] \in Row
  BY DEF TypeOK
<1>2. QED
  BY <1>1 DEF Row, RowStages

LEMMA NoRows ==
  /\ NoRow \in Row /\ NoRow.st = "none"
  /\ Deleted \in Row /\ Deleted.st = "deleted"
<1>1. NoRow \in Row
  BY Someones, Zeros, RowRecord DEF NoRow, RowStages
<1>2. Deleted = [st |-> "deleted", cust |-> NoRow.cust, period |-> NoRow.period, no |-> NoRow.no,
                 auto |-> NoRow.auto, pi |-> NoRow.pi]
  BY <1>1, StatusOf DEF Deleted
<1>3. Deleted \in Row
  BY <1>1, <1>2, RowParts, RowRecord DEF RowStages
<1>4. QED
  BY <1>1, <1>2, <1>3 DEF NoRow

\* The facts about an invoice that a payment does not change.
SameInvoice(a, b) == a.cust = b.cust /\ a.period = b.period /\ a.no = b.no /\ a.auto = b.auto

LEMMA StatusRow ==
  ASSUME TypeOK, NEW i \in Id, NEW c \in {"open", "paid"}, NEW e, e = [row[i] EXCEPT !.st = c]
  PROVE  e \in Row /\ e.st = c /\ SameInvoice(e, row[i])
<1>1. e = [st |-> c, cust |-> row[i].cust, period |-> row[i].period, no |-> row[i].no,
           auto |-> row[i].auto, pi |-> row[i].pi]
  BY RowFields DEF Row
<1>2. e \in Row
  BY <1>1, RowFields, RowRecord DEF RowStages
<1>3. QED
  BY <1>1, <1>2 DEF SameInvoice

LEMMA SettledRow ==
  ASSUME TypeOK, NEW i \in Id, NEW s \in Session
  PROVE  Settled(i, s) \in Row /\ Settled(i, s).st = "paid" /\ SameInvoice(Settled(i, s), row[i])
<1>1. s \in 0..MaxSessions
  BY BillingAssumption DEF Session, BillingAssumption
<1>2. Settled(i, s) \in Row
  BY <1>1, RowFields, RowRecord DEF Settled, RowStages
<1>3. QED
  BY <1>2 DEF Settled, SameInvoice

LEMMA NewInvoiceRow ==
  ASSUME TypeOK, NEW w \in Writers
  PROVE  /\ NewInvoice(w) \in Row /\ NewInvoice(w).st = "open" /\ NewInvoice(w).cust = job[w].cust
         /\ NewInvoice(w).period = job[w].period /\ NewInvoice(w).no = job[w].no
         /\ NewInvoice(w).auto = job[w].auto
<1>1. NewInvoice(w) \in Row
  BY JobFields, Zeros, RowRecord DEF NewInvoice, RowStages
<1>2. QED
  BY <1>1 DEF NewInvoice

\* Invoice i has row R, the others keep theirs.
Sets(i, R) == row'[i] = R /\ \A j \in Id \ {i} : row'[j] = row[j]

LEMMA RowSet ==
  ASSUME TypeOK, NEW i \in Id, NEW R \in Row, row' = [row EXCEPT ![i] = R]
  PROVE  row' \in [Id -> Row] /\ Sets(i, R)
<1>1. row \in [Id -> Row]
  BY DEF TypeOK
<1>2. QED
  BY <1>1 DEF Sets

LEMMA RolledBackRows ==
  ASSUME TypeOK, NEW w \in Writers, row' = RolledBack(w)
  PROVE  /\ row' \in [Id -> Row]
         /\ \A i \in Id : /\ i \in job[w].mine => row'[i].st = "none"
                          /\ i \notin job[w].mine => row'[i] = row[i]
<1>1. \A i \in Id : row'[i] = IF i \in job[w].mine THEN NoRow ELSE row[i]
  BY DEF RolledBack
<1>2. \A i \in Id : (IF i \in job[w].mine THEN NoRow ELSE row[i]) \in Row
  BY NoRows, RowFields
<1>3. row' \in [Id -> Row]
  BY <1>2, Zenon DEF RolledBack
<1>4. QED
  BY <1>1, <1>3, NoRows

\* The row of an invoice changes its status or payment only.
Pays(i) == Exists(i) /\ row'[i].st \in {"open", "paid"} /\ SameInvoice(row'[i], row[i])
           /\ \A j \in Id \ {i} : row'[j] = row[j]

LEMMA StatusPays ==
  ASSUME TypeOK, NEW i \in Committed, NEW c \in {"open", "paid"}, row' = [row EXCEPT ![i].st = c]
  PROVE  row' \in [Id -> Row] /\ Pays(i)
<1>1. i \in Id /\ Exists(i)
  BY DEF Committed
<1>2. PICK e : e = [row[i] EXCEPT !.st = c]
  OBVIOUS
<1>3. row' = [row EXCEPT ![i] = e]
  BY <1>1, <1>2 DEF TypeOK
<1>4. e \in Row /\ e.st = c /\ SameInvoice(e, row[i])
  BY <1>1, <1>2, StatusRow
<1>5. row' \in [Id -> Row] /\ Sets(i, e)
  BY <1>1, <1>3, <1>4, RowSet
<1>6. QED
  BY <1>1, <1>4, <1>5 DEF Sets, Pays

LEMMA WebhookPays ==
  ASSUME TypeOK, NEW s \in Session, Webhook(s)
  PROVE  row' \in [Id -> Row] /\ (row' = row \/ \E i \in Committed : Pays(i))
<1>1. CASE row' = row
  BY <1>1 DEF TypeOK
<1>2. CASE Records(s, sess[s].inv) /\ row' = [row EXCEPT ![sess[s].inv] = Settled(sess[s].inv, s)]
  <2>1. PICK i : i = sess[s].inv
    OBVIOUS
  <2>2. i \in Committed /\ i \in Id /\ Exists(i) /\ row' = [row EXCEPT ![i] = Settled(i, s)]
    BY <1>2, <2>1 DEF Records, Committed
  <2>3. Settled(i, s) \in Row /\ Settled(i, s).st = "paid" /\ SameInvoice(Settled(i, s), row[i])
    BY <2>2, SettledRow
  <2>4. row' \in [Id -> Row] /\ Sets(i, Settled(i, s))
    BY <2>2, <2>3, RowSet
  <2>5. Pays(i)
    BY <2>2, <2>3, <2>4 DEF Sets, Pays
  <2>6. QED
    BY <2>2, <2>4, <2>5
<1>3. QED
  BY <1>1, <1>2 DEF Webhook

-----------------------------------------------------------------------------
(* What the writers' actions come to.                                      *)

\* The check of a customer leaves what w has inserted as it is.
CheckedTurns(w, c) ==
  /\ JobsOK'
  /\ \/ /\ AlreadyBilled(w, c)
        /\ Turns(w, At(w, "next", job[w].todo \ {c}, Someone, 0, job[w].mine))
     \/ /\ ~AlreadyBilled(w, c)
        /\ Turns(w, At(w, "count", job[w].todo, c, 0, job[w].mine))

LEMMA CheckTurns ==
  ASSUME TypeOK, NEW w \in Writers, NEW c \in Customers, CheckCustomer(w, c)
  PROVE  CheckedTurns(w, c)
<1>1. CASE AlreadyBilled(w, c)
  <2>1. job' = [job EXCEPT ![w] = At(w, "next", job[w].todo \ {c}, Someone, 0, job[w].mine)]
    BY <1>1, Zenon DEF CheckCustomer
  <2>2. job[w].todo \ {c} \in SUBSET Customers /\ job[w].mine \in SUBSET Id
    BY JobFields
  <2>3. JobsOK' /\ Turns(w, At(w, "next", job[w].todo \ {c}, Someone, 0, job[w].mine))
    BY <2>1, <2>2, Someones, AtTurns DEF Stages
  <2>4. QED
    BY <1>1, <2>3 DEF CheckedTurns
<1>2. CASE ~AlreadyBilled(w, c)
  <2>1. job' = [job EXCEPT ![w] = At(w, "count", job[w].todo, c, 0, job[w].mine)]
    BY <1>2, Zenon DEF CheckCustomer
  <2>2. JobsOK' /\ Turns(w, At(w, "count", job[w].todo, c, 0, job[w].mine))
    BY <2>1, JobFields, AtTurns DEF Stages
  <2>3. QED
    BY <1>2, <2>2 DEF CheckedTurns
<1>3. QED
  BY <1>1, <1>2

LEMMA CountTurns ==
  ASSUME TypeOK, NEW w \in Writers, CountInvoices(w)
  PROVE  JobsOK' /\ Turns(w, At(w, "insert", job[w].todo, job[w].cust, NextNumber(w), job[w].mine))
<1>1. job' = [job EXCEPT ![w] = At(w, "insert", job[w].todo, job[w].cust, NextNumber(w), job[w].mine)]
  BY DEF CountInvoices
<1>2. QED
  BY <1>1, JobFields, NumberIsNat, AtTurns DEF Stages

\* Writer w inserts its invoice as i.
Inserted(w, i) ==
  /\ JobsOK' /\ row' \in [Id -> Row]
  /\ row[i].st = "none" /\ Sets(i, NewInvoice(w))
  /\ \/ /\ job[w].auto
        /\ Turns(w, At(w, "next", job[w].todo \ {job[w].cust}, Someone, 0, job[w].mine \union {i}))
     \/ ~job[w].auto /\ Turns(w, Idle)

LEMMA Inserts ==
  ASSUME TypeOK, NEW w \in Writers, InsertInvoice(w)
  PROVE  \E i \in Id : Inserted(w, i)
<1>1. PICK i \in Free :
        /\ row' = [row EXCEPT ![i] = NewInvoice(w)]
        /\ job' = [job EXCEPT ![w] =
                    IF job[w].auto
                    THEN At(w, "next", job[w].todo \ {job[w].cust}, Someone, 0, job[w].mine \union {i})
                    ELSE Idle]
  BY Zenon DEF InsertInvoice
<1>2. i \in Id /\ row[i].st = "none"
  BY DEF Free
<1>3. row' \in [Id -> Row] /\ Sets(i, NewInvoice(w))
  BY <1>1, <1>2, NewInvoiceRow, RowSet
<1>4. CASE job[w].auto
  <2>1. job' = [job EXCEPT ![w] =
                  At(w, "next", job[w].todo \ {job[w].cust}, Someone, 0, job[w].mine \union {i})]
    BY <1>1, <1>4, Zenon
  <2>2. job[w].todo \ {job[w].cust} \in SUBSET Customers /\ job[w].mine \union {i} \in SUBSET Id
    BY <1>2, JobFields
  <2>3. JobsOK' /\ Turns(w, At(w, "next", job[w].todo \ {job[w].cust}, Someone, 0, job[w].mine \union {i}))
    BY <2>1, <2>2, Someones, AtTurns DEF Stages
  <2>4. QED
    BY <1>2, <1>3, <1>4, <2>3 DEF Inserted
<1>5. CASE ~job[w].auto
  <2>1. job' = [job EXCEPT ![w] = Idle]
    BY <1>1, <1>5, Zenon
  <2>2. JobsOK' /\ Turns(w, Idle)
    BY <2>1, IdleTurns
  <2>3. QED
    BY <1>2, <1>3, <1>5, <2>2 DEF Inserted
<1>6. QED
  BY <1>4, <1>5

\* The transaction of w is lost.
Loses(w) ==
  /\ JobsOK' /\ row' \in [Id -> Row] /\ Turns(w, Idle)
  /\ \A i \in Id : /\ i \in job[w].mine => row'[i].st = "none"
                   /\ i \notin job[w].mine => row'[i] = row[i]

LEMMA LosesAll ==
  ASSUME TypeOK, NEW w \in Writers, NumberTaken(w) \/ WriterFails(w)
  PROVE  Loses(w)
<1>1. row' = RolledBack(w) /\ job' = [job EXCEPT ![w] = Idle]
  BY DEF NumberTaken, WriterFails, GivesUp
<1>2. JobsOK' /\ Turns(w, Idle)
  BY <1>1, IdleTurns
<1>3. row' \in [Id -> Row] /\ \A i \in Id : /\ i \in job[w].mine => row'[i].st = "none"
                                            /\ i \notin job[w].mine => row'[i] = row[i]
  BY <1>1, RolledBackRows
<1>4. QED
  BY <1>2, <1>3 DEF Loses

LEMMA SessMoves ==
  ASSUME TypeOK, NEW s \in Session, sess[s].st = "open" \/ sess[s].st = "paid",
         NEW c \in {"open", "paid", "told"}, sess' = [sess EXCEPT ![s].st = c]
  PROVE  sess' \in [Session -> Checkout \union {NoSession}]
<1>1. sess[s] \in Checkout
  BY DEF TypeOK, NoSession
<1>2. PICK e : e = [sess[s] EXCEPT !.st = c]
  OBVIOUS
<1>3. e \in Checkout
  BY <1>1, <1>2 DEF Checkout
<1>4. sess' = [sess EXCEPT ![s] = e]
  BY <1>2 DEF TypeOK
<1>5. QED
  BY <1>3, <1>4 DEF TypeOK

-----------------------------------------------------------------------------
(* Type correctness.                                                       *)

RowsOK   == row \in [Id -> Row]
SessOK   == sess \in [Session -> Checkout \union {NoSession}]
QueueOK  == queue \subseteq Message
CountsOK == month \in 0..MaxMonths /\ manual \in 0..MaxManual
FlagsOK  == gap \in BOOLEAN /\ overlap \in BOOLEAN
FaultsOK == faults \in 0..MaxFaults

LEMMA TypeParts == TypeOK <=> RowsOK /\ JobsOK /\ SessOK /\ QueueOK /\ CountsOK /\ FlagsOK /\ FaultsOK
BY Zenon DEF TypeOK, RowsOK, JobsOK, SessOK, QueueOK, CountsOK, FlagsOK, FaultsOK

LEMMA TypePartsNext ==
  RowsOK' /\ JobsOK' /\ SessOK' /\ QueueOK' /\ CountsOK' /\ FlagsOK' /\ FaultsOK' => TypeOK'
BY Zenon DEF TypeOK, RowsOK, JobsOK, SessOK, QueueOK, CountsOK, FlagsOK, FaultsOK

LEMMA RowsStay == ASSUME TypeOK, row' = row PROVE RowsOK'
BY DEF TypeOK, RowsOK

LEMMA SessStay == ASSUME TypeOK, sess' = sess PROVE SessOK'
BY DEF TypeOK, SessOK

LEMMA QueueStay == ASSUME TypeOK, queue' = queue PROVE QueueOK'
BY DEF TypeOK, QueueOK

LEMMA CountsStay == ASSUME TypeOK, month' = month, manual' = manual PROVE CountsOK'
BY DEF TypeOK, CountsOK

LEMMA FlagsStay == ASSUME TypeOK, gap' = gap, overlap' = overlap PROVE FlagsOK'
BY Zenon DEF TypeOK, FlagsOK

LEMMA FaultCounts ==
  ASSUME TypeOK, faults' = faults \/ (faults < MaxFaults /\ faults' = faults + 1)
  PROVE  FaultsOK'
BY BillingAssumption DEF TypeOK, FaultsOK, BillingAssumption

LEMMA Asks ==
  ASSUME TypeOK, NEW w \in Writers
  PROVE  Asked(w) \in Message /\ Retried(Asked(w)) \subseteq Message
<1>1. PICK m : m = Asked(w)
  OBVIOUS
<1>2. m \in Message
  BY <1>1, JobFields DEF Asked, Message
<1>3. m.tries < MaxRetries => [m EXCEPT !.tries = @ + 1] \in Message
  BY <1>2, BillingAssumption DEF Message, BillingAssumption
<1>4. Retried(m) \subseteq Message
  BY <1>3 DEF Retried
<1>5. QED
  BY <1>1, <1>2, <1>4

LEMMA GivesUpQueue ==
  ASSUME TypeOK, NEW w \in Writers,
         queue' = (IF job[w].auto THEN queue \union Retried(Asked(w)) ELSE queue)
         \/ queue' = queue \union {Asked(w)}
  PROVE  QueueOK'
BY Asks DEF TypeOK, QueueOK

LEMMA TypeInit == Init => TypeOK
<1> SUFFICES ASSUME Init PROVE TypeOK
  OBVIOUS
<1>1. RowsOK
  BY NoRows DEF Init, RowsOK
<1>2. JobsOK
  <2>1. \A w \in Writers : job[w] = Idle
    BY DEF Init
  <2>2. job \in [Writers -> Job]
    BY IdleJob DEF Init
  <2>3. QED
    BY <2>1, <2>2, IdleJob DEF JobsOK
<1>3. SessOK /\ QueueOK /\ FlagsOK
  BY DEF Init, SessOK, QueueOK, FlagsOK
<1>4. CountsOK /\ FaultsOK
  BY BillingAssumption DEF Init, CountsOK, FaultsOK, BillingAssumption
<1>5. QED
  BY <1>1, <1>2, <1>3, <1>4, TypeParts

LEMMA TypeStep == TypeOK /\ [Next]_vars => TypeOK'
<1> SUFFICES ASSUME TypeOK, [Next]_vars PROVE TypeOK'
  OBVIOUS
<1>1. CASE BillingDay
  <2>1. RowsOK' /\ SessOK' /\ JobsOK' /\ FlagsOK' /\ FaultsOK'
    BY <1>1, RowsStay, SessStay, JobsStay, FlagsStay, FaultCounts DEF BillingDay
  <2>2. month + 1 \in 0..MaxMonths
    BY <1>1, BillingAssumption DEF BillingDay, TypeOK, BillingAssumption
  <2>3. CountsOK'
    BY <1>1, <2>2 DEF BillingDay, TypeOK, CountsOK
  <2>4. QueueOK'
    BY <1>1, <2>2, Zeros DEF BillingDay, QueueOK, Message
  <2>5. QED
    BY <2>1, <2>3, <2>4, TypePartsNext
<1>2. ASSUME NEW w \in Writers, TakeTask(w) PROVE TypeOK'
  <2>1. RowsOK' /\ SessOK' /\ FaultsOK' /\ CountsOK'
    BY <1>2, RowsStay, SessStay, FaultCounts, CountsStay DEF TakeTask
  <2>2. QueueOK'
    BY <1>2 DEF TakeTask, TypeOK, QueueOK
  <2>3. PICK m \in queue : job' = [job EXCEPT ![w] = Running(m)]
    BY <1>2 DEF TakeTask
  <2>4. JobsOK'
    BY <2>3, TakeTurns DEF TypeOK
  <2>5. overlap' \in BOOLEAN
    <3>1. overlap' = (overlap \/ \E v \in Writers : job[v].pc # "idle" /\ job[v].auto)
      BY <1>2, Zenon DEF TakeTask
    <3>2. QED
      BY <3>1
  <2>6. FlagsOK'
    BY <1>2, <2>5, Zenon DEF TakeTask, TypeOK, FlagsOK
  <2>7. QED
    BY <2>1, <2>2, <2>4, <2>6, TypePartsNext
<1>3. ASSUME NEW w \in Writers, NEW c \in Customers, CheckCustomer(w, c) PROVE TypeOK'
  <2>1. RowsOK' /\ SessOK' /\ FaultsOK' /\ CountsOK' /\ QueueOK' /\ FlagsOK'
    BY <1>3, RowsStay, SessStay, FaultCounts, CountsStay, QueueStay, FlagsStay DEF CheckCustomer, billVars
  <2>2. JobsOK'
    BY <1>3, CheckTurns DEF CheckedTurns
  <2>3. QED
    BY <2>1, <2>2, TypePartsNext
<1>4. ASSUME NEW w \in Writers, NEW c \in Customers, NEW p \in {0, month}, BeginManual(w, c, p)
      PROVE  TypeOK'
  <2>1. RowsOK' /\ SessOK' /\ FaultsOK' /\ QueueOK' /\ FlagsOK'
    BY <1>4, RowsStay, SessStay, FaultCounts, QueueStay, FlagsStay DEF BeginManual
  <2>2. p \in 0..MaxMonths
    BY Zeros DEF TypeOK
  <2>3. JobsOK'
    BY <1>4, <2>2, HandTurns DEF BeginManual
  <2>4. CountsOK'
    BY <1>4, BillingAssumption DEF BeginManual, TypeOK, CountsOK, BillingAssumption
  <2>5. QED
    BY <2>1, <2>3, <2>4, TypePartsNext
<1>5. ASSUME NEW w \in Writers, CountInvoices(w) PROVE TypeOK'
  <2>1. RowsOK' /\ SessOK' /\ FaultsOK' /\ CountsOK' /\ QueueOK' /\ FlagsOK'
    BY <1>5, RowsStay, SessStay, FaultCounts, CountsStay, QueueStay, FlagsStay DEF CountInvoices, billVars
  <2>2. JobsOK'
    BY <1>5, CountTurns
  <2>3. QED
    BY <2>1, <2>2, TypePartsNext
<1>6. ASSUME NEW w \in Writers, InsertInvoice(w) PROVE TypeOK'
  <2>1. SessOK' /\ FaultsOK' /\ CountsOK' /\ QueueOK' /\ FlagsOK'
    BY <1>6, SessStay, FaultCounts, CountsStay, QueueStay, FlagsStay DEF InsertInvoice, billVars
  <2>2. JobsOK' /\ RowsOK'
    BY <1>6, Inserts DEF Inserted, RowsOK
  <2>3. QED
    BY <2>1, <2>2, TypePartsNext
<1>7. ASSUME NEW w \in Writers, NumberTaken(w) \/ WriterFails(w) PROVE TypeOK'
  <2>1. SessOK' /\ CountsOK' /\ FlagsOK'
    BY <1>7, SessStay, CountsStay, FlagsStay DEF NumberTaken, WriterFails, billVars
  <2>2. FaultsOK'
    BY <1>7, FaultCounts DEF NumberTaken, WriterFails
  <2>3. JobsOK' /\ RowsOK'
    BY <1>7, LosesAll DEF Loses, RowsOK
  <2>4. QueueOK'
    BY <1>7, GivesUpQueue DEF NumberTaken, WriterFails, GivesUp
  <2>5. QED
    BY <2>1, <2>2, <2>3, <2>4, TypePartsNext
<1>8. ASSUME NEW w \in Writers, CommitTask(w) PROVE TypeOK'
  <2>1. RowsOK' /\ SessOK' /\ FaultsOK' /\ CountsOK' /\ QueueOK' /\ FlagsOK'
    BY <1>8, RowsStay, SessStay, FaultCounts, CountsStay, QueueStay, FlagsStay DEF CommitTask, billVars
  <2>2. JobsOK'
    BY <1>8, IdleTurns DEF CommitTask
  <2>3. QED
    BY <2>1, <2>2, TypePartsNext
<1>9. ASSUME NEW i \in Id, Reopen(i) \/ MarkPaid(i) PROVE TypeOK'
  <2>1. SessOK' /\ JobsOK' /\ FaultsOK' /\ CountsOK' /\ QueueOK' /\ FlagsOK'
    BY <1>9, SessStay, JobsStay, FaultCounts, CountsStay, QueueStay, FlagsStay
       DEF Reopen, MarkPaid, billVars
  <2>2. RowsOK'
    BY <1>9, StatusPays DEF Reopen, MarkPaid, RowsOK
  <2>3. QED
    BY <2>1, <2>2, TypePartsNext
<1>10. ASSUME NEW i \in Id, DeleteInvoice(i) PROVE TypeOK'
  <2>1. SessOK' /\ JobsOK' /\ FaultsOK' /\ CountsOK' /\ QueueOK'
    BY <1>10, SessStay, JobsStay, FaultCounts, CountsStay, QueueStay DEF DeleteInvoice
  <2>2. RowsOK'
    BY <1>10, NoRows, RowSet DEF DeleteInvoice, RowsOK
  <2>3. FlagsOK'
    BY <1>10, Zenon DEF DeleteInvoice, TypeOK, FlagsOK
  <2>4. QED
    BY <2>1, <2>2, <2>3, TypePartsNext
<1>11. ASSUME NEW i \in Id, NEW s \in Session, RequestLink(i, s) PROVE TypeOK'
  <2>1. RowsOK' /\ JobsOK' /\ FaultsOK' /\ CountsOK' /\ QueueOK' /\ FlagsOK'
    BY <1>11, RowsStay, JobsStay, FaultCounts, CountsStay, QueueStay, FlagsStay DEF RequestLink
  <2>2. SessOK'
    BY <1>11 DEF RequestLink, TypeOK, SessOK, Checkout
  <2>3. QED
    BY <2>1, <2>2, TypePartsNext
<1>12. ASSUME NEW s \in Session, Pay(s) PROVE TypeOK'
  <2>1. RowsOK' /\ JobsOK' /\ FaultsOK' /\ CountsOK' /\ QueueOK' /\ FlagsOK'
    BY <1>12, RowsStay, JobsStay, FaultCounts, CountsStay, QueueStay, FlagsStay DEF Pay
  <2>2. SessOK'
    BY <1>12, SessMoves DEF Pay, SessOK
  <2>3. QED
    BY <2>1, <2>2, TypePartsNext
<1>13. ASSUME NEW s \in Session, Webhook(s) PROVE TypeOK'
  <2>1. JobsOK' /\ FaultsOK' /\ CountsOK' /\ QueueOK' /\ FlagsOK'
    BY <1>13, JobsStay, FaultCounts, CountsStay, QueueStay, FlagsStay DEF Webhook
  <2>2. SessOK'
    BY <1>13, SessMoves, SessStay DEF Webhook, SessOK
  <2>3. RowsOK'
    BY <1>13, WebhookPays DEF RowsOK
  <2>4. QED
    BY <2>1, <2>2, <2>3, TypePartsNext
<1>14. CASE UNCHANGED vars
  <2>1. RowsOK' /\ SessOK' /\ JobsOK' /\ FaultsOK' /\ CountsOK' /\ QueueOK' /\ FlagsOK'
    BY <1>14, RowsStay, SessStay, JobsStay, FaultCounts, CountsStay, QueueStay, FlagsStay DEF vars
  <2>2. QED
    BY <2>1, TypePartsNext
<1>15. QED
  BY <1>1, <1>2, <1>3, <1>4, <1>5, <1>6, <1>7, <1>8, <1>9, <1>10, <1>11, <1>12, <1>13, <1>14
     DEF Next, Write, Administrate

\* Every variable has its type, and a writer that is not at work has inserted
\* nothing that is not committed.
THEOREM TypeCorrect == Spec => []TypeOK
BY TypeInit, TypeStep, PTL DEF Spec

-----------------------------------------------------------------------------
(* The kinds of steps: what each does to invoices and writers.             *)

Kept == gap' = gap /\ overlap' = overlap

Still       == row' = row /\ job' = job /\ Kept
Payment(i)  == Pays(i) /\ job' = job /\ Kept
Removal(i)  == Sets(i, Deleted) /\ job' = job /\ gap' /\ overlap' = overlap

\* Writer w begins: a task, or an invoice by hand.
Begins(w) ==
  /\ row' = row /\ gap' = gap /\ job[w].pc = "idle"
  /\ \E J \in Job : /\ Turns(w, J) /\ J.mine = {}
                    /\ \/ /\ J.pc = "next"
                          /\ overlap' <=> (overlap \/ \E v \in Writers : AtWork(v))
                       \/ J.pc = "count" /\ ~J.auto /\ overlap' = overlap

Checking(w, c) == row' = row /\ Kept /\ job[w].pc = "next" /\ CheckedTurns(w, c)

Counting(w) ==
  /\ row' = row /\ Kept /\ job[w].pc = "count"
  /\ Turns(w, At(w, "insert", job[w].todo, job[w].cust, NextNumber(w), job[w].mine))

Inserting(w, i) ==
  /\ Kept /\ job[w].pc = "insert" /\ ~Waits(w) /\ ~Clashes(w)
  /\ Inserted(w, i)

Losing(w)     == Kept /\ Loses(w)
Committing(w) == row' = row /\ Kept /\ job[w].pc = "next" /\ Turns(w, Idle)

StepKinds ==
  \/ Still
  \/ \E i \in Committed : Payment(i)
  \/ \E i \in Committed : Removal(i)
  \/ \E w \in Writers : \/ Begins(w) \/ Counting(w) \/ Losing(w) \/ Committing(w)
                        \/ \E c \in Customers : Checking(w, c)
                        \/ \E i \in Id : Inserting(w, i)

LEMMA StepKind == TypeOK /\ [Next]_vars => StepKinds
<1> SUFFICES ASSUME TypeOK, [Next]_vars PROVE StepKinds
  OBVIOUS
<1>1. CASE BillingDay
  BY <1>1 DEF BillingDay, Still, Kept, StepKinds
<1>2. ASSUME NEW w \in Writers, TakeTask(w) PROVE StepKinds
  <2>1. PICK m \in queue : job' = [job EXCEPT ![w] = Running(m)]
    BY <1>2 DEF TakeTask
  <2>2. m \in Message
    BY DEF TypeOK
  <2>3. Turns(w, Running(m)) /\ Running(m) \in Job /\ Running(m).pc = "next" /\ Running(m).mine = {}
    BY <2>1, <2>2, TakeTurns, RunningJob
  <2>4. overlap' <=> (overlap \/ \E v \in Writers : AtWork(v))
    BY <1>2, Zenon DEF TakeTask, AtWork
  <2>5. row' = row /\ gap' = gap /\ job[w].pc = "idle"
    BY <1>2 DEF TakeTask
  <2>6. Begins(w)
    BY <2>3, <2>4, <2>5, Zenon DEF Begins
  <2>7. QED
    BY <2>6 DEF StepKinds
<1>3. ASSUME NEW w \in Writers, NEW c \in Customers, CheckCustomer(w, c) PROVE StepKinds
  <2>1. Checking(w, c)
    BY <1>3, CheckTurns DEF CheckCustomer, billVars, Checking, Kept
  <2>2. QED
    BY <2>1 DEF StepKinds
<1>4. ASSUME NEW w \in Writers, NEW c \in Customers, NEW p \in {0, month}, BeginManual(w, c, p)
      PROVE  StepKinds
  <2>1. p \in 0..MaxMonths
    BY Zeros DEF TypeOK
  <2>2. Turns(w, ByHand(c, p)) /\ ByHand(c, p) \in Job /\ ByHand(c, p).pc = "count"
        /\ ByHand(c, p).mine = {} /\ ~ByHand(c, p).auto
    BY <1>4, <2>1, HandTurns, ByHandJob DEF BeginManual
  <2>3. row' = row /\ gap' = gap /\ job[w].pc = "idle" /\ overlap' = overlap
    BY <1>4 DEF BeginManual
  <2>4. Begins(w)
    BY <2>2, <2>3, Zenon DEF Begins
  <2>5. QED
    BY <2>4 DEF StepKinds
<1>5. ASSUME NEW w \in Writers, CountInvoices(w) PROVE StepKinds
  <2>1. Counting(w)
    BY <1>5, CountTurns DEF CountInvoices, billVars, Counting, Kept
  <2>2. QED
    BY <2>1 DEF StepKinds
<1>6. ASSUME NEW w \in Writers, InsertInvoice(w) PROVE StepKinds
  <2>1. PICK i \in Id : Inserted(w, i)
    BY <1>6, Inserts
  <2>2. Inserting(w, i)
    BY <1>6, <2>1 DEF InsertInvoice, billVars, Inserting, Kept
  <2>3. QED
    BY <2>2 DEF StepKinds
<1>7. ASSUME NEW w \in Writers, NumberTaken(w) \/ WriterFails(w) PROVE StepKinds
  <2>1. Losing(w)
    BY <1>7, LosesAll DEF NumberTaken, WriterFails, billVars, Losing, Kept
  <2>2. QED
    BY <2>1 DEF StepKinds
<1>8. ASSUME NEW w \in Writers, CommitTask(w) PROVE StepKinds
  <2>1. Committing(w)
    BY <1>8, IdleTurns DEF CommitTask, billVars, Committing, Kept
  <2>2. QED
    BY <2>1 DEF StepKinds
<1>9. ASSUME NEW i \in Id, Reopen(i) \/ MarkPaid(i) PROVE StepKinds
  <2>1. i \in Committed /\ Pays(i)
    BY <1>9, StatusPays DEF Reopen, MarkPaid
  <2>2. Payment(i)
    BY <1>9, <2>1 DEF Reopen, MarkPaid, billVars, Payment, Kept
  <2>3. QED
    BY <2>1, <2>2 DEF StepKinds
<1>10. ASSUME NEW i \in Id, DeleteInvoice(i) PROVE StepKinds
  <2>1. i \in Committed /\ Sets(i, Deleted)
    BY <1>10, NoRows, RowSet DEF DeleteInvoice
  <2>2. Removal(i)
    BY <1>10, <2>1 DEF DeleteInvoice, Removal
  <2>3. QED
    BY <2>1, <2>2 DEF StepKinds
<1>11. ASSUME NEW i \in Id, NEW s \in Session, RequestLink(i, s) PROVE StepKinds
  BY <1>11 DEF RequestLink, Still, Kept, StepKinds
<1>12. ASSUME NEW s \in Session, Pay(s) PROVE StepKinds
  BY <1>12 DEF Pay, Still, Kept, StepKinds
<1>13. ASSUME NEW s \in Session, Webhook(s) PROVE StepKinds
  <2>1. row' = row \/ \E i \in Committed : Pays(i)
    BY <1>13, WebhookPays
  <2>2. job' = job /\ Kept
    BY <1>13 DEF Webhook, Kept
  <2>3. QED
    BY <2>1, <2>2 DEF Still, Payment, StepKinds
<1>14. CASE UNCHANGED vars
  BY <1>14 DEF vars, Still, Kept, StepKinds
<1>15. QED
  BY <1>1, <1>2, <1>3, <1>4, <1>5, <1>6, <1>7, <1>8, <1>9, <1>10, <1>11, <1>12, <1>13, <1>14
     DEF Next, Write, Administrate

-----------------------------------------------------------------------------
(* What writers have inserted and not committed.                           *)

\* Only the recurring task holds invoices back, they are there, and no two
\* writers hold the same.
MineInv ==
  /\ \A w \in Writers : job[w].mine # {} => AtWork(w)
  /\ \A w \in Writers : \A i \in job[w].mine : Exists(i)
  /\ \A v, w \in Writers : v # w => job[v].mine \intersect job[w].mine = {}

LEMMA MineInit == Init => MineInv
<1>1. ASSUME Init PROVE \A w \in Writers : job[w].mine = {}
  BY <1>1, IdleJob DEF Init
<1>2. QED
  BY <1>1 DEF MineInv

\* Nothing about held invoices changes when rows exist as before and the
\* writers that hold any stay at work.
LEMMA MineStays ==
  ASSUME MineInv, \A w \in Writers : job'[w].mine = job[w].mine,
         \A w \in Writers : job[w].mine # {} /\ AtWork(w) => AtWork(w)',
         \A i \in Id : Exists(i) /\ ~Exists(i)' => i \notin Uncommitted,
         TypeOK
  PROVE  MineInv'
<1>1. \A w \in Writers : job'[w].mine # {} => AtWork(w)'
  BY DEF MineInv
<1>2. \A w \in Writers : \A i \in job'[w].mine : Exists(i)'
  <2> SUFFICES ASSUME NEW w \in Writers, NEW i \in job[w].mine PROVE Exists(i)'
    OBVIOUS
  <2>1. i \in Id /\ Exists(i) /\ i \in Uncommitted
    BY JobFields DEF MineInv, Uncommitted
  <2>2. QED
    BY <2>1
<1>3. \A v, w \in Writers : v # w => job'[v].mine \intersect job'[w].mine = {}
  BY DEF MineInv
<1>4. QED
  BY <1>1, <1>2, <1>3 DEF MineInv

LEMMA MineStep == TypeOK /\ MineInv /\ [Next]_vars => MineInv'
<1> SUFFICES ASSUME TypeOK, MineInv, [Next]_vars PROVE MineInv'
  OBVIOUS
<1>0. StepKinds
  BY StepKind
<1>1. CASE Still
  BY <1>1, MineStays DEF Still, Exists, AtWork
<1>2. ASSUME NEW i \in Committed, Payment(i) PROVE MineInv'
  <2>1. \A j \in Id : Exists(j) => Exists(j)'
    BY <1>2 DEF Payment, Pays, Exists
  <2>2. QED
    BY <1>2, <2>1, MineStays DEF Payment, AtWork
<1>3. ASSUME NEW i \in Committed, Removal(i) PROVE MineInv'
  <2>1. \A j \in Id : Exists(j) /\ ~Exists(j)' => j \notin Uncommitted
    BY <1>3 DEF Removal, Sets, Exists, Committed
  <2>2. QED
    BY <1>3, <2>1, MineStays DEF Removal, AtWork
<1>4. ASSUME NEW w \in Writers, Begins(w) PROVE MineInv'
  <2>1. job[w].mine = {} /\ row' = row
    BY <1>4 DEF TypeOK, Begins
  <2>2. PICK J \in Job : Turns(w, J) /\ J.mine = {}
    BY <1>4, Zenon DEF Begins
  <2>3. \A v \in Writers : job'[v].mine = job[v].mine
    BY <2>1, <2>2 DEF Turns
  <2>4. \A v \in Writers : job[v].mine # {} /\ AtWork(v) => AtWork(v)'
    BY <2>1, <2>2 DEF Turns, AtWork
  <2>5. QED
    BY <2>1, <2>3, <2>4, MineStays DEF Exists
<1>5. ASSUME NEW w \in Writers, NEW c \in Customers, Checking(w, c) PROVE MineInv'
  <2>1. row' = row /\ \A v \in Writers : job'[v].mine = job[v].mine
    BY <1>5, AtFields DEF Checking, CheckedTurns, Turns
  <2>2. \A v \in Writers : job[v].mine # {} /\ AtWork(v) => AtWork(v)'
    BY <1>5, AtFields DEF Checking, CheckedTurns, Turns, AtWork
  <2>3. QED
    BY <2>1, <2>2, MineStays DEF Exists
<1>6. ASSUME NEW w \in Writers, Counting(w) PROVE MineInv'
  <2>1. row' = row /\ \A v \in Writers : job'[v].mine = job[v].mine
    BY <1>6, AtFields DEF Counting, Turns
  <2>2. \A v \in Writers : job[v].mine # {} /\ AtWork(v) => AtWork(v)'
    BY <1>6, AtFields DEF Counting, Turns, AtWork
  <2>3. QED
    BY <2>1, <2>2, MineStays DEF Exists
<1>7. ASSUME NEW w \in Writers, NEW i \in Id, Inserting(w, i) PROVE MineInv'
  <2>1. row[i].st = "none" /\ ~Exists(i) /\ Exists(i)' /\ \A j \in Id : Exists(j) => Exists(j)'
    BY <1>7, NewInvoiceRow DEF Inserting, Inserted, Sets, Exists
  <2>2. CASE job[w].auto
    <3>1. job'[w].mine = job[w].mine \union {i} /\ AtWork(w)'
          /\ \A v \in Writers \ {w} : job'[v] = job[v]
      BY <1>7, <2>2, AtFields DEF Inserting, Inserted, Turns, AtWork
    <3>2. \A v \in Writers : i \notin job[v].mine
      BY <2>1 DEF MineInv
    <3>3. \A v \in Writers : job'[v].mine # {} => AtWork(v)'
      BY <3>1 DEF MineInv, AtWork
    <3>4. \A v \in Writers : \A j \in job'[v].mine : Exists(j)'
      BY <3>1, <2>1, JobFields DEF MineInv
    <3>5. \A u, v \in Writers : u # v => job'[u].mine \intersect job'[v].mine = {}
      BY <3>1, <3>2 DEF MineInv
    <3>6. QED
      BY <3>3, <3>4, <3>5 DEF MineInv
  <2>3. CASE ~job[w].auto
    <3>1. job[w].mine = {}
      BY <2>3 DEF MineInv, AtWork
    <3>2. \A v \in Writers : job'[v].mine = job[v].mine
      BY <1>7, <2>3, <3>1, IdleJob DEF Inserting, Inserted, Turns
    <3>3. \A v \in Writers : job[v].mine # {} /\ AtWork(v) => AtWork(v)'
      BY <1>7, <2>3, <3>1 DEF Inserting, Inserted, Turns, AtWork
    <3>4. QED
      BY <2>1, <3>2, <3>3, MineStays
  <2>4. QED
    BY <2>2, <2>3
<1>8. ASSUME NEW w \in Writers, Losing(w) PROVE MineInv'
  <2>1. job'[w].mine = {} /\ \A v \in Writers \ {w} : job'[v] = job[v]
    BY <1>8, IdleJob DEF Losing, Loses, Turns
  <2>2. \A v \in Writers : \A j \in job'[v].mine : Exists(j)'
    <3> SUFFICES ASSUME NEW v \in Writers \ {w}, NEW j \in job[v].mine PROVE Exists(j)'
      BY <2>1
    <3>1. j \in Id /\ Exists(j) /\ j \notin job[w].mine
      BY JobFields DEF MineInv
    <3>2. QED
      BY <1>8, <3>1 DEF Losing, Loses, Exists
  <2>3. QED
    BY <2>1, <2>2 DEF MineInv, AtWork
<1>9. ASSUME NEW w \in Writers, Committing(w) PROVE MineInv'
  <2>1. job'[w].mine = {} /\ \A v \in Writers \ {w} : job'[v] = job[v]
    BY <1>9, IdleJob DEF Committing, Turns
  <2>2. \A v \in Writers : \A j \in job'[v].mine : Exists(j)'
    BY <1>9, <2>1 DEF Committing, MineInv, Exists
  <2>3. QED
    BY <2>1, <2>2 DEF MineInv, AtWork
<1>10. QED
  BY <1>0, <1>1, <1>2, <1>3, <1>4, <1>5, <1>6, <1>7, <1>8, <1>9 DEF StepKinds

-----------------------------------------------------------------------------
(* What transactions see after a step.                                     *)

LEMMA ViewsStay ==
  ASSUME \A v \in Writers : job'[v].mine = job[v].mine,
         \A i \in Id : Exists(i)' <=> Exists(i)
  PROVE  Committed' = Committed /\ \A v \in Writers : Visible(v)' = Visible(v)
<1>1. Uncommitted' = Uncommitted
  BY DEF Uncommitted
<1>2. Committed' = Committed
  BY <1>1 DEF Committed
<1>3. QED
  BY <1>2 DEF Visible

\* The task holds what it has inserted back.
LEMMA ViewsHold ==
  ASSUME TypeOK, MineInv, NEW w \in Writers, NEW i \in Id, Inserting(w, i), job[w].auto
  PROVE  /\ Committed' = Committed /\ i \notin Visible(w)
         /\ Visible(w)' = Visible(w) \union {i}
         /\ \A v \in Writers \ {w} : Visible(v)' = Visible(v)
<1>1. job'[w].mine = job[w].mine \union {i} /\ \A v \in Writers \ {w} : job'[v] = job[v]
  BY AtFields DEF Inserting, Inserted, Turns
<1>2. ~Exists(i) /\ \A j \in Id \ {i} : Exists(j)' <=> Exists(j)
  BY DEF Inserting, Inserted, Sets, Exists
<1>3. Uncommitted' = Uncommitted \union {i}
  BY <1>1 DEF Uncommitted
<1>4. Committed' = Committed
  BY <1>2, <1>3 DEF Committed
<1>5. i \notin Committed /\ i \notin job[w].mine
  BY <1>2 DEF Committed, MineInv
<1>6. QED
  BY <1>1, <1>4, <1>5 DEF Visible

\* What is made by hand is seen at once.
LEMMA ViewsGrow ==
  ASSUME TypeOK, MineInv, NEW w \in Writers, NEW i \in Id, Inserting(w, i), ~job[w].auto
  PROVE  /\ Committed' = Committed \union {i}
         /\ \A v \in Writers : Visible(v)' = Visible(v) \union {i} /\ i \notin Visible(v)
         /\ i \notin Committed
<1>1. job[w].mine = {}
  BY DEF MineInv, AtWork
<1>2. \A v \in Writers : job'[v].mine = job[v].mine
  BY <1>1, IdleJob DEF Inserting, Inserted, Turns
<1>3. Uncommitted' = Uncommitted
  BY <1>2 DEF Uncommitted
<1>4. ~Exists(i) /\ Exists(i)' /\ \A j \in Id \ {i} : Exists(j)' <=> Exists(j)
  BY NewInvoiceRow DEF Inserting, Inserted, Sets, Exists
<1>5. i \notin Uncommitted
  BY <1>4 DEF Uncommitted, MineInv
<1>6. Committed' = Committed \union {i}
  BY <1>3, <1>4, <1>5 DEF Committed
<1>7. QED
  BY <1>2, <1>4, <1>5, <1>6 DEF Visible, Committed, Uncommitted

LEMMA ViewsLose ==
  ASSUME TypeOK, MineInv, NEW w \in Writers, Losing(w)
  PROVE  /\ Committed' = Committed /\ Visible(w)' = Committed
         /\ \A v \in Writers \ {w} : Visible(v)' = Visible(v)
         /\ \A i \in Committed : row'[i] = row[i]
         /\ \A v \in Writers \ {w} : \A i \in Visible(v) : row'[i] = row[i]
<1>1. job'[w].mine = {} /\ \A v \in Writers \ {w} : job'[v] = job[v]
  BY IdleJob DEF Losing, Loses, Turns
<1>2. \A i \in Id : /\ i \in job[w].mine => ~Exists(i)'
                    /\ i \notin job[w].mine => row'[i] = row[i] /\ (Exists(i)' <=> Exists(i))
  BY DEF Losing, Loses, Exists
<1>3. \A i \in Id : i \in Committed' <=> i \in Committed
  BY <1>1, <1>2 DEF Committed, Uncommitted
<1>4. Committed' = Committed
  BY <1>3 DEF Committed
<1>5. \A i \in Committed : row'[i] = row[i]
  BY <1>2 DEF Committed, Uncommitted
<1>6. \A v \in Writers \ {w} : \A i \in job[v].mine : row'[i] = row[i]
  BY <1>2, JobFields DEF MineInv
<1>7. QED
  BY <1>1, <1>4, <1>5, <1>6 DEF Visible

LEMMA ViewsCommit ==
  ASSUME TypeOK, MineInv, NEW w \in Writers, Committing(w)
  PROVE  /\ Committed' = Visible(w) /\ Visible(w)' = Visible(w)
         /\ \A v \in Writers \ {w} : Visible(v)' = Visible(v) \union job[w].mine
<1>1. job'[w].mine = {} /\ \A v \in Writers \ {w} : job'[v] = job[v]
  BY IdleJob DEF Committing, Turns
<1>2. \A i \in Id : Exists(i)' <=> Exists(i)
  BY DEF Committing, Exists
<1>3. \A i \in Id : i \in Uncommitted' <=> i \in Uncommitted /\ i \notin job[w].mine
  BY <1>1 DEF Uncommitted, MineInv
<1>4. \A i \in job[w].mine : i \in Id /\ Exists(i)
  BY JobFields DEF MineInv
<1>5. Committed' = Committed \union job[w].mine
  BY <1>2, <1>3, <1>4 DEF Committed, Uncommitted
<1>6. QED
  BY <1>1, <1>5 DEF Visible

-----------------------------------------------------------------------------
(* Numbers.                                                                *)

\* The numbers that rows r give the invoices S are 1 to their number.
Sequential(r, S) == {r[i].no : i \in S} = 1..Cardinality(S)

\* Until an invoice is deleted at most one writer holds invoices back, the
\* numbers that each transaction sees are in sequence, and a number that was
\* counted is at most one more than the invoices there are.
NumInv ==
  ~gap => /\ \A v, w \in Writers : v # w => job[v].mine = {} \/ job[w].mine = {}
          /\ Sequential(row, Committed)
          /\ \A w \in Writers : Sequential(row, Visible(w))
          /\ \A w \in Writers : job[w].pc = "insert" =>
                                job[w].no >= 1 /\ job[w].no <= Cardinality(Visible(w)) + 1

LEMMA SameNumbers ==
  ASSUME NEW S, NEW r, NEW q, \A i \in S : q[i].no = r[i].no, Sequential(r, S)
  PROVE  Sequential(q, S)
<1>1. {q[i].no : i \in S} = {r[i].no : i \in S}
  OBVIOUS
<1>2. QED
  BY <1>1 DEF Sequential

LEMMA NumberAdded ==
  ASSUME NEW S \in SUBSET Id, NEW i \in Id, i \notin S, NEW r, NEW q,
         \A j \in S : q[j].no = r[j].no, q[i].no = Cardinality(S) + 1, Sequential(r, S)
  PROVE  Sequential(q, S \union {i})
<1>1. {q[j].no : j \in S \union {i}} = {r[j].no : j \in S} \union {Cardinality(S) + 1}
  OBVIOUS
<1>2. Cardinality(S) \in Nat /\ Cardinality(S \union {i}) = Cardinality(S) + 1
  BY FiniteIds, AddedId
<1>3. QED
  BY <1>1, <1>2 DEF Sequential

\* The number to be inserted is the next, for whoever looks, and nobody else
\* holds invoices back: a smaller number is taken, and whoever holds invoices
\* back has taken the next number.
LEMMA NumberIsNext ==
  ASSUME TypeOK, MineInv, NumInv, ~gap, NEW w \in Writers, NEW i \in Id, Inserting(w, i)
  PROVE  /\ job[w].no = Cardinality(Visible(w)) + 1
         /\ \A v \in Writers \ {w} : job[v].mine = {}
<1>1. PICK V \in SUBSET Id : V = Visible(w)
  BY SeenIds
<1>2. Cardinality(V) \in Nat
  BY FiniteIds
<1>3. Sequential(row, V) /\ job[w].no >= 1 /\ job[w].no <= Cardinality(V) + 1 /\ job[w].no \in Nat
  BY <1>1, JobFields DEF NumInv, Inserting
<1>4. \A j \in V : row[j].no # job[w].no
  BY <1>1 DEF Inserting, Clashes
<1>5. job[w].no \notin 1..Cardinality(V)
  BY <1>3, <1>4 DEF Sequential
<1>6. job[w].no = Cardinality(V) + 1
  BY <1>2, <1>3, <1>5
<1>7. ASSUME NEW v \in Writers \ {w}, job[v].mine # {} PROVE FALSE
  <2>1. job[w].mine = {}
    BY <1>7 DEF NumInv
  <2>2. PICK U \in SUBSET Id : U = Visible(v)
    BY SeenIds
  <2>3. V = Committed /\ U = V \union job[v].mine
    BY <1>1, <2>1, <2>2 DEF Visible
  <2>4. \A j \in job[v].mine : j \notin V
    BY <2>3 DEF Committed, Uncommitted
  <2>5. V \subseteq U /\ V # U
    BY <1>7, <2>3, <2>4
  <2>6. Cardinality(V) + 1 <= Cardinality(U) /\ Cardinality(U) \in Nat
    BY <2>5, MoreIds, FiniteIds
  <2>7. Sequential(row, U)
    BY <2>2 DEF NumInv
  <2>8. job[w].no \in {row[j].no : j \in U}
    BY <1>2, <1>6, <2>6, <2>7 DEF Sequential
  <2>9. PICK j \in U : row[j].no = job[w].no
    BY <2>8
  <2>10. j \in job[v].mine
    BY <1>4, <2>3, <2>9
  <2>11. QED
    BY <2>9, <2>10 DEF Inserting, Waits
<1>8. QED
  BY <1>1, <1>6, <1>7

LEMMA NumInit == Init => NumInv
<1> SUFFICES ASSUME Init PROVE NumInv
  OBVIOUS
<1>1. \A w \in Writers : job[w].mine = {} /\ job[w].pc = "idle"
  BY IdleJob DEF Init
<1>2. Committed = {}
  BY NoRows DEF Init, Committed, Exists
<1>3. \A w \in Writers : Visible(w) = {}
  BY <1>1, <1>2 DEF Visible
<1>4. Sequential(row, {})
  BY FS_EmptySet DEF Sequential
<1>5. QED
  BY <1>1, <1>2, <1>3, <1>4 DEF NumInv

\* Numbers stay in sequence when a step changes neither what is seen nor
\* the numbers, and what writers counted stays or is counted anew.
LEMMA NumStays ==
  ASSUME TypeOK, NumInv, gap' = gap,
         \A v \in Writers : job'[v].mine = job[v].mine,
         \A i \in Id : Exists(i)' <=> Exists(i),
         \A i \in Id : row'[i].no = row[i].no,
         \A v \in Writers : job'[v].pc = "insert" =>
                            \/ job[v].pc = "insert" /\ job'[v].no = job[v].no
                            \/ job'[v].no = NextNumber(v)
  PROVE  NumInv'
<1> SUFFICES ASSUME ~gap PROVE NumInv'
  BY DEF NumInv
<1>1. Committed' = Committed /\ \A v \in Writers : Visible(v)' = Visible(v)
  BY ViewsStay
<1>2. PICK C \in SUBSET Id : C = Committed
  BY SeenIds DEF Committed
<1>3. Sequential(row', Committed')
  <2>1. Sequential(row, C) /\ \A i \in C : row'[i].no = row[i].no
    BY <1>2 DEF NumInv
  <2>2. QED
    BY <1>1, <1>2, <2>1, SameNumbers
<1>4. ASSUME NEW w \in Writers
      PROVE  /\ Sequential(row', Visible(w)')
             /\ job'[w].pc = "insert" => job'[w].no >= 1 /\ job'[w].no <= Cardinality(Visible(w)') + 1
  <2>1. PICK V \in SUBSET Id : V = Visible(w)
    BY SeenIds
  <2>2. Sequential(row, V) /\ \A i \in V : row'[i].no = row[i].no
    BY <2>1 DEF NumInv
  <2>3. Sequential(row', V)
    BY <2>2, SameNumbers
  <2>4. Cardinality(V) \in Nat /\ NextNumber(w) = Cardinality(V) + 1
    BY <2>1, FiniteIds DEF NextNumber
  <2>5. job[w].pc = "insert" => job[w].no >= 1 /\ job[w].no <= Cardinality(V) + 1
    BY <2>1 DEF NumInv
  <2>6. job'[w].pc = "insert" => job'[w].no >= 1 /\ job'[w].no <= Cardinality(V) + 1
    BY <2>4, <2>5
  <2>7. QED
    BY <1>1, <2>1, <2>3, <2>6
<1>5. QED
  BY <1>3, <1>4 DEF NumInv

LEMMA NumStep == TypeOK /\ MineInv /\ NumInv /\ [Next]_vars => NumInv'
<1> SUFFICES ASSUME TypeOK, MineInv, NumInv, [Next]_vars PROVE NumInv'
  OBVIOUS
<1>0. StepKinds
  BY StepKind
<1>1. CASE Still
  BY <1>1, NumStays DEF Still, Kept, Exists
<1>2. ASSUME NEW i \in Committed, Payment(i) PROVE NumInv'
  <2>1. \A j \in Id : (Exists(j)' <=> Exists(j)) /\ row'[j].no = row[j].no
    BY <1>2 DEF Payment, Pays, SameInvoice, Exists
  <2>2. QED
    BY <1>2, <2>1, NumStays DEF Payment, Kept
<1>3. ASSUME NEW i \in Committed, Removal(i) PROVE NumInv'
  BY <1>3 DEF Removal, NumInv
<1>4. ASSUME NEW w \in Writers, Begins(w) PROVE NumInv'
  <2>1. job[w].mine = {} /\ row' = row /\ gap' = gap
    BY <1>4 DEF TypeOK, Begins
  <2>2. PICK J \in Job : Turns(w, J) /\ J.mine = {} /\ (J.pc = "next" \/ J.pc = "count")
    BY <1>4, Zenon DEF Begins
  <2>3. \A v \in Writers : job'[v].mine = job[v].mine
    BY <2>1, <2>2 DEF Turns
  <2>4. \A v \in Writers : job'[v].pc = "insert" => job[v].pc = "insert" /\ job'[v].no = job[v].no
    BY <2>2 DEF Turns
  <2>5. QED
    BY <2>1, <2>3, <2>4, NumStays DEF Exists
<1>5. ASSUME NEW w \in Writers, NEW c \in Customers, Checking(w, c) PROVE NumInv'
  <2>1. row' = row /\ gap' = gap /\ \A v \in Writers : job'[v].mine = job[v].mine
    BY <1>5, AtFields DEF Checking, CheckedTurns, Turns, Kept
  <2>2. \A v \in Writers : job'[v].pc = "insert" => job[v].pc = "insert" /\ job'[v].no = job[v].no
    BY <1>5, AtFields DEF Checking, CheckedTurns, Turns
  <2>3. QED
    BY <2>1, <2>2, NumStays DEF Exists
<1>6. ASSUME NEW w \in Writers, Counting(w) PROVE NumInv'
  <2>1. row' = row /\ gap' = gap /\ \A v \in Writers : job'[v].mine = job[v].mine
    BY <1>6, AtFields DEF Counting, Turns, Kept
  <2>2. \A v \in Writers : job'[v].pc = "insert" => \/ job[v].pc = "insert" /\ job'[v].no = job[v].no
                                                    \/ job'[v].no = NextNumber(v)
    BY <1>6, AtFields DEF Counting, Turns
  <2>3. QED
    BY <2>1, <2>2, NumStays DEF Exists
<1>7. ASSUME NEW w \in Writers, NEW i \in Id, Inserting(w, i) PROVE NumInv'
  <2> SUFFICES ASSUME ~gap PROVE NumInv'
    BY <1>7 DEF Inserting, Kept, NumInv
  <2>1. /\ job[w].no = Cardinality(Visible(w)) + 1
        /\ \A v \in Writers \ {w} : job[v].mine = {}
    BY <1>7, NumberIsNext
  <2>2. row'[i].no = job[w].no /\ \A j \in Id \ {i} : row'[j] = row[j]
    BY <1>7, NewInvoiceRow DEF Inserting, Inserted, Sets
  <2>3. PICK V \in SUBSET Id : V = Visible(w)
    BY SeenIds
  <2>4. PICK C \in SUBSET Id : C = Committed
    BY SeenIds DEF Committed
  <2>5. C \subseteq V /\ \A v \in Writers \ {w} : Visible(v) = C
    BY <2>1, <2>3, <2>4 DEF Visible
  <2>6. Sequential(row, V) /\ Sequential(row, C) /\ Cardinality(V) \in Nat /\ Cardinality(C) \in Nat
    BY <2>3, <2>4, FiniteIds DEF NumInv
  <2>7. CASE job[w].auto
    <3>1. /\ Committed' = C /\ i \notin V /\ Visible(w)' = V \union {i}
          /\ \A v \in Writers \ {w} : Visible(v)' = C
      BY <1>7, <2>3, <2>4, <2>5, <2>7, ViewsHold
    <3>2. Sequential(row', V \union {i})
      <4>1. \A j \in V : row'[j].no = row[j].no
        BY <2>2, <3>1
      <4>2. row'[i].no = Cardinality(V) + 1
        BY <2>1, <2>2, <2>3
      <4>3. QED
        BY <2>6, <3>1, <4>1, <4>2, NumberAdded
    <3>3. Sequential(row', C)
      <4>1. \A j \in C : row'[j].no = row[j].no
        BY <2>2, <2>5, <3>1
      <4>2. QED
        BY <2>6, <4>1, SameNumbers
    <3>4. \A v \in Writers : Sequential(row', Visible(v)')
      BY <3>1, <3>2, <3>3
    <3>5. \A v \in Writers \ {w} : job'[v] = job[v]
      BY <1>7, <2>7, AtFields DEF Inserting, Inserted, Turns
    <3>6. \A v, u \in Writers : v # u => job'[v].mine = {} \/ job'[u].mine = {}
      BY <2>1, <3>5
    <3>7. job'[w].pc = "next"
      BY <1>7, <2>7, AtFields DEF Inserting, Inserted, Turns
    <3>8. \A v \in Writers : job'[v].pc = "insert" =>
                             job'[v].no >= 1 /\ job'[v].no <= Cardinality(Visible(v)') + 1
      BY <2>5, <3>1, <3>5, <3>7 DEF NumInv
    <3>9. QED
      BY <3>1, <3>3, <3>4, <3>6, <3>8 DEF NumInv
  <2>8. CASE ~job[w].auto
    <3>1. job[w].mine = {} /\ V = C
      BY <2>3, <2>4, <2>8 DEF MineInv, AtWork, Visible
    <3>2. /\ Committed' = C \union {i} /\ i \notin C
          /\ \A v \in Writers : Visible(v)' = C \union {i}
      BY <1>7, <2>3, <2>4, <2>5, <2>8, <3>1, ViewsGrow
    <3>3. Sequential(row', C \union {i}) /\ Cardinality(C \union {i}) = Cardinality(C) + 1
      <4>1. \A j \in C : row'[j].no = row[j].no
        BY <2>2, <3>2
      <4>2. row'[i].no = Cardinality(C) + 1
        BY <2>1, <2>2, <2>3, <3>1
      <4>3. QED
        BY <2>6, <3>2, <4>1, <4>2, NumberAdded, AddedId
    <3>4. /\ \A v \in Writers \ {w} : job'[v] = job[v]
          /\ job'[w].pc = "idle" /\ job'[w].mine = {}
      BY <1>7, <2>8, IdleJob DEF Inserting, Inserted, Turns
    <3>5. \A v, u \in Writers : v # u => job'[v].mine = {} \/ job'[u].mine = {}
      BY <2>1, <3>4
    <3>6. \A v \in Writers \ {w} : job[v].pc = "insert" =>
                                   job[v].no >= 1 /\ job[v].no <= Cardinality(C) + 1 /\ job[v].no \in Nat
      BY <2>5, JobFields DEF NumInv
    <3>7. \A v \in Writers : job'[v].pc = "insert" =>
                             job'[v].no >= 1 /\ job'[v].no <= Cardinality(Visible(v)') + 1
      <4> SUFFICES ASSUME NEW v \in Writers, job'[v].pc = "insert"
                   PROVE  job'[v].no >= 1 /\ job'[v].no <= Cardinality(Visible(v)') + 1
        OBVIOUS
      <4>1. v # w /\ job'[v] = job[v]
        BY <3>4
      <4>2. job[v].no >= 1 /\ job[v].no <= Cardinality(C) + 1 + 1
        BY <2>6, <3>6, <4>1
      <4>3. Cardinality(Visible(v)') = Cardinality(C) + 1
        BY <3>2, <3>3
      <4>4. QED
        BY <4>1, <4>2, <4>3
    <3>8. Sequential(row', Committed') /\ \A v \in Writers : Sequential(row', Visible(v)')
      BY <3>2, <3>3
    <3>9. QED
      BY <3>5, <3>7, <3>8 DEF NumInv
  <2>9. QED
    BY <2>7, <2>8
<1>8. ASSUME NEW w \in Writers, Losing(w) PROVE NumInv'
  <2> SUFFICES ASSUME ~gap PROVE NumInv'
    BY <1>8 DEF Losing, Kept, NumInv
  <2>1. /\ Committed' = Committed /\ Visible(w)' = Committed
        /\ \A v \in Writers \ {w} : Visible(v)' = Visible(v)
        /\ \A i \in Committed : row'[i] = row[i]
        /\ \A v \in Writers \ {w} : \A i \in Visible(v) : row'[i] = row[i]
    BY <1>8, ViewsLose
  <2>2. /\ \A v \in Writers \ {w} : job'[v] = job[v]
        /\ job'[w].pc = "idle" /\ job'[w].mine = {}
    BY <1>8, IdleJob DEF Losing, Loses, Turns
  <2>3. Sequential(row', Committed)
    BY <2>1, SameNumbers DEF NumInv
  <2>4. \A v \in Writers \ {w} : Sequential(row', Visible(v))
    BY <2>1, SameNumbers DEF NumInv
  <2>5. \A v \in Writers : Sequential(row', Visible(v)')
    BY <2>1, <2>3, <2>4
  <2>6. \A v, u \in Writers : v # u => job'[v].mine = {} \/ job'[u].mine = {}
    BY <2>2 DEF NumInv
  <2>7. \A v \in Writers : job'[v].pc = "insert" =>
                           job'[v].no >= 1 /\ job'[v].no <= Cardinality(Visible(v)') + 1
    BY <2>1, <2>2 DEF NumInv
  <2>8. QED
    BY <2>1, <2>3, <2>5, <2>6, <2>7 DEF NumInv
<1>9. ASSUME NEW w \in Writers, Committing(w) PROVE NumInv'
  <2> SUFFICES ASSUME ~gap PROVE NumInv'
    BY <1>9 DEF Committing, Kept, NumInv
  <2>1. /\ Committed' = Visible(w) /\ Visible(w)' = Visible(w)
        /\ \A v \in Writers \ {w} : Visible(v)' = Visible(v) \union job[w].mine
    BY <1>9, ViewsCommit
  <2>2. /\ \A v \in Writers \ {w} : job'[v] = job[v]
        /\ job'[w].pc = "idle" /\ job'[w].mine = {} /\ row' = row
    BY <1>9, IdleJob DEF Committing, Turns
  <2>3. CASE job[w].mine = {}
    <3>1. Visible(w) = Committed /\ \A v \in Writers : Visible(v)' = Visible(v)
      BY <2>1, <2>3 DEF Visible
    <3>2. \A v, u \in Writers : v # u => job'[v].mine = {} \/ job'[u].mine = {}
      BY <2>2 DEF NumInv
    <3>3. \A v \in Writers : job'[v].pc = "insert" =>
                             job'[v].no >= 1 /\ job'[v].no <= Cardinality(Visible(v)') + 1
      BY <2>2, <3>1 DEF NumInv
    <3>4. QED
      BY <2>1, <2>2, <3>1, <3>2, <3>3 DEF NumInv
  <2>4. CASE job[w].mine # {}
    <3>1. \A v \in Writers \ {w} : job[v].mine = {}
      BY <2>4 DEF NumInv
    <3>2. PICK V \in SUBSET Id : V = Visible(w)
      BY SeenIds
    <3>3. PICK C \in SUBSET Id : C = Committed
      BY SeenIds DEF Committed
    <3>4. C \subseteq V /\ \A v \in Writers \ {w} : Visible(v) = C /\ Visible(v)' = V
      BY <2>1, <3>1, <3>2, <3>3 DEF Visible
    <3>5. Cardinality(C) <= Cardinality(V) /\ Cardinality(C) \in Nat /\ Cardinality(V) \in Nat
      BY <3>4, MoreIds, FiniteIds
    <3>6. Sequential(row', V)
      BY <2>2, <3>2 DEF NumInv
    <3>7. \A v \in Writers : Sequential(row', Visible(v)')
      BY <2>1, <3>2, <3>4, <3>6
    <3>8. \A v, u \in Writers : v # u => job'[v].mine = {} \/ job'[u].mine = {}
      BY <2>2 DEF NumInv
    <3>9. \A v \in Writers \ {w} : job[v].pc = "insert" =>
                                   job[v].no >= 1 /\ job[v].no <= Cardinality(C) + 1 /\ job[v].no \in Nat
      BY <3>4, JobFields DEF NumInv
    <3>10. \A v \in Writers : job'[v].pc = "insert" =>
                              job'[v].no >= 1 /\ job'[v].no <= Cardinality(Visible(v)') + 1
      BY <2>2, <3>4, <3>5, <3>9
    <3>11. QED
      BY <2>1, <3>2, <3>6, <3>7, <3>8, <3>10 DEF NumInv
  <2>5. QED
    BY <2>3, <2>4
<1>10. QED
  BY <1>0, <1>1, <1>2, <1>3, <1>4, <1>5, <1>6, <1>7, <1>8, <1>9 DEF StepKinds

-----------------------------------------------------------------------------
(* One recurring invoice for a customer and period.                        *)

Recurring(i) == Exists(i) /\ row[i].auto

SamePeriod(i, j) == row[i].cust = row[j].cust /\ row[i].period = row[j].period

\* Without an overlap one task is at work; there is one recurring invoice,
\* held back or not; and there is none for the customer the task is about to
\* bill.
OnceInv ==
  ~overlap =>
    /\ \A v, w \in Writers : AtWork(v) /\ AtWork(w) => v = w
    /\ \A i, j \in Id : Recurring(i) /\ Recurring(j) /\ SamePeriod(i, j) => i = j
    /\ \A w \in Writers : job[w].pc \in {"count", "insert"} /\ job[w].auto =>
         \A i \in Id : Recurring(i) /\ row[i].cust = job[w].cust => row[i].period # job[w].period

LEMMA OnceInit == Init => OnceInv
<1> SUFFICES ASSUME Init PROVE OnceInv
  OBVIOUS
<1>1. \A w \in Writers : job[w].pc = "idle"
  BY IdleJob DEF Init
<1>2. \A i \in Id : ~Recurring(i)
  BY NoRows DEF Init, Recurring, Exists
<1>3. QED
  BY <1>1, <1>2 DEF OnceInv, AtWork

\* No invoice becomes a recurring one, those there are keep their customer
\* and period; workers are those there were, and bill whom they did.
LEMMA OnceStays ==
  ASSUME OnceInv, overlap' = overlap,
         \A i \in Id : Recurring(i)' => Recurring(i) /\ SameInvoice(row'[i], row[i]),
         \A w \in Writers : AtWork(w)' => AtWork(w),
         \A w \in Writers : job'[w].pc \in {"count", "insert"} /\ job'[w].auto =>
            /\ job[w].pc \in {"count", "insert"} /\ job[w].auto
            /\ job'[w].cust = job[w].cust /\ job'[w].period = job[w].period
  PROVE  OnceInv'
<1> SUFFICES ASSUME ~overlap PROVE OnceInv'
  BY DEF OnceInv
<1>1. \A v, w \in Writers : AtWork(v)' /\ AtWork(w)' => v = w
  BY DEF OnceInv
<1>2. \A i, j \in Id : Recurring(i)' /\ Recurring(j)' /\ SamePeriod(i, j)' => i = j
  BY DEF OnceInv, SamePeriod, SameInvoice
<1>3. \A w \in Writers : job'[w].pc \in {"count", "insert"} /\ job'[w].auto =>
         \A i \in Id : Recurring(i)' /\ row'[i].cust = job'[w].cust => row'[i].period # job'[w].period
  BY DEF OnceInv, SameInvoice
<1>4. QED
  BY <1>1, <1>2, <1>3 DEF OnceInv

LEMMA OnceStep == TypeOK /\ MineInv /\ OnceInv /\ [Next]_vars => OnceInv'
<1> SUFFICES ASSUME TypeOK, MineInv, OnceInv, [Next]_vars PROVE OnceInv'
  OBVIOUS
<1>0. StepKinds
  BY StepKind
<1>1. CASE Still
  BY <1>1, OnceStays DEF Still, Kept, Recurring, Exists, SameInvoice, AtWork
<1>2. ASSUME NEW i \in Committed, Payment(i) PROVE OnceInv'
  <2>1. \A j \in Id : Recurring(j)' => Recurring(j) /\ SameInvoice(row'[j], row[j])
    BY <1>2 DEF Payment, Pays, SameInvoice, Recurring, Exists
  <2>2. QED
    BY <1>2, <2>1, OnceStays DEF Payment, Kept, AtWork
<1>3. ASSUME NEW i \in Committed, Removal(i) PROVE OnceInv'
  <2>1. \A j \in Id : Recurring(j)' => Recurring(j) /\ SameInvoice(row'[j], row[j])
    BY <1>3, NoRows DEF Removal, Sets, SameInvoice, Recurring, Exists
  <2>2. QED
    BY <1>3, <2>1, OnceStays DEF Removal, AtWork
<1>4. ASSUME NEW w \in Writers, Begins(w) PROVE OnceInv'
  <2>1. row' = row /\ job[w].pc = "idle"
    BY <1>4 DEF Begins
  <2>2. PICK J \in Job : /\ Turns(w, J)
                         /\ \/ J.pc = "next" /\ (overlap' <=> (overlap \/ \E v \in Writers : AtWork(v)))
                            \/ J.pc = "count" /\ ~J.auto /\ overlap' = overlap
    BY <1>4, Zenon DEF Begins
  <2>3. \A j \in Id : Recurring(j)' => Recurring(j) /\ SameInvoice(row'[j], row[j])
    BY <2>1 DEF SameInvoice, Recurring, Exists
  <2>4. \A v \in Writers : job'[v].pc \in {"count", "insert"} /\ job'[v].auto =>
            /\ job[v].pc \in {"count", "insert"} /\ job[v].auto
            /\ job'[v].cust = job[v].cust /\ job'[v].period = job[v].period
    BY <2>2 DEF Turns
  <2>5. CASE J.pc = "count" /\ ~J.auto /\ overlap' = overlap
    <3>1. \A v \in Writers : AtWork(v)' => AtWork(v)
      BY <2>2, <2>5 DEF Turns, AtWork
    <3>2. QED
      BY <2>3, <2>4, <2>5, <3>1, OnceStays
  <2>6. CASE J.pc = "next" /\ (overlap' <=> (overlap \/ \E v \in Writers : AtWork(v)))
    <3> SUFFICES ASSUME ~overlap' PROVE OnceInv'
      BY DEF OnceInv
    <3>1. ~overlap /\ \A v \in Writers : ~AtWork(v)
      BY <2>6
    <3>2. \A u, v \in Writers : AtWork(u)' /\ AtWork(v)' => u = v
      BY <2>2, <3>1 DEF Turns, AtWork
    <3>3. \A i, j \in Id : Recurring(i)' /\ Recurring(j)' /\ SamePeriod(i, j)' => i = j
      BY <2>1, <3>1 DEF OnceInv, Recurring, Exists, SamePeriod
    <3>4. \A v \in Writers : ~(job'[v].pc \in {"count", "insert"} /\ job'[v].auto)
      BY <2>4, <3>1 DEF AtWork
    <3>5. QED
      BY <3>2, <3>3, <3>4 DEF OnceInv
  <2>7. QED
    BY <2>2, <2>5, <2>6
<1>5. ASSUME NEW w \in Writers, NEW c \in Customers, Checking(w, c) PROVE OnceInv'
  <2>1. row' = row /\ overlap' = overlap /\ job[w].pc = "next"
    BY <1>5 DEF Checking, Kept
  <2>2. \A j \in Id : Recurring(j)' => Recurring(j) /\ SameInvoice(row'[j], row[j])
    BY <2>1 DEF SameInvoice, Recurring, Exists
  <2>3. \A v \in Writers : AtWork(v)' => AtWork(v)
    BY <1>5, <2>1, AtFields DEF Checking, CheckedTurns, Turns, AtWork
  <2>4. CASE Turns(w, At(w, "next", job[w].todo \ {c}, Someone, 0, job[w].mine))
    <3>1. \A v \in Writers : job'[v].pc \in {"count", "insert"} /\ job'[v].auto =>
              /\ job[v].pc \in {"count", "insert"} /\ job[v].auto
              /\ job'[v].cust = job[v].cust /\ job'[v].period = job[v].period
      BY <2>4, AtFields DEF Turns
    <3>2. QED
      BY <2>1, <2>2, <2>3, <3>1, OnceStays
  <2>5. CASE ~AlreadyBilled(w, c) /\ Turns(w, At(w, "count", job[w].todo, c, 0, job[w].mine))
    <3> SUFFICES ASSUME ~overlap PROVE OnceInv'
      BY <2>1 DEF OnceInv
    <3>1. /\ job'[w].pc = "count" /\ job'[w].auto = job[w].auto /\ job'[w].cust = c
          /\ job'[w].period = job[w].period /\ \A v \in Writers \ {w} : job'[v] = job[v]
      BY <2>5, AtFields DEF Turns
    <3>2. ASSUME job[w].auto, NEW i \in Id, Recurring(i), row[i].cust = c
          PROVE  row[i].period # job[w].period
      <4>1. AtWork(w)
        BY <2>1, <3>2 DEF AtWork
      <4>2. \A v \in Writers : i \in job[v].mine => v = w
        BY <4>1 DEF MineInv, OnceInv
      <4>3. i \in Visible(w)
        BY <3>2, <4>2 DEF Visible, Committed, Uncommitted, Recurring
      <4>4. QED
        BY <2>5, <3>2, <4>3 DEF AlreadyBilled
    <3>3. \A u, v \in Writers : AtWork(u)' /\ AtWork(v)' => u = v
      BY <2>3 DEF OnceInv
    <3>4. \A i, j \in Id : Recurring(i)' /\ Recurring(j)' /\ SamePeriod(i, j)' => i = j
      BY <2>1 DEF OnceInv, Recurring, Exists, SamePeriod
    <3>5. \A v \in Writers : job'[v].pc \in {"count", "insert"} /\ job'[v].auto =>
            \A i \in Id : Recurring(i)' /\ row'[i].cust = job'[v].cust => row'[i].period # job'[v].period
      <4> SUFFICES ASSUME NEW v \in Writers, job'[v].pc \in {"count", "insert"}, job'[v].auto,
                          NEW i \in Id, Recurring(i)', row'[i].cust = job'[v].cust
                   PROVE  row'[i].period # job'[v].period
        OBVIOUS
      <4>1. Recurring(i)
        BY <2>2
      <4>2. CASE v = w
        BY <2>1, <3>1, <3>2, <4>1, <4>2
      <4>3. CASE v # w
        BY <2>1, <3>1, <4>1, <4>3 DEF OnceInv
      <4>4. QED
        BY <4>2, <4>3
    <3>6. QED
      BY <3>3, <3>4, <3>5 DEF OnceInv
  <2>6. QED
    BY <1>5, <2>4, <2>5 DEF Checking, CheckedTurns
<1>6. ASSUME NEW w \in Writers, Counting(w) PROVE OnceInv'
  <2>1. row' = row /\ overlap' = overlap /\ job[w].pc = "count"
    BY <1>6 DEF Counting, Kept
  <2>2. \A j \in Id : Recurring(j)' => Recurring(j) /\ SameInvoice(row'[j], row[j])
    BY <2>1 DEF SameInvoice, Recurring, Exists
  <2>3. \A v \in Writers : AtWork(v)' => AtWork(v)
    BY <1>6, <2>1, AtFields DEF Counting, Turns, AtWork
  <2>4. \A v \in Writers : job'[v].pc \in {"count", "insert"} /\ job'[v].auto =>
            /\ job[v].pc \in {"count", "insert"} /\ job[v].auto
            /\ job'[v].cust = job[v].cust /\ job'[v].period = job[v].period
    BY <1>6, <2>1, AtFields DEF Counting, Turns
  <2>5. QED
    BY <2>1, <2>2, <2>3, <2>4, OnceStays
<1>7. ASSUME NEW w \in Writers, NEW i \in Id, Inserting(w, i) PROVE OnceInv'
  <2>1. /\ overlap' = overlap /\ job[w].pc = "insert"
        /\ \A j \in Id \ {i} : row'[j] = row[j]
        /\ row'[i].cust = job[w].cust /\ row'[i].period = job[w].period /\ row'[i].auto = job[w].auto
    BY <1>7, NewInvoiceRow DEF Inserting, Inserted, Sets, Kept
  <2>2. CASE ~job[w].auto
    <3>1. \A j \in Id : Recurring(j)' => Recurring(j) /\ SameInvoice(row'[j], row[j])
      BY <2>1, <2>2 DEF SameInvoice, Recurring, Exists
    <3>2. job'[w].pc = "idle" /\ \A v \in Writers \ {w} : job'[v] = job[v]
      BY <1>7, <2>2, IdleJob DEF Inserting, Inserted, Turns
    <3>3. \A v \in Writers : AtWork(v)' => AtWork(v)
      BY <3>2 DEF AtWork
    <3>4. \A v \in Writers : job'[v].pc \in {"count", "insert"} /\ job'[v].auto =>
              /\ job[v].pc \in {"count", "insert"} /\ job[v].auto
              /\ job'[v].cust = job[v].cust /\ job'[v].period = job[v].period
      BY <3>2
    <3>5. QED
      BY <2>1, <3>1, <3>3, <3>4, OnceStays
  <2>3. CASE job[w].auto
    <3> SUFFICES ASSUME ~overlap PROVE OnceInv'
      BY <2>1 DEF OnceInv
    <3>1. job'[w].pc = "next" /\ \A v \in Writers \ {w} : job'[v] = job[v]
      BY <1>7, <2>3, AtFields DEF Inserting, Inserted, Turns
    <3>2. AtWork(w)
      BY <2>1, <2>3 DEF AtWork
    <3>3. \A v \in Writers : AtWork(v)' => v = w
      BY <3>1, <3>2 DEF OnceInv, AtWork
    <3>4. \A v \in Writers : ~(job'[v].pc \in {"count", "insert"} /\ job'[v].auto)
      BY <3>1, <3>3 DEF AtWork
    <3>5. \A j \in Id \ {i} : Recurring(j)' => ~SamePeriod(i, j)'
      <4> SUFFICES ASSUME NEW j \in Id \ {i}, Recurring(j)' PROVE ~SamePeriod(i, j)'
        OBVIOUS
      <4>1. Recurring(j) /\ row'[j] = row[j]
        BY <2>1 DEF Recurring, Exists
      <4>2. row[j].cust = job[w].cust => row[j].period # job[w].period
        BY <2>1, <2>3, <4>1 DEF OnceInv
      <4>3. QED
        BY <2>1, <4>1, <4>2 DEF SamePeriod
    <3>6. \A j, k \in Id \ {i} : Recurring(j)' /\ Recurring(k)' /\ SamePeriod(j, k)' => j = k
      BY <2>1 DEF OnceInv, Recurring, Exists, SamePeriod
    <3>7. \A j, k \in Id : SamePeriod(j, k)' => SamePeriod(k, j)'
      BY DEF SamePeriod
    <3>8. \A j, k \in Id : Recurring(j)' /\ Recurring(k)' /\ SamePeriod(j, k)' => j = k
      BY <3>5, <3>6, <3>7
    <3>9. QED
      BY <3>3, <3>4, <3>8 DEF OnceInv
  <2>4. QED
    BY <2>2, <2>3
<1>8. ASSUME NEW w \in Writers, Losing(w) PROVE OnceInv'
  <2>1. overlap' = overlap /\ job'[w].pc = "idle" /\ \A v \in Writers \ {w} : job'[v] = job[v]
    BY <1>8, IdleJob DEF Losing, Loses, Kept, Turns
  <2>2. \A j \in Id : Recurring(j)' => Recurring(j) /\ SameInvoice(row'[j], row[j])
    BY <1>8 DEF Losing, Loses, SameInvoice, Recurring, Exists
  <2>3. \A v \in Writers : AtWork(v)' => AtWork(v)
    BY <2>1 DEF AtWork
  <2>4. \A v \in Writers : job'[v].pc \in {"count", "insert"} /\ job'[v].auto =>
            /\ job[v].pc \in {"count", "insert"} /\ job[v].auto
            /\ job'[v].cust = job[v].cust /\ job'[v].period = job[v].period
    BY <2>1
  <2>5. QED
    BY <2>1, <2>2, <2>3, <2>4, OnceStays
<1>9. ASSUME NEW w \in Writers, Committing(w) PROVE OnceInv'
  <2>1. row' = row /\ overlap' = overlap /\ job'[w].pc = "idle"
        /\ \A v \in Writers \ {w} : job'[v] = job[v]
    BY <1>9, IdleJob DEF Committing, Kept, Turns
  <2>2. \A j \in Id : Recurring(j)' => Recurring(j) /\ SameInvoice(row'[j], row[j])
    BY <2>1 DEF SameInvoice, Recurring, Exists
  <2>3. \A v \in Writers : AtWork(v)' => AtWork(v)
    BY <2>1 DEF AtWork
  <2>4. \A v \in Writers : job'[v].pc \in {"count", "insert"} /\ job'[v].auto =>
            /\ job[v].pc \in {"count", "insert"} /\ job[v].auto
            /\ job'[v].cust = job[v].cust /\ job'[v].period = job[v].period
    BY <2>1
  <2>5. QED
    BY <2>1, <2>2, <2>3, <2>4, OnceStays
<1>10. QED
  BY <1>0, <1>1, <1>2, <1>3, <1>4, <1>5, <1>6, <1>7, <1>8, <1>9 DEF StepKinds

-----------------------------------------------------------------------------
(* Attempts: what each step does to the messages and to the work of a task.*)

Quiet == queue' = queue /\ month' = month /\ faults' >= faults

Taking(w) ==
  /\ row' = row /\ gap' = gap /\ month' = month /\ faults' >= faults /\ job[w].pc = "idle"
  /\ \E m \in queue : Turns(w, Running(m)) /\ (queue' = queue \/ queue' = queue \ {m})

Starting(w) ==
  /\ row' = row /\ gap' = gap /\ Quiet /\ job[w].pc = "idle"
  /\ \E J \in Job : Turns(w, J) /\ ~J.auto /\ J.mine = {} /\ J.pc = "count"

Ending(w) == Committing(w) /\ job[w].todo = {} /\ Quiet

\* The attempt of w fails: its number was taken, or something else happened.
Failing(w) ==
  /\ Losing(w) /\ month' = month /\ job[w].pc # "idle"
  /\ \/ job[w].pc = "insert" /\ Clashes(w) /\ faults' = faults
     \/ faults' = faults + 1
  /\ \/ ~job[w].auto /\ queue' = queue
     \/ job[w].auto /\ queue' = queue \union Retried(Asked(w))
     \/ job[w].auto /\ queue' = queue \union {Asked(w)} /\ faults' = faults + 1

TaskKinds ==
  \/ BillingDay
  \/ gap'
  \/ Still /\ Quiet
  \/ \E i \in Committed : Payment(i) /\ Quiet
  \/ \E w \in Writers : \/ Taking(w) \/ Starting(w) \/ Ending(w) \/ Failing(w)
                        \/ Counting(w) /\ Quiet
                        \/ \E c \in Customers : Checking(w, c) /\ Quiet
                        \/ \E i \in Id : Inserting(w, i) /\ Quiet

LEMMA TaskKind == TypeOK /\ [Next]_vars => TaskKinds
<1> SUFFICES ASSUME TypeOK, [Next]_vars PROVE TaskKinds
  OBVIOUS
<1>0. faults \in Nat
  BY DEF TypeOK
<1>1. CASE BillingDay
  BY <1>1 DEF TaskKinds
<1>2. ASSUME NEW w \in Writers, TakeTask(w) PROVE TaskKinds
  <2>1. PICK m \in queue : /\ job' = [job EXCEPT ![w] = Running(m)]
                           /\ queue' = queue \/ queue' = queue \ {m}
                           /\ faults' = faults \/ faults' = faults + 1
    BY <1>2 DEF TakeTask
  <2>2. Turns(w, Running(m))
    BY <2>1, TakeTurns DEF TypeOK
  <2>3. faults' >= faults
    BY <1>0, <2>1
  <2>4. Taking(w)
    BY <1>2, <2>1, <2>2, <2>3 DEF TakeTask, Taking
  <2>5. QED
    BY <2>4 DEF TaskKinds
<1>3. ASSUME NEW w \in Writers, NEW c \in Customers, CheckCustomer(w, c) PROVE TaskKinds
  <2>1. Checking(w, c)
    BY <1>3, CheckTurns DEF CheckCustomer, billVars, Checking, Kept
  <2>2. Quiet
    BY <1>0, <1>3 DEF CheckCustomer, billVars, Quiet
  <2>3. QED
    BY <2>1, <2>2 DEF TaskKinds
<1>4. ASSUME NEW w \in Writers, NEW c \in Customers, NEW p \in {0, month}, BeginManual(w, c, p)
      PROVE  TaskKinds
  <2>1. p \in 0..MaxMonths
    BY Zeros DEF TypeOK
  <2>2. Turns(w, ByHand(c, p)) /\ ByHand(c, p) \in Job /\ ByHand(c, p).pc = "count"
        /\ ByHand(c, p).mine = {} /\ ~ByHand(c, p).auto
    BY <1>4, <2>1, HandTurns, ByHandJob DEF BeginManual
  <2>3. row' = row /\ gap' = gap /\ job[w].pc = "idle" /\ Quiet
    BY <1>0, <1>4 DEF BeginManual, Quiet
  <2>4. Starting(w)
    BY <2>2, <2>3, Zenon DEF Starting
  <2>5. QED
    BY <2>4 DEF TaskKinds
<1>5. ASSUME NEW w \in Writers, CountInvoices(w) PROVE TaskKinds
  <2>1. Counting(w)
    BY <1>5, CountTurns DEF CountInvoices, billVars, Counting, Kept
  <2>2. Quiet
    BY <1>0, <1>5 DEF CountInvoices, billVars, Quiet
  <2>3. QED
    BY <2>1, <2>2 DEF TaskKinds
<1>6. ASSUME NEW w \in Writers, InsertInvoice(w) PROVE TaskKinds
  <2>1. PICK i \in Id : Inserted(w, i)
    BY <1>6, Inserts
  <2>2. Inserting(w, i)
    BY <1>6, <2>1 DEF InsertInvoice, billVars, Inserting, Kept
  <2>3. Quiet
    BY <1>0, <1>6 DEF InsertInvoice, billVars, Quiet
  <2>4. QED
    BY <2>2, <2>3 DEF TaskKinds
<1>7. ASSUME NEW w \in Writers, NumberTaken(w) \/ WriterFails(w) PROVE TaskKinds
  <2>1. Losing(w)
    BY <1>7, LosesAll DEF NumberTaken, WriterFails, billVars, Losing, Kept
  <2>2. month' = month /\ job[w].pc # "idle"
    BY <1>7 DEF NumberTaken, WriterFails, billVars
  <2>3. \/ job[w].pc = "insert" /\ Clashes(w) /\ faults' = faults
        \/ faults' = faults + 1
    BY <1>7 DEF NumberTaken, WriterFails
  <2>4. \/ GivesUp(w)
        \/ job[w].auto /\ queue' = queue \union {Asked(w)} /\ faults' = faults + 1
    BY <1>7 DEF NumberTaken, WriterFails
  <2>5. GivesUp(w) => \/ ~job[w].auto /\ queue' = queue
                      \/ job[w].auto /\ queue' = queue \union Retried(Asked(w))
    BY Zenon DEF GivesUp
  <2>6. Failing(w)
    BY <2>1, <2>2, <2>3, <2>4, <2>5, Zenon DEF Failing
  <2>7. QED
    BY <2>6 DEF TaskKinds
<1>8. ASSUME NEW w \in Writers, CommitTask(w) PROVE TaskKinds
  <2>1. Committing(w)
    BY <1>8, IdleTurns DEF CommitTask, billVars, Committing, Kept
  <2>2. Ending(w)
    BY <1>0, <1>8, <2>1 DEF CommitTask, billVars, Ending, Quiet
  <2>3. QED
    BY <2>2 DEF TaskKinds
<1>9. ASSUME NEW i \in Id, Reopen(i) \/ MarkPaid(i) PROVE TaskKinds
  <2>1. i \in Committed /\ Pays(i)
    BY <1>9, StatusPays DEF Reopen, MarkPaid
  <2>2. Payment(i)
    BY <1>9, <2>1 DEF Reopen, MarkPaid, billVars, Payment, Kept
  <2>3. Quiet
    BY <1>0, <1>9 DEF Reopen, MarkPaid, billVars, Quiet
  <2>4. QED
    BY <2>1, <2>2, <2>3 DEF TaskKinds
<1>10. ASSUME NEW i \in Id, DeleteInvoice(i) PROVE TaskKinds
  BY <1>10 DEF DeleteInvoice, TaskKinds
<1>11. ASSUME NEW i \in Id, NEW s \in Session, RequestLink(i, s) PROVE TaskKinds
  BY <1>0, <1>11 DEF RequestLink, Still, Kept, Quiet, TaskKinds
<1>12. ASSUME NEW s \in Session, Pay(s) PROVE TaskKinds
  BY <1>0, <1>12 DEF Pay, Still, Kept, Quiet, TaskKinds
<1>13. ASSUME NEW s \in Session, Webhook(s) PROVE TaskKinds
  <2>1. row' = row \/ \E i \in Committed : Pays(i)
    BY <1>13, WebhookPays
  <2>2. job' = job /\ Kept /\ queue' = queue /\ month' = month
    BY <1>13 DEF Webhook, Kept
  <2>3. faults' >= faults
    BY <1>0, <1>13 DEF Webhook
  <2>4. QED
    BY <2>1, <2>2, <2>3 DEF Still, Payment, Quiet, TaskKinds
<1>14. CASE UNCHANGED vars
  BY <1>0, <1>14 DEF vars, Still, Kept, Quiet, TaskKinds
<1>15. QED
  BY <1>1, <1>2, <1>3, <1>4, <1>5, <1>6, <1>7, <1>8, <1>9, <1>10, <1>11, <1>12, <1>13, <1>14
     DEF Next, Write, Administrate

-----------------------------------------------------------------------------
(* Nobody is forgotten.                                                    *)

LEMMA AtTries ==
  ASSUME NEW w, NEW c, NEW T, NEW k, NEW n, NEW M
  PROVE  At(w, c, T, k, n, M).tries = job[w].tries
BY DEF At

\* What is held back was made by the task.
HeldInv == \A w \in Writers : \A i \in job[w].mine : row[i].auto

LEMMA HeldInit == Init => HeldInv
BY IdleJob DEF Init, HeldInv

LEMMA HeldStep == TypeOK /\ MineInv /\ HeldInv /\ [Next]_vars => HeldInv'
<1> SUFFICES ASSUME TypeOK, MineInv, HeldInv, [Next]_vars PROVE HeldInv'
  OBVIOUS
<1>0. StepKinds
  BY StepKind
<1>1. CASE Still
  BY <1>1 DEF Still, HeldInv
<1>2. ASSUME NEW i \in Committed, Payment(i) PROVE HeldInv'
  BY <1>2, JobFields DEF Payment, Pays, SameInvoice, HeldInv
<1>3. ASSUME NEW i \in Committed, Removal(i) PROVE HeldInv'
  <2>1. \A w \in Writers : i \notin job[w].mine
    BY DEF Committed, Uncommitted
  <2>2. QED
    BY <1>3, <2>1, JobFields DEF Removal, Sets, HeldInv
<1>4. ASSUME NEW w \in Writers, Begins(w) PROVE HeldInv'
  <2>1. PICK J \in Job : Turns(w, J) /\ J.mine = {}
    BY <1>4, Zenon DEF Begins
  <2>2. QED
    BY <1>4, <2>1 DEF Begins, Turns, HeldInv
<1>5. ASSUME NEW w \in Writers, NEW c \in Customers, Checking(w, c) PROVE HeldInv'
  BY <1>5, AtFields DEF Checking, CheckedTurns, Turns, HeldInv
<1>6. ASSUME NEW w \in Writers, Counting(w) PROVE HeldInv'
  BY <1>6, AtFields DEF Counting, Turns, HeldInv
<1>7. ASSUME NEW w \in Writers, NEW i \in Id, Inserting(w, i) PROVE HeldInv'
  <2>1. \A v \in Writers : i \notin job[v].mine
    BY <1>7 DEF Inserting, Inserted, MineInv, Exists
  <2>2. row'[i].auto = job[w].auto /\ \A j \in Id \ {i} : row'[j] = row[j]
    BY <1>7, NewInvoiceRow DEF Inserting, Inserted, Sets
  <2>3. \A v \in Writers : \A j \in job[v].mine : row'[j].auto
    BY <2>1, <2>2, JobFields DEF HeldInv
  <2>4. CASE job[w].auto
    <3>1. job'[w].mine = job[w].mine \union {i} /\ \A v \in Writers \ {w} : job'[v] = job[v]
      BY <1>7, <2>4, AtFields DEF Inserting, Inserted, Turns
    <3>2. row'[i].auto
      BY <2>2, <2>4
    <3>3. QED
      BY <2>3, <3>1, <3>2 DEF HeldInv
  <2>5. CASE ~job[w].auto
    <3>1. job'[w].mine = {} /\ \A v \in Writers \ {w} : job'[v] = job[v]
      BY <1>7, <2>5, IdleJob DEF Inserting, Inserted, Turns
    <3>2. QED
      BY <2>3, <3>1 DEF HeldInv
  <2>6. QED
    BY <2>4, <2>5
<1>8. ASSUME NEW w \in Writers, Losing(w) PROVE HeldInv'
  <2>1. job'[w].mine = {} /\ \A v \in Writers \ {w} : job'[v] = job[v]
    BY <1>8, IdleJob DEF Losing, Loses, Turns
  <2>2. \A v \in Writers \ {w} : \A i \in job[v].mine : i \in Id /\ i \notin job[w].mine
    BY JobFields DEF MineInv
  <2>3. QED
    BY <1>8, <2>1, <2>2 DEF Losing, Loses, HeldInv
<1>9. ASSUME NEW w \in Writers, Committing(w) PROVE HeldInv'
  BY <1>9, IdleJob DEF Committing, Turns, HeldInv
<1>10. QED
  BY <1>0, <1>1, <1>2, <1>3, <1>4, <1>5, <1>6, <1>7, <1>8, <1>9 DEF StepKinds

\* What rows S show keeps to show the same.
Lasting(S, T) == S \subseteq T /\ \A i \in S : SameInvoice(row'[i], row[i])

\* As long as nothing is deleted, what is committed, and what a task at work
\* sees, stays.
LEMMA SeenStays ==
  ASSUME TypeOK, MineInv, StepKinds, ~gap'
  PROVE  /\ Lasting(Committed, Committed')
         /\ \A v \in Writers : AtWork(v) /\ AtWork(v)' => Lasting(Visible(v), Visible(v)')
         /\ ~gap
<1>a. \A v \in Writers : Visible(v) \subseteq Id /\ Committed \subseteq Id
  BY SeenIds DEF Committed
<1>b. Committed \subseteq Id
  BY DEF Committed
<1>1. CASE Still
  <2>1. Committed' = Committed /\ \A v \in Writers : Visible(v)' = Visible(v)
    BY <1>1, ViewsStay DEF Still, Exists
  <2>2. QED
    BY <1>1, <2>1 DEF Still, Kept, Lasting, SameInvoice
<1>2. ASSUME NEW i \in Committed, Payment(i)
      PROVE  /\ Lasting(Committed, Committed') /\ ~gap
             /\ \A v \in Writers : Lasting(Visible(v), Visible(v)')
  <2>1. \A j \in Id : (Exists(j)' <=> Exists(j)) /\ SameInvoice(row'[j], row[j])
    BY <1>2 DEF Payment, Pays, SameInvoice, Exists
  <2>2. Committed' = Committed /\ \A v \in Writers : Visible(v)' = Visible(v)
    BY <1>2, <2>1, ViewsStay DEF Payment
  <2>3. QED
    BY <1>a, <1>b, <1>2, <2>1, <2>2 DEF Payment, Kept, Lasting
<1>3. ASSUME NEW i \in Committed, Removal(i) PROVE FALSE
  BY <1>3 DEF Removal
<1>4. ASSUME NEW w \in Writers,
             \/ Begins(w) \/ Counting(w) \/ \E c \in Customers : Checking(w, c)
      PROVE  /\ Lasting(Committed, Committed') /\ ~gap
             /\ \A v \in Writers : Lasting(Visible(v), Visible(v)')
  <2>1. row' = row /\ gap' = gap
    BY <1>4 DEF Begins, Counting, Checking, Kept
  <2>2. \A v \in Writers : job'[v].mine = job[v].mine
    <3>1. CASE Begins(w)
      <4>1. job[w].mine = {}
        BY <3>1 DEF TypeOK, Begins
      <4>2. PICK J \in Job : Turns(w, J) /\ J.mine = {}
        BY <3>1, Zenon DEF Begins
      <4>3. QED
        BY <4>1, <4>2 DEF Turns
    <3>2. CASE Counting(w)
      BY <3>2, AtFields DEF Counting, Turns
    <3>3. ASSUME NEW c \in Customers, Checking(w, c) PROVE \A v \in Writers : job'[v].mine = job[v].mine
      BY <3>3, AtFields DEF Checking, CheckedTurns, Turns
    <3>4. QED
      BY <1>4, <3>1, <3>2, <3>3
  <2>3. Committed' = Committed /\ \A v \in Writers : Visible(v)' = Visible(v)
    BY <2>1, <2>2, ViewsStay DEF Exists
  <2>4. QED
    BY <2>1, <2>3 DEF Lasting, SameInvoice
<1>5. ASSUME NEW w \in Writers, NEW i \in Id, Inserting(w, i)
      PROVE  /\ Lasting(Committed, Committed') /\ ~gap
             /\ \A v \in Writers : Lasting(Visible(v), Visible(v)')
  <2>1. gap' = gap /\ \A j \in Id \ {i} : row'[j] = row[j]
    BY <1>5 DEF Inserting, Inserted, Sets, Kept
  <2>2. i \notin Committed /\ \A v \in Writers : i \notin Visible(v)
    BY <1>5 DEF Inserting, Inserted, Committed, Visible, Exists, MineInv
  <2>3. Committed \subseteq Committed' /\ \A v \in Writers : Visible(v) \subseteq Visible(v)'
    <3>1. CASE job[w].auto
      BY <1>5, <3>1, ViewsHold
    <3>2. CASE ~job[w].auto
      BY <1>5, <3>2, ViewsGrow
    <3>3. QED
      BY <3>1, <3>2
  <2>4. \A j \in Committed : SameInvoice(row'[j], row[j])
    BY <1>b, <2>1, <2>2 DEF SameInvoice
  <2>5. \A v \in Writers : \A j \in Visible(v) : SameInvoice(row'[j], row[j])
    BY <1>a, <2>1, <2>2 DEF SameInvoice
  <2>6. QED
    BY <2>1, <2>3, <2>4, <2>5 DEF Lasting
<1>6. ASSUME NEW w \in Writers, Losing(w)
      PROVE  /\ Lasting(Committed, Committed') /\ ~gap
             /\ \A v \in Writers : AtWork(v) /\ AtWork(v)' => Lasting(Visible(v), Visible(v)')
  <2>1. ~AtWork(w)'
    BY <1>6, IdleJob DEF Losing, Loses, Turns, AtWork
  <2>2. QED
    BY <1>6, <2>1, ViewsLose DEF Losing, Kept, Lasting, SameInvoice
<1>7. ASSUME NEW w \in Writers, Committing(w)
      PROVE  /\ Lasting(Committed, Committed') /\ ~gap
             /\ \A v \in Writers : Lasting(Visible(v), Visible(v)')
  <2>1. Committed \subseteq Committed' /\ \A v \in Writers : Visible(v) \subseteq Visible(v)'
    BY <1>7, ViewsCommit DEF Visible
  <2>2. QED
    BY <1>7, <2>1 DEF Committing, Kept, Lasting, SameInvoice
<1>8. QED
  BY <1>1, <1>2, <1>3, <1>4, <1>5, <1>6, <1>7 DEF StepKinds

HandMade == {i \in Id : Exists(i) /\ ~row[i].auto}

\* What is disturbed stays disturbed, what is billed stays billed.
Onward ==
  /\ Disturbances \in Nat /\ Disturbances' \in Nat /\ Disturbances' >= Disturbances
  /\ \A m \in 0..MaxMonths : Billed(m) => Billed(m)'

LEMMA Disturbs ==
  ASSUME TypeOK, TypeOK', faults' >= faults, HandMade \subseteq HandMade'
  PROVE  /\ Disturbances \in Nat /\ Disturbances' \in Nat /\ Disturbances' >= Disturbances
         /\ HandMade # HandMade' \/ faults' # faults => Disturbances' >= Disturbances + 1
<1>1. PICK A \in SUBSET Id, B \in SUBSET Id : A = HandMade /\ B = HandMade'
  BY DEF HandMade
<1>2. Disturbances = faults + Cardinality(A) /\ Disturbances' = faults' + Cardinality(B)
  BY <1>1 DEF Disturbances, HandMade
<1>3. Cardinality(A) \in Nat /\ Cardinality(B) \in Nat
  BY FiniteIds
<1>4. Cardinality(A) <= Cardinality(B) /\ (A # B => Cardinality(A) + 1 <= Cardinality(B))
  BY <1>1, MoreIds
<1>5. faults \in Nat /\ faults' \in Nat
  BY DEF TypeOK
<1>6. QED
  BY <1>1, <1>2, <1>3, <1>4, <1>5

LEMMA HandsStay ==
  ASSUME TypeOK, HeldInv, Lasting(Committed, Committed')
  PROVE  HandMade \subseteq HandMade'
<1> SUFFICES ASSUME NEW i \in HandMade PROVE i \in HandMade'
  OBVIOUS
<1>1. i \in Id /\ Exists(i) /\ ~row[i].auto
  BY DEF HandMade
<1>2. i \in Committed
  BY <1>1 DEF Committed, Uncommitted, HeldInv
<1>3. i \in Committed' /\ row'[i].auto = row[i].auto
  BY <1>2 DEF Lasting, SameInvoice
<1>4. QED
  BY <1>1, <1>3 DEF HandMade, Committed

LEMMA BilledStays ==
  ASSUME Lasting(Committed, Committed'), NEW m, Billed(m)
  PROVE  Billed(m)'
BY DEF Billed, Lasting, SameInvoice

LEMMA GoesOn ==
  ASSUME TypeOK, TypeOK', HeldInv, Lasting(Committed, Committed'), faults' >= faults
  PROVE  Onward
<1>1. HandMade \subseteq HandMade'
  BY HandsStay
<1>2. QED
  BY <1>1, Disturbs, BilledStays DEF Onward

\* Not more disturbances than t, or everybody has the invoice of the month.
Chance(t) == t <= Disturbances \/ Billed(month)

HasInvoice(S, c, p) == \E i \in S : row[i].cust = c /\ row[i].period = p

\* The number that w has counted is taken by now.
Spoiled(w) == job[w].pc = "insert" /\ Clashes(w)

Attempt(w) ==
  /\ job[w].period = month
  /\ Chance(job[w].tries)
  /\ Spoiled(w) => Chance(job[w].tries + 1)
  /\ \A c \in Customers \ job[w].todo : HasInvoice(Visible(w), c, month)

AskedInv   == \A q \in queue : q.period = month /\ Chance(q.tries)
AttemptInv == \A w \in Writers : AtWork(w) => Attempt(w)
MonthInv   ==
  Disturbances <= MaxRetries =>
    /\ \A m \in 1..month : m < month => Billed(m)
    /\ month = 0 \/ Billed(month) \/ queue # {} \/ \E w \in Writers : AtWork(w)

\* Until an invoice is deleted, every attempt is of this month, has been
\* preceded by a disturbance for each try, and has an invoice for everybody it
\* has gone through; and there is another attempt or everybody is billed.
BudgetInv == ~gap => AskedInv /\ AttemptInv /\ MonthInv

LEMMA Months == ASSUME TypeOK PROVE month \in Nat /\ month \in 0..MaxMonths
BY BillingAssumption DEF TypeOK, BillingAssumption

LEMMA BudgetInit == Init => BudgetInv
<1> SUFFICES ASSUME Init PROVE BudgetInv
  OBVIOUS
<1>1. queue = {} /\ month = 0 /\ \A w \in Writers : ~AtWork(w)
  BY IdleJob DEF Init, AtWork
<1>2. MonthInv
  BY <1>1 DEF MonthInv
<1>3. QED
  BY <1>1, <1>2 DEF BudgetInv, AskedInv, AttemptInv

LEMMA ChanceStays ==
  ASSUME TypeOK, Onward, month' = month, NEW t \in Nat, Chance(t)
  PROVE  Chance(t)'
BY Months DEF Chance, Onward

LEMMA BilledKept == ASSUME TypeOK, Onward, Billed(month), month' = month PROVE Billed(month)'
BY Months DEF Onward

LEMMA AskedStays ==
  ASSUME TypeOK, Onward, month' = month, queue' \subseteq queue, AskedInv
  PROVE  AskedInv'
<1> SUFFICES ASSUME NEW q \in queue' PROVE q.period = month' /\ Chance(q.tries)'
  BY DEF AskedInv
<1>1. q \in queue /\ q.tries \in Nat /\ q.period = month /\ Chance(q.tries)
  BY BillingAssumption DEF TypeOK, Message, AskedInv, BillingAssumption
<1>2. PICK t \in Nat : t = q.tries
  BY <1>1
<1>3. Chance(t)'
  BY <1>1, <1>2, ChanceStays
<1>4. QED
  BY <1>1, <1>2, <1>3

\* Writer v has an attempt after the step when it had one, when its number was
\* taken before or there is another disturbance, and when those it has now
\* gone through have an invoice.
LEMMA AttemptStays ==
  ASSUME TypeOK, Onward, month' = month, NEW v \in Writers, Attempt(v),
         job'[v].period = job[v].period, job'[v].tries = job[v].tries,
         Lasting(Visible(v), Visible(v)'),
         \/ ~Spoiled(v)' \/ Spoiled(v) \/ Disturbances' >= Disturbances + 1 \/ Billed(month)',
         \A c \in Customers \ job'[v].todo : c \notin job[v].todo \/ HasInvoice(Visible(v), c, month)'
  PROVE  Attempt(v)'
<1>1. PICK t \in Nat : t = job[v].tries
  BY JobFields
<1>2. Chance(t)'
  BY <1>1, ChanceStays DEF Attempt
<1>3. Spoiled(v)' => Chance(t + 1)'
  <2>1. CASE Spoiled(v)
    BY <1>1, <2>1, ChanceStays DEF Attempt
  <2>2. CASE Disturbances' >= Disturbances + 1
    <3>1. t <= Disturbances \/ Billed(month)
      BY <1>1 DEF Attempt, Chance
    <3>2. t <= Disturbances => t + 1 <= Disturbances'
      BY <2>2 DEF Onward
    <3>3. Billed(month) => Billed(month)'
      BY Months DEF Onward
    <3>4. QED
      BY <3>1, <3>2, <3>3 DEF Chance
  <2>3. CASE Billed(month)'
    BY <2>3 DEF Chance
  <2>4. QED
    BY <2>1, <2>2, <2>3
<1>4. \A c \in Customers \ job'[v].todo : HasInvoice(Visible(v), c, month)'
  BY DEF Attempt, HasInvoice, Lasting, SameInvoice
<1>5. QED
  BY <1>1, <1>2, <1>3, <1>4 DEF Attempt

\* A writer that the step does not touch.
LEMMA AttemptKept ==
  ASSUME TypeOK, Onward, month' = month, NEW v \in Writers, Attempt(v), job'[v] = job[v],
         Lasting(Visible(v), Visible(v)'),
         Visible(v)' = Visible(v) \/ Disturbances' >= Disturbances + 1 \/ Billed(month)'
  PROVE  Attempt(v)'
<1>1. Visible(v)' = Visible(v) /\ Spoiled(v)' => Spoiled(v)
  BY DEF Spoiled, Clashes, Lasting, SameInvoice
<1>2. QED
  BY <1>1, AttemptStays

LEMMA MonthStays ==
  ASSUME TypeOK, Onward, month' = month, MonthInv,
         \/ Billed(month)' \/ queue' # {} \/ \E w \in Writers : AtWork(w)'
         \/ Disturbances' > MaxRetries
         \/ queue = {} /\ \A w \in Writers : ~AtWork(w)
  PROVE  MonthInv'
<1> SUFFICES ASSUME Disturbances' <= MaxRetries PROVE MonthInv'
  BY DEF MonthInv
<1>1. Disturbances <= MaxRetries
  BY BillingAssumption DEF Onward, BillingAssumption
<1>2. \A m \in 1..month : m < month => m \in 0..MaxMonths /\ Billed(m)
  BY <1>1, Months, BillingAssumption DEF MonthInv, BillingAssumption
<1>3. \A m \in 1..month' : m < month' => Billed(m)'
  BY <1>2 DEF Onward
<1>4. month = 0 \/ Billed(month) \/ queue # {} \/ \E w \in Writers : AtWork(w)
  BY <1>1 DEF MonthInv
<1>5. ~(Disturbances' > MaxRetries)
  BY BillingAssumption DEF Onward, BillingAssumption
<1>6. Billed(month) => Billed(month)'
  BY Months DEF Onward
<1>7. month' = 0 \/ Billed(month)' \/ queue' # {} \/ \E w \in Writers : AtWork(w)'
  BY <1>4, <1>5, <1>6
<1>8. QED
  BY <1>3, <1>7 DEF MonthInv

LEMMA QuietStays ==
  ASSUME TypeOK, Onward, Quiet, AskedInv, MonthInv,
         (\A v \in Writers : AtWork(v) => AtWork(v)') \/ Billed(month)'
  PROVE  AskedInv' /\ MonthInv'
<1>1. AskedInv'
  BY AskedStays DEF Quiet
<1>2. \/ Billed(month)' \/ queue' # {} \/ \E w \in Writers : AtWork(w)'
      \/ queue = {} /\ \A w \in Writers : ~AtWork(w)
  BY DEF Quiet
<1>3. MonthInv'
  BY <1>2, MonthStays DEF Quiet
<1>4. QED
  BY <1>1, <1>3

LEMMA RunningFields ==
  ASSUME NEW m
  PROVE  /\ Running(m).period = m.period /\ Running(m).tries = m.tries
         /\ Running(m).todo = Customers /\ Running(m).pc = "next" /\ Running(m).mine = {}
         /\ Running(m).auto
BY DEF Running

\* A new month begins when the attempts for the last are over.
LEMMA BudgetDay ==
  ASSUME TypeOK, TypeOK', BillingDay, AskedInv, AttemptInv, MonthInv
  PROVE  AskedInv' /\ AttemptInv' /\ MonthInv'
<1>1. /\ queue = {} /\ row' = row /\ job' = job /\ faults' = faults /\ month' = month + 1
      /\ queue' = {[period |-> month + 1, tries |-> 0]}
      /\ \A w \in Writers : ~AtWork(w)
  BY DEF BillingDay, AtWork
<1>2. Committed' = Committed
  BY <1>1, ViewsStay DEF Exists
<1>3. HandMade' = HandMade /\ \A m : Billed(m) => Billed(m)'
  BY <1>1, <1>2 DEF HandMade, Exists, Billed
<1>4. Disturbances' = Disturbances /\ Disturbances' \in Nat
  <2>1. Disturbances' = Disturbances
    BY <1>1, <1>3 DEF Disturbances, HandMade
  <2>2. faults' >= faults
    BY <1>1 DEF TypeOK
  <2>3. QED
    BY <1>3, <2>1, <2>2, Disturbs
<1>5. AskedInv'
  <2>1. Chance(0)'
    BY <1>4 DEF Chance
  <2>2. QED
    BY <1>1, <2>1 DEF AskedInv
<1>6. AttemptInv'
  BY <1>1 DEF AttemptInv, AtWork
<1>7. MonthInv'
  <2> SUFFICES ASSUME Disturbances <= MaxRetries
               PROVE  \A m \in 1..month' : m < month' => Billed(m)'
    BY <1>1, <1>4 DEF MonthInv
  <2> SUFFICES ASSUME NEW m \in 1..(month + 1), m < month + 1 PROVE Billed(m)'
    BY <1>1
  <2>1. CASE m < month
    BY <1>3, <2>1, Months DEF MonthInv
  <2>2. CASE m = month
    <3>1. month # 0
      BY <2>2
    <3>2. Billed(month)
      BY <1>1, <3>1 DEF MonthInv
    <3>3. QED
      BY <1>3, <2>2, <3>2
  <2>3. QED
    BY <2>1, <2>2, Months
<1>8. QED
  BY <1>5, <1>6, <1>7

\* A task that ends has an invoice for everybody.
LEMMA BudgetEnding ==
  ASSUME TypeOK, MineInv, Onward, NEW w \in Writers, Ending(w),
         AskedInv, AttemptInv, MonthInv,
         \A v \in Writers : AtWork(v) /\ AtWork(v)' => Lasting(Visible(v), Visible(v)')
  PROVE  AskedInv' /\ AttemptInv' /\ MonthInv'
<1>1. /\ Committing(w) /\ Quiet /\ job[w].todo = {} /\ row' = row /\ month' = month
      /\ job'[w].pc = "idle" /\ \A v \in Writers \ {w} : job'[v] = job[v]
  BY IdleJob DEF Ending, Quiet, Committing, Turns
<1>2. /\ Committed' = Visible(w)
      /\ \A v \in Writers \ {w} : Visible(v)' = Visible(v) \union job[w].mine
  BY <1>1, ViewsCommit
<1>3. CASE AtWork(w)
  <2>1. Billed(month)'
    BY <1>1, <1>2, <1>3 DEF AttemptInv, Attempt, HasInvoice, Billed
  <2>2. AskedInv' /\ MonthInv'
    BY <1>1, <2>1, QuietStays
  <2>3. ASSUME NEW v \in Writers, AtWork(v)' PROVE Attempt(v)'
    <3>1. v # w /\ job'[v] = job[v] /\ AtWork(v) /\ Attempt(v)
      BY <1>1, <2>3 DEF AtWork, AttemptInv
    <3>2. QED
      BY <1>1, <2>1, <2>3, <3>1, AttemptKept
  <2>4. QED
    BY <2>2, <2>3 DEF AttemptInv
<1>4. CASE ~AtWork(w)
  <2>1. job[w].mine = {}
    BY <1>4 DEF MineInv
  <2>2. \A v \in Writers : AtWork(v) => AtWork(v)'
    BY <1>1, <1>4 DEF AtWork
  <2>3. AskedInv' /\ MonthInv'
    BY <1>1, <2>2, QuietStays
  <2>4. ASSUME NEW v \in Writers, AtWork(v)' PROVE Attempt(v)'
    <3>1. v # w /\ job'[v] = job[v] /\ AtWork(v) /\ Attempt(v)
      BY <1>1, <2>4 DEF AtWork, AttemptInv
    <3>2. Visible(v)' = Visible(v)
      BY <1>2, <2>1, <3>1
    <3>3. QED
      BY <1>1, <2>4, <3>1, <3>2, AttemptKept
  <2>5. QED
    BY <2>3, <2>4 DEF AttemptInv
<1>5. QED
  BY <1>3, <1>4

\* An attempt that fails is repeated when there was a disturbance.
LEMMA BudgetFailing ==
  ASSUME TypeOK, TypeOK', MineInv, Onward, HandMade \subseteq HandMade', NEW w \in Writers, Failing(w),
         AskedInv, AttemptInv, MonthInv,
         \A v \in Writers : AtWork(v) /\ AtWork(v)' => Lasting(Visible(v), Visible(v)')
  PROVE  AskedInv' /\ AttemptInv' /\ MonthInv'
<1>1. /\ Losing(w) /\ month' = month
      /\ job'[w].pc = "idle" /\ \A v \in Writers \ {w} : job'[v] = job[v]
  BY IdleJob DEF Failing, Losing, Loses, Turns
<1>2. \A v \in Writers \ {w} : Visible(v)' = Visible(v)
  BY <1>1, ViewsLose
<1>3. faults \in Nat /\ faults' \in Nat /\ faults' >= faults
  BY DEF TypeOK, Failing
<1>4. faults' # faults => Disturbances' >= Disturbances + 1
  BY <1>3, Disturbs
<1>5. AttemptInv'
  <2> SUFFICES ASSUME NEW v \in Writers, AtWork(v)' PROVE Attempt(v)'
    BY DEF AttemptInv
  <2>1. v # w /\ job'[v] = job[v] /\ AtWork(v) /\ Attempt(v)
    BY <1>1 DEF AtWork, AttemptInv
  <2>2. QED
    BY <1>1, <1>2, <2>1, AttemptKept
<1>6. CASE ~job[w].auto
  <2>1. queue' = queue
    BY <1>6 DEF Failing
  <2>2. \A v \in Writers : AtWork(v) => AtWork(v)'
    BY <1>1, <1>6 DEF AtWork
  <2>3. Quiet
    BY <1>1, <1>3, <2>1 DEF Quiet
  <2>4. QED
    BY <1>5, <2>2, <2>3, QuietStays
<1>7. CASE job[w].auto
  <2>1. AtWork(w) /\ Attempt(w)
    BY <1>7 DEF Failing, AtWork, AttemptInv
  <2>2. PICK t \in Nat : t = job[w].tries
    BY JobFields
  <2>3. PICK q : q = Asked(w)
    OBVIOUS
  <2>4. q.period = month /\ q.tries = t /\ q \in Message
    BY <2>1, <2>2, <2>3, Asks DEF Asked, Attempt
  <2>5. Chance(t)'
    BY <1>1, <2>1, <2>2, ChanceStays DEF Attempt
  <2>6. queue' = queue \union Retried(q) \/ (queue' = queue \union {q} /\ faults' = faults + 1)
    BY <1>7, <2>3 DEF Failing
  <2>7. \A p \in queue : p.period = month' /\ Chance(p.tries)'
    <3> SUFFICES ASSUME NEW p \in queue PROVE p.period = month' /\ Chance(p.tries)'
      OBVIOUS
    <3>1. p.tries \in Nat /\ p.period = month /\ Chance(p.tries)
      BY BillingAssumption DEF TypeOK, Message, AskedInv, BillingAssumption
    <3>2. PICK k \in Nat : k = p.tries
      BY <3>1
    <3>3. QED
      BY <1>1, <3>1, <3>2, ChanceStays
  <2>8. Chance(t + 1)'
    <3>1. CASE faults' = faults + 1
      <4>1. Disturbances' >= Disturbances + 1
        BY <1>3, <1>4, <3>1
      <4>2. t <= Disturbances => t + 1 <= Disturbances'
        BY <4>1 DEF Onward
      <4>3. Billed(month) => Billed(month)'
        BY <1>1, BilledKept
      <4>4. t <= Disturbances \/ Billed(month)
        BY <2>1, <2>2 DEF Attempt, Chance
      <4>5. QED
        BY <1>1, <4>2, <4>3, <4>4 DEF Chance
    <3>2. CASE job[w].pc = "insert" /\ Clashes(w)
      BY <1>1, <2>1, <2>2, <3>2, ChanceStays DEF Attempt, Spoiled
    <3>3. QED
      BY <3>1, <3>2 DEF Failing
  <2>9. CASE queue' = queue \union {q} /\ faults' = faults + 1
    <3>1. AskedInv'
      BY <1>1, <2>4, <2>5, <2>7, <2>9 DEF AskedInv
    <3>2. MonthInv'
      BY <1>1, <2>9, MonthStays
    <3>3. QED
      BY <1>5, <3>1, <3>2
  <2>10. CASE queue' = queue \union Retried(q)
    <3>1. CASE t < MaxRetries
      <4>1. PICK r : r = [q EXCEPT !.tries = @ + 1]
        OBVIOUS
      <4>2. Retried(q) = {r}
        BY <2>4, <3>1, <4>1 DEF Retried
      <4>3. r.period = month /\ r.tries = t + 1
        BY <2>4, <4>1 DEF Message
      <4>4. AskedInv'
        BY <1>1, <2>7, <2>8, <2>10, <4>2, <4>3 DEF AskedInv
      <4>5. MonthInv'
        BY <1>1, <2>10, <4>2, MonthStays
      <4>6. QED
        BY <1>5, <4>4, <4>5
    <3>2. CASE ~(t < MaxRetries)
      <4>1. queue' = queue
        BY <2>4, <2>10, <3>2 DEF Retried
      <4>2. AskedInv'
        BY <1>1, <2>7, <4>1 DEF AskedInv
      <4>3. t + 1 <= Disturbances' => Disturbances' > MaxRetries
        BY <3>2, BillingAssumption DEF Onward, BillingAssumption
      <4>4. Billed(month)' \/ Disturbances' > MaxRetries
        BY <1>1, <2>8, <4>3 DEF Chance
      <4>5. MonthInv'
        BY <1>1, <4>4, MonthStays
      <4>6. QED
        BY <1>5, <4>2, <4>5
    <3>3. QED
      BY <3>1, <3>2
  <2>11. QED
    BY <2>6, <2>9, <2>10
<1>8. QED
  BY <1>6, <1>7

LEMMA FaultsRise ==
  ASSUME TypeOK, TypeOK', TaskKinds, ~gap'
  PROVE  faults' >= faults
<1>1. faults \in Nat /\ faults' \in Nat
  BY DEF TypeOK
<1>2. BillingDay => faults' = faults
  BY DEF BillingDay
<1>3. QED
  BY <1>1, <1>2 DEF TaskKinds, Quiet, Taking, Starting, Ending, Failing

LEMMA BudgetStep ==
  TypeOK /\ MineInv /\ HeldInv /\ NumInv /\ BudgetInv /\ [Next]_vars => BudgetInv'
<1> SUFFICES ASSUME TypeOK, MineInv, HeldInv, NumInv, BudgetInv, [Next]_vars, ~gap'
             PROVE  AskedInv' /\ AttemptInv' /\ MonthInv'
  BY DEF BudgetInv
<1>1. TypeOK' /\ StepKinds /\ TaskKinds
  BY TypeStep, StepKind, TaskKind
<1>2. /\ Lasting(Committed, Committed') /\ ~gap
      /\ \A v \in Writers : AtWork(v) /\ AtWork(v)' => Lasting(Visible(v), Visible(v)')
  BY <1>1, SeenStays
<1>3. AskedInv /\ AttemptInv /\ MonthInv
  BY <1>2 DEF BudgetInv
<1>4. HandMade \subseteq HandMade' /\ Onward
  BY <1>1, <1>2, FaultsRise, HandsStay, GoesOn
<1>5. CASE BillingDay
  BY <1>1, <1>3, <1>5, BudgetDay
<1>6. ASSUME job' = job, Quiet, \A i \in Id : Exists(i)' <=> Exists(i)
      PROVE  AskedInv' /\ AttemptInv' /\ MonthInv'
  <2>1. \A v \in Writers : Visible(v)' = Visible(v) /\ (AtWork(v)' <=> AtWork(v))
    BY <1>6, ViewsStay DEF AtWork
  <2>2. AskedInv' /\ MonthInv'
    BY <1>3, <1>4, <1>6, <2>1, QuietStays
  <2>3. AttemptInv'
    BY <1>2, <1>3, <1>4, <1>6, <2>1, AttemptKept DEF AttemptInv, Quiet
  <2>4. QED
    BY <2>2, <2>3
<1>7. CASE Still /\ Quiet
  BY <1>6, <1>7 DEF Still, Exists
<1>8. ASSUME NEW i \in Committed, Payment(i), Quiet PROVE AskedInv' /\ AttemptInv' /\ MonthInv'
  BY <1>6, <1>8 DEF Payment, Pays, Exists
<1>9. ASSUME NEW w \in Writers, Taking(w) PROVE AskedInv' /\ AttemptInv' /\ MonthInv'
  <2>1. PICK m \in queue : Turns(w, Running(m)) /\ (queue' = queue \/ queue' = queue \ {m})
    BY <1>9 DEF Taking
  <2>2. /\ month' = month /\ row' = row /\ job[w].pc = "idle" /\ job[w].mine = {}
        /\ m.tries \in Nat /\ m.period = month /\ Chance(m.tries)
    BY <1>3, <1>9, BillingAssumption DEF Taking, TypeOK, Message, AskedInv, BillingAssumption
  <2>3. \A v \in Writers : job'[v].mine = job[v].mine
    BY <2>1, <2>2, RunningFields DEF Turns
  <2>4. \A v \in Writers : Visible(v)' = Visible(v)
    BY <2>2, <2>3, ViewsStay DEF Exists
  <2>5. PICK t \in Nat : t = m.tries
    BY <2>2
  <2>6. Chance(t)'
    BY <1>4, <2>2, <2>5, ChanceStays
  <2>7. /\ job'[w].period = month' /\ job'[w].tries = t /\ job'[w].todo = Customers
        /\ job'[w].pc = "next" /\ AtWork(w)'
    BY <2>1, <2>2, <2>5, RunningFields DEF Turns, AtWork
  <2>8. Attempt(w)'
    BY <2>6, <2>7 DEF Attempt, Spoiled
  <2>9. AttemptInv'
    <3> SUFFICES ASSUME NEW v \in Writers, v # w, AtWork(v)' PROVE Attempt(v)'
      BY <2>8 DEF AttemptInv
    <3>1. job'[v] = job[v] /\ AtWork(v) /\ Attempt(v)
      BY <1>3, <2>1 DEF Turns, AtWork, AttemptInv
    <3>2. QED
      BY <1>2, <1>4, <2>2, <2>4, <3>1, AttemptKept
  <2>10. AskedInv'
    BY <1>3, <1>4, <2>1, <2>2, AskedStays
  <2>11. MonthInv'
    BY <1>3, <1>4, <2>2, <2>7, MonthStays
  <2>12. QED
    BY <2>9, <2>10, <2>11
<1>10. ASSUME NEW w \in Writers, Starting(w) PROVE AskedInv' /\ AttemptInv' /\ MonthInv'
  <2>1. PICK J \in Job : Turns(w, J) /\ ~J.auto /\ J.mine = {}
    BY <1>10, Zenon DEF Starting
  <2>2. Quiet /\ row' = row /\ job[w].pc = "idle" /\ job[w].mine = {}
    BY <1>10 DEF Starting, TypeOK
  <2>3. \A v \in Writers : job'[v].mine = job[v].mine
    BY <2>1, <2>2 DEF Turns
  <2>4. \A v \in Writers : Visible(v)' = Visible(v)
    BY <2>2, <2>3, ViewsStay DEF Exists
  <2>5. \A v \in Writers : AtWork(v) => AtWork(v)'
    BY <2>1, <2>2 DEF Turns, AtWork
  <2>6. AskedInv' /\ MonthInv'
    BY <1>3, <1>4, <2>2, <2>5, QuietStays
  <2>7. AttemptInv'
    <3> SUFFICES ASSUME NEW v \in Writers, AtWork(v)' PROVE Attempt(v)'
      BY DEF AttemptInv
    <3>1. job'[v] = job[v] /\ AtWork(v) /\ Attempt(v)
      BY <1>3, <2>1 DEF Turns, AtWork, AttemptInv
    <3>2. QED
      BY <1>2, <1>4, <2>2, <2>4, <3>1, AttemptKept DEF Quiet
  <2>8. QED
    BY <2>6, <2>7
<1>11. ASSUME NEW w \in Writers, Ending(w) PROVE AskedInv' /\ AttemptInv' /\ MonthInv'
  BY <1>2, <1>3, <1>4, <1>11, BudgetEnding
<1>12. ASSUME NEW w \in Writers, Failing(w) PROVE AskedInv' /\ AttemptInv' /\ MonthInv'
  BY <1>1, <1>2, <1>3, <1>4, <1>12, BudgetFailing
<1>13. ASSUME NEW w \in Writers, Counting(w), Quiet PROVE AskedInv' /\ AttemptInv' /\ MonthInv'
  <2>1. /\ row' = row /\ month' = month /\ job[w].pc = "count"
        /\ job'[w].pc = "insert" /\ job'[w].no = NextNumber(w) /\ job'[w].mine = job[w].mine
        /\ job'[w].auto = job[w].auto /\ job'[w].period = job[w].period
        /\ job'[w].todo = job[w].todo
        /\ \A v \in Writers \ {w} : job'[v] = job[v]
    BY <1>13, AtFields DEF Counting, Turns, Quiet
  <2>2. job'[w].tries = job[w].tries
    BY <1>13, AtTries DEF Counting, Turns
  <2>3. \A v \in Writers : Visible(v)' = Visible(v)
    BY <2>1, ViewsStay DEF Exists
  <2>4. \A v \in Writers : AtWork(v)' <=> AtWork(v)
    BY <2>1 DEF AtWork
  <2>5. ~Spoiled(w)'
    <3>1. PICK V \in SUBSET Id : V = Visible(w)
      BY SeenIds
    <3>2. Cardinality(V) \in Nat /\ Sequential(row, V)
      BY <1>2, <3>1, FiniteIds DEF NumInv
    <3>3. \A i \in V : row[i].no # Cardinality(V) + 1
      BY <3>2 DEF Sequential
    <3>4. QED
      BY <2>1, <2>3, <3>1, <3>3 DEF Spoiled, Clashes, NextNumber
  <2>6. AskedInv' /\ MonthInv'
    BY <1>3, <1>4, <1>13, <2>4, QuietStays
  <2>7. AttemptInv'
    <3> SUFFICES ASSUME NEW v \in Writers, AtWork(v)' PROVE Attempt(v)'
      BY DEF AttemptInv
    <3>1. AtWork(v) /\ Attempt(v) /\ Lasting(Visible(v), Visible(v)')
      BY <1>2, <1>3, <2>4 DEF AttemptInv
    <3>2. CASE v = w
      BY <1>4, <2>1, <2>2, <2>5, <3>1, <3>2, AttemptStays
    <3>3. CASE v # w
      BY <1>4, <2>1, <2>3, <3>1, <3>3, AttemptKept
    <3>4. QED
      BY <3>2, <3>3
  <2>8. QED
    BY <2>6, <2>7
<1>14. ASSUME NEW w \in Writers, NEW c \in Customers, Checking(w, c), Quiet
       PROVE  AskedInv' /\ AttemptInv' /\ MonthInv'
  <2>1. /\ row' = row /\ month' = month /\ job[w].pc = "next"
        /\ job'[w].pc \in {"next", "count"} /\ job'[w].mine = job[w].mine
        /\ job'[w].auto = job[w].auto /\ job'[w].period = job[w].period
        /\ job'[w].todo = job[w].todo \/ (AlreadyBilled(w, c) /\ job'[w].todo = job[w].todo \ {c})
        /\ \A v \in Writers \ {w} : job'[v] = job[v]
    BY <1>14, AtFields DEF Checking, CheckedTurns, Turns, Quiet
  <2>2. job'[w].tries = job[w].tries
    BY <1>14, AtTries DEF Checking, CheckedTurns, Turns
  <2>3. \A v \in Writers : Visible(v)' = Visible(v)
    BY <2>1, ViewsStay DEF Exists
  <2>4. \A v \in Writers : AtWork(v)' <=> AtWork(v)
    BY <2>1 DEF AtWork
  <2>5. AskedInv' /\ MonthInv'
    BY <1>3, <1>4, <1>14, <2>4, QuietStays
  <2>6. AttemptInv'
    <3> SUFFICES ASSUME NEW v \in Writers, AtWork(v)' PROVE Attempt(v)'
      BY DEF AttemptInv
    <3>1. AtWork(v) /\ Attempt(v) /\ Lasting(Visible(v), Visible(v)')
      BY <1>2, <1>3, <2>4 DEF AttemptInv
    <3>2. CASE v = w
      <4>1. ~Spoiled(v)'
        BY <2>1, <3>2 DEF Spoiled
      <4>2. AlreadyBilled(w, c) => HasInvoice(Visible(w), c, month)'
        BY <2>1, <2>3, <3>1, <3>2 DEF AlreadyBilled, HasInvoice, Attempt
      <4>3. \A d \in Customers \ job'[w].todo : d \notin job[w].todo \/ HasInvoice(Visible(w), d, month)'
        BY <2>1, <4>2
      <4>4. QED
        BY <1>4, <2>1, <2>2, <3>1, <3>2, <4>1, <4>3, AttemptStays
    <3>3. CASE v # w
      BY <1>4, <2>1, <2>3, <3>1, <3>3, AttemptKept
    <3>4. QED
      BY <3>2, <3>3
  <2>7. QED
    BY <2>5, <2>6
<1>15. ASSUME NEW w \in Writers, NEW i \in Id, Inserting(w, i), Quiet
       PROVE  AskedInv' /\ AttemptInv' /\ MonthInv'
  <2>1. /\ month' = month /\ job[w].pc = "insert" /\ row[i].st = "none"
        /\ row'[i].cust = job[w].cust /\ row'[i].period = job[w].period
        /\ row'[i].auto = job[w].auto /\ row'[i].st = "open"
    BY <1>15, NewInvoiceRow DEF Inserting, Inserted, Sets, Quiet
  <2>2. CASE job[w].auto
    <3>1. /\ job'[w].pc = "next" /\ job'[w].auto /\ job'[w].period = job[w].period
          /\ job'[w].todo = job[w].todo \ {job[w].cust}
          /\ \A v \in Writers \ {w} : job'[v] = job[v]
      BY <1>15, <2>2, AtFields DEF Inserting, Inserted, Turns
    <3>2. job'[w].tries = job[w].tries
      BY <1>15, <2>2, AtTries DEF Inserting, Inserted, Turns
    <3>3. Visible(w)' = Visible(w) \union {i} /\ \A v \in Writers \ {w} : Visible(v)' = Visible(v)
      BY <1>15, <2>2, ViewsHold
    <3>4. \A v \in Writers : AtWork(v)' <=> AtWork(v)
      BY <2>1, <2>2, <3>1 DEF AtWork
    <3>5. AskedInv' /\ MonthInv'
      BY <1>3, <1>4, <1>15, <3>4, QuietStays
    <3>6. AttemptInv'
      <4> SUFFICES ASSUME NEW v \in Writers, AtWork(v)' PROVE Attempt(v)'
        BY DEF AttemptInv
      <4>1. AtWork(v) /\ Attempt(v) /\ Lasting(Visible(v), Visible(v)')
        BY <1>2, <1>3, <3>4 DEF AttemptInv
      <4>2. CASE v = w
        <5>1. ~Spoiled(v)'
          BY <3>1, <4>2 DEF Spoiled
        <5>0. PICK k : k = job[w].cust
          OBVIOUS
        <5>2. HasInvoice(Visible(w), k, month)'
          BY <2>1, <3>3, <4>1, <4>2, <5>0 DEF HasInvoice, Attempt
        <5>3. \A d \in Customers \ job'[w].todo : d \notin job[w].todo \/ HasInvoice(Visible(w), d, month)'
          BY <3>1, <5>0, <5>2
        <5>4. QED
          BY <1>4, <2>1, <3>1, <3>2, <4>1, <4>2, <5>1, <5>3, AttemptStays
      <4>3. CASE v # w
        BY <1>4, <2>1, <3>1, <3>3, <4>1, <4>3, AttemptKept
      <4>4. QED
        BY <4>2, <4>3
    <3>7. QED
      BY <3>5, <3>6
  <2>3. CASE ~job[w].auto
    <3>1. job'[w].pc = "idle" /\ \A v \in Writers \ {w} : job'[v] = job[v]
      BY <1>15, <2>3, IdleJob DEF Inserting, Inserted, Turns
    <3>2. \A v \in Writers : AtWork(v)' <=> AtWork(v)
      BY <2>3, <3>1 DEF AtWork
    <3>3. i \in HandMade' /\ i \notin HandMade
      BY <2>1, <2>3 DEF HandMade, Exists
    <3>4. Disturbances' >= Disturbances + 1
      BY <1>1, <1>4, <1>15, <3>3, Disturbs DEF Quiet
    <3>5. AskedInv' /\ MonthInv'
      BY <1>3, <1>4, <1>15, <3>2, QuietStays
    <3>6. AttemptInv'
      <4> SUFFICES ASSUME NEW v \in Writers, AtWork(v)' PROVE Attempt(v)'
        BY DEF AttemptInv
      <4>1. v # w /\ AtWork(v) /\ Attempt(v) /\ Lasting(Visible(v), Visible(v)')
        BY <1>2, <1>3, <3>1, <3>2 DEF AttemptInv, AtWork
      <4>2. QED
        BY <1>4, <2>1, <3>1, <3>4, <4>1, AttemptKept
    <3>7. QED
      BY <3>5, <3>6
  <2>4. QED
    BY <2>2, <2>3
<1>16. QED
  BY <1>1, <1>5, <1>7, <1>8, <1>9, <1>10, <1>11, <1>12, <1>13, <1>14, <1>15 DEF TaskKinds

-----------------------------------------------------------------------------
(* Payments.                                                               *)

\* An invoice that was committed stays or is deleted, and that for good.
LEMMA InvoicesRemain ==
  ASSUME TypeOK, MineInv, StepKinds
  PROVE  /\ \A i \in Committed : i \in Committed' \/ row'[i].st = "deleted"
         /\ \A i \in Id : row[i].st = "deleted" => row'[i].st = "deleted"
<1>1. \A i \in Id : row[i].st = "deleted" => ~Exists(i) /\ i \notin Committed
                                             /\ \A w \in Writers : i \notin job[w].mine
  BY DEF Exists, Committed, MineInv
<1>2. CASE Still
  <2>1. Committed' = Committed
    BY <1>2, ViewsStay DEF Still, Exists
  <2>2. QED
    BY <1>2, <2>1 DEF Still
<1>3. ASSUME NEW i \in Committed, Payment(i)
      PROVE  Committed' = Committed /\ \A j \in Id : row[j].st = "deleted" => row'[j].st = "deleted"
  <2>1. \A j \in Id : Exists(j)' <=> Exists(j)
    BY <1>3 DEF Payment, Pays, Exists
  <2>2. Committed' = Committed
    BY <1>3, <2>1, ViewsStay DEF Payment
  <2>3. QED
    BY <1>1, <1>3, <2>2 DEF Payment, Pays
<1>4. ASSUME NEW i \in Committed, Removal(i)
      PROVE  /\ \A j \in Committed : j \in Committed' \/ row'[j].st = "deleted"
             /\ \A j \in Id : row[j].st = "deleted" => row'[j].st = "deleted"
  <2>1. row'[i].st = "deleted" /\ \A j \in Id \ {i} : row'[j] = row[j]
    BY <1>4, NoRows DEF Removal, Sets
  <2>2. Uncommitted' = Uncommitted
    BY <1>4 DEF Removal, Uncommitted
  <2>3. QED
    BY <2>1, <2>2 DEF Committed, Exists
<1>5. ASSUME NEW w \in Writers,
             \/ Begins(w) \/ Counting(w) \/ Losing(w) \/ Committing(w)
             \/ \E c \in Customers : Checking(w, c)
             \/ \E i \in Id : Inserting(w, i)
      PROVE  \A j \in Id : row[j].st = "deleted" => row'[j].st = "deleted"
  <2>1. ASSUME NEW i \in Id, Inserting(w, i) PROVE \A j \in Id : row[j].st = "deleted" => row'[j].st = "deleted"
    BY <2>1 DEF Inserting, Inserted, Sets
  <2>2. CASE Losing(w)
    BY <1>1, <2>2 DEF Losing, Loses
  <2>3. QED
    BY <1>5, <2>1, <2>2 DEF Begins, Counting, Committing, Checking
<1>6. ASSUME NEW w \in Writers,
             \/ Begins(w) \/ Counting(w) \/ Losing(w) \/ Committing(w)
             \/ \E c \in Customers : Checking(w, c)
             \/ \E i \in Id : Inserting(w, i)
      PROVE  Committed \subseteq Committed'
  <2>1. CASE Begins(w)
    <3>1. job[w].mine = {} /\ row' = row
      BY <2>1 DEF TypeOK, Begins
    <3>2. PICK J \in Job : Turns(w, J) /\ J.mine = {}
      BY <2>1, Zenon DEF Begins
    <3>3. \A v \in Writers : job'[v].mine = job[v].mine
      BY <3>1, <3>2 DEF Turns
    <3>4. QED
      BY <3>1, <3>3, ViewsStay DEF Exists
  <2>2. CASE Counting(w)
    <3>1. row' = row /\ \A v \in Writers : job'[v].mine = job[v].mine
      BY <2>2, AtFields DEF Counting, Turns
    <3>2. QED
      BY <3>1, ViewsStay DEF Exists
  <2>3. CASE Losing(w)
    BY <2>3, ViewsLose
  <2>4. CASE Committing(w)
    BY <2>4, ViewsCommit DEF Visible
  <2>5. ASSUME NEW c \in Customers, Checking(w, c) PROVE Committed \subseteq Committed'
    <3>1. row' = row /\ \A v \in Writers : job'[v].mine = job[v].mine
      BY <2>5, AtFields DEF Checking, CheckedTurns, Turns
    <3>2. QED
      BY <3>1, ViewsStay DEF Exists
  <2>6. ASSUME NEW i \in Id, Inserting(w, i) PROVE Committed \subseteq Committed'
    <3>1. CASE job[w].auto
      BY <2>6, <3>1, ViewsHold
    <3>2. CASE ~job[w].auto
      BY <2>6, <3>2, ViewsGrow
    <3>3. QED
      BY <3>1, <3>2
  <2>7. QED
    BY <1>6, <2>1, <2>2, <2>3, <2>4, <2>5, <2>6
<1>7. QED
  BY <1>2, <1>3, <1>4, <1>5, <1>6 DEF StepKinds

\* What a step does to a checkout session.
SessKinds(s) ==
  \/ sess'[s] = sess[s]
  \/ sess[s].st = "none" /\ sess'[s].st = "open" /\ sess'[s].inv \in Committed
  \/ sess[s].st = "open" /\ sess'[s].st = "paid" /\ sess'[s].inv = sess[s].inv
  \/ sess[s].st = "paid" /\ sess'[s].st = "told" /\ sess'[s].inv = sess[s].inv /\ Webhook(s)

LEMMA SessKind == ASSUME TypeOK, [Next]_vars, NEW s \in Session PROVE SessKinds(s)
<1>1. sess \in [Session -> Checkout \union {NoSession}]
  BY DEF TypeOK
<1>2. ASSUME NEW i \in Id, NEW t \in Session, RequestLink(i, t) PROVE SessKinds(s)
  BY <1>1, <1>2 DEF RequestLink, SessKinds
<1>3. ASSUME NEW t \in Session, NEW c \in {"paid", "told"}, sess' = [sess EXCEPT ![t].st = c], s = t
      PROVE  sess[s].st \in {"open", "paid"} => sess'[s].st = c /\ sess'[s].inv = sess[s].inv
  <2>1. sess[s].st \in {"open", "paid"} => sess[s] \in Checkout
    BY <1>1 DEF NoSession
  <2>2. sess'[s] = [sess[s] EXCEPT !.st = c]
    BY <1>1, <1>3
  <2>3. QED
    BY <2>1, <2>2 DEF Checkout
<1>4. ASSUME NEW t \in Session, Pay(t) PROVE SessKinds(s)
  <2>1. CASE s = t
    BY <1>3, <1>4, <2>1 DEF Pay, SessKinds
  <2>2. CASE s # t
    BY <1>1, <1>4, <2>2 DEF Pay, SessKinds
  <2>3. QED
    BY <2>1, <2>2
<1>5. ASSUME NEW t \in Session, Webhook(t) PROVE SessKinds(s)
  <2>1. CASE sess' = sess
    BY <2>1 DEF SessKinds
  <2>2. CASE sess' = [sess EXCEPT ![t].st = "told"] /\ s = t
    BY <1>3, <1>5, <2>2 DEF Webhook, SessKinds
  <2>3. CASE sess' = [sess EXCEPT ![t].st = "told"] /\ s # t
    BY <1>1, <2>3 DEF SessKinds
  <2>4. QED
    BY <1>5, <2>1, <2>2, <2>3 DEF Webhook
<1>6. CASE sess' = sess
  BY <1>6 DEF SessKinds
<1>7. QED
  BY <1>2, <1>4, <1>5, <1>6
     DEF Next, Write, Administrate, BillingDay, TakeTask, CheckCustomer, CountInvoices, InsertInvoice,
         NumberTaken, WriterFails, CommitTask, BeginManual, Reopen, MarkPaid, DeleteInvoice, billVars, vars

\* Only the webhook writes a payment, that of its session.
PaidKinds(i) ==
  \/ row'[i].pi = row[i].pi
  \/ row'[i].pi = 0
  \/ \E s \in Session : sess[s].st = "paid" /\ sess[s].inv = i /\ row'[i].pi = s

LEMMA PaidKind == ASSUME TypeOK, [Next]_vars, NEW i \in Id PROVE PaidKinds(i)
<1>1. row \in [Id -> Row]
  BY DEF TypeOK
<1>2. CASE row' = row
  BY <1>2 DEF PaidKinds
<1>3. ASSUME NEW w \in Writers, InsertInvoice(w) PROVE PaidKinds(i)
  <2>1. PICK j \in Free : row' = [row EXCEPT ![j] = NewInvoice(w)]
    BY <1>3 DEF InsertInvoice
  <2>2. NewInvoice(w).pi = 0
    BY DEF NewInvoice
  <2>3. QED
    BY <1>1, <2>1, <2>2 DEF PaidKinds
<1>4. ASSUME NEW w \in Writers, NumberTaken(w) \/ WriterFails(w) PROVE PaidKinds(i)
  <2>1. row' = RolledBack(w)
    BY <1>4 DEF NumberTaken, WriterFails, GivesUp
  <2>2. NoRow.pi = 0
    BY DEF NoRow
  <2>3. QED
    BY <2>1, <2>2 DEF RolledBack, PaidKinds
<1>5. ASSUME NEW j \in Id, Reopen(j) \/ MarkPaid(j) PROVE PaidKinds(i)
  <2>1. PICK c \in {"open", "paid"} : row' = [row EXCEPT ![j].st = c]
    BY <1>5 DEF Reopen, MarkPaid
  <2>2. row'[i] = row[i] \/ row'[i] = [row[i] EXCEPT !.st = c]
    BY <1>1, <2>1
  <2>3. [row[i] EXCEPT !.st = c].pi = row[i].pi
    BY <1>1, StatusOf
  <2>4. QED
    BY <2>2, <2>3 DEF PaidKinds
<1>6. ASSUME NEW j \in Id, DeleteInvoice(j) PROVE PaidKinds(i)
  <2>1. Deleted.pi = 0
    <3>1. Deleted = [st |-> "deleted", cust |-> NoRow.cust, period |-> NoRow.period, no |-> NoRow.no,
                     auto |-> NoRow.auto, pi |-> NoRow.pi]
      BY NoRows, StatusOf DEF Deleted
    <3>2. QED
      BY <3>1 DEF NoRow
  <2>2. QED
    BY <1>1, <1>6, <2>1 DEF DeleteInvoice, PaidKinds
<1>7. ASSUME NEW s \in Session, Webhook(s) PROVE PaidKinds(i)
  <2>1. CASE row' = row
    BY <2>1 DEF PaidKinds
  <2>2. CASE row' = [row EXCEPT ![sess[s].inv] = Settled(sess[s].inv, s)] /\ sess[s].inv = i
    <3>1. row'[i] = Settled(i, s)
      BY <1>1, <2>2
    <3>2. QED
      BY <1>7, <2>2, <3>1 DEF Settled, Webhook, PaidKinds
  <2>3. CASE row' = [row EXCEPT ![sess[s].inv] = Settled(sess[s].inv, s)] /\ sess[s].inv # i
    <3>1. row'[i] = row[i]
      BY <1>1, <2>3
    <3>2. QED
      BY <3>1 DEF PaidKinds
  <2>4. QED
    BY <1>7, <2>1, <2>2, <2>3 DEF Webhook
<1>8. QED
  BY <1>2, <1>3, <1>4, <1>5, <1>6, <1>7
     DEF Next, Write, Administrate, BillingDay, TakeTask, CheckCustomer, CountInvoices,
         CommitTask, BeginManual, RequestLink, Pay, billVars, vars

\* A link is of an invoice that was committed, and is still there or deleted.
LinkInv ==
  \A s \in Session : sess[s].st # "none" => /\ sess[s].inv \in Id
                                            /\ sess[s].inv \in Committed \/ row[sess[s].inv].st = "deleted"

LEMMA LinkInit == Init => LinkInv /\ PaymentsReal
BY DEF Init, LinkInv, PaymentsReal, NoSession, NoRow

LEMMA LinkStep == TypeOK /\ MineInv /\ LinkInv /\ [Next]_vars => LinkInv'
<1> SUFFICES ASSUME TypeOK, MineInv, LinkInv, [Next]_vars, NEW s \in Session, sess'[s].st # "none"
             PROVE  /\ sess'[s].inv \in Id
                    /\ sess'[s].inv \in Committed' \/ row'[sess'[s].inv].st = "deleted"
  BY DEF LinkInv
<1>1. StepKinds /\ SessKinds(s)
  BY StepKind, SessKind
<1>2. PICK i : i = sess'[s].inv
  OBVIOUS
<1>3. i \in Id /\ (i \in Committed \/ row[i].st = "deleted")
  BY <1>1, <1>2 DEF SessKinds, LinkInv, Committed
<1>4. i \in Committed' \/ row'[i].st = "deleted"
  BY <1>1, <1>3, InvoicesRemain
<1>5. QED
  BY <1>2, <1>3, <1>4

LEMMA PaymentsStep == TypeOK /\ PaymentsReal /\ [Next]_vars => PaymentsReal'
<1> SUFFICES ASSUME TypeOK, PaymentsReal, [Next]_vars, NEW i \in Id, row'[i].pi # 0
             PROVE  sess'[row'[i].pi].inv = i /\ sess'[row'[i].pi].st \in {"paid", "told"}
  BY DEF PaymentsReal
<1>1. PICK s : s = row'[i].pi
  OBVIOUS
<1>2. s \in Session /\ sess[s].inv = i /\ sess[s].st \in {"paid", "told"}
  <2>1. CASE row'[i].pi = row[i].pi
    BY <1>1, <2>1, RowFields, BillingAssumption DEF PaymentsReal, Session, BillingAssumption
  <2>2. CASE \E t \in Session : sess[t].st = "paid" /\ sess[t].inv = i /\ row'[i].pi = t
    BY <1>1, <2>2
  <2>3. QED
    BY <2>1, <2>2, PaidKind DEF PaidKinds
<1>3. sess'[s].inv = i /\ sess'[s].st \in {"paid", "told"}
  BY <1>2, SessKind DEF SessKinds
<1>4. QED
  BY <1>1, <1>3

\* The webhook finds the invoice: what it reports is recorded.
LEMMA AnswerRecords ==
  ASSUME TypeOK, LinkInv, [Next]_vars, NEW s \in Session, sess[s].st = "paid", sess'[s].st = "told"
  PROVE  row'[sess[s].inv].st \in {"paid", "deleted"}
<1>1. Webhook(s)
  BY SessKind DEF SessKinds
<1>2. PICK i : i = sess[s].inv
  OBVIOUS
<1>3. i \in Id /\ (i \in Committed \/ row[i].st = "deleted") /\ row \in [Id -> Row]
  BY <1>2 DEF LinkInv, TypeOK
<1>4. CASE Records(s, i)
  <2>1. row' = [row EXCEPT ![i] = Settled(i, s)]
    BY <1>1, <1>2, <1>4 DEF Webhook
  <2>2. QED
    BY <1>2, <1>3, <2>1 DEF Settled
<1>5. CASE ~Records(s, i)
  <2>1. row' = row
    BY <1>1, <1>2, <1>5 DEF Webhook
  <2>2. QED
    BY <1>2, <1>3, <1>5, <2>1 DEF Records
<1>6. QED
  BY <1>4, <1>5

-----------------------------------------------------------------------------
(* The theorems.                                                           *)

IInv == TypeOK /\ MineInv /\ HeldInv /\ NumInv /\ OnceInv /\ BudgetInv

LEMMA Inductive == Spec => []IInv
<1>1. Init => IInv
  BY TypeInit, MineInit, HeldInit, NumInit, OnceInit, BudgetInit DEF IInv
<1>2. IInv /\ [Next]_vars => IInv'
  <2>1. TypeOK /\ MineInv /\ HeldInv /\ NumInv /\ OnceInv /\ BudgetInv /\ [Next]_vars
        => TypeOK' /\ MineInv' /\ HeldInv' /\ NumInv' /\ OnceInv' /\ BudgetInv'
    BY TypeStep, MineStep, HeldStep, NumStep, OnceStep, BudgetStep
  <2>2. QED
    BY <2>1 DEF IInv
<1>3. QED
  BY <1>1, <1>2, PTL DEF Spec

\* Until an invoice is deleted the numbers in use are 1 to the number of
\* invoices, for any number of tasks and requests that count at once.
THEOREM NumbersSequentialAlways == Spec => []NumbersSequential
<1>1. IInv => NumbersSequential
  BY DEF IInv, NumInv, Sequential, NumbersSequential
<1>2. QED
  BY <1>1, Inductive, PTL

\* A customer gets one recurring invoice for a period, for any number of
\* retries and failures, unless two tasks ran at once; and when the attempts
\* are over everybody has one, unless there were more disturbances than
\* retries or an invoice was deleted.
THEOREM BilledOnceAlways == Spec => []BilledOnce
<1>1. IInv => BilledOnce
  <2> SUFFICES ASSUME IInv PROVE BilledOnce
    OBVIOUS
  <2>1. ASSUME ~overlap, NEW i \in Committed, NEW j \in Committed, row[i].auto, row[j].auto,
               row[i].cust = row[j].cust, row[i].period = row[j].period
        PROVE  i = j
    BY <2>1 DEF IInv, OnceInv, Recurring, SamePeriod, Committed
  <2>2. ASSUME ~gap, Disturbances <= MaxRetries, queue = {}, \A w \in Writers : ~AtWork(w),
               NEW m \in 1..month
        PROVE  Billed(m)
    <3>1. MonthInv /\ month \in Nat
      BY <2>2, Months DEF IInv, BudgetInv
    <3>2. m < month \/ (m = month /\ month # 0)
      BY <3>1
    <3>3. QED
      BY <2>2, <3>1, <3>2 DEF MonthInv
  <2>3. QED
    BY <2>1, <2>2 DEF BilledOnce
<1>2. QED
  BY <1>1, Inductive, PTL

LEMMA LinksInductive == Spec => [](TypeOK /\ MineInv /\ LinkInv /\ PaymentsReal)
<1>1. Init => TypeOK /\ MineInv /\ LinkInv /\ PaymentsReal
  BY TypeInit, MineInit, LinkInit
<1>2. (TypeOK /\ MineInv /\ LinkInv /\ PaymentsReal) /\ [Next]_vars
      => (TypeOK /\ MineInv /\ LinkInv /\ PaymentsReal)'
  BY TypeStep, MineStep, LinkStep, PaymentsStep
<1>3. QED
  BY <1>1, <1>2, PTL DEF Spec

\* The payment that an invoice shows was made, through a link of that invoice,
\* for any number of links, repeated reports and deletions.
THEOREM PaymentsRealAlways == Spec => []PaymentsReal
BY LinksInductive, PTL

\* When Stripe is answered, the invoice of the payment is paid or deleted.
THEOREM AnsweredIsRecordedAlways == Spec => AnsweredIsRecorded
<1>1. TypeOK /\ LinkInv /\ [Next]_vars =>
      [\A s \in Session : sess[s].st = "paid" /\ sess'[s].st = "told" =>
                          row'[sess[s].inv].st \in {"paid", "deleted"}]_vars
  BY AnswerRecords
<1>2. QED
  BY <1>1, LinksInductive, PTL DEF Spec, AnsweredIsRecorded

=============================================================================
