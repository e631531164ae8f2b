------------------------------- MODULE Billing -------------------------------
(***************************************************************************)
(* Invoices: the recurring invoices that Celery makes                      *)
(* (api/tasks/billing_tasks.py), those that administrators make by hand,   *)
(* their statuses, and the payments that Stripe takes and reports          *)
(* (api/routes/billing.py).                                                *)
(*                                                                         *)
(* Whoever makes an invoice is a writer with a transaction: what it has    *)
(* inserted is seen by others when it commits, and the unique constraint   *)
(* on numbers makes an insertion wait for a transaction that has inserted  *)
(* the number, and fail when the number is taken.  The recurring task      *)
(* checks, counts and inserts for one customer after the other and commits *)
(* once.  A month is a tick; what one month's task does, its two retries   *)
(* an hour apart included, is over before the next.                        *)
(***************************************************************************)
EXTENDS Naturals, FiniteSets

CONSTANTS
  Customers,    \* active customers with a rate; all have the same billing_day
  Writers,      \* Celery processes and request threads that make invoices
  MaxInvoices,  \* bound: invoices made and kept, deleted ones included
  MaxMonths,    \* bound: billing days
  MaxRetries,   \* max_retries of the recurring task
  MaxManual,    \* bound: invoices begun by hand
  MaxSessions,  \* bound: Stripe checkout sessions
  MaxFaults     \* bound: failures, redeliveries and lost webhook answers

ASSUME BillingAssumption ==
  /\ Customers # {}
  /\ MaxInvoices \in Nat /\ MaxMonths \in Nat /\ MaxRetries \in Nat
  /\ MaxManual \in Nat /\ MaxSessions \in Nat /\ MaxFaults \in Nat

VARIABLES
  row,      \* row[i]: row of invoices
  job,      \* job[w]: what writer w is doing
  queue,    \* messages that ask for the recurring task
  month,    \* billing days so far
  manual,   \* invoices begun by hand
  sess,     \* sess[s]: a checkout session at Stripe
  faults,
  gap,      \* history: an invoice was deleted
  overlap   \* history: two recurring tasks ran at the same time

vars == <<row, job, queue, month, manual, sess, faults, gap, overlap>>
billVars == <<month, manual, sess, gap, overlap>>

Id      == 1..MaxInvoices
Session == 1..MaxSessions

\* status "open" stands for draft, sent and overdue; pi: the session whose
\* payment is recorded, 0 for none; auto: made by the recurring task.
Row == [st : {"none", "open", "paid", "deleted"}, cust : Customers, period : 0..MaxMonths,
        no : Nat, auto : BOOLEAN, pi : 0..MaxSessions]

Message == [period : 0..MaxMonths, tries : 0..MaxRetries]

\* todo: customers the task has still to look at; mine: rows it has inserted
\* and not committed.
Job == [pc : {"idle", "next", "count", "insert"}, auto : BOOLEAN, period : 0..MaxMonths,
        tries : 0..MaxRetries, todo : SUBSET Customers, cust : Customers, no : Nat,
        mine : SUBSET Id]

Checkout == [inv : Id, st : {"open", "paid", "told"}]
NoSession == [inv |-> 0, st |-> "none"]

Someone == CHOOSE c \in Customers : TRUE
NoRow == [st |-> "none", cust |-> Someone, period |-> 0, no |-> 0, auto |-> FALSE, pi |-> 0]
Deleted == [NoRow EXCEPT !.st = "deleted"]
Idle  == [pc |-> "idle", auto |-> FALSE, period |-> 0, tries |-> 0, todo |-> {},
          cust |-> Someone, no |-> 0, mine |-> {}]

Running(m)   == [pc |-> "next", auto |-> TRUE, period |-> m.period, tries |-> m.tries,
                 todo |-> Customers, cust |-> Someone, no |-> 0, mine |-> {}]
ByHand(c, p) == [pc |-> "count", auto |-> FALSE, period |-> p, tries |-> 0, todo |-> {},
                 cust |-> c, no |-> 0, mine |-> {}]
\* The job of w at another place.
At(w, c, T, k, n, M) == [pc |-> c, auto |-> job[w].auto, period |-> job[w].period, tries |-> job[w].tries,
                         todo |-> T, cust |-> k, no |-> n, mine |-> M]

Init ==
  /\ row = [i \in Id |-> NoRow]
  /\ job = [w \in Writers |-> Idle]
  /\ queue = {} /\ month = 0 /\ manual = 0
  /\ sess = [s \in Session |-> NoSession]
  /\ faults = 0 /\ gap = FALSE /\ overlap = FALSE

-----------------------------------------------------------------------------
(* What a transaction sees.                                                *)

Exists(i) == row[i].st \in {"open", "paid"}

Uncommitted == UNION {job[w].mine : w \in Writers}
Committed   == {i \in Id : Exists(i)} \ Uncommitted
Visible(w)  == Committed \union job[w].mine

NumberFromZero(w)     == Cardinality(Visible(w))       \* mutant of NextNumber
\* _next_invoice_number: the invoices there are, and one.
NextNumber(w) == Cardinality(Visible(w)) + 1

BilledByHand(w, c) ==  \* mutant of AlreadyBilled
  \E i \in Visible(w) : row[i].cust = c /\ row[i].period = job[w].period /\ ~row[i].auto
\* An invoice for the customer and the period exists.
AlreadyBilled(w, c) == \E i \in Visible(w) : row[i].cust = c /\ row[i].period = job[w].period

\* The unique constraint: wait for whoever has inserted the number, fail if
\* the number is taken.
Waits(w)   == \E v \in Writers \ {w} : \E i \in job[v].mine : row[i].no = job[w].no
Clashes(w) == \E i \in Visible(w) : row[i].no = job[w].no

Free == {i \in Id : row[i].st = "none"}

RolledBack(w) == [i \in Id |-> IF i \in job[w].mine THEN NoRow ELSE row[i]]

RetriesOnce(m) == IF m.tries = 0 /\ MaxRetries > 0 THEN {[m EXCEPT !.tries = @ + 1]} ELSE {}  \* mutant of Retried
\* self.retry: the message again, unless it has been retried often enough.
Retried(m) == IF m.tries < MaxRetries THEN {[m EXCEPT !.tries = @ + 1]} ELSE {}

Asked(w) == [period |-> job[w].period, tries |-> job[w].tries]

-----------------------------------------------------------------------------
(* Making invoices.                                                        *)

\* A billing day: beat sends the task.
BillingDay ==
  /\ month < MaxMonths
  /\ queue = {} /\ \A w \in Writers : job[w].pc = "idle"
  /\ month' = month + 1
  /\ queue' = {[period |-> month + 1, tries |-> 0]}
  /\ UNCHANGED <<row, job, manual, sess, faults, gap, overlap>>

\* A process takes the message; the broker may deliver it again.
TakeTask(w) ==
  /\ job[w].pc = "idle"
  /\ \E m \in queue :
       /\ \/ queue' = queue \ {m} /\ faults' = faults
          \/ queue' = queue /\ faults < MaxFaults /\ faults' = faults + 1
       /\ job' = [job EXCEPT ![w] = Running(m)]
  /\ overlap' = (overlap \/ \E v \in Writers : job[v].pc # "idle" /\ job[v].auto)
  /\ UNCHANGED <<row, month, manual, sess, gap>>

\* The idempotency check for one customer.
CheckCustomer(w, c) ==
  /\ job[w].pc = "next" /\ c \in job[w].todo
  /\ job' = [job EXCEPT ![w] = IF AlreadyBilled(w, c)
                               THEN At(w, "next", job[w].todo \ {c}, Someone, 0, job[w].mine)
                               ELSE At(w, "count", job[w].todo, c, 0, job[w].mine)]
  /\ UNCHANGED <<row, queue, faults, billVars>>

\* generate_invoice for any period: its start is typed in or the present.
BeginManual(w, c, p) ==
  /\ job[w].pc = "idle" /\ manual < MaxManual
  /\ manual' = manual + 1
  /\ job' = [job EXCEPT ![w] = ByHand(c, p)]
  /\ UNCHANGED <<row, queue, month, sess, faults, gap, overlap>>

CountInvoices(w) ==
  /\ job[w].pc = "count"
  /\ job' = [job EXCEPT ![w] = At(w, "insert", job[w].todo, job[w].cust, NextNumber(w), job[w].mine)]
  /\ UNCHANGED <<row, queue, faults, billVars>>

NewInvoice(w) == [st |-> "open", cust |-> job[w].cust, period |-> job[w].period, no |-> job[w].no,
                  auto |-> job[w].auto, pi |-> 0]

\* The row is inserted; a request commits at once, the task goes on.
InsertInvoice(w) ==
  /\ job[w].pc = "insert" /\ ~Waits(w) /\ ~Clashes(w)
  /\ \E i \in Free :
       /\ \A j \in Free : i <= j
       /\ row' = [row EXCEPT ![i] = NewInvoice(w)]
       /\ job' = [job EXCEPT ![w] =
                    IF job[w].auto
                    THEN At(w, "next", job[w].todo \ {job[w].cust}, Someone, 0, job[w].mine \union {i})
                    ELSE Idle]
  /\ UNCHANGED <<queue, faults, billVars>>

\* The transaction of w is lost: the task is tried again, a request is not.
GivesUp(w) ==
  /\ row' = RolledBack(w)
  /\ job' = [job EXCEPT ![w] = Idle]
  /\ queue' = IF job[w].auto THEN queue \union Retried(Asked(w)) ELSE queue

\* IntegrityError.
NumberTaken(w) ==
  /\ job[w].pc = "insert" /\ ~Waits(w) /\ Clashes(w)
  /\ GivesUp(w)
  /\ UNCHANGED <<faults, billVars>>

\* The database fails, or the worker dies and its message is delivered again.
WriterFails(w) ==
  /\ job[w].pc # "idle" /\ faults < MaxFaults
  /\ faults' = faults + 1
  /\ \/ GivesUp(w)
     \/ /\ job[w].auto
        /\ row' = RolledBack(w) /\ job' = [job EXCEPT ![w] = Idle]
        /\ queue' = queue \union {Asked(w)}
  /\ UNCHANGED billVars

CommitKeeps(w) ==  \* mutant of CommitTask
  /\ job[w].pc = "next" /\ job[w].todo = {}
  /\ job' = [job EXCEPT ![w].pc = "idle"]
  /\ UNCHANGED <<row, queue, faults, billVars>>

CommitTask(w) ==
  /\ job[w].pc = "next" /\ job[w].todo = {}
  /\ job' = [job EXCEPT ![w] = Idle]
  /\ UNCHANGED <<row, queue, faults, billVars>>

-----------------------------------------------------------------------------
(* What administrators do to invoices.                                     *)

\* send_invoice, and update_invoice_status to draft, sent or overdue: a paid
\* invoice is not refused.
Reopen(i) ==
  /\ i \in Committed
  /\ row' = [row EXCEPT ![i].st = "open"]
  /\ UNCHANGED <<job, queue, faults, billVars>>

MarkPaid(i) ==
  /\ i \in Committed
  /\ row' = [row EXCEPT ![i].st = "paid"]
  /\ UNCHANGED <<job, queue, faults, billVars>>

DeleteInvoice(i) ==
  /\ i \in Committed
  /\ row' = [row EXCEPT ![i] = Deleted]
  /\ gap' = TRUE
  /\ UNCHANGED <<job, queue, month, manual, sess, faults, overlap>>

-----------------------------------------------------------------------------
(* Stripe.                                                                 *)

\* get_payment_link.
RequestLink(i, s) ==
  /\ i \in Committed /\ row[i].st # "paid"
  /\ sess[s].st = "none" /\ \A r \in Session : r < s => sess[r].st # "none"
  /\ sess' = [sess EXCEPT ![s] = [inv |-> i, st |-> "open"]]
  /\ UNCHANGED <<row, job, queue, month, manual, faults, gap, overlap>>

\* The customer pays; Stripe reports it until the report is answered.
Pay(s) ==
  /\ sess[s].st = "open"
  /\ sess' = [sess EXCEPT ![s].st = "paid"]
  /\ UNCHANGED <<row, job, queue, month, manual, faults, gap, overlap>>

Settled(i, s) == [st |-> "paid", cust |-> row[i].cust, period |-> row[i].period, no |-> row[i].no,
                  auto |-> row[i].auto, pi |-> s]

\* The webhook finds the invoice by the identifier that the session carries.
Records(s, i) == i \in Committed /\ row[i].st # "paid"

AnswersFirst(s) ==  \* mutant of Webhook
  /\ sess[s].st = "paid"
  /\ sess' = [sess EXCEPT ![s].st = "told"]
  /\ \/ row' = row /\ faults < MaxFaults /\ faults' = faults + 1
     \/ /\ row' = IF Records(s, sess[s].inv)
                  THEN [row EXCEPT ![sess[s].inv] = Settled(sess[s].inv, s)] ELSE row
        /\ faults' = faults
  /\ UNCHANGED <<job, queue, month, manual, gap, overlap>>

\* checkout.session.completed; the answer may be lost, then it comes again.
Webhook(s) ==
  /\ sess[s].st = "paid"
  /\ row' = IF Records(s, sess[s].inv)
            THEN [row EXCEPT ![sess[s].inv] = Settled(sess[s].inv, s)] ELSE row
  /\ \/ sess' = [sess EXCEPT ![s].st = "told"] /\ faults' = faults
     \/ sess' = sess /\ faults < MaxFaults /\ faults' = faults + 1
  /\ UNCHANGED <<job, queue, month, manual, gap, overlap>>

-----------------------------------------------------------------------------
(* The specification.                                                      *)

Write(w) ==
  \/ TakeTask(w) \/ \E c \in Customers : CheckCustomer(w, c)
  \/ CountInvoices(w) \/ InsertInvoice(w) \/ NumberTaken(w) \/ CommitTask(w)

Administrate ==
  \/ \E w \in Writers, c \in Customers, p \in {0, month} : BeginManual(w, c, p)
  \/ \E i \in Id : \/ Reopen(i) \/ MarkPaid(i) \/ DeleteInvoice(i)
                   \/ \E s \in Session : RequestLink(i, s)

Next ==
  \/ BillingDay
  \/ \E w \in Writers : Write(w) \/ WriterFails(w)
  \/ Administrate
  \/ \E s \in Session : Pay(s) \/ Webhook(s)

Spec == Init /\ [][Next]_vars

\* Messages are taken and transactions end; Stripe repeats a report that was
\* not answered.  Nobody has to ask for anything or to pay.
FairSpec ==
  /\ Spec
  /\ \A w \in Writers : WF_vars(Write(w))
  /\ \A s \in Session : WF_vars(Webhook(s))

-----------------------------------------------------------------------------
(* Properties.                                                             *)

\* Every variable has its type, and what a writer has not committed is open.
TypeOK ==
  /\ row \in [Id -> Row]
  /\ job \in [Writers -> Job]
  /\ queue \subseteq Message
  /\ month \in 0..MaxMonths /\ manual \in 0..MaxManual
  /\ sess \in [Session -> Checkout \union {NoSession}]
  /\ faults \in 0..MaxFaults /\ gap \in BOOLEAN /\ overlap \in BOOLEAN
  /\ \A w \in Writers : job[w].pc = "idle" => job[w].mine = {}

\* Until an invoice is deleted, the numbers in use are exactly 1 to the number
\* of invoices, however many requests and tasks count at the same time
\* (_next_invoice_number: "Generate sequential INV-YYYY-NNNN number").
NumbersSequential ==
  ~gap => {row[i].no : i \in Committed} = 1..Cardinality(Committed)

Billed(m) == \A c \in Customers : \E i \in Committed : row[i].cust = c /\ row[i].period = m

AtWork(w) == job[w].pc # "idle" /\ job[w].auto

\* What can spoil an attempt of the task: a failure or redelivery, or an invoice
\* made by hand that takes the number the task has counted.
Disturbances == faults + Cardinality({i \in Id : Exists(i) /\ ~row[i].auto})

\* A customer gets one recurring invoice for a period, retries and failures
\* included, unless the broker had two tasks run at once: the check is not
\* part of what the unique number protects ("idempotent", billing_tasks.py).
\* And the task does not come to an end before every customer has an invoice
\* for every period, unless it was disturbed more often than it retries or an
\* invoice was deleted.
BilledOnce ==
  /\ ~overlap => \A i, j \in Committed :
                   /\ row[i].auto /\ row[j].auto
                   /\ row[i].cust = row[j].cust /\ row[i].period = row[j].period
                   => i = j
  /\ /\ ~gap /\ Disturbances <= MaxRetries
     /\ queue = {} /\ \A w \in Writers : ~AtWork(w)
     => \A m \in 1..month : Billed(m)

\* With fewer disturbances than attempts every customer is billed for every
\* period, though an invoice made by hand may take the number that the task
\* has counted; a deletion can make all attempts fail.
RecurringBilled == \A m \in 1..MaxMonths : (month = m) ~> (Billed(m) \/ gap)

\* A payment ends with its invoice paid, whichever of several links it came
\* through, unless the invoice was deleted.
PaymentRecorded ==
  \A s \in Session : (sess[s].st = "paid") ~>
                     \E i \in Id : sess[s].inv = i /\ row[i].st \in {"paid", "deleted"}

\* The payment that an invoice shows was made, through a link of that invoice.
PaymentsReal ==
  \A i \in Id : row[i].pi # 0 => /\ sess[row[i].pi].inv = i
                                 /\ sess[row[i].pi].st \in {"paid", "told"}

\* Stripe is told that a report has arrived only when the invoice of the
\* payment is paid, or deleted: the webhook never misses the invoice.
AnsweredIsRecorded ==
  [][\A s \in Session : sess[s].st = "paid" /\ sess'[s].st = "told" =>
                        row'[sess[s].inv].st \in {"paid", "deleted"}]_vars

=============================================================================
