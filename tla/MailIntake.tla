------------------------------ MODULE MailIntake ------------------------------
(***************************************************************************)
(* The support inbox: poll_support_inbox (api/tasks/email_tasks.py) makes  *)
(* a ticket or a comment of every unseen message.                          *)
(*                                                                         *)
(* A poll searches once and then works through what it found, oldest       *)
(* first.  Fetching the whole message (RFC822, as opposed to BODY.PEEK)    *)
(* already makes the server flag it as seen, before the ticket is          *)
(* committed and the poll flags it itself.                                 *)
(***************************************************************************)
EXTENDS Naturals

CONSTANTS
  Workers,    \* Celery processes
  MaxMails,   \* bound: messages
  MaxRetries, \* max_retries of poll_support_inbox
  MaxFaults   \* bound: failures, crashes and redeliveries

ASSUME MailAssumption == MaxMails \in Nat /\ MaxRetries \in Nat /\ MaxFaults \in Nat

VARIABLES
  mail,     \* mail[m]: "away", or its flag in the inbox
  refs,     \* refs[m]: the messages that m answers, directly or not
  known,    \* known[m]: its sender belongs to a customer
  filed,    \* filed[m]: how often m was made a ticket or a comment
  kind,     \* kind[m]: which of them, last
  live,     \* live[m]: a ticket with the thread id of m exists
  poll,     \* poll[w]: the poll that process w runs
  queue,    \* messages for poll_support_inbox
  faults,
  passed,   \* history: passed[m], a poll failed on m and went on
  lost,     \* history: lost[m], and m was flagged and not filed
  erased,   \* history: erased[m], a ticket of m was deleted
  overlap   \* history: two polls ran at the same time

vars == <<mail, refs, known, filed, kind, live, poll, queue, faults, passed, lost, erased, overlap>>
inbox == <<mail, refs, known>>
desk  == <<filed, kind, live, erased>>

Mail == 1..MaxMails

Poll == [pc : {"idle", "next", "find", "file", "flag"}, todo : SUBSET Mail, cur : 0..MaxMails,
         to : 0..MaxMails, tries : 0..MaxRetries]
At(c, T, m, n, t) == [pc |-> c, todo |-> T, cur |-> m, to |-> n, tries |-> t]
Idle == At("idle", {}, 0, 0, 0)

Init ==
  /\ mail = [m \in Mail |-> "away"] /\ refs = [m \in Mail |-> {}] /\ known = [m \in Mail |-> TRUE]
  /\ filed = [m \in Mail |-> 0] /\ kind = [m \in Mail |-> "none"] /\ live = [m \in Mail |-> FALSE]
  /\ poll = [w \in Workers |-> Idle]
  /\ queue = {} /\ faults = 0
  /\ passed = [m \in Mail |-> FALSE] /\ lost = [m \in Mail |-> FALSE]
  /\ erased = [m \in Mail |-> FALSE] /\ overlap = FALSE

-----------------------------------------------------------------------------
(* Senders and technicians.                                                *)

\* A new message, or an answer to one that has arrived; an answer refers to
\* all messages of its thread.
Arrive(m, k, p) ==
  /\ mail[m] = "away" /\ \A n \in Mail : n < m => mail[n] # "away"
  /\ p = 0 \/ p < m
  /\ mail' = [mail EXCEPT ![m] = "unseen"]
  /\ refs' = [refs EXCEPT ![m] = IF p = 0 THEN {} ELSE refs[p] \union {p}]
  /\ known' = [known EXCEPT ![m] = k]
  /\ UNCHANGED <<desk, poll, queue, faults, passed, lost, overlap>>

DeleteTicket(m) ==
  /\ live[m]
  /\ live' = [live EXCEPT ![m] = FALSE]
  /\ erased' = [erased EXCEPT ![m] = TRUE]
  /\ UNCHANGED <<inbox, filed, kind, poll, queue, faults, passed, lost, overlap>>

-----------------------------------------------------------------------------
(* A poll.                                                                 *)

Beat ==
  /\ queue = {} /\ queue' = {0}
  /\ UNCHANGED <<inbox, desk, poll, faults, passed, lost, overlap>>

Unseen == {m \in Mail : mail[m] = "unseen"}

\* A process takes a message of the queue, which may be delivered again, and
\* searches the inbox; it may fail to, and is then retried.
TakePoll(w) ==
  /\ poll[w].pc = "idle"
  /\ \E tries \in queue :
       /\ \/ queue' = queue \ {tries} /\ faults' = faults
          \/ queue' = queue /\ faults < MaxFaults /\ faults' = faults + 1
       /\ poll' = [poll EXCEPT ![w] = At("next", Unseen, 0, 0, tries)]
  /\ overlap' = (overlap \/ \E v \in Workers : poll[v].pc # "idle")
  /\ UNCHANGED <<inbox, desk, passed, lost>>

FetchPeeks(w) ==  \* mutant of Fetch
  /\ poll[w].pc = "next"
  /\ \E m \in poll[w].todo :
       /\ \A n \in poll[w].todo : m <= n
       /\ poll' = [poll EXCEPT ![w] = At("find", @.todo \ {m}, m, 0, @.tries)]
  /\ UNCHANGED <<inbox, desk, queue, faults, passed, lost, overlap>>

\* The oldest message is fetched.
Fetch(w) ==
  /\ poll[w].pc = "next"
  /\ \E m \in poll[w].todo :
       /\ \A n \in poll[w].todo : m <= n
       /\ poll' = [poll EXCEPT ![w] = At("find", @.todo \ {m}, m, 0, @.tries)]
       /\ mail' = [mail EXCEPT ![m] = "seen"]
  /\ UNCHANGED <<refs, known, desk, queue, faults, passed, lost, overlap>>

FetchFailsFlags(w) ==  \* mutant of FetchFails
  /\ poll[w].pc = "next" /\ faults < MaxFaults
  /\ faults' = faults + 1
  /\ \E m \in poll[w].todo :
       /\ \A n \in poll[w].todo : m <= n
       /\ poll' = [poll EXCEPT ![w] = At("next", @.todo \ {m}, 0, 0, @.tries)]
       /\ mail' = [mail EXCEPT ![m] = "seen"]
       /\ passed' = [passed EXCEPT ![m] = TRUE]
  /\ UNCHANGED <<refs, known, desk, queue, lost, overlap>>

\* The poll goes on with the next message; this one remains unseen.
FetchFails(w) ==
  /\ poll[w].pc = "next" /\ faults < MaxFaults
  /\ faults' = faults + 1
  /\ \E m \in poll[w].todo :
       /\ \A n \in poll[w].todo : m <= n
       /\ poll' = [poll EXCEPT ![w] = At("next", @.todo \ {m}, 0, 0, @.tries)]
       /\ passed' = [passed EXCEPT ![m] = TRUE]
  /\ UNCHANGED <<inbox, desk, queue, lost, overlap>>

\* The id looked up without its brackets, which are stored.
ThreadsBare(m) == {}  \* mutant of Threads
\* _find_ticket: the tickets whose thread the message belongs to.
Threads(m) == {n \in refs[m] : live[n]}

FinishKeeps(p) == At("next", p.todo, p.cur, 0, p.tries)  \* mutant of Finish
Finish(p) == At("next", p.todo, 0, 0, p.tries)

\* Ticket n is to get a comment; with 0, there will be a new ticket.
ToFile(p, n) == At("file", p.todo, p.cur, n, p.tries)

\* Nobody to file the message for: it is flagged and passed over.
FindTicket(w) ==
  /\ poll[w].pc = "find"
  /\ LET m == poll[w].cur
     IN \/ \E n \in Threads(m) : poll' = [poll EXCEPT ![w] = ToFile(@, n)]
        \/ Threads(m) = {} /\ known[m] /\ poll' = [poll EXCEPT ![w] = ToFile(@, 0)]
        \/ Threads(m) = {} /\ ~known[m] /\ poll' = [poll EXCEPT ![w] = Finish(@)]
  /\ UNCHANGED <<inbox, desk, queue, faults, passed, lost, overlap>>

\* The comment, if its ticket is still there, or the ticket is committed.
FileMail(w) ==
  /\ poll[w].pc = "file"
  /\ LET m == poll[w].cur
         n == poll[w].to
     IN /\ n # 0 => live[n]
        /\ filed' = [filed EXCEPT ![m] = @ + 1]
        /\ kind' = [kind EXCEPT ![m] = IF n = 0 THEN "ticket" ELSE "comment"]
        /\ live' = [live EXCEPT ![m] = @ \/ n = 0]
  /\ poll' = [poll EXCEPT ![w] = At("flag", @.todo, @.cur, 0, @.tries)]
  /\ UNCHANGED <<inbox, erased, queue, faults, passed, lost, overlap>>

\* An exception after the fetch: the transaction is rolled back, the poll goes
\* on with the next message.
PassOver(w) ==
  /\ passed' = [passed EXCEPT ![poll[w].cur] = TRUE]
  /\ lost' = [lost EXCEPT ![poll[w].cur] = TRUE]
  /\ poll' = [poll EXCEPT ![w] = Finish(@)]

TicketGone(w) ==
  /\ poll[w].pc = "file" /\ poll[w].to # 0 /\ ~live[poll[w].to]
  /\ PassOver(w)
  /\ UNCHANGED <<inbox, desk, queue, faults, overlap>>

MailFails(w) ==
  /\ poll[w].pc \in {"find", "file"} /\ faults < MaxFaults
  /\ faults' = faults + 1
  /\ PassOver(w)
  /\ UNCHANGED <<inbox, desk, queue, overlap>>

FlagSeen(w) ==
  /\ poll[w].pc = "flag"
  /\ mail' = [mail EXCEPT ![poll[w].cur] = "seen"]
  /\ poll' = [poll EXCEPT ![w] = Finish(@)]
  /\ UNCHANGED <<refs, known, desk, queue, faults, passed, lost, overlap>>

EndPoll(w) ==
  /\ poll[w].pc = "next" /\ poll[w].todo = {}
  /\ poll' = [poll EXCEPT ![w] = Idle]
  /\ UNCHANGED <<inbox, desk, queue, faults, passed, lost, overlap>>

\* The connection breaks outside of a message: the poll is tried again.
PollFails(w) ==
  /\ poll[w].pc = "next" /\ faults < MaxFaults
  /\ faults' = faults + 1
  /\ poll' = [poll EXCEPT ![w] = Idle]
  /\ queue' = IF poll[w].tries < MaxRetries THEN queue \union {poll[w].tries + 1} ELSE queue
  /\ UNCHANGED <<inbox, desk, passed, lost, overlap>>

\* The worker dies; what it has fetched is flagged, what it has not is not.
WorkerDies(w) ==
  /\ poll[w].pc # "idle" /\ faults < MaxFaults
  /\ faults' = faults + 1
  /\ poll' = [poll EXCEPT ![w] = Idle]
  /\ queue' = queue \union {poll[w].tries}
  /\ IF poll[w].pc \in {"find", "file"}
     THEN /\ passed' = [passed EXCEPT ![poll[w].cur] = TRUE]
          /\ lost' = [lost EXCEPT ![poll[w].cur] = TRUE]
     ELSE passed' = passed /\ lost' = lost
  /\ UNCHANGED <<inbox, desk, overlap>>

-----------------------------------------------------------------------------
(* The specification.                                                      *)

Work(w) ==
  \/ TakePoll(w) \/ Fetch(w) \/ FindTicket(w) \/ FileMail(w) \/ TicketGone(w)
  \/ FlagSeen(w) \/ EndPoll(w)

Next ==
  \/ \E m \in Mail : \/ DeleteTicket(m)
                     \/ \E k \in BOOLEAN, p \in 0..MaxMails : Arrive(m, k, p)
  \/ Beat
  \/ \E w \in Workers : Work(w) \/ FetchFails(w) \/ MailFails(w) \/ PollFails(w) \/ WorkerDies(w)

Spec == Init /\ [][Next]_vars

\* Beat starts polls and Celery runs them.
FairSpec == Spec /\ WF_vars(Beat) /\ \A w \in Workers : WF_vars(Work(w))

-----------------------------------------------------------------------------
(* Properties.                                                             *)

\* Every variable has its type, and a poll has a message in hand exactly when
\* it works on one.
TypeOK ==
  /\ mail \in [Mail -> {"away", "unseen", "seen"}]
  /\ refs \in [Mail -> SUBSET Mail]
  /\ known \in [Mail -> BOOLEAN]
  /\ filed \in [Mail -> Nat]
  /\ kind \in [Mail -> {"none", "ticket", "comment"}]
  /\ live \in [Mail -> BOOLEAN]
  /\ poll \in [Workers -> Poll]
  /\ queue \subseteq 0..MaxRetries
  /\ faults \in 0..MaxFaults
  /\ passed \in [Mail -> BOOLEAN] /\ lost \in [Mail -> BOOLEAN]
  /\ erased \in [Mail -> BOOLEAN] /\ overlap \in BOOLEAN
  /\ \A w \in Workers : poll[w].cur # 0 <=> poll[w].pc \in {"find", "file", "flag"}

\* Process w has fetched message m and not filed it yet.
Working(w, m) == poll[w].pc \in {"find", "file"} /\ poll[w].cur = m

\* Whatever fails and however often polls are repeated, a customer's message
\* that was fetched is being worked on, was filed, or was lost by a failure
\* before it was filed; and it is only one of these, and filed once, unless two
\* polls ran at the same time.
FiledOnce ==
  \A m \in Mail :
    /\ mail[m] = "seen" /\ known[m]
       => filed[m] > 0 \/ lost[m] \/ \E w \in Workers : Working(w, m)
    /\ ~overlap => /\ filed[m] <= 1
                   /\ lost[m] => filed[m] = 0
                   /\ \A w \in Workers : Working(w, m) => filed[m] = 0 /\ ~lost[m]

\* An answer becomes a ticket of its own only if no message of its thread has
\* one: unless that was deleted, a poll failed on the other message, or two
\* polls ran at the same time.
Threaded ==
  ~overlap => \A m \in Mail : kind[m] = "ticket" =>
                \A n \in refs[m] : kind[n] = "ticket" => erased[n] \/ passed[n]

\* A message from a customer is filed in the end, unless a poll failed on it
\* between the fetch and the commit: such a message is never looked at again.
MailFiled == \A m \in Mail : (mail[m] = "unseen" /\ known[m]) ~> (filed[m] > 0 \/ lost[m])

=============================================================================
