-------------------------- MODULE MailIntake_proofs --------------------------
(***************************************************************************)
(* Proofs about MailIntake.tla, for any processes and any number of        *)
(* messages, retries and faults.                                           *)
(***************************************************************************)
EXTENDS MailIntake, TLAPS

-----------------------------------------------------------------------------
(* Polls.                                                                  *)

Stages == {"idle", "next", "find", "file", "flag"}
InHand == {"find", "file", "flag"}

LEMMA Numbers == 0 \in 0..MaxMails /\ 0 \in 0..MaxRetries /\ Mail \subseteq 0..MaxMails /\ 0 \notin Mail
BY MailAssumption DEF MailAssumption, Mail

LEMMA AtPoll ==
  ASSUME NEW c \in Stages, NEW T \in SUBSET Mail, NEW m \in 0..MaxMails, NEW n \in 0..MaxMails,
         NEW t \in 0..MaxRetries
  PROVE  At(c, T, m, n, t) \in Poll
BY DEF Poll, At, Stages

LEMMA AtFields ==
  ASSUME NEW c, NEW T, NEW m, NEW n, NEW t
  PROVE  /\ At(c, T, m, n, t).pc = c /\ At(c, T, m, n, t).todo = T /\ At(c, T, m, n, t).cur = m
         /\ At(c, T, m, n, t).to = n /\ At(c, T, m, n, t).tries = t
BY DEF At

LEMMA PollFields ==
  ASSUME TypeOK, NEW w \in Workers
  PROVE  /\ poll[w].pc \in Stages /\ poll[w].todo \in SUBSET Mail
         /\ poll[w].cur \in 0..MaxMails /\ poll[w].to \in 0..MaxMails
         /\ poll[w].tries \in 0..MaxRetries
         /\ poll[w].pc \in InHand => poll[w].cur \in Mail
         /\ poll[w].pc \notin InHand => poll[w].cur = 0
<1>1. poll[w] \in Poll
  BY DEF TypeOK
<1>2. /\ poll[w].pc \in Stages /\ poll[w].todo \in SUBSET Mail
      /\ poll[w].cur \in 0..MaxMails /\ poll[w].to \in 0..MaxMails
      /\ poll[w].tries \in 0..MaxRetries
  BY <1>1 DEF Poll, Stages
<1>3. poll[w].cur # 0 <=> poll[w].pc \in InHand
  BY DEF TypeOK, InHand
<1>4. QED
  BY <1>2, <1>3, MailAssumption DEF Mail, MailAssumption

\* Process w becomes that, all others remain as they are.
Moves(w, c, T, m, n) ==
  /\ poll'[w].pc = c /\ poll'[w].todo = T /\ poll'[w].cur = m /\ poll'[w].to = n
  /\ \A v \in Workers : v # w => poll'[v] = poll[v]

PollsOK ==
  /\ poll \in [Workers -> Poll]
  /\ \A w \in Workers : poll[w].cur # 0 <=> poll[w].pc \in InHand

\* What a step that sets the poll of one process does.
LEMMA Moved ==
  ASSUME TypeOK, NEW w \in Workers,
         NEW c \in Stages, NEW T \in SUBSET Mail, NEW m \in 0..MaxMails, NEW n \in 0..MaxMails,
         NEW t \in 0..MaxRetries, m # 0 <=> c \in InHand,
         poll' = [poll EXCEPT ![w] = At(c, T, m, n, t)]
  PROVE  PollsOK' /\ Moves(w, c, T, m, n)
<1>1. poll \in [Workers -> Poll] /\ At(c, T, m, n, t) \in Poll
  BY AtPoll DEF TypeOK
<1>2. poll' \in [Workers -> Poll]
  BY <1>1
<1>3. poll'[w] = At(c, T, m, n, t) /\ \A v \in Workers : v # w => poll'[v] = poll[v]
  BY <1>1
<1>4. Moves(w, c, T, m, n)
  BY <1>3, AtFields DEF Moves
<1>5. ASSUME NEW v \in Workers
      PROVE  poll'[v].cur # 0 <=> poll'[v].pc \in InHand
  <2>1. CASE v = w
    BY <1>4, <2>1, Zenon DEF Moves
  <2>2. CASE v # w
    BY <1>3, <2>2, Zenon DEF TypeOK, InHand
  <2>3. QED
    BY <2>1, <2>2
<1>6. QED
  BY <1>2, <1>4, <1>5, Zenon DEF PollsOK

LEMMA Stays ==
  ASSUME TypeOK, poll' = poll
  PROVE  PollsOK'
BY Zenon DEF TypeOK, PollsOK, InHand

LEMMA TakePollMoves ==
  ASSUME TypeOK, NEW w \in Workers, NEW t \in 0..MaxRetries,
         poll' = [poll EXCEPT ![w] = At("next", Unseen, 0, 0, t)]
  PROVE  PollsOK' /\ Moves(w, "next", Unseen, 0, 0)
<1>1. Unseen \in SUBSET Mail /\ "next" \in Stages /\ "next" \notin InHand
  BY DEF Unseen, Stages, InHand
<1>2. QED
  BY <1>1, Numbers, Moved

LEMMA FetchMoves ==
  ASSUME TypeOK, NEW w \in Workers, NEW m \in poll[w].todo,
         poll' = [poll EXCEPT ![w] = At("find", @.todo \ {m}, m, 0, @.tries)]
  PROVE  PollsOK' /\ Moves(w, "find", poll[w].todo \ {m}, m, 0)
<1>1. "find" \in Stages /\ "find" \in InHand
  BY DEF Stages, InHand
<1>2. m \in 0..MaxMails /\ m # 0 /\ poll[w].todo \ {m} \in SUBSET Mail
  BY PollFields, Numbers
<1>3. poll' = [poll EXCEPT ![w] = At("find", poll[w].todo \ {m}, m, 0, poll[w].tries)]
  BY Zenon DEF TypeOK
<1>4. QED
  BY <1>1, <1>2, <1>3, PollFields, Numbers, Moved

LEMMA NextMoves ==
  ASSUME TypeOK, NEW w \in Workers, NEW T, T \subseteq poll[w].todo,
         poll' = [poll EXCEPT ![w] = At("next", T, 0, 0, @.tries)]
  PROVE  PollsOK' /\ Moves(w, "next", T, 0, 0)
<1>1. "next" \in Stages /\ "next" \notin InHand
  BY DEF Stages, InHand
<1>2. T \in SUBSET Mail
  BY PollFields
<1>3. poll' = [poll EXCEPT ![w] = At("next", T, 0, 0, poll[w].tries)]
  BY Zenon DEF TypeOK
<1>4. QED
  BY <1>1, <1>2, <1>3, PollFields, Numbers, Moved

LEMMA FinishMoves ==
  ASSUME TypeOK, NEW w \in Workers, poll' = [poll EXCEPT ![w] = Finish(@)]
  PROVE  PollsOK' /\ Moves(w, "next", poll[w].todo, 0, 0)
<1>1. poll' = [poll EXCEPT ![w] = At("next", poll[w].todo, 0, 0, @.tries)]
  BY Zenon DEF TypeOK, Finish
<1>2. QED
  BY <1>1, NextMoves

LEMMA HandMoves ==
  ASSUME TypeOK, NEW w \in Workers, poll[w].pc \in InHand, NEW c \in InHand, NEW n \in 0..MaxMails,
         poll' = [poll EXCEPT ![w] = At(c, @.todo, @.cur, n, @.tries)]
  PROVE  PollsOK' /\ Moves(w, c, poll[w].todo, poll[w].cur, n)
<1>1. c \in Stages /\ poll[w].cur # 0
  BY PollFields, Numbers DEF Stages, InHand
<1>2. poll' = [poll EXCEPT ![w] = At(c, poll[w].todo, poll[w].cur, n, poll[w].tries)]
  BY Zenon DEF TypeOK
<1>3. QED
  BY <1>1, <1>2, PollFields, Moved

LEMMA IdleMoves ==
  ASSUME TypeOK, NEW w \in Workers, poll' = [poll EXCEPT ![w] = Idle]
  PROVE  PollsOK' /\ Moves(w, "idle", {}, 0, 0)
<1>1. "idle" \in Stages /\ "idle" \notin InHand /\ {} \in SUBSET Mail
  BY DEF Stages, InHand
<1>2. QED
  BY <1>1, Numbers, Moved DEF Idle

-----------------------------------------------------------------------------
(* Types.                                                                  *)

RowsOK ==
  /\ mail \in [Mail -> {"away", "unseen", "seen"}]
  /\ refs \in [Mail -> SUBSET Mail] /\ known \in [Mail -> BOOLEAN]
  /\ filed \in [Mail -> Nat] /\ kind \in [Mail -> {"none", "ticket", "comment"}]
  /\ live \in [Mail -> BOOLEAN]
LogsOK ==
  /\ queue \subseteq 0..MaxRetries /\ faults \in 0..MaxFaults
  /\ passed \in [Mail -> BOOLEAN] /\ lost \in [Mail -> BOOLEAN]
  /\ erased \in [Mail -> BOOLEAN] /\ overlap \in BOOLEAN

LEMMA TypeParts == TypeOK <=> PollsOK /\ RowsOK /\ LogsOK
BY DEF TypeOK, PollsOK, RowsOK, LogsOK, InHand

LEMMA TypePartsNext == PollsOK' /\ RowsOK' /\ LogsOK' => TypeOK'
BY DEF TypeOK, PollsOK, RowsOK, LogsOK, InHand

LEMMA TypeInit == Init => TypeOK
<1> SUFFICES ASSUME Init PROVE TypeOK
  OBVIOUS
<1>1. Idle \in Poll
  BY AtPoll, Numbers DEF Idle, Stages
<1>2. Idle.cur = 0 /\ Idle.pc \notin InHand
  BY AtFields DEF Idle, InHand
<1>3. poll = [w \in Workers |-> Idle]
  BY DEF Init
<1> HIDE DEF Idle
<1>4. PollsOK
  BY <1>1, <1>2, <1>3 DEF PollsOK
<1>5. RowsOK /\ LogsOK
  <2>1. /\ mail \in [Mail -> {"away", "unseen", "seen"}]
        /\ refs \in [Mail -> SUBSET Mail]
    BY DEF Init
  <2>2. /\ known \in [Mail -> BOOLEAN] /\ live \in [Mail -> BOOLEAN]
        /\ passed \in [Mail -> BOOLEAN] /\ lost \in [Mail -> BOOLEAN]
        /\ erased \in [Mail -> BOOLEAN] /\ overlap \in BOOLEAN
    BY Zenon DEF Init
  <2>3. filed \in [Mail -> Nat] /\ kind \in [Mail -> {"none", "ticket", "comment"}]
    BY DEF Init
  <2>4. queue \subseteq 0..MaxRetries /\ faults \in 0..MaxFaults
    BY MailAssumption DEF Init, MailAssumption
  <2>5. QED
    BY <2>1, <2>2, <2>3, <2>4, Zenon DEF RowsOK, LogsOK
<1>6. QED
  BY <1>4, <1>5, TypeParts

LEMMA FaultCounts ==
  ASSUME faults \in 0..MaxFaults, faults < MaxFaults, faults' = faults + 1
  PROVE  faults' \in 0..MaxFaults
BY MailAssumption DEF MailAssumption

\* A history variable stays one.
LEMMA Recorded ==
  ASSUME NEW f \in [Mail -> BOOLEAN], NEW m
  PROVE  [f EXCEPT ![m] = TRUE] \in [Mail -> BOOLEAN]
BY Zenon

LEMMA TypeStep == TypeOK /\ [Next]_vars => TypeOK'
<1> SUFFICES ASSUME TypeOK, [Next]_vars PROVE TypeOK'
  OBVIOUS
<1> USE MailAssumption DEF MailAssumption
<1>0. RowsOK /\ LogsOK
  BY TypeParts
<1>1. ASSUME NEW m \in Mail, NEW k \in BOOLEAN, NEW p \in 0..MaxMails, Arrive(m, k, p)
      PROVE  TypeOK'
  <2>1. PollsOK'
    BY <1>1, Stays DEF Arrive
  <2>2. RowsOK'
    <3>1. (IF p = 0 THEN {} ELSE refs[p] \union {p}) \in SUBSET Mail
      BY <1>0 DEF RowsOK, Mail
    <3>2. refs' \in [Mail -> SUBSET Mail]
      BY <1>0, <1>1, <3>1 DEF Arrive, RowsOK
    <3>3. mail' \in [Mail -> {"away", "unseen", "seen"}]
      BY <1>0, <1>1 DEF Arrive, RowsOK
    <3>4. known' \in [Mail -> BOOLEAN]
      BY <1>0, <1>1 DEF Arrive, RowsOK
    <3>5. QED
      BY <1>0, <1>1, <3>2, <3>3, <3>4, Zenon DEF Arrive, RowsOK, desk
  <2>3. LogsOK'
    BY <1>0, <1>1 DEF Arrive, LogsOK, desk
  <2>4. QED
    BY <2>1, <2>2, <2>3, TypePartsNext
<1>2. ASSUME NEW m \in Mail, DeleteTicket(m)
      PROVE  TypeOK'
  <2>1. PollsOK'
    BY <1>2, Stays DEF DeleteTicket
  <2>2. RowsOK'
    BY <1>0, <1>2 DEF DeleteTicket, RowsOK, inbox, desk
  <2>3. LogsOK'
    BY <1>0, <1>2 DEF DeleteTicket, LogsOK, desk
  <2>4. QED
    BY <2>1, <2>2, <2>3, TypePartsNext
<1>3. ASSUME Beat
      PROVE  TypeOK'
  <2>1. PollsOK'
    BY <1>3, Stays DEF Beat
  <2>2. RowsOK'
    BY <1>0, <1>3 DEF Beat, RowsOK, inbox, desk
  <2>3. LogsOK'
    BY <1>0, <1>3 DEF Beat, LogsOK, desk
  <2>4. QED
    BY <2>1, <2>2, <2>3, TypePartsNext
<1>4. ASSUME NEW w \in Workers, TakePoll(w)
      PROVE  TypeOK'
  <2>1. PollsOK'
    BY <1>4, TakePollMoves DEF TakePoll, TypeOK
  <2>2. RowsOK'
    BY <1>0, <1>4 DEF TakePoll, RowsOK, inbox, desk
  <2>3. LogsOK'
    <3>1. faults' \in 0..MaxFaults
      BY <1>0, <1>4, FaultCounts DEF TakePoll, LogsOK
    <3>2. overlap' \in BOOLEAN
      BY <1>0, <1>4, Zenon DEF TakePoll, LogsOK
    <3>3. queue' \subseteq 0..MaxRetries
      BY <1>0, <1>4 DEF TakePoll, LogsOK
    <3>4. QED
      BY <1>0, <1>4, <3>1, <3>2, <3>3, Zenon DEF TakePoll, LogsOK, desk
  <2>4. QED
    BY <2>1, <2>2, <2>3, TypePartsNext
<1>5. ASSUME NEW w \in Workers, Fetch(w)
      PROVE  TypeOK'
  <2>1. PollsOK'
    BY <1>5, FetchMoves DEF Fetch
  <2>2. RowsOK'
    BY <1>0, <1>5 DEF Fetch, RowsOK, inbox, desk
  <2>3. LogsOK'
    BY <1>0, <1>5 DEF Fetch, LogsOK, desk
  <2>4. QED
    BY <2>1, <2>2, <2>3, TypePartsNext
<1>6. ASSUME NEW w \in Workers, FindTicket(w)
      PROVE  TypeOK'
  <2>1. PollsOK'
    <3>1. poll[w].pc \in InHand /\ "file" \in InHand
      BY <1>6 DEF FindTicket, InHand
    <3>2. \/ \E n \in 0..MaxMails : poll' = [poll EXCEPT ![w] = ToFile(@, n)]
          \/ poll' = [poll EXCEPT ![w] = Finish(@)]
      BY <1>6, Numbers, PollFields DEF FindTicket, Threads, TypeOK
    <3>3. QED
      BY <3>1, <3>2, HandMoves, FinishMoves DEF ToFile
  <2>2. RowsOK' /\ LogsOK'
    BY <1>0, <1>6 DEF FindTicket, RowsOK, LogsOK, inbox, desk
  <2>3. QED
    BY <2>1, <2>2, TypePartsNext
<1>7. ASSUME NEW w \in Workers, FileMail(w)
      PROVE  TypeOK'
  <2>0. poll[w].pc \in InHand /\ "flag" \in InHand
    BY <1>7 DEF FileMail, InHand
  <2>1. PollsOK'
    BY <1>7, <2>0, Numbers, HandMoves DEF FileMail
  <2>2. RowsOK'
    BY <1>0, <1>7, <2>0, PollFields DEF FileMail, RowsOK, inbox
  <2>3. LogsOK'
    BY <1>0, <1>7 DEF FileMail, LogsOK
  <2>4. QED
    BY <2>1, <2>2, <2>3, TypePartsNext
<1>8. ASSUME NEW w \in Workers, TicketGone(w)
      PROVE  TypeOK'
  <2>1. PollsOK'
    BY <1>8, FinishMoves DEF TicketGone, PassOver
  <2>2. RowsOK'
    BY <1>0, <1>8 DEF TicketGone, PassOver, RowsOK, inbox, desk
  <2>3. LogsOK'
    BY <1>0, <1>8 DEF TicketGone, PassOver, LogsOK, desk
  <2>4. QED
    BY <2>1, <2>2, <2>3, TypePartsNext
<1>9. ASSUME NEW w \in Workers, FlagSeen(w)
      PROVE  TypeOK'
  <2>1. PollsOK'
    BY <1>9, FinishMoves DEF FlagSeen
  <2>2. RowsOK'
    BY <1>0, <1>9 DEF FlagSeen, RowsOK, inbox, desk
  <2>3. LogsOK'
    BY <1>0, <1>9 DEF FlagSeen, LogsOK, desk
  <2>4. QED
    BY <2>1, <2>2, <2>3, TypePartsNext
<1>10. ASSUME NEW w \in Workers, EndPoll(w)
      PROVE  TypeOK'
  <2>1. PollsOK'
    BY <1>10, IdleMoves DEF EndPoll
  <2>2. RowsOK'
    BY <1>0, <1>10 DEF EndPoll, RowsOK, inbox, desk
  <2>3. LogsOK'
    BY <1>0, <1>10 DEF EndPoll, LogsOK, desk
  <2>4. QED
    BY <2>1, <2>2, <2>3, TypePartsNext
<1>11. ASSUME NEW w \in Workers, FetchFails(w)
      PROVE  TypeOK'
  <2>1. PollsOK'
    <3>1. PICK m \in poll[w].todo : poll' = [poll EXCEPT ![w] = At("next", @.todo \ {m}, 0, 0, @.tries)]
      BY <1>11 DEF FetchFails
    <3>2. PICK T : T = poll[w].todo \ {m}
      OBVIOUS
    <3>3. poll' = [poll EXCEPT ![w] = At("next", T, 0, 0, @.tries)]
      BY <3>1, <3>2, Zenon DEF TypeOK
    <3>4. QED
      BY <3>2, <3>3, NextMoves
  <2>2. RowsOK'
    BY <1>0, <1>11 DEF FetchFails, RowsOK, inbox, desk
  <2>3. LogsOK'
    <3>1. faults' \in 0..MaxFaults
      BY <1>0, <1>11, FaultCounts DEF FetchFails, LogsOK
    <3>2. passed' \in [Mail -> BOOLEAN] /\ lost' \in [Mail -> BOOLEAN]
      BY <1>0, <1>11, Recorded, Zenon DEF FetchFails, LogsOK
    <3> QED
      BY <1>0, <1>11, <3>1, <3>2, Zenon DEF FetchFails, LogsOK, desk
  <2>4. QED
    BY <2>1, <2>2, <2>3, TypePartsNext
<1>12. ASSUME NEW w \in Workers, MailFails(w)
      PROVE  TypeOK'
  <2>1. PollsOK'
    BY <1>12, FinishMoves DEF MailFails, PassOver
  <2>2. RowsOK'
    BY <1>0, <1>12 DEF MailFails, PassOver, RowsOK, inbox, desk
  <2>3. LogsOK'
    <3>1. faults' \in 0..MaxFaults
      BY <1>0, <1>12, FaultCounts DEF MailFails, PassOver, LogsOK
    <3>2. passed' \in [Mail -> BOOLEAN] /\ lost' \in [Mail -> BOOLEAN]
      BY <1>0, <1>12, Recorded, Zenon DEF MailFails, PassOver, LogsOK
    <3> QED
      BY <1>0, <1>12, <3>1, <3>2, Zenon DEF MailFails, PassOver, LogsOK, desk
  <2>4. QED
    BY <2>1, <2>2, <2>3, TypePartsNext
<1>13. ASSUME NEW w \in Workers, PollFails(w)
      PROVE  TypeOK'
  <2>1. PollsOK'
    BY <1>13, IdleMoves DEF PollFails
  <2>2. RowsOK'
    BY <1>0, <1>13 DEF PollFails, RowsOK, inbox, desk
  <2>3. LogsOK'
    <3>1. faults' \in 0..MaxFaults
      BY <1>0, <1>13, FaultCounts DEF PollFails, LogsOK
    <3>2. queue' \subseteq 0..MaxRetries
      <4>1. poll[w].tries \in 0..MaxRetries
        BY PollFields
      <4>2. poll[w].tries < MaxRetries => poll[w].tries + 1 \in 0..MaxRetries
        BY <4>1
      <4>3. QED
        BY <1>0, <1>13, <4>2 DEF PollFails, LogsOK
    <3> QED
      BY <1>0, <1>13, <3>1, <3>2, Zenon DEF PollFails, LogsOK, desk
  <2>4. QED
    BY <2>1, <2>2, <2>3, TypePartsNext
<1>14. ASSUME NEW w \in Workers, WorkerDies(w)
      PROVE  TypeOK'
  <2>1. PollsOK'
    BY <1>14, IdleMoves DEF WorkerDies
  <2>2. RowsOK'
    BY <1>0, <1>14 DEF WorkerDies, RowsOK, inbox, desk
  <2>3. LogsOK'
    <3>1. faults' \in 0..MaxFaults
      BY <1>0, <1>14, FaultCounts DEF WorkerDies, LogsOK
    <3>2. passed' \in [Mail -> BOOLEAN] /\ lost' \in [Mail -> BOOLEAN]
      BY <1>0, <1>14, Recorded, Zenon DEF WorkerDies, LogsOK
    <3>3. queue' \subseteq 0..MaxRetries
      BY <1>0, <1>14, PollFields DEF WorkerDies, LogsOK
    <3> QED
      BY <1>0, <1>14, <3>1, <3>2, <3>3, Zenon DEF WorkerDies, LogsOK, desk
  <2>4. QED
    BY <2>1, <2>2, <2>3, TypePartsNext
<1>15. ASSUME UNCHANGED vars
      PROVE  TypeOK'
  <2>1. PollsOK'
    BY <1>15, Stays DEF vars
  <2>2. RowsOK'
    BY <1>0, <1>15 DEF vars, RowsOK, inbox, desk
  <2>3. LogsOK'
    BY <1>0, <1>15 DEF vars, LogsOK, desk
  <2>4. QED
    BY <2>1, <2>2, <2>3, TypePartsNext
<1>16. QED
  BY <1>1, <1>2, <1>3, <1>4, <1>5, <1>6, <1>7, <1>8, <1>9, <1>10, <1>11, <1>12, <1>13, <1>14, <1>15 DEF Next, Work

\* Every variable keeps its type, and a poll has a message in hand exactly
\* when it works on one.
THEOREM TypeCorrect == Spec => []TypeOK
BY TypeInit, TypeStep, PTL DEF Spec

-----------------------------------------------------------------------------
(* What a step does to the messages and to one poll.                        *)

HandSeen ==
  \A w \in Workers : poll[w].pc \in InHand => mail[poll[w].cur] = "seen"

Arrives(m) ==
  /\ mail[m] = "away" /\ \A n \in Mail : n < m => mail[n] # "away"
  /\ mail'[m] = "unseen" /\ \A x \in Mail \ {m} : mail'[x] = mail[x] /\ refs'[x] = refs[x]
  /\ refs'[m] = {} \/ \E p \in Mail : p < m /\ refs'[m] = refs[p] \union {p}
  /\ \A x \in Mail \ {m} : known'[x] = known[x]
  /\ UNCHANGED <<filed, kind, live, erased, poll, passed, lost, overlap>>

Erases(m) ==
  /\ erased'[m] /\ \A x \in Mail \ {m} : live'[x] = live[x] /\ erased'[x] = erased[x]
  /\ ~live'[m]
  /\ UNCHANGED <<mail, refs, known, filed, kind, poll, passed, lost, overlap>>

Rests == UNCHANGED <<mail, refs, known, filed, kind, live, erased, poll, passed, lost, overlap>>

Takes(w) ==
  /\ poll[w].pc = "idle"
  /\ Moves(w, "next", Unseen, 0, 0)
  /\ ~overlap' => ~overlap /\ \A v \in Workers : poll[v].pc = "idle"
  /\ UNCHANGED <<mail, refs, known, filed, kind, live, erased, passed, lost>>

Fetches(w, m) ==
  /\ poll[w].pc = "next" /\ m \in poll[w].todo /\ \A n \in poll[w].todo : m <= n
  /\ Moves(w, "find", poll[w].todo \ {m}, m, 0)
  /\ mail'[m] = "seen" /\ \A x \in Mail \ {m} : mail'[x] = mail[x]
  /\ UNCHANGED <<refs, known, filed, kind, live, erased, passed, lost, overlap>>

Drops(w, m) ==
  /\ poll[w].pc = "next" /\ m \in poll[w].todo
  /\ Moves(w, "next", poll[w].todo \ {m}, 0, 0)
  /\ passed'[m] /\ \A x \in Mail : passed[x] => passed'[x]
  /\ UNCHANGED <<mail, refs, known, filed, kind, live, erased, lost, overlap>>

Finds(w, n) ==
  /\ poll[w].pc = "find"
  /\ Moves(w, "file", poll[w].todo, poll[w].cur, n)
  /\ n = 0 => \A x \in refs[poll[w].cur] : ~live[x]
  /\ UNCHANGED <<mail, refs, known, filed, kind, live, erased, passed, lost, overlap>>

Files(w) ==
  LET m == poll[w].cur
  IN /\ poll[w].pc = "file"
     /\ Moves(w, "flag", poll[w].todo, m, 0)
     /\ filed'[m] = filed[m] + 1
     /\ kind'[m] = "ticket" => poll[w].to = 0 /\ live'[m]
     /\ live[m] => live'[m]
     /\ \A x \in Mail \ {m} : filed'[x] = filed[x] /\ kind'[x] = kind[x] /\ live'[x] = live[x]
     /\ UNCHANGED <<mail, refs, known, erased, passed, lost, overlap>>

\* Process w gives up or ends: only what it worked on may become lost, and does
\* if it is a customer's.
Losing(w) ==
  /\ \A x \in Mail : lost[x] => lost'[x]
  /\ \A x \in Mail : lost'[x] => lost[x] \/ Working(w, x)
  /\ \A x \in Mail : Working(w, x) => lost'[x] \/ ~known[x]

Leaves(w) ==
  /\ poll[w].pc # "idle"
  /\ Moves(w, "next", poll[w].todo, 0, 0) \/ Moves(w, "idle", {}, 0, 0)
  /\ \A x \in Mail : passed[x] => passed'[x]
  /\ Losing(w)
  /\ UNCHANGED <<mail, refs, known, filed, kind, live, erased, overlap>>

Kinds ==
  \/ \E m \in Mail : Arrives(m) \/ Erases(m)
  \/ Rests
  \/ \E w \in Workers : Takes(w) \/ Files(w) \/ Leaves(w)
  \/ \E w \in Workers, m \in Mail : Fetches(w, m) \/ Drops(w, m)
  \/ \E w \in Workers, n \in 0..MaxMails : Finds(w, n)

LEMMA Grows ==
  ASSUME NEW f \in [Mail -> BOOLEAN], NEW m, NEW g, g = [f EXCEPT ![m] = TRUE]
  PROVE  /\ \A x \in Mail : f[x] => g[x]
         /\ m \in Mail => g[m]
         /\ \A x \in Mail \ {m} : g[x] = f[x]
BY Zenon

LEMMA StepKinds == TypeOK /\ HandSeen /\ [Next]_vars => Kinds
<1> SUFFICES ASSUME TypeOK, HandSeen, [Next]_vars PROVE Kinds
  OBVIOUS
<1>0. RowsOK /\ LogsOK
  BY TypeParts
<1>1. ASSUME NEW m \in Mail, NEW k \in BOOLEAN, NEW p \in 0..MaxMails, Arrive(m, k, p)
      PROVE  Kinds
  <2>1. /\ mail[m] = "away" /\ \A n \in Mail : n < m => mail[n] # "away"
        /\ UNCHANGED <<filed, kind, live, erased, poll, passed, lost, overlap>>
    BY <1>1 DEF Arrive, desk
  <2>2. mail'[m] = "unseen" /\ \A x \in Mail \ {m} : mail'[x] = mail[x]
    BY <1>0, <1>1 DEF Arrive, RowsOK
  <2>3. \A x \in Mail \ {m} : refs'[x] = refs[x]
    BY <1>0, <1>1 DEF Arrive, RowsOK
  <2>4. refs'[m] = {} \/ \E q \in Mail : q < m /\ refs'[m] = refs[q] \union {q}
    <3>1. refs'[m] = IF p = 0 THEN {} ELSE refs[p] \union {p}
      BY <1>0, <1>1 DEF Arrive, RowsOK
    <3>2. p # 0 => p < m /\ p \in Mail
      BY <1>1, MailAssumption DEF Arrive, Mail, MailAssumption
    <3>3. QED
      BY <3>1, <3>2
  <2>5. \A x \in Mail \ {m} : known'[x] = known[x]
    BY <1>0, <1>1, Zenon DEF Arrive, RowsOK
  <2>6. QED
    BY <2>1, <2>2, <2>3, <2>4, <2>5 DEF Kinds, Arrives
<1>2. ASSUME NEW m \in Mail, DeleteTicket(m)
      PROVE  Kinds
  <2>1. ~live'[m] /\ \A x \in Mail \ {m} : live'[x] = live[x]
    BY <1>0, <1>2, Zenon DEF DeleteTicket, RowsOK
  <2>2. erased'[m] /\ \A x \in Mail \ {m} : erased'[x] = erased[x]
    BY <1>0, <1>2, Grows, Zenon DEF DeleteTicket, LogsOK
  <2>3. QED
    BY <1>2, <2>1, <2>2 DEF DeleteTicket, Kinds, Erases, inbox
<1>3. ASSUME Beat \/ UNCHANGED vars
      PROVE  Kinds
  BY <1>3 DEF Beat, vars, inbox, desk, Kinds, Rests
<1>4. ASSUME NEW w \in Workers, TakePoll(w)
      PROVE  Kinds
  <2>1. poll[w].pc = "idle" /\ Moves(w, "next", Unseen, 0, 0)
    BY <1>0, <1>4, TakePollMoves DEF TakePoll, LogsOK
  <2>2. ~overlap' => ~overlap /\ \A v \in Workers : poll[v].pc = "idle"
    BY <1>4, Zenon DEF TakePoll
  <2>3. QED
    BY <1>4, <2>1, <2>2 DEF TakePoll, Kinds, Takes, inbox, desk
<1>5. ASSUME NEW w \in Workers, Fetch(w)
      PROVE  Kinds
  <2>1. PICK m \in poll[w].todo :
          /\ \A n \in poll[w].todo : m <= n
          /\ poll' = [poll EXCEPT ![w] = At("find", @.todo \ {m}, m, 0, @.tries)]
          /\ mail' = [mail EXCEPT ![m] = "seen"]
    BY <1>5 DEF Fetch
  <2>2. m \in Mail
    BY PollFields
  <2>3. Moves(w, "find", poll[w].todo \ {m}, m, 0)
    BY <2>1, FetchMoves
  <2>4. mail'[m] = "seen" /\ \A x \in Mail \ {m} : mail'[x] = mail[x]
    BY <1>0, <2>1, <2>2 DEF RowsOK
  <2>5. Fetches(w, m)
    BY <1>5, <2>1, <2>3, <2>4 DEF Fetch, Fetches, desk
  <2>6. QED
    BY <2>2, <2>5 DEF Kinds
<1>6. ASSUME NEW w \in Workers, FetchFails(w)
      PROVE  Kinds
  <2>1. PICK m \in poll[w].todo :
          /\ poll' = [poll EXCEPT ![w] = At("next", @.todo \ {m}, 0, 0, @.tries)]
          /\ passed' = [passed EXCEPT ![m] = TRUE]
    BY <1>6 DEF FetchFails
  <2>2. m \in Mail
    BY PollFields
  <2>3. Moves(w, "next", poll[w].todo \ {m}, 0, 0)
    <3>1. PICK T : T = poll[w].todo \ {m}
      OBVIOUS
    <3>2. poll' = [poll EXCEPT ![w] = At("next", T, 0, 0, @.tries)]
      BY <2>1, <3>1, Zenon DEF TypeOK
    <3>3. QED
      BY <3>1, <3>2, NextMoves
  <2>4. passed'[m] /\ \A x \in Mail : passed[x] => passed'[x]
    BY <1>0, <2>1, <2>2, Grows, Zenon DEF LogsOK
  <2>5. Drops(w, m)
    BY <1>6, <2>3, <2>4 DEF FetchFails, Drops, inbox, desk
  <2>6. QED
    BY <2>2, <2>5 DEF Kinds
<1>7. ASSUME NEW w \in Workers, FindTicket(w)
      PROVE  Kinds
  <2>1. poll[w].pc = "find" /\ poll[w].pc \in InHand /\ "file" \in InHand
    BY <1>7 DEF FindTicket, InHand
  <2>2. /\ poll[w].pc # "idle"
        /\ UNCHANGED <<mail, refs, known, filed, kind, live, erased, passed, lost, overlap>>
    BY <1>7, <2>1 DEF FindTicket, inbox, desk
  <2>3. CASE \E n \in Threads(poll[w].cur) : poll' = [poll EXCEPT ![w] = ToFile(@, n)]
    <3>1. PICK n \in Threads(poll[w].cur) : poll' = [poll EXCEPT ![w] = ToFile(@, n)]
      BY <2>3
    <3>2. n \in 0..MaxMails /\ n # 0
      BY <1>0, <2>1, PollFields, Numbers DEF Threads, RowsOK
    <3>3. Moves(w, "file", poll[w].todo, poll[w].cur, n)
      BY <2>1, <3>1, <3>2, HandMoves DEF ToFile
    <3>4. QED
      BY <2>1, <2>2, <3>2, <3>3 DEF Kinds, Finds
  <2>4. CASE Threads(poll[w].cur) = {} /\ poll' = [poll EXCEPT ![w] = ToFile(@, 0)]
    <3>1. Moves(w, "file", poll[w].todo, poll[w].cur, 0)
      BY <2>1, <2>4, Numbers, HandMoves DEF ToFile
    <3>2. \A x \in refs[poll[w].cur] : ~live[x]
      BY <2>4 DEF Threads
    <3>3. QED
      BY <2>1, <2>2, <3>1, <3>2, Numbers DEF Kinds, Finds
  <2>5. CASE ~known[poll[w].cur] /\ poll' = [poll EXCEPT ![w] = Finish(@)]
    <3>1. Moves(w, "next", poll[w].todo, 0, 0)
      BY <2>5, FinishMoves
    <3>2. Losing(w)
      BY <2>2, <2>5 DEF Losing, Working
    <3>3. QED
      BY <2>2, <3>1, <3>2, Zenon DEF Kinds, Leaves
  <2>6. QED
    BY <1>7, <2>3, <2>4, <2>5, Zenon DEF FindTicket
<1>8. ASSUME NEW w \in Workers, FileMail(w)
      PROVE  Kinds
  <2>1. poll[w].pc \in InHand /\ "flag" \in InHand /\ poll[w].pc = "file"
    BY <1>8 DEF FileMail, InHand
  <2>2. poll[w].cur \in Mail /\ poll[w].to \in 0..MaxMails
    BY <2>1, PollFields
  <2>3. Moves(w, "flag", poll[w].todo, poll[w].cur, 0)
    BY <1>8, <2>1, Numbers, HandMoves DEF FileMail
  <2>4. /\ filed'[poll[w].cur] = filed[poll[w].cur] + 1
        /\ \A x \in Mail \ {poll[w].cur} : filed'[x] = filed[x]
    BY <1>0, <1>8, <2>2 DEF FileMail, RowsOK
  <2>5. /\ kind'[poll[w].cur] = "ticket" => poll[w].to = 0
        /\ \A x \in Mail \ {poll[w].cur} : kind'[x] = kind[x]
    BY <1>0, <1>8, <2>2 DEF FileMail, RowsOK
  <2>6. /\ poll[w].to = 0 => live'[poll[w].cur]
        /\ live[poll[w].cur] => live'[poll[w].cur]
        /\ \A x \in Mail \ {poll[w].cur} : live'[x] = live[x]
    BY <1>0, <1>8, <2>2, Zenon DEF FileMail, RowsOK
  <2>7. UNCHANGED <<mail, refs, known, erased, passed, lost, overlap>>
    BY <1>8 DEF FileMail, inbox
  <2>8. QED
    BY <2>1, <2>3, <2>4, <2>5, <2>6, <2>7 DEF Kinds, Files
<1>9. ASSUME NEW w \in Workers, TicketGone(w) \/ MailFails(w)
      PROVE  Kinds
  <2>1. Moves(w, "next", poll[w].todo, 0, 0)
    BY <1>9, FinishMoves DEF TicketGone, MailFails, PassOver
  <2>2. \A x \in Mail : passed[x] => passed'[x]
    <3>1. passed' = passed \/ passed' = [passed EXCEPT ![poll[w].cur] = TRUE]
      BY <1>9 DEF TicketGone, MailFails, PassOver
    <3>2. passed \in [Mail -> BOOLEAN]
      BY <1>0 DEF LogsOK
    <3>3. QED
      BY <3>1, <3>2, Grows, Zenon
  <2>3. Losing(w)
    <3>1. lost' = [lost EXCEPT ![poll[w].cur] = TRUE] /\ poll[w].cur \in Mail
      BY <1>9, PollFields DEF TicketGone, MailFails, PassOver, InHand
    <3>2. /\ \A x \in Mail : lost[x] => lost'[x]
          /\ lost'[poll[w].cur]
          /\ \A x \in Mail \ {poll[w].cur} : lost'[x] = lost[x]
      BY <1>0, <3>1, Grows, Zenon DEF LogsOK
    <3>3. poll[w].pc \in {"find", "file"}
      BY <1>9 DEF TicketGone, MailFails
    <3>4. QED
      BY <3>2, <3>3 DEF Losing, Working
  <2>4. QED
    BY <1>9, <2>1, <2>2, <2>3 DEF TicketGone, MailFails, Kinds, Leaves, inbox, desk
<1>10. ASSUME NEW w \in Workers, FlagSeen(w)
      PROVE  Kinds
  <2>1. Moves(w, "next", poll[w].todo, 0, 0)
    BY <1>10, FinishMoves DEF FlagSeen
  <2>2. mail[poll[w].cur] = "seen" /\ mail' = [mail EXCEPT ![poll[w].cur] = "seen"]
    BY <1>10 DEF FlagSeen, HandSeen, InHand
  <2>3. mail' = mail
    BY <1>0, <2>2 DEF RowsOK
  <2>4. Losing(w)
    BY <1>10 DEF FlagSeen, Losing, Working
  <2>5. QED
    BY <1>10, <2>1, <2>3, <2>4 DEF FlagSeen, Kinds, Leaves, desk
<1>11. ASSUME NEW w \in Workers, EndPoll(w) \/ PollFails(w)
      PROVE  Kinds
  <2>1. Moves(w, "idle", {}, 0, 0)
    BY <1>11, IdleMoves DEF EndPoll, PollFails
  <2>2. Losing(w)
    BY <1>11 DEF EndPoll, PollFails, Losing, Working
  <2>3. QED
    BY <1>11, <2>1, <2>2 DEF EndPoll, PollFails, Kinds, Leaves, inbox, desk
<1>12. ASSUME NEW w \in Workers, WorkerDies(w)
      PROVE  Kinds
  <2>1. Moves(w, "idle", {}, 0, 0)
    BY <1>12, IdleMoves DEF WorkerDies
  <2>2. \A x \in Mail : passed[x] => passed'[x]
    <3>1. passed' = passed \/ passed' = [passed EXCEPT ![poll[w].cur] = TRUE]
      BY <1>12 DEF WorkerDies
    <3>2. passed \in [Mail -> BOOLEAN]
      BY <1>0 DEF LogsOK
    <3>3. QED
      BY <3>1, <3>2, Grows, Zenon
  <2>3. Losing(w)
    <3>1. CASE poll[w].pc \in {"find", "file"}
      <4>1. lost' = [lost EXCEPT ![poll[w].cur] = TRUE] /\ poll[w].cur \in Mail
        BY <1>12, <3>1, PollFields DEF WorkerDies, InHand
      <4>2. /\ \A x \in Mail : lost[x] => lost'[x]
            /\ lost'[poll[w].cur]
            /\ \A x \in Mail \ {poll[w].cur} : lost'[x] = lost[x]
        BY <1>0, <4>1, Grows, Zenon DEF LogsOK
      <4>3. QED
        BY <3>1, <4>2 DEF Losing, Working
    <3>2. CASE poll[w].pc \notin {"find", "file"}
      BY <1>12, <3>2 DEF WorkerDies, Losing, Working
    <3>3. QED
      BY <3>1, <3>2
  <2>4. QED
    BY <1>12, <2>1, <2>2, <2>3 DEF WorkerDies, Kinds, Leaves, inbox, desk
<1>13. QED
  BY <1>1, <1>2, <1>3, <1>4, <1>5, <1>6, <1>7, <1>8, <1>9, <1>10, <1>11, <1>12 DEF Next, Work

-----------------------------------------------------------------------------
(* What holds whether or not polls overlap.                                 *)

RefsInv ==
  /\ \A m, n \in Mail : n \in refs[m] => n < m
  /\ \A m, n \in Mail : mail[m] # "away" /\ n < m => mail[n] # "away"
  /\ \A w \in Workers : \A m \in poll[w].todo : mail[m] # "away"

SeenInv ==
  /\ HandSeen
  /\ \A m \in Mail : filed[m] # 0 => mail[m] = "seen"
  /\ \A m \in Mail : kind[m] = "ticket" => filed[m] # 0 /\ (live[m] \/ erased[m])

BaseInv == TypeOK /\ RefsInv /\ SeenInv

LEMMA OtherStays ==
  ASSUME NEW w \in Workers, NEW c, NEW T, NEW m, NEW n, Moves(w, c, T, m, n), NEW v \in Workers
  PROVE  \/ v = w /\ poll'[v].pc = c /\ poll'[v].todo = T /\ poll'[v].cur = m /\ poll'[v].to = n
         \/ v # w /\ poll'[v].pc = poll[v].pc /\ poll'[v].todo = poll[v].todo
            /\ poll'[v].cur = poll[v].cur /\ poll'[v].to = poll[v].to
BY DEF Moves

LEMMA BaseInit == Init => BaseInv
<1> SUFFICES ASSUME Init PROVE BaseInv
  OBVIOUS
<1>1. \A w \in Workers : poll[w].pc = "idle" /\ poll[w].todo = {}
  <2>1. \A w \in Workers : poll[w] = Idle
    BY Zenon DEF Init
  <2>2. Idle.pc = "idle" /\ Idle.todo = {}
    BY AtFields DEF Idle
  <2>3. QED
    BY <2>1, <2>2, Zenon
<1>2. RefsInv
  BY <1>1 DEF Init, RefsInv
<1>3. SeenInv
  BY <1>1 DEF Init, SeenInv, HandSeen, InHand
<1>4. QED
  BY <1>2, <1>3, TypeInit DEF BaseInv

LEMMA RefsStep == BaseInv /\ Kinds => RefsInv'
<1> SUFFICES ASSUME BaseInv, Kinds PROVE RefsInv'
  OBVIOUS
<1> USE DEF BaseInv
<1>0. \A w \in Workers : poll[w].todo \subseteq Mail
  BY PollFields
<1>1. ASSUME NEW m \in Mail, Arrives(m)
      PROVE  RefsInv'
  <2>1. \A x \in Mail : mail[x] # "away" => mail'[x] # "away"
    BY <1>1 DEF Arrives
  <2>2. \A x, n \in Mail : mail'[x] # "away" /\ n < x => mail'[n] # "away"
    BY <1>1, <2>1 DEF Arrives, RefsInv
  <2>3. \A n \in Mail : n \in refs'[m] => n < m
    BY <1>1 DEF Arrives, RefsInv, Mail
  <2>4. \A x, n \in Mail : n \in refs'[x] => n < x
    BY <1>1, <2>3 DEF Arrives, RefsInv
  <2>5. \A w \in Workers : \A x \in poll'[w].todo : mail'[x] # "away"
    BY <1>0, <1>1, <2>1 DEF Arrives, RefsInv
  <2>6. QED
    BY <2>2, <2>4, <2>5 DEF RefsInv
<1>2. ASSUME NEW m \in Mail, Erases(m)
      PROVE  RefsInv'
  BY <1>2 DEF Erases, RefsInv
<1>3. CASE Rests
  BY <1>3 DEF Rests, RefsInv
<1>4. ASSUME NEW w \in Workers, Takes(w)
      PROVE  RefsInv'
  <2>1. \A v \in Workers : \A x \in poll'[v].todo : mail[x] # "away"
    BY <1>4, OtherStays DEF Takes, RefsInv, Unseen
  <2>2. QED
    BY <1>4, <2>1 DEF Takes, RefsInv
<1>5. ASSUME NEW w \in Workers, NEW m \in Mail, Fetches(w, m)
      PROVE  RefsInv'
  <2>1. \A x \in Mail : mail[x] # "away" <=> mail'[x] # "away"
    BY <1>5 DEF Fetches, RefsInv
  <2>2. \A v \in Workers : poll'[v].todo \subseteq poll[v].todo
    BY <1>5, OtherStays DEF Fetches
  <2>3. \A v \in Workers : \A x \in poll'[v].todo : mail'[x] # "away"
    BY <1>0, <2>1, <2>2 DEF RefsInv
  <2>4. QED
    BY <1>5, <2>1, <2>3 DEF Fetches, RefsInv
<1>6. ASSUME NEW w \in Workers, NEW m \in Mail, Drops(w, m)
      PROVE  RefsInv'
  <2>1. \A v \in Workers : poll'[v].todo \subseteq poll[v].todo
    BY <1>6, OtherStays DEF Drops
  <2>2. QED
    BY <1>6, <2>1 DEF Drops, RefsInv
<1>7. ASSUME NEW w \in Workers, NEW n \in 0..MaxMails, Finds(w, n)
      PROVE  RefsInv'
  <2>1. \A v \in Workers : poll'[v].todo \subseteq poll[v].todo
    BY <1>7, OtherStays DEF Finds
  <2>2. QED
    BY <1>7, <2>1 DEF Finds, RefsInv
<1>8. ASSUME NEW w \in Workers, Files(w)
      PROVE  RefsInv'
  <2>1. \A v \in Workers : poll'[v].todo \subseteq poll[v].todo
    BY <1>8, OtherStays DEF Files
  <2>2. QED
    BY <1>8, <2>1 DEF Files, RefsInv
<1>9. ASSUME NEW w \in Workers, Leaves(w)
      PROVE  RefsInv'
  <2>1. \A v \in Workers : poll'[v].todo \subseteq poll[v].todo
    BY <1>9, OtherStays DEF Leaves
  <2>2. QED
    BY <1>9, <2>1 DEF Leaves, RefsInv
<1>10. QED
  BY <1>1, <1>2, <1>3, <1>4, <1>5, <1>6, <1>7, <1>8, <1>9 DEF Kinds

LEMMA SeenStep == BaseInv /\ Kinds => SeenInv'
<1> SUFFICES ASSUME BaseInv, Kinds PROVE SeenInv'
  OBVIOUS
<1> USE DEF BaseInv
<1>0. \A w \in Workers : poll[w].pc \in InHand => poll[w].cur \in Mail
  BY PollFields
<1>a. "idle" \notin InHand /\ "next" \notin InHand /\ "find" \in InHand /\ "file" \in InHand
      /\ "flag" \in InHand
  BY DEF InHand
<1>1. ASSUME NEW m \in Mail, Arrives(m)
      PROVE  SeenInv'
  BY <1>0, <1>1 DEF Arrives, SeenInv, HandSeen
<1>2. ASSUME NEW m \in Mail, Erases(m)
      PROVE  SeenInv'
  <2>1. \A x \in Mail : live[x] \/ erased[x] => live'[x] \/ erased'[x]
    BY <1>2, Zenon DEF Erases
  <2>2. HandSeen' /\ \A x \in Mail : filed'[x] # 0 => mail'[x] = "seen"
    BY <1>2 DEF Erases, SeenInv, HandSeen
  <2>3. \A x \in Mail : kind'[x] = "ticket" => filed'[x] # 0 /\ (live'[x] \/ erased'[x])
    BY <1>2, <2>1 DEF Erases, SeenInv
  <2>4. QED
    BY <2>2, <2>3 DEF SeenInv
<1>3. CASE Rests
  BY <1>3 DEF Rests, SeenInv, HandSeen
<1>4. ASSUME NEW w \in Workers, Takes(w)
      PROVE  SeenInv'
  <2>1. HandSeen'
    BY <1>4, <1>a, OtherStays DEF Takes, SeenInv, HandSeen
  <2>2. QED
    BY <1>4, <2>1 DEF Takes, SeenInv
<1>5. ASSUME NEW w \in Workers, NEW m \in Mail, Fetches(w, m)
      PROVE  SeenInv'
  <2>1. \A x \in Mail : mail[x] = "seen" => mail'[x] = "seen"
    BY <1>5 DEF Fetches
  <2>2. HandSeen'
    BY <1>0, <1>5, <2>1, OtherStays DEF Fetches, SeenInv, HandSeen
  <2>3. QED
    BY <1>5, <2>1, <2>2 DEF Fetches, SeenInv
<1>6. ASSUME NEW w \in Workers, NEW m \in Mail, Drops(w, m)
      PROVE  SeenInv'
  <2>1. HandSeen'
    BY <1>6, <1>a, OtherStays DEF Drops, SeenInv, HandSeen
  <2>2. QED
    BY <1>6, <2>1 DEF Drops, SeenInv
<1>7. ASSUME NEW w \in Workers, NEW n \in 0..MaxMails, Finds(w, n)
      PROVE  SeenInv'
  <2>1. HandSeen'
    BY <1>7, <1>a, OtherStays DEF Finds, SeenInv, HandSeen
  <2>2. QED
    BY <1>7, <2>1 DEF Finds, SeenInv
<1>8. ASSUME NEW w \in Workers, Files(w)
      PROVE  SeenInv'
  <2>0. /\ poll[w].cur \in Mail /\ mail[poll[w].cur] = "seen"
        /\ filed[poll[w].cur] \in Nat
    BY <1>0, <1>8, <1>a DEF Files, SeenInv, HandSeen, TypeOK
  <2>1. HandSeen'
    BY <1>8, <1>a, OtherStays DEF Files, SeenInv, HandSeen
  <2>2. \A x \in Mail : filed'[x] # 0 => mail'[x] = "seen"
    BY <1>8, <2>0 DEF Files, SeenInv
  <2>3. \A x \in Mail : kind'[x] = "ticket" => filed'[x] # 0 /\ (live'[x] \/ erased'[x])
    <3>1. filed'[poll[w].cur] # 0
      BY <1>8, <2>0 DEF Files
    <3>2. QED
      BY <1>8, <2>0, <3>1, Zenon DEF Files, SeenInv
  <2>4. QED
    BY <2>1, <2>2, <2>3 DEF SeenInv
<1>9. ASSUME NEW w \in Workers, Leaves(w)
      PROVE  SeenInv'
  <2>1. HandSeen'
    BY <1>9, <1>a, OtherStays DEF Leaves, SeenInv, HandSeen
  <2>2. QED
    BY <1>9, <2>1 DEF Leaves, SeenInv
<1>10. QED
  BY <1>1, <1>2, <1>3, <1>4, <1>5, <1>6, <1>7, <1>8, <1>9 DEF Kinds

-----------------------------------------------------------------------------
(* What holds as long as no two polls have overlapped.                      *)

Alone == \A v, w \in Workers : poll[v].pc # "idle" /\ poll[w].pc # "idle" => v = w

\* What a poll has still to do is unseen, and it has all that is older, except
\* what it gave up.
TodoInv ==
  \A w \in Workers : poll[w].pc # "idle" =>
    \A m \in poll[w].todo :
      /\ mail[m] = "unseen"
      /\ \A n \in Mail : n < m /\ mail[n] = "unseen" => n \in poll[w].todo \/ passed[n]

\* Messages are seen in their order, except where a poll failed.
OrderInv ==
  \A m, n \in Mail : mail[m] = "seen" /\ n < m => mail[n] = "seen" \/ passed[n]

\* The message in hand is not filed, younger ones are unseen, except where a
\* poll failed; if there will be a new ticket, its thread has none.
HandInv ==
  /\ \A w \in Workers : poll[w].pc \in {"find", "file"} =>
       /\ filed[poll[w].cur] = 0
       /\ \A m \in Mail : mail[m] = "seen" /\ poll[w].cur < m => passed[poll[w].cur]
  /\ \A w \in Workers : poll[w].pc = "file" /\ poll[w].to = 0 =>
       \A n \in refs[poll[w].cur] : ~live[n]

OnceInv == \A m \in Mail : filed[m] <= 1

ThreadInv ==
  \A m \in Mail : kind[m] = "ticket" =>
    \A n \in refs[m] : kind[n] = "ticket" => erased[n] \/ passed[n]

OrderedInv == Alone /\ TodoInv /\ OrderInv /\ HandInv /\ OnceInv /\ ThreadInv

LEMMA OrderedInit == Init => OrderedInv
<1> SUFFICES ASSUME Init PROVE OrderedInv
  OBVIOUS
<1>1. \A w \in Workers : poll[w].pc = "idle"
  <2>1. \A w \in Workers : poll[w] = Idle
    BY Zenon DEF Init
  <2>2. Idle.pc = "idle"
    BY AtFields DEF Idle
  <2>3. QED
    BY <2>1, <2>2, Zenon
<1>2. Alone /\ TodoInv /\ HandInv
  BY <1>1 DEF Alone, TodoInv, HandInv
<1>3. OrderInv /\ OnceInv /\ ThreadInv
  BY DEF Init, OrderInv, OnceInv, ThreadInv
<1>4. QED
  BY <1>2, <1>3 DEF OrderedInv

LEMMA ArrivesOrdered ==
  ASSUME BaseInv, OrderedInv, NEW m \in Mail, Arrives(m)
  PROVE  OrderedInv'
<1> USE DEF OrderedInv
<1>0. /\ \A w \in Workers : poll[w].todo \subseteq Mail
      /\ \A w \in Workers : poll[w].pc \in {"find", "file"} =>
           poll[w].cur \in Mail /\ mail[poll[w].cur] = "seen"
  BY PollFields DEF BaseInv, SeenInv, HandSeen, InHand
<1>1. /\ \A x \in Mail : mail'[x] = "seen" <=> mail[x] = "seen"
      /\ \A x \in Mail : mail[x] = "unseen" => mail'[x] = "unseen"
      /\ \A x \in Mail : mail'[x] = "unseen" => x = m \/ mail[x] = "unseen"
  BY DEF Arrives
<1>2. Alone' /\ OnceInv'
  BY DEF Arrives, Alone, OnceInv
<1>3. TodoInv'
  <2>1. \A x \in Mail : mail[x] = "unseen" => ~(m < x)
    BY DEF Arrives, BaseInv, RefsInv
  <2>2. QED
    BY <1>0, <1>1, <2>1 DEF Arrives, TodoInv
<1>4. OrderInv'
  BY <1>1 DEF Arrives, OrderInv
<1>5. HandInv'
  <2>1. \A w \in Workers : poll[w].pc \in {"find", "file"} => poll[w].cur # m
    BY <1>0 DEF Arrives
  <2>2. QED
    BY <1>0, <1>1, <2>1 DEF Arrives, HandInv
<1>6. ThreadInv'
  <2>1. kind[m] # "ticket"
    BY DEF Arrives, BaseInv, SeenInv
  <2>2. QED
    BY <2>1 DEF Arrives, ThreadInv
<1>7. QED
  BY <1>2, <1>3, <1>4, <1>5, <1>6

LEMMA ErasesOrdered ==
  ASSUME BaseInv, OrderedInv, NEW m \in Mail, Erases(m)
  PROVE  OrderedInv'
<1> USE DEF OrderedInv
<1>1. Alone' /\ OnceInv' /\ TodoInv' /\ OrderInv'
  BY DEF Erases, Alone, OnceInv, TodoInv, OrderInv
<1>2. \A x \in Mail : /\ ~live[x] => ~live'[x]
                      /\ erased[x] => erased'[x]
  BY Zenon DEF Erases
<1>3. \A x \in Mail : refs[x] \subseteq Mail
  BY DEF BaseInv, TypeOK
<1>4. \A w \in Workers : poll[w].pc = "file" => poll[w].cur \in Mail
  BY PollFields DEF BaseInv, InHand
<1>5. HandInv'
  BY <1>2, <1>3, <1>4 DEF Erases, HandInv
<1>6. ThreadInv'
  BY <1>2, <1>3 DEF Erases, ThreadInv
<1>7. QED
  BY <1>1, <1>5, <1>6

LEMMA TakesOrdered ==
  ASSUME BaseInv, OrderedInv, ~overlap', NEW w \in Workers, Takes(w)
  PROVE  OrderedInv'
<1> USE DEF OrderedInv
<1>1. \A v \in Workers : poll[v].pc = "idle"
  BY DEF Takes
<1>2. poll'[w].pc = "next" /\ poll'[w].todo = Unseen /\ \A v \in Workers : v # w => poll'[v].pc = "idle"
  BY <1>1 DEF Takes, Moves
<1>3. Alone' /\ HandInv'
  BY <1>2 DEF Alone, HandInv
<1>4. TodoInv'
  BY <1>2 DEF Takes, TodoInv, Unseen
<1>5. OrderInv' /\ OnceInv' /\ ThreadInv'
  BY DEF Takes, OrderInv, OnceInv, ThreadInv
<1>6. QED
  BY <1>3, <1>4, <1>5

LEMMA FetchesOrdered ==
  ASSUME BaseInv, OrderedInv, NEW w \in Workers, NEW m \in Mail, Fetches(w, m)
  PROVE  OrderedInv'
<1> USE DEF OrderedInv
<1>1. \A v \in Workers : v # w => poll[v].pc = "idle" /\ poll'[v].pc = "idle"
  BY DEF Fetches, Moves, Alone
<1>2. /\ poll[w].pc = "next" /\ poll'[w].pc = "find" /\ poll'[w].cur = m
      /\ poll'[w].todo = poll[w].todo \ {m} /\ poll[w].todo \subseteq Mail
  BY PollFields DEF Fetches, Moves, BaseInv
<1>3. mail[m] = "unseen" /\ mail'[m] = "seen" /\ \A x \in Mail : x # m => mail'[x] = mail[x]
  BY <1>2 DEF Fetches, TodoInv
<1>4. \A n \in Mail : n < m => mail[n] = "seen" \/ passed[n]
  <2>1. SUFFICES ASSUME NEW n \in Mail, n < m, mail[n] # "seen" PROVE passed[n]
    OBVIOUS
  <2>2. mail[n] = "unseen"
    BY <1>3, <2>1 DEF BaseInv, RefsInv, TypeOK
  <2>3. n \notin poll[w].todo
    BY <2>1 DEF Fetches, Mail
  <2>4. QED
    BY <1>2, <2>1, <2>2, <2>3 DEF Fetches, TodoInv
<1>5. Alone'
  BY <1>1 DEF Alone
<1>6. TodoInv'
  <2>1. \A x \in poll'[w].todo : mail'[x] = "unseen"
    BY <1>2, <1>3 DEF TodoInv
  <2>2. \A x \in poll'[w].todo : \A n \in Mail :
          n < x /\ mail'[n] = "unseen" => n \in poll'[w].todo \/ passed'[n]
    BY <1>2, <1>3 DEF Fetches, TodoInv
  <2>3. QED
    BY <1>1, <2>1, <2>2 DEF TodoInv
<1>7. OrderInv'
  BY <1>3, <1>4 DEF Fetches, OrderInv
<1>8. HandInv'
  <2>1. filed[m] = 0
    BY <1>3 DEF BaseInv, SeenInv
  <2>2. \A x \in Mail : mail'[x] = "seen" /\ m < x => passed[m]
    BY <1>3 DEF OrderInv, Mail
  <2>3. QED
    BY <1>1, <1>2, <2>1, <2>2 DEF Fetches, HandInv
<1>9. OnceInv' /\ ThreadInv'
  BY DEF Fetches, OnceInv, ThreadInv
<1>10. QED
  BY <1>5, <1>6, <1>7, <1>8, <1>9

\* A poll that gives something up or ends.
LEMMA ShrinksOrdered ==
  ASSUME BaseInv, OrderedInv, NEW w \in Workers, poll[w].pc # "idle",
         \A v \in Workers : v # w => poll'[v].pc = poll[v].pc,
         poll'[w].pc \in {"idle", "next"}, poll'[w].todo \subseteq poll[w].todo,
         \A n \in poll[w].todo : poll'[w].pc = "next" => n \in poll'[w].todo \/ passed'[n],
         \A x \in Mail : passed[x] => passed'[x],
         UNCHANGED <<mail, refs, filed, kind, live, erased>>
  PROVE  OrderedInv'
<1> USE DEF OrderedInv
<1>1. \A v \in Workers : v # w => poll[v].pc = "idle" /\ poll'[v].pc = "idle"
  BY DEF Alone
<1>2. Alone' /\ HandInv'
  BY <1>1 DEF Alone, HandInv
<1>3. TodoInv'
  BY <1>1 DEF TodoInv
<1>4. OrderInv' /\ OnceInv'
  BY DEF OrderInv, OnceInv
<1>5. \A x \in Mail : refs[x] \subseteq Mail
  BY DEF BaseInv, TypeOK
<1>6. ThreadInv'
  BY <1>5 DEF ThreadInv
<1>7. QED
  BY <1>2, <1>3, <1>4, <1>6

LEMMA FindsOrdered ==
  ASSUME BaseInv, OrderedInv, NEW w \in Workers, NEW n \in 0..MaxMails, Finds(w, n)
  PROVE  OrderedInv'
<1> USE DEF OrderedInv
<1>1. \A v \in Workers : v # w => poll[v].pc = "idle" /\ poll'[v].pc = "idle"
  BY DEF Finds, Moves, Alone
<1>2. /\ poll[w].pc = "find" /\ poll'[w].pc = "file" /\ poll'[w].cur = poll[w].cur
      /\ poll'[w].todo = poll[w].todo /\ poll'[w].to = n
  BY DEF Finds, Moves
<1>3. Alone' /\ TodoInv'
  BY <1>1, <1>2 DEF Alone, TodoInv, Finds
<1>4. HandInv'
  BY <1>1, <1>2 DEF Finds, HandInv
<1>5. OrderInv' /\ OnceInv' /\ ThreadInv'
  BY DEF Finds, OrderInv, OnceInv, ThreadInv
<1>6. QED
  BY <1>3, <1>4, <1>5

LEMMA FilesOrdered ==
  ASSUME BaseInv, OrderedInv, NEW w \in Workers, Files(w)
  PROVE  OrderedInv'
<1> USE DEF OrderedInv
<1> DEFINE m == poll[w].cur
<1>1. \A v \in Workers : v # w => poll[v].pc = "idle" /\ poll'[v].pc = "idle"
  BY DEF Files, Moves, Alone
<1>2. /\ poll[w].pc = "file" /\ poll'[w].pc = "flag" /\ poll'[w].todo = poll[w].todo
      /\ poll[w].cur \in Mail
  BY PollFields DEF Files, Moves, BaseInv, InHand
<1>3. /\ filed[m] = 0 /\ filed'[m] = 1
      /\ \A x \in Mail : mail[x] = "seen" /\ m < x => passed[m]
      /\ poll[w].to = 0 => \A n \in refs[m] : ~live[n]
  BY <1>2 DEF Files, HandInv
<1>4. Alone' /\ HandInv'
  BY <1>1, <1>2 DEF Alone, HandInv
<1>5. TodoInv' /\ OrderInv'
  BY <1>1, <1>2 DEF Files, TodoInv, OrderInv
<1>6. OnceInv'
  BY <1>3 DEF Files, OnceInv
<1>7. ThreadInv'
  <2>1. SUFFICES ASSUME NEW x \in Mail, kind'[x] = "ticket", NEW n \in refs[x], kind'[n] = "ticket"
                 PROVE  erased[n] \/ passed[n]
    BY DEF Files, ThreadInv
  <2>2. n \in Mail /\ n < x
    BY DEF BaseInv, TypeOK, RefsInv
  <2>3. CASE x = m
    <3>1. n # m /\ kind[n] = "ticket" /\ poll[w].to = 0
      BY <1>2, <2>1, <2>2, <2>3 DEF Files, Mail
    <3>2. QED
      BY <1>3, <2>2, <2>3, <3>1 DEF BaseInv, SeenInv
  <2>4. CASE x # m /\ n = m
    <3>1. mail[x] = "seen"
      BY <2>1, <2>4 DEF Files, BaseInv, SeenInv
    <3>2. QED
      BY <1>3, <2>2, <2>4, <3>1
  <2>5. CASE x # m /\ n # m
    BY <2>1, <2>2, <2>5 DEF Files, ThreadInv
  <2>6. QED
    BY <2>3, <2>4, <2>5
<1>8. QED
  BY <1>4, <1>5, <1>6, <1>7

-----------------------------------------------------------------------------
(* What becomes of every message.                                           *)

\* Whether or not polls overlap: no customer's message is forgotten.
KeptInv ==
  /\ \A m \in Mail : mail[m] = "seen" /\ known[m] =>
       filed[m] # 0 \/ lost[m] \/ \E w \in Workers : Working(w, m)
  /\ \A w \in Workers : poll[w].pc = "flag" => filed[poll[w].cur] # 0

\* As long as no two polls have overlapped: a lost message stays lost.
LostInv ==
  \A m \in Mail : lost[m] => /\ filed[m] = 0 /\ mail[m] = "seen"
                             /\ \A w \in Workers : ~Working(w, m)

IInv == BaseInv /\ KeptInv /\ (~overlap => OrderedInv /\ LostInv)

LEMMA OutcomeInit == Init => KeptInv /\ LostInv
<1> SUFFICES ASSUME Init PROVE KeptInv /\ LostInv
  OBVIOUS
<1>1. \A w \in Workers : poll[w].pc = "idle"
  <2>1. \A w \in Workers : poll[w] = Idle
    BY Zenon DEF Init
  <2>2. Idle.pc = "idle"
    BY AtFields DEF Idle
  <2>3. QED
    BY <2>1, <2>2, Zenon
<1>2. \A m \in Mail : mail[m] # "seen" /\ ~lost[m]
  BY DEF Init
<1>3. QED
  BY <1>1, <1>2 DEF KeptInv, LostInv

\* Steps that move one process and see, file and lose nothing else.
LEMMA KeptMoves ==
  ASSUME BaseInv, KeptInv, NEW w \in Workers, NEW c, NEW T, NEW m, NEW n, Moves(w, c, T, m, n),
         \A x \in Mail : known'[x] = known[x],
         \A x \in Mail : mail'[x] = "seen" => mail[x] = "seen" \/ (c = "find" /\ m = x),
         \A x \in Mail : filed[x] # 0 => filed'[x] # 0,
         \A x \in Mail : lost[x] => lost'[x],
         \A x \in Mail : Working(w, x) /\ known[x] =>
           filed'[x] # 0 \/ lost'[x] \/ (c \in {"find", "file"} /\ m = x),
         c = "flag" => filed'[m] # 0
  PROVE  KeptInv'
<1>1. /\ poll'[w].pc = c /\ poll'[w].cur = m
      /\ \A v \in Workers : v # w => poll'[v] = poll[v]
  BY DEF Moves
<1>2. \A v \in Workers : poll[v].pc = "flag" => poll[v].cur \in Mail
  BY PollFields DEF BaseInv, InHand
<1>3. \A v \in Workers : poll'[v].pc = "flag" => filed'[poll'[v].cur] # 0
  BY <1>1, <1>2 DEF KeptInv
<1>4. \A v \in Workers, x \in Mail : v # w /\ Working(v, x) => Working(v, x)'
  BY <1>1 DEF Working
<1>5. \A x \in Mail : c \in {"find", "file"} /\ m = x => Working(w, x)'
  BY <1>1 DEF Working
<1>6. ASSUME NEW x \in Mail, mail'[x] = "seen", known'[x]
      PROVE  filed'[x] # 0 \/ lost'[x] \/ \E v \in Workers : Working(v, x)'
  <2>1. CASE c = "find" /\ m = x
    BY <1>5, <2>1
  <2>2. CASE mail[x] = "seen"
    <3>1. filed[x] # 0 \/ lost[x] \/ \E v \in Workers : Working(v, x)
      BY <1>6, <2>2 DEF KeptInv
    <3>2. known[x]
      BY <1>6
    <3>3. QED
      BY <1>4, <1>5, <3>1, <3>2
  <2>3. QED
    BY <1>6, <2>1, <2>2
<1>7. QED
  BY <1>3, <1>6 DEF KeptInv

LEMMA KeptStep ==
  ASSUME BaseInv, KeptInv, Kinds
  PROVE  KeptInv'
<1>1. ASSUME NEW m \in Mail, Arrives(m)
      PROVE  KeptInv'
  <2>1. \A v \in Workers, x \in Mail : Working(v, x) => Working(v, x)'
    BY <1>1 DEF Arrives, Working
  <2>2. QED
    BY <1>1, <2>1 DEF Arrives, KeptInv
<1>2. ASSUME NEW m \in Mail, Erases(m)
      PROVE  KeptInv'
  BY <1>2 DEF Erases, KeptInv, Working
<1>3. CASE Rests
  BY <1>3 DEF Rests, KeptInv, Working
<1>4. ASSUME NEW w \in Workers, Takes(w)
      PROVE  KeptInv'
  <2>1. \A x \in Mail : ~Working(w, x)
    BY <1>4 DEF Takes, Working
  <2>2. Moves(w, "next", Unseen, 0, 0) /\ UNCHANGED <<mail, known, filed, lost>>
    BY <1>4 DEF Takes
  <2>3. QED
    BY <2>1, <2>2, KeptMoves
<1>5. ASSUME NEW w \in Workers, NEW m \in Mail, Fetches(w, m)
      PROVE  KeptInv'
  <2>1. \A x \in Mail : ~Working(w, x)
    BY <1>5 DEF Fetches, Working
  <2>2. /\ Moves(w, "find", poll[w].todo \ {m}, m, 0) /\ UNCHANGED <<known, filed, lost>>
        /\ \A x \in Mail : x # m => mail'[x] = mail[x]
    BY <1>5 DEF Fetches
  <2>3. QED
    BY <2>1, <2>2, KeptMoves
<1>6. ASSUME NEW w \in Workers, NEW m \in Mail, Drops(w, m)
      PROVE  KeptInv'
  <2>1. \A x \in Mail : ~Working(w, x)
    BY <1>6 DEF Drops, Working
  <2>2. Moves(w, "next", poll[w].todo \ {m}, 0, 0) /\ UNCHANGED <<mail, known, filed, lost>>
    BY <1>6 DEF Drops
  <2>3. QED
    BY <2>1, <2>2, KeptMoves
<1>7. ASSUME NEW w \in Workers, NEW n \in 0..MaxMails, Finds(w, n)
      PROVE  KeptInv'
  <2>1. Moves(w, "file", poll[w].todo, poll[w].cur, n) /\ UNCHANGED <<mail, known, filed, lost>>
    BY <1>7 DEF Finds
  <2>2. \A x \in Mail : Working(w, x) => poll[w].cur = x
    BY DEF Working
  <2>3. QED
    BY <2>1, <2>2, KeptMoves
<1>8. ASSUME NEW w \in Workers, Files(w)
      PROVE  KeptInv'
  <2>1. poll[w].cur \in Mail /\ filed[poll[w].cur] \in Nat
    BY <1>8, PollFields DEF Files, BaseInv, InHand, TypeOK
  <2>2. filed'[poll[w].cur] # 0
    BY <1>8, <2>1 DEF Files
  <2>3. \A x \in Mail : filed[x] # 0 => filed'[x] # 0
    BY <1>8, <2>2 DEF Files
  <2>4. Moves(w, "flag", poll[w].todo, poll[w].cur, 0) /\ UNCHANGED <<mail, known, lost>>
    BY <1>8 DEF Files
  <2>5. \A x \in Mail : Working(w, x) => poll[w].cur = x
    BY DEF Working
  <2>6. QED
    BY <2>2, <2>3, <2>4, <2>5, KeptMoves
<1>9. ASSUME NEW w \in Workers, Leaves(w)
      PROVE  KeptInv'
  <2>1. UNCHANGED <<mail, known, filed>>
    BY <1>9 DEF Leaves
  <2>2. /\ \A x \in Mail : lost[x] => lost'[x]
        /\ \A x \in Mail : Working(w, x) /\ known[x] => lost'[x]
    BY <1>9 DEF Leaves, Losing
  <2>3. Moves(w, "next", poll[w].todo, 0, 0) \/ Moves(w, "idle", {}, 0, 0)
    BY <1>9 DEF Leaves
  <2>4. CASE Moves(w, "next", poll[w].todo, 0, 0)
    BY <2>1, <2>2, <2>4, KeptMoves
  <2>5. CASE Moves(w, "idle", {}, 0, 0)
    BY <2>1, <2>2, <2>5, KeptMoves
  <2>6. QED
    BY <2>3, <2>4, <2>5
<1>10. QED
  BY <1>1, <1>2, <1>3, <1>4, <1>5, <1>6, <1>7, <1>8, <1>9 DEF Kinds

LEMMA LostStep ==
  ASSUME BaseInv, OrderedInv, LostInv, Kinds, ~overlap'
  PROVE  LostInv'
<1>1. ASSUME NEW m \in Mail, Arrives(m)
      PROVE  LostInv'
  BY <1>1 DEF Arrives, LostInv, Working
<1>2. CASE Rests \/ \E m \in Mail : Erases(m)
  BY <1>2 DEF Rests, Erases, LostInv, Working
<1>3. ASSUME NEW w \in Workers, Takes(w)
      PROVE  LostInv'
  <2>1. \A v \in Workers : poll'[v].pc \in {"idle", "next"}
    BY <1>3 DEF Takes, Moves
  <2>2. QED
    BY <1>3, <2>1 DEF Takes, LostInv, Working
<1>4. ASSUME NEW w \in Workers, NEW m \in Mail, Fetches(w, m)
      PROVE  LostInv'
  <2>1. mail[m] = "unseen"
    BY <1>4 DEF Fetches, OrderedInv, TodoInv
  <2>2. ~lost[m]
    BY <2>1 DEF LostInv
  <2>3. QED
    BY <1>4, <2>2, OtherStays DEF Fetches, LostInv, Working
<1>5. ASSUME NEW w \in Workers, NEW m \in Mail, Drops(w, m)
      PROVE  LostInv'
  BY <1>5, OtherStays DEF Drops, LostInv, Working
<1>6. ASSUME NEW w \in Workers, NEW n \in 0..MaxMails, Finds(w, n)
      PROVE  LostInv'
  BY <1>6, OtherStays DEF Finds, LostInv, Working
<1>7. ASSUME NEW w \in Workers, Files(w)
      PROVE  LostInv'
  <2>1. poll[w].cur \in Mail /\ Working(w, poll[w].cur)
    BY <1>7, PollFields DEF Files, BaseInv, InHand, Working
  <2>2. ~lost[poll[w].cur]
    BY <2>1 DEF LostInv
  <2>3. QED
    BY <1>7, <2>2, OtherStays DEF Files, LostInv, Working
<1>8. ASSUME NEW w \in Workers, Leaves(w)
      PROVE  LostInv'
  <2>1. \A v \in Workers, x \in Mail : Working(v, x)' => v # w /\ Working(v, x)
    BY <1>8, OtherStays DEF Leaves, Working
  <2>2. ASSUME NEW x \in Mail, lost'[x], ~lost[x]
        PROVE  filed[x] = 0 /\ mail[x] = "seen" /\ \A v \in Workers : ~Working(v, x)'
    <3>1. Working(w, x)
      BY <1>8, <2>2 DEF Leaves, Losing
    <3>2. filed[x] = 0 /\ mail[x] = "seen"
      BY <3>1 DEF Working, OrderedInv, HandInv, BaseInv, SeenInv, HandSeen, InHand
    <3>3. \A v \in Workers : Working(v, x) => v = w
      BY <3>1 DEF Working, OrderedInv, Alone
    <3>4. QED
      BY <2>1, <3>2, <3>3
  <2>3. QED
    BY <1>8, <2>1, <2>2 DEF Leaves, LostInv
<1>9. QED
  BY <1>1, <1>2, <1>3, <1>4, <1>5, <1>6, <1>7, <1>8 DEF Kinds

LEMMA Inductive == IInv /\ [Next]_vars => IInv'
<1> SUFFICES ASSUME IInv, [Next]_vars PROVE IInv'
  OBVIOUS
<1>1. BaseInv /\ Kinds
  BY StepKinds DEF IInv, BaseInv, SeenInv
<1>2. BaseInv' /\ KeptInv'
  BY <1>1, TypeStep, RefsStep, SeenStep, KeptStep DEF IInv, BaseInv
<1>3. ASSUME ~overlap'
      PROVE  OrderedInv' /\ LostInv'
  <2>1. ~overlap
    BY <1>1, <1>3 DEF Kinds, Arrives, Erases, Rests, Takes, Fetches, Drops, Finds, Files, Leaves
  <2>2. OrderedInv /\ LostInv
    BY <2>1 DEF IInv
  <2>3. ASSUME Rests
        PROVE  OrderedInv'
    BY <2>2, <2>3 DEF Rests, OrderedInv, Alone, TodoInv, OrderInv, HandInv, OnceInv, ThreadInv
  <2>4. ASSUME NEW w \in Workers, NEW m \in Mail, Drops(w, m)
        PROVE  OrderedInv'
    BY <1>1, <2>2, <2>4, ShrinksOrdered DEF Drops, Moves
  <2>5. ASSUME NEW w \in Workers, Leaves(w)
        PROVE  OrderedInv'
    BY <1>1, <2>2, <2>5, ShrinksOrdered DEF Leaves, Moves
  <2>6. LostInv'
    BY <1>1, <1>3, <2>2, LostStep
  <2>7. QED
    BY <1>1, <1>3, <2>2, <2>3, <2>4, <2>5, <2>6, ArrivesOrdered, ErasesOrdered, TakesOrdered,
       FetchesOrdered, FindsOrdered, FilesOrdered DEF Kinds
<1>4. QED
  BY <1>2, <1>3 DEF IInv

LEMMA Invariant == Spec => []IInv
<1>1. Init => IInv
  BY BaseInit, OrderedInit, OutcomeInit DEF IInv
<1>2. QED
  BY <1>1, Inductive, PTL DEF Spec

\* A customer's message that was fetched is being worked on, filed or lost,
\* also when polls overlap; if they do not it is only one of these, and filed
\* once, whatever fails and however often polls are repeated.
THEOREM FiledOnceAlways == Spec => []FiledOnce
<1>1. ASSUME IInv
      PROVE  FiledOnce
  <2>1. \A m \in Mail : filed[m] \in Nat
    BY <1>1 DEF IInv, BaseInv, TypeOK
  <2>2. \A m \in Mail : mail[m] = "seen" /\ known[m]
                        => filed[m] > 0 \/ lost[m] \/ \E w \in Workers : Working(w, m)
    BY <1>1, <2>1 DEF IInv, KeptInv
  <2>3. ASSUME ~overlap, NEW m \in Mail
        PROVE  /\ filed[m] <= 1
               /\ lost[m] => filed[m] = 0
               /\ \A w \in Workers : Working(w, m) => filed[m] = 0 /\ ~lost[m]
    BY <1>1, <2>3 DEF IInv, OrderedInv, OnceInv, HandInv, LostInv, Working
  <2>4. QED
    BY <2>2, <2>3 DEF FiledOnce
<1>2. QED
  BY <1>1, Invariant, PTL

\* An answer becomes a ticket of its own only if no message of its thread has
\* one, except where that was deleted or a poll failed or overlapped.
THEOREM ThreadedAlways == Spec => []Threaded
<1>1. IInv => Threaded
  BY DEF IInv, OrderedInv, ThreadInv, Threaded
<1>2. QED
  BY <1>1, Invariant, PTL

=============================================================================
