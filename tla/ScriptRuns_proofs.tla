-------------------------- MODULE ScriptRuns_proofs --------------------------
(***************************************************************************)
(* Proofs about ScriptRuns.tla, for any set of runs, any bounds and any    *)
(* interleaving on the file of undelivered results.                        *)
(***************************************************************************)
EXTENDS ScriptRuns, SequenceTheorems, TLAPS

-----------------------------------------------------------------------------
(* What the sequences of results are made of.                              *)

\* Dropping the oldest entries leaves at most MAX_QUEUE entries.
LEMMA CappedAppendFacts ==
  ASSUME NEW q \in Seq(Entry), NEW e \in Entry
  PROVE  /\ CappedAppend(q, e) \in Seq(Entry)
         /\ Len(CappedAppend(q, e)) <= MaxQueue
<1> USE ScriptRunsAssumption DEF ScriptRunsAssumption
<1> DEFINE a == Append(q, e)
<1>1. a \in Seq(Entry) /\ Len(a) \in Nat
  OBVIOUS
<1>2. CASE Len(a) <= MaxQueue
  BY <1>1, <1>2 DEF CappedAppend
<1>3. CASE Len(a) > MaxQueue
  <2>1. CappedAppend(q, e) = SubSeq(a, Len(a) - MaxQueue + 1, Len(a))
    BY <1>3 DEF CappedAppend
  <2> HIDE DEF a
  <2>2. SubSeq(a, Len(a) - MaxQueue + 1, Len(a)) \in Seq(Entry)
    BY <1>1, <1>3
  <2>3. Len(SubSeq(a, Len(a) - MaxQueue + 1, Len(a))) = MaxQueue
    BY <1>1, <1>3
  <2>4. QED
    BY <2>1, <2>2, <2>3
<1>4. QED
  BY <1>1, <1>2, <1>3

-----------------------------------------------------------------------------
(* Types.                                                                  *)

\* Whoever waits for an answer waits for one, and knows what to do with it.
HandsInv ==
  /\ main.pc = "sent" => main.todo # <<>>
  /\ \A m \in net : m.waited /\ m.from = "main" => main.pc = "sent"
  /\ \A m \in net : m.waited /\ m.from = "thread" => thr[m.run].pc = "wait"
  /\ \A m, n \in net : m.waited /\ n.waited /\ m.from = "main" /\ n.from = "main" => m = n
  /\ \A m, n \in net : m.waited /\ n.waited /\ m.from = "thread" /\ n.from = "thread" /\ m.run = n.run
                      => m = n
  /\ \A r \in Runs : thr[r].pc \in {"wait", "read"} => thr[r].out \in Outcomes

MessagesOK == /\ net \subseteq Result
              /\ faults \in 0..MaxFaults /\ crashes \in 0..MaxCrashes
RowsOK == /\ row \in [Runs -> {"none", "queued", "running", "success", "failed"}]
          /\ late \in 0..MaxFaults
AgentOK == main \in Main /\ thr \in [Runs -> Thread] /\ file \in File
HistoryOK == lossy \in BOOLEAN /\ made \in [Runs -> Outcomes \union {"none"}] /\ starts \in [Runs -> Nat]

LEMMA TypeParts == TypeOK <=> RowsOK /\ MessagesOK /\ AgentOK /\ HistoryOK
BY DEF TypeOK, RowsOK, MessagesOK, AgentOK, HistoryOK

LEMMA ConstantRecords ==
  /\ NoThread \in Thread /\ Opened \in File
  /\ [pc |-> "poll", todo |-> <<>>, left |-> <<>>] \in Main
  /\ [pc |-> "down", todo |-> <<>>, left |-> <<>>] \in Main
  /\ [pc |-> "flush", todo |-> <<>>, left |-> <<>>] \in Main
  /\ [NoThread EXCEPT !.pc = "exec"] \in Thread
<1>1. <<>> \in Seq(Entry)
  OBVIOUS
<1> HIDE DEF Entry
<1>2. QED
  BY <1>1 DEF NoThread, Thread, Opened, File, Main

\* late counts the polls given up, which are faults.
LateInv == late <= faults

\* What a failing use of the file leaves alone.
FileFault == FlushFails \/ \E r \in Runs : EnqueueFails(r)
LEMMA FileFaultFacts ==
  ASSUME TypeOK, FileFault
  PROVE  /\ UNCHANGED <<row, late, net, crashes, made, starts>>
         /\ faults < MaxFaults /\ faults' = faults + 1
         /\ file' = file \/ file' = [st |-> "bad", q |-> <<>>]
         /\ \/ main' = main
            \/ main.pc # "sent" /\ main' = [pc |-> "poll", todo |-> <<>>, left |-> <<>>]
         /\ thr' \in [Runs -> Thread]
         /\ \A r \in Runs : \/ thr'[r] = thr[r]
                            \/ thr[r].pc \notin {"idle", "wait"} /\ thr'[r] = NoThread
<1>1. CASE FlushFails
  BY <1>1 DEF FlushFails, Spoiled, serverVars, TypeOK
<1>2. ASSUME NEW r \in Runs, EnqueueFails(r)
      PROVE  /\ UNCHANGED <<row, late, net, main, crashes, made, starts>>
             /\ faults < MaxFaults /\ faults' = faults + 1
             /\ file' = file \/ file' = [st |-> "bad", q |-> <<>>]
             /\ thr[r].pc \notin {"idle", "wait"} /\ thr' = [thr EXCEPT ![r] = NoThread]
  BY <1>2 DEF EnqueueFails, Spoiled, serverVars
<1>3. QED
  BY <1>1, <1>2, ConstantRecords DEF FileFault, TypeOK

LEMMA RowsStep ==
  ASSUME TypeOK, LateInv, Next
  PROVE  RowsOK' /\ LateInv'
<1> USE ScriptRunsAssumption DEF ScriptRunsAssumption
<1>1. \A R \in SUBSET Runs : Marked(R) \in [Runs -> {"none", "queued", "running", "success", "failed"}]
  BY DEF TypeOK, Marked
<1>2. Pending \in SUBSET Runs
  BY DEF Pending
<1>3. \A o : Status(o) \in {"success", "failed"}
  BY DEF Status
<1>4. CASE Server
  <2>1. ASSUME NEW R \in SUBSET Runs, QueueRuns(R)
        PROVE  RowsOK' /\ LateInv'
    BY <2>1 DEF QueueRuns, RowsOK, TypeOK, LateInv
  <2>2. CASE GetTasks
    BY <1>1, <1>2, <2>2 DEF GetTasks, RowsOK, TypeOK, LateInv
  <2>3. CASE LateGetTasks
    BY <1>1, <1>2, <2>3 DEF LateGetTasks, RowsOK, TypeOK, LateInv
  <2>5. ASSUME NEW m \in net, TaskResult(m)
        PROVE  RowsOK' /\ LateInv'
    <3>1. row' = [row EXCEPT ![m.run] = Status(m.out)] /\ UNCHANGED <<late, faults>>
      BY <2>5 DEF TaskResult
    <3>2. QED
      BY <1>3, <3>1 DEF RowsOK, TypeOK, LateInv
  <2>6. QED
    BY <1>4, <2>1, <2>2, <2>3, <2>5 DEF Server
<1>5. CASE Threads \/ MainLoop
  BY <1>5 DEF Threads, MainLoop, RunEnds, EnqueueRead, EnqueueOpen, EnqueueWrite, FlushRead,
              FlushPost, FlushOpen, FlushWrite, HeartbeatFails, serverVars, RowsOK, TypeOK, LateInv
<1>6. CASE Faults
  <2>1. CASE GiveUpPoll
    BY <2>1 DEF GiveUpPoll, RowsOK, TypeOK, LateInv
  <2>2. ASSUME NEW m \in net, GiveUpResult(m)
        PROVE  RowsOK' /\ LateInv'
    BY <2>2 DEF GiveUpResult, serverVars, RowsOK, TypeOK, LateInv
  <2>3. CASE FileFault
    BY <2>3, FileFaultFacts DEF RowsOK, TypeOK, LateInv
  <2>4. QED
    BY <1>6, <2>1, <2>2, <2>3 DEF Faults, FileFault, Crash, Restart, serverVars, RowsOK, TypeOK, LateInv
<1>7. QED
  BY <1>4, <1>5, <1>6 DEF Next

LEMMA MessagesStep ==
  ASSUME TypeOK, Next
  PROVE  MessagesOK'
<1> USE ScriptRunsAssumption DEF ScriptRunsAssumption
<1>1. \A m \in net : [m EXCEPT !.waited = FALSE] \in Result
  BY DEF TypeOK, Result
<1>2. CASE Server
  BY <1>2 DEF Server, QueueRuns, GetTasks, LateGetTasks, TaskResult, MessagesOK, TypeOK
<1>3. ASSUME NEW r \in Runs, RunEnds(r)
      PROVE  MessagesOK'
  <2>1. PICK o \in Outcomes :
          net' = net \union {[run |-> r, out |-> o, from |-> "thread", waited |-> TRUE]}
    BY <1>3 DEF RunEnds
  <2>2. [run |-> r, out |-> o, from |-> "thread", waited |-> TRUE] \in Result
    BY DEF Result
  <2>3. QED
    BY <1>3, <2>1, <2>2 DEF RunEnds, MessagesOK, TypeOK
<1>4. CASE FlushPost
  <2>1. Head(main.todo) \in Entry
    BY <1>4 DEF FlushPost, TypeOK, Main
  <2>2. [run |-> Head(main.todo).run, out |-> Head(main.todo).out,
         from |-> "main", waited |-> TRUE] \in Result
    BY <2>1 DEF Result, Entry
  <2>3. QED
    BY <1>4, <2>2 DEF FlushPost, MessagesOK, TypeOK
<1>5. CASE Threads \/ MainLoop
  BY <1>3, <1>4, <1>5 DEF Threads, MainLoop, EnqueueRead, EnqueueOpen, EnqueueWrite, FlushRead,
                          FlushOpen, FlushWrite, HeartbeatFails, MessagesOK, TypeOK
<1>6. CASE Faults
  <2>1. CASE GiveUpPoll \/ Restart
    BY <2>1 DEF GiveUpPoll, Restart, MessagesOK, TypeOK
  <2>2. CASE Crash
    BY <1>1, <2>2 DEF Crash, MessagesOK, TypeOK
  <2>3. ASSUME NEW m \in net, GiveUpResult(m)
        PROVE  MessagesOK'
    BY <1>1, <2>3 DEF GiveUpResult, MessagesOK, TypeOK
  <2>4. CASE FileFault
    BY <2>4, FileFaultFacts DEF MessagesOK, TypeOK
  <2>5. QED
    BY <1>6, <2>1, <2>2, <2>3, <2>4 DEF Faults, FileFault
<1>7. QED
  BY <1>2, <1>5, <1>6 DEF Next

LEMMA HistoryStep ==
  ASSUME TypeOK, Next
  PROVE  HistoryOK'
<1>1. CASE GetTasks
  BY <1>1 DEF GetTasks, HistoryOK, TypeOK
<1>2. ASSUME NEW r \in Runs, RunEnds(r)
      PROVE  HistoryOK'
  BY <1>2 DEF RunEnds, HistoryOK, TypeOK
<1>3. QED
  BY <1>1, <1>2 DEF Next, Server, Threads, MainLoop, Faults, FlushFails, EnqueueFails, QueueRuns, LateGetTasks,
     TaskResult, EnqueueRead, EnqueueOpen, EnqueueWrite, FlushRead, FlushPost, FlushOpen,
     FlushWrite, HeartbeatFails, GiveUpPoll, GiveUpResult, Crash, Restart, HistoryOK, TypeOK

\* What an answer leaves of the agent's state.
LEMMA AnsweredFacts ==
  ASSUME TypeOK, HandsInv, NEW m \in net, m.waited, NEW ok \in BOOLEAN, Answered(m, ok)
  PROVE  main' \in Main /\ thr' \in [Runs -> Thread]
<1>1. CASE m.from = "thread" /\ ThreadAnswered(m, ok)
  <2>1. thr[m.run] \in Thread => [thr[m.run] EXCEPT !.pc = "read"] \in Thread
    BY DEF Thread
  <2>2. thr' = [thr EXCEPT ![m.run] = IF ok THEN NoThread ELSE [@ EXCEPT !.pc = "read"]] /\ main' = main
    BY <1>1 DEF ThreadAnswered
  <2>3. QED
    BY <2>1, <2>2, ConstantRecords DEF TypeOK, Result
<1>2. CASE m.from = "main" /\ MainAnswered(m, ok)
  <2>1. main.todo # <<>> /\ main.todo \in Seq(Entry) /\ main.left \in Seq(Entry)
    BY <1>2 DEF HandsInv, TypeOK, Main
  <2>2. Head(main.todo) \in Entry /\ Tail(main.todo) \in Seq(Entry)
    BY <2>1
  <2>3. Append(main.left, Head(main.todo)) \in Seq(Entry)
    BY <2>1, <2>2
  <2>4. main' \in Main
    BY <1>2, <2>1, <2>2, <2>3 DEF MainAnswered, Main
  <2>5. QED
    BY <1>2, <2>4 DEF MainAnswered, TypeOK
<1>3. QED
  BY <1>1, <1>2 DEF Answered

LEMMA WrittenIsFile ==
  ASSUME NEW q \in Seq(Entry)
  PROVE  Written(q) \subseteq File
<1>1. <<>> \in Seq(Entry)
  OBVIOUS
<1> HIDE DEF Entry
<1>2. [st |-> "ok", q |-> q] \in File /\ [st |-> "bad", q |-> <<>>] \in File
  BY <1>1 DEF File
<1>3. QED
  BY <1>2 DEF Written

LEMMA AgentStep ==
  ASSUME TypeOK, HandsInv, Next
  PROVE  AgentOK'
<1> USE ConstantRecords
<1>1. CASE GetTasks
  <2>1. thr' \in [Runs -> Thread]
    BY <1>1 DEF GetTasks, TypeOK
  <2>2. main' \in Main
    BY <1>1 DEF GetTasks, TypeOK, Main
  <2>3. QED
    BY <1>1, <2>1, <2>2 DEF GetTasks, AgentOK, TypeOK
<1>2. ASSUME NEW m \in net, TaskResult(m)
      PROVE  AgentOK'
  BY <1>2, AnsweredFacts DEF TaskResult, AgentOK, TypeOK
<1>3. CASE Server
  BY <1>1, <1>2, <1>3 DEF Server, QueueRuns, LateGetTasks, AgentOK, TypeOK
<1>4. ASSUME NEW r \in Runs, RunEnds(r)
      PROVE  AgentOK'
  <2>1. PICK o \in Outcomes : thr' = [thr EXCEPT ![r] = [pc |-> "wait", out |-> o, snap |-> <<>>]]
    BY <1>4 DEF RunEnds
  <2>2. <<>> \in Seq(Entry)
    OBVIOUS
  <2>3. [pc |-> "wait", out |-> o, snap |-> <<>>] \in Thread
    BY <2>2 DEF Thread
  <2>4. QED
    BY <1>4, <2>1, <2>3 DEF RunEnds, AgentOK, TypeOK
<1>5. ASSUME NEW r \in Runs, EnqueueRead(r)
      PROVE  AgentOK'
  <2> DEFINE e == [run |-> r, out |-> thr[r].out]
             t == [thr[r] EXCEPT !.pc = "open", !.snap = CappedAppend(file.q, e)]
  <2>1. e \in Entry
    BY <1>5 DEF EnqueueRead, HandsInv, Entry
  <2>2. file.q \in Seq(Entry)
    BY DEF TypeOK, File
  <2>3. CappedAppend(file.q, e) \in Seq(Entry)
    BY <2>1, <2>2, CappedAppendFacts
  <2>4. thr[r] \in Thread
    BY DEF TypeOK
  <2>5. t \in Thread
    <3> DEFINE snap == CappedAppend(file.q, e)
    <3> HIDE DEF e, snap
    <3>1. snap \in Seq(Entry)
      BY <2>3 DEF snap
    <3>2. [thr[r] EXCEPT !.pc = "open", !.snap = snap] \in Thread
      BY <2>4, <3>1 DEF Thread
    <3>3. QED
      BY <3>2 DEF snap
  <2>6. thr' = [thr EXCEPT ![r] = IF file.st = "ok" THEN t ELSE NoThread]
    BY <1>5 DEF EnqueueRead
  <2> HIDE DEF t
  <2>7. thr' \in [Runs -> Thread]
    BY <2>5, <2>6 DEF TypeOK
  <2>8. QED
    BY <1>5, <2>7 DEF EnqueueRead, AgentOK, TypeOK
<1>6. ASSUME NEW r \in Runs, EnqueueOpen(r)
      PROVE  AgentOK'
  <2>1. thr' \in [Runs -> Thread]
    BY <1>6 DEF EnqueueOpen, TypeOK, Thread
  <2>2. QED
    BY <1>6, <2>1 DEF EnqueueOpen, AgentOK, TypeOK
<1>7. ASSUME NEW r \in Runs, EnqueueWrite(r)
      PROVE  AgentOK'
  <2>1. file' \in File
    BY <1>7, WrittenIsFile DEF EnqueueWrite, TypeOK, Thread
  <2>2. QED
    BY <1>7, <2>1 DEF EnqueueWrite, AgentOK, TypeOK
<1>8. CASE FlushRead
  <2>1. file.q \in Seq(Entry) /\ <<>> \in Seq(Entry)
    BY DEF TypeOK, File
  <2>2. main' \in Main
    BY <1>8, <2>1 DEF FlushRead, TypeOK, Main
  <2>3. QED
    BY <1>8, <2>2 DEF FlushRead, AgentOK, TypeOK
<1>9. CASE FlushWrite
  <2>1. Remaining \in Seq(Entry)
    BY DEF Remaining, TypeOK, Main
  <2>2. file' \in File
    BY <1>9, <2>1, WrittenIsFile DEF FlushWrite
  <2>3. QED
    BY <1>9, <2>2 DEF FlushWrite, AgentOK, TypeOK
<1>10. CASE FlushPost \/ FlushOpen \/ HeartbeatFails \/ GiveUpPoll \/ Restart
  <2>1. main' \in Main
    BY <1>10 DEF FlushPost, FlushOpen, HeartbeatFails, GiveUpPoll, Restart, TypeOK, Main
  <2>2. QED
    BY <1>10, <2>1 DEF FlushPost, FlushOpen, HeartbeatFails, GiveUpPoll, Restart, AgentOK, TypeOK
<1>11. CASE Crash
  BY <1>11 DEF Crash, AgentOK, TypeOK
<1>12. ASSUME NEW m \in net, GiveUpResult(m)
       PROVE  AgentOK'
  BY <1>12, AnsweredFacts DEF GiveUpResult, AgentOK, TypeOK
<1>13. CASE FileFault
  <2>1. <<>> \in Seq(Entry)
    OBVIOUS
  <2>2. [st |-> "bad", q |-> <<>>] \in File
    BY <2>1 DEF File
  <2>3. QED
    BY <1>13, <2>2, FileFaultFacts DEF AgentOK, TypeOK
<1>14. QED
  BY <1>3, <1>4, <1>5, <1>6, <1>7, <1>8, <1>9, <1>10, <1>11, <1>12, <1>13
     DEF Next, Threads, MainLoop, Faults, FileFault

LEMMA HandsStep ==
  ASSUME TypeOK, HandsInv, Next
  PROVE  HandsInv'
<1>0. \A m \in net : m \in Result /\ m.run \in Runs
  BY DEF TypeOK, Result
<1>1. ASSUME main'.pc = main.pc, main'.todo = main.todo, thr' = thr, net' \subseteq net
      PROVE  HandsInv'
  BY <1>1 DEF HandsInv
<1>2. CASE GetTasks
  <2>1. main'.pc = "flush" /\ net' = net
    BY <1>2 DEF GetTasks, TypeOK, Main
  <2>2. \A r \in Runs : thr'[r] = thr[r] \/ (thr[r].pc = "idle" /\ thr'[r].pc = "exec")
    BY <1>2 DEF GetTasks, NoThread
  <2>3. QED
    BY <1>0, <1>2, <2>1, <2>2 DEF GetTasks, HandsInv
<1>3. ASSUME NEW m \in net, m.waited, NEW ok \in BOOLEAN, Answered(m, ok),
             \A n \in net' : n.waited => n \in net /\ n # m
      PROVE  HandsInv'
  <2>1. CASE m.from = "thread" /\ ThreadAnswered(m, ok)
    <3>1. /\ main' = main /\ \A r \in Runs \ {m.run} : thr'[r] = thr[r]
          /\ thr[m.run].pc = "wait"
      BY <1>0, <1>3, <2>1 DEF ThreadAnswered, HandsInv, TypeOK
    <3>2. /\ thr'[m.run] = IF ok THEN NoThread ELSE [thr[m.run] EXCEPT !.pc = "read"]
          /\ thr[m.run] \in Thread
      BY <1>0, <1>3, <2>1 DEF ThreadAnswered, TypeOK
    <3>3. thr'[m.run].pc \in {"wait", "read"} => thr'[m.run].out = thr[m.run].out
      BY <3>2 DEF NoThread, Thread
    <3>4. \A n \in net' : n.waited /\ n.from = "thread" => n.run # m.run
      BY <1>3, <2>1 DEF HandsInv
    <3>5. QED
      BY <1>0, <1>3, <3>1, <3>3, <3>4 DEF HandsInv
  <2>2. CASE m.from = "main" /\ MainAnswered(m, ok)
    <3>1. thr' = thr /\ main'.pc = "send"
      BY <2>2 DEF MainAnswered
    <3>2. \A n \in net' : n.waited => n.from # "main"
      BY <1>3, <2>2 DEF HandsInv
    <3>3. QED
      BY <1>3, <3>1, <3>2 DEF HandsInv
  <2>3. QED
    BY <1>3, <2>1, <2>2 DEF Answered
<1>4. ASSUME NEW m \in net, TaskResult(m)
      PROVE  HandsInv'
  <2>1. CASE m.waited
    <3>1. Answered(m, TRUE) /\ \A n \in net' : n \in net /\ n # m
      BY <1>4, <2>1 DEF TaskResult
    <3>2. QED
      BY <1>3, <2>1, <3>1
  <2>2. CASE ~m.waited
    BY <1>1, <1>4, <2>2 DEF TaskResult
  <2>3. QED
    BY <2>1, <2>2
<1>5. CASE Server
  BY <1>1, <1>2, <1>4, <1>5 DEF Server, QueueRuns, LateGetTasks
<1>6. ASSUME NEW r \in Runs, RunEnds(r)
      PROVE  HandsInv'
  <2>1. PICK o \in Outcomes :
          /\ thr' = [thr EXCEPT ![r] = [pc |-> "wait", out |-> o, snap |-> <<>>]]
          /\ net' = net \union {[run |-> r, out |-> o, from |-> "thread", waited |-> TRUE]}
    BY <1>6 DEF RunEnds
  <2>2. /\ thr[r].pc = "exec" /\ main' = main /\ thr'[r].pc = "wait" /\ thr'[r].out \in Outcomes
        /\ \A d \in Runs \ {r} : thr'[d] = thr[d]
    BY <1>6, <2>1 DEF RunEnds, TypeOK
  <2>3. \A n \in net : n.waited /\ n.from = "thread" => n.run # r
    BY <2>2 DEF HandsInv
  <2> DEFINE x == [run |-> r, out |-> o, from |-> "thread", waited |-> TRUE]
  <2>4. net' = net \union {x} /\ x.from = "thread" /\ x.run = r
    BY <2>1
  <2> HIDE DEF x
  <2>5. /\ \A m \in net' : m.waited /\ m.from = "main" => m \in net
        /\ \A m \in net' : m.waited /\ m.from = "thread" => (m \in net /\ m.run # r) \/ m = x
    BY <2>3, <2>4
  <2>6. \A m \in net' : m.waited /\ m.from = "thread" => thr'[m.run].pc = "wait"
    BY <1>0, <2>2, <2>4, <2>5 DEF HandsInv
  <2>7. \A m, n \in net' : /\ m.waited /\ n.waited /\ m.from = "thread" /\ n.from = "thread"
                           /\ m.run = n.run
                           => m = n
    BY <2>4, <2>5 DEF HandsInv
  <2>8. /\ main'.pc = "sent" => main'.todo # <<>>
        /\ \A m \in net' : m.waited /\ m.from = "main" => main'.pc = "sent"
        /\ \A m, n \in net' : m.waited /\ n.waited /\ m.from = "main" /\ n.from = "main" => m = n
    BY <2>2, <2>5 DEF HandsInv
  <2>9. \A d \in Runs : thr'[d].pc \in {"wait", "read"} => thr'[d].out \in Outcomes
    BY <2>2 DEF HandsInv
  <2>10. QED
    BY <2>6, <2>7, <2>8, <2>9 DEF HandsInv
<1>7. ASSUME NEW r \in Runs, EnqueueRead(r) \/ EnqueueOpen(r) \/ EnqueueWrite(r)
      PROVE  HandsInv'
  <2>1. main' = main /\ net' = net /\ \A d \in Runs \ {r} : thr'[d] = thr[d]
    BY <1>7 DEF EnqueueRead, EnqueueOpen, EnqueueWrite, TypeOK
  <2>2. thr[r].pc # "wait"
    BY <1>7 DEF EnqueueRead, EnqueueOpen, EnqueueWrite
  <2>3. thr'[r].pc \notin {"wait", "read"}
    <3>1. thr[r] \in Thread
      BY DEF TypeOK
    <3>2. CASE EnqueueRead(r)
      <4>1. thr'[r].pc \in {"open", "idle"}
        BY <3>1, <3>2, Zenon DEF EnqueueRead, TypeOK, Thread, NoThread
      <4>2. QED
        BY <4>1
    <3>3. CASE EnqueueOpen(r)
      BY <3>1, <3>3 DEF EnqueueOpen, TypeOK, Thread
    <3>4. CASE EnqueueWrite(r)
      BY <3>1, <3>4 DEF EnqueueWrite, TypeOK, Thread, NoThread
    <3>5. QED
      BY <1>7, <3>2, <3>3, <3>4
  <2>4. QED
    BY <1>0, <2>1, <2>2, <2>3 DEF HandsInv
<1>8. CASE FlushPost
  <2>1. /\ main.pc = "send" /\ main'.pc = "sent" /\ main'.todo = main.todo /\ main.todo # <<>>
        /\ thr' = thr
    BY <1>8 DEF FlushPost, TypeOK, Main
  <2> DEFINE x == [run |-> Head(main.todo).run, out |-> Head(main.todo).out,
                   from |-> "main", waited |-> TRUE]
  <2>2. net' = net \union {x} /\ x.from = "main"
    BY <1>8 DEF FlushPost
  <2> HIDE DEF x
  <2>3. QED
    BY <2>1, <2>2 DEF HandsInv
<1>9. CASE FlushRead \/ FlushOpen \/ FlushWrite \/ HeartbeatFails \/ GiveUpPoll \/ Restart
  <2>1. main.pc # "sent" /\ main'.pc # "sent" /\ thr' = thr /\ net' = net
    BY <1>9 DEF FlushRead, FlushOpen, FlushWrite, HeartbeatFails, GiveUpPoll, Restart, TypeOK, Main
  <2>2. QED
    BY <2>1 DEF HandsInv
<1>10. CASE Crash
  <2>1. \A n \in net' : ~n.waited
    BY <1>0, <1>10 DEF Crash, Result
  <2>2. main'.pc = "down" /\ \A r \in Runs : thr'[r].pc = "idle"
    BY <1>10 DEF Crash, NoThread
  <2>3. QED
    BY <2>1, <2>2 DEF HandsInv
<1>11. ASSUME NEW m \in net, GiveUpResult(m)
       PROVE  HandsInv'
  <2>1. \A n \in net' : n.waited => n \in net /\ n # m
    BY <1>0, <1>11 DEF GiveUpResult, Result
  <2>2. QED
    BY <1>3, <1>11, <2>1 DEF GiveUpResult
<1>12. CASE FileFault
  <2>1. /\ net' = net /\ (main' = main \/ (main.pc # "sent" /\ main'.pc = "poll"))
        /\ \A r \in Runs : thr'[r] = thr[r] \/ (thr[r].pc # "wait" /\ thr'[r].pc = "idle")
    BY <1>12, FileFaultFacts DEF NoThread
  <2>2. QED
    BY <1>0, <2>1 DEF HandsInv
<1>13. QED
  BY <1>5, <1>6, <1>7, <1>8, <1>9, <1>10, <1>11, <1>12 DEF Next, Threads, MainLoop, Faults, FileFault

\* Every variable keeps its type, for any runs, bounds and interleavings.
THEOREM TypeCorrect == Spec => [](TypeOK /\ HandsInv /\ LateInv)
<1>1. Init => TypeOK /\ HandsInv /\ LateInv
  <2>1. SUFFICES ASSUME Init
                 PROVE  TypeOK /\ HandsInv /\ LateInv
    OBVIOUS
  <2>2. <<>> \in Seq(Entry)
    OBVIOUS
  <2>3. main \in Main /\ file \in File /\ thr \in [Runs -> Thread]
    BY <2>1, <2>2, ConstantRecords DEF Init, Main, File
  <2>4. TypeOK /\ LateInv
    <3>1. RowsOK /\ MessagesOK /\ LateInv
      BY <2>1, ScriptRunsAssumption DEF ScriptRunsAssumption, Init, RowsOK, MessagesOK, LateInv
    <3>2. lossy \in BOOLEAN
      BY <2>1, Zenon DEF Init
    <3>3. HistoryOK
      BY <2>1, <3>2 DEF Init, HistoryOK
    <3>4. QED
      BY <2>3, <3>1, <3>3 DEF TypeOK, RowsOK, MessagesOK, AgentOK, HistoryOK
  <2>5. HandsInv
    BY <2>1 DEF Init, HandsInv, NoThread
  <2>6. QED
    BY <2>4, <2>5
<1>2. (TypeOK /\ HandsInv /\ LateInv) /\ [Next]_vars => (TypeOK /\ HandsInv /\ LateInv)'
  <2>1. ASSUME TypeOK, HandsInv, LateInv, Next
        PROVE  (TypeOK /\ HandsInv /\ LateInv)'
    <3>1. (RowsOK /\ MessagesOK /\ AgentOK /\ HistoryOK)'
      BY <2>1, RowsStep, MessagesStep, AgentStep, HistoryStep
    <3>2. TypeOK'
      BY <3>1 DEF TypeOK, RowsOK, MessagesOK, AgentOK, HistoryOK
    <3>3. QED
      BY <2>1, <3>2, HandsStep, RowsStep
  <2>2. ASSUME TypeOK, HandsInv, LateInv, UNCHANGED vars
        PROVE  (TypeOK /\ HandsInv /\ LateInv)'
    BY <2>2 DEF vars, TypeOK, HandsInv, LateInv
  <2>3. QED
    BY <2>1, <2>2
<1>3. QED
  BY <1>1, <1>2, PTL DEF Spec

-----------------------------------------------------------------------------
(* No run is executed twice.                                               *)

\* A run that was never handed out was never executed: get_tasks marks what it
\* hands out in the transaction that reads it.
StartsInv ==
  \A r \in Runs : /\ starts[r] \in Nat /\ starts[r] <= 1
                  /\ row[r] \in {"none", "queued"} => starts[r] = 0

DomainInv == starts = [r \in Runs |-> starts[r]] /\ row = [r \in Runs |-> row[r]]

LEMMA StartsStep ==
  ASSUME StartsInv, DomainInv, Next
  PROVE  (StartsInv /\ DomainInv)'
<1>1. ASSUME starts' = starts, DomainInv',
             \A r \in Runs : row'[r] \in {"none", "queued"} => row[r] \in {"none", "queued"}
      PROVE  (StartsInv /\ DomainInv)'
  BY <1>1 DEF StartsInv
<1>2. ASSUME NEW R \in SUBSET Runs, QueueRuns(R)
      PROVE  (StartsInv /\ DomainInv)'
  <2>1. starts' = starts /\ DomainInv'
    BY <1>2 DEF QueueRuns, DomainInv
  <2>2. \A r \in Runs : row'[r] \in {"none", "queued"} => row[r] \in {"none", "queued"}
    BY <1>2 DEF QueueRuns
  <2>3. QED
    BY <1>1, <2>1, <2>2
<1>3. CASE GetTasks
  <2>1. \A r \in Runs : row'[r] = IF row[r] = "queued" THEN "running" ELSE row[r]
    BY <1>3 DEF GetTasks, Marked, Pending
  <2>2. \A r \in Runs : starts'[r] = IF row[r] = "queued" /\ thr[r].pc = "idle"
                                     THEN starts[r] + 1 ELSE starts[r]
    BY <1>3 DEF GetTasks, Pending
  <2>3. DomainInv'
    BY <1>3 DEF GetTasks, Marked, DomainInv
  <2>4. QED
    BY <2>1, <2>2, <2>3 DEF StartsInv
<1>4. CASE LateGetTasks
  <2>1. starts' = starts /\ DomainInv'
    BY <1>4 DEF LateGetTasks, Marked, DomainInv
  <2>2. \A r \in Runs : row'[r] \in {"none", "queued"} => row[r] \in {"none", "queued"}
    BY <1>4 DEF LateGetTasks, Marked
  <2>3. QED
    BY <1>1, <2>1, <2>2
<1>5. ASSUME NEW m \in net, TaskResult(m)
      PROVE  (StartsInv /\ DomainInv)'
  <2>1. starts' = starts /\ row' = [row EXCEPT ![m.run] = Status(m.out)]
    BY <1>5 DEF TaskResult
  <2>2. \A r \in Runs : row'[r] \in {"none", "queued"} => row[r] \in {"none", "queued"}
    BY <2>1 DEF Status, DomainInv
  <2>3. DomainInv'
    BY <2>1 DEF DomainInv
  <2>4. QED
    BY <1>1, <2>1, <2>2, <2>3
<1>6. CASE Threads \/ MainLoop \/ Faults
  <2>1. starts' = starts /\ row' = row
    BY <1>6 DEF Threads, MainLoop, Faults, RunEnds, EnqueueRead, EnqueueOpen, EnqueueWrite,
                FlushRead, FlushPost, FlushOpen, FlushWrite, HeartbeatFails, GiveUpPoll,
                GiveUpResult, FlushFails, EnqueueFails, Crash, Restart, serverVars
  <2>2. QED
    BY <1>1, <2>1 DEF DomainInv
<1>7. QED
  BY <1>2, <1>3, <1>4, <1>5, <1>6 DEF Next, Server

-----------------------------------------------------------------------------
(* The file keeps its cap.                                                 *)

\* Everything anybody may write into the file is short enough.
CapInv ==
  /\ Len(file.q) <= MaxQueue
  /\ \A r \in Runs : Len(thr[r].snap) <= MaxQueue
  /\ Len(main.todo) + Len(main.left) <= MaxQueue

LEMMA WrittenLength ==
  ASSUME NEW q \in Seq(Entry), Len(q) <= MaxQueue, NEW f \in Written(q)
  PROVE  Len(f.q) <= MaxQueue
<1>1. f = [st |-> "ok", q |-> q] \/ f = [st |-> "bad", q |-> <<>>]
  BY DEF Written
<1>2. Len(<<>>) = 0
  OBVIOUS
<1>3. QED
  BY <1>1, <1>2, ScriptRunsAssumption DEF ScriptRunsAssumption

LEMMA CapStep ==
  ASSUME TypeOK, HandsInv, CapInv, Next
  PROVE  CapInv'
<1> USE ScriptRunsAssumption DEF ScriptRunsAssumption
<1>0. /\ file.q \in Seq(Entry) /\ main.todo \in Seq(Entry) /\ main.left \in Seq(Entry)
      /\ main \in Main /\ \A r \in Runs : thr[r] \in Thread /\ thr[r].snap \in Seq(Entry)
  BY DEF TypeOK, File, Main, Thread
<1>1. NoThread.snap = <<>> /\ Len(<<>>) = 0 /\ Len(<<>>) <= MaxQueue
  BY DEF NoThread
<1>2. ASSUME file' = file, main'.todo = main.todo, main'.left = main.left,
             \A r \in Runs : thr'[r].snap = thr[r].snap \/ thr'[r].snap = <<>>
      PROVE  CapInv'
  BY <1>1, <1>2 DEF CapInv
<1>3. CASE GetTasks
  <2>1. main'.todo = main.todo /\ main'.left = main.left /\ file' = file
    BY <1>0, <1>3 DEF GetTasks, Main
  <2>2. [NoThread EXCEPT !.pc = "exec"].snap = <<>>
    BY DEF NoThread
  <2>3. \A r \in Runs : thr'[r].snap = thr[r].snap \/ thr'[r].snap = <<>>
    BY <1>3, <2>2 DEF GetTasks
  <2>4. QED
    BY <1>2, <2>1, <2>3
<1>4. ASSUME NEW m \in net, m.waited, NEW ok \in BOOLEAN, Answered(m, ok), file' = file
      PROVE  CapInv'
  <2>1. CASE m.from = "thread" /\ ThreadAnswered(m, ok)
    <3>1. m.run \in Runs
      BY DEF TypeOK, Result
    <3>2. thr'[m.run] = IF ok THEN NoThread ELSE [thr[m.run] EXCEPT !.pc = "read"]
      BY <2>1, <3>1 DEF ThreadAnswered, TypeOK
    <3>3. thr'[m.run].snap = thr[m.run].snap \/ thr'[m.run].snap = <<>>
      BY <1>0, <1>1, <3>1, <3>2 DEF Thread
    <3>4. main' = main /\ \A r \in Runs \ {m.run} : thr'[r] = thr[r]
      BY <2>1, <3>1 DEF ThreadAnswered, TypeOK
    <3>5. QED
      BY <1>2, <1>4, <3>3, <3>4
  <2>2. CASE m.from = "main" /\ MainAnswered(m, ok)
    <3>1. main.todo # <<>>
      BY <1>4, <2>2 DEF HandsInv
    <3>2. /\ main'.todo = Tail(main.todo)
          /\ main'.left = IF ok THEN main.left ELSE Append(main.left, Head(main.todo))
          /\ thr' = thr
      BY <2>2 DEF MainAnswered
    <3>3. Len(Tail(main.todo)) = Len(main.todo) - 1 /\ Head(main.todo) \in Entry
      BY <1>0, <3>1
    <3>4. Len(Append(main.left, Head(main.todo))) = Len(main.left) + 1
      BY <1>0, <3>3
    <3>5. Len(main.todo) \in Nat /\ Len(main.left) \in Nat
      BY <1>0
    <3>6. Len(main'.todo) + Len(main'.left) <= MaxQueue
      <4>1. Len(main.todo) + Len(main.left) <= MaxQueue /\ MaxQueue \in Nat
        BY DEF CapInv
      <4>2. Len(main'.left) \in {Len(main.left), Len(main.left) + 1}
        BY <3>2, <3>4
      <4>3. Len(main'.todo) = Len(main.todo) - 1
        BY <3>2, <3>3
      <4>4. \A a, b, c, d \in Nat : a + b <= c /\ d \in {b, b + 1} => (a - 1) + d <= c
        OBVIOUS
      <4>5. Len(main'.left) \in Nat
        BY <3>5, <4>2
      <4>6. QED
        BY <3>5, <4>1, <4>2, <4>3, <4>4, <4>5
    <3>7. QED
      BY <1>4, <3>2, <3>6 DEF CapInv
  <2>3. QED
    BY <1>4, <2>1, <2>2 DEF Answered
<1>5. ASSUME NEW m \in net, TaskResult(m)
      PROVE  CapInv'
  <2>1. CASE m.waited
    BY <1>4, <1>5, <2>1 DEF TaskResult
  <2>2. CASE ~m.waited
    BY <1>2, <1>5, <2>2 DEF TaskResult
  <2>3. QED
    BY <2>1, <2>2
<1>6. CASE Server
  BY <1>2, <1>3, <1>5, <1>6 DEF Server, QueueRuns, LateGetTasks
<1>7. ASSUME NEW r \in Runs, RunEnds(r)
      PROVE  CapInv'
  <2>1. PICK o \in Outcomes : thr' = [thr EXCEPT ![r] = [pc |-> "wait", out |-> o, snap |-> <<>>]]
    BY <1>7 DEF RunEnds
  <2>2. \A d \in Runs : thr'[d].snap = thr[d].snap \/ thr'[d].snap = <<>>
    BY <2>1 DEF TypeOK
  <2>3. QED
    BY <1>2, <1>7, <2>2 DEF RunEnds
<1>8. ASSUME NEW r \in Runs, EnqueueRead(r)
      PROVE  CapInv'
  <2> DEFINE e == [run |-> r, out |-> thr[r].out]
             snap == CappedAppend(file.q, e)
             t == [thr[r] EXCEPT !.pc = "open", !.snap = snap]
  <2>1. e \in Entry
    BY <1>8 DEF EnqueueRead, HandsInv, Entry
  <2>2. Len(snap) <= MaxQueue
    BY <1>0, <2>1, CappedAppendFacts
  <2>3. thr' = [thr EXCEPT ![r] = IF file.st = "ok" THEN t ELSE NoThread]
    BY <1>8 DEF EnqueueRead
  <2> HIDE DEF snap
  <2>4. t.snap = snap
    BY <1>0 DEF Thread
  <2> HIDE DEF t
  <2>5. thr'[r].snap = snap \/ thr'[r].snap = <<>>
    BY <1>1, <2>3, <2>4 DEF TypeOK
  <2>6. \A d \in Runs \ {r} : thr'[d] = thr[d]
    BY <2>3 DEF TypeOK
  <2>7. \A d \in Runs : Len(thr'[d].snap) <= MaxQueue
    BY <1>1, <2>2, <2>5, <2>6 DEF CapInv
  <2>8. QED
    BY <1>8, <2>7 DEF EnqueueRead, CapInv
<1>9. ASSUME NEW r \in Runs, EnqueueOpen(r)
      PROVE  CapInv'
  <2>1. \A d \in Runs : thr'[d].snap = thr[d].snap
    BY <1>0, <1>9 DEF EnqueueOpen, TypeOK, Thread
  <2>2. file'.q = <<>>
    BY <1>9 DEF EnqueueOpen, Opened
  <2>3. main' = main
    BY <1>9 DEF EnqueueOpen
  <2>4. Len(file'.q) <= MaxQueue
    BY <1>1, <2>2
  <2>5. QED
    BY <2>1, <2>3, <2>4 DEF CapInv
<1>10. ASSUME NEW r \in Runs, EnqueueWrite(r)
       PROVE  CapInv'
  <2>1. Len(file'.q) <= MaxQueue
    BY <1>0, <1>10, WrittenLength DEF EnqueueWrite, CapInv
  <2>2. \A d \in Runs : thr'[d].snap = thr[d].snap \/ thr'[d].snap = <<>>
    BY <1>1, <1>10 DEF EnqueueWrite, TypeOK
  <2>3. main' = main
    BY <1>10 DEF EnqueueWrite
  <2>4. \A d \in Runs : Len(thr'[d].snap) <= MaxQueue
    BY <1>1, <2>2 DEF CapInv
  <2>5. QED
    BY <2>1, <2>3, <2>4 DEF CapInv
<1>11. CASE FlushRead
  <2>1. /\ \/ main'.todo = file.q /\ main'.left = <<>>
           \/ main'.todo = main.todo /\ main'.left = main.left
        /\ UNCHANGED <<file, thr>>
    BY <1>0, <1>11 DEF FlushRead, Main
  <2>2. Len(file.q) \in Nat /\ Len(file.q) <= MaxQueue
    BY <1>0 DEF CapInv
  <2>3. Len(main'.todo) + Len(main'.left) <= MaxQueue
    <3>1. CASE main'.todo = file.q /\ main'.left = <<>>
      <4>1. Len(main'.todo) = Len(file.q) /\ Len(main'.left) = 0
        BY <1>1, <3>1
      <4>2. QED
        BY <2>2, <4>1
    <3>2. CASE main'.todo = main.todo /\ main'.left = main.left
      BY <3>2 DEF CapInv
    <3>3. QED
      BY <2>1, <3>1, <3>2
  <2>4. QED
    BY <2>1, <2>3 DEF CapInv
<1>12. CASE FlushOpen
  <2>1. file'.q = <<>> /\ main'.todo = main.todo /\ main'.left = main.left /\ thr' = thr
    BY <1>0, <1>12 DEF FlushOpen, Opened, Main
  <2>2. Len(file'.q) <= MaxQueue
    BY <1>1, <2>1
  <2>3. QED
    BY <2>1, <2>2 DEF CapInv
<1>13. CASE FlushWrite
  <2>1. Len(main.left) <= MaxQueue
    <3>1. Len(main.todo) \in Nat /\ Len(main.left) \in Nat /\ MaxQueue \in Nat
      BY <1>0
    <3>2. Len(main.todo) + Len(main.left) <= MaxQueue
      BY DEF CapInv
    <3>3. \A a, b, c \in Nat : a + b <= c => b <= c
      OBVIOUS
    <3>4. QED
      BY <3>1, <3>2, <3>3
  <2>2. Len(file'.q) <= MaxQueue
    BY <1>0, <1>13, <2>1, WrittenLength DEF FlushWrite, Remaining
  <2>3. main'.todo = <<>> /\ main'.left = <<>> /\ thr' = thr
    BY <1>13 DEF FlushWrite
  <2>4. QED
    BY <1>1, <2>2, <2>3 DEF CapInv
<1>14. CASE FlushPost \/ HeartbeatFails \/ GiveUpPoll \/ Restart
  <2>1. main'.todo = main.todo /\ main'.left = main.left /\ UNCHANGED <<file, thr>>
    BY <1>0, <1>14 DEF FlushPost, HeartbeatFails, GiveUpPoll, Restart, Main
  <2>2. QED
    BY <1>2, <2>1
<1>15. CASE Crash
  <2>1. /\ main'.todo = <<>> /\ main'.left = <<>> /\ file' = file
        /\ \A r \in Runs : thr'[r].snap = <<>>
    BY <1>1, <1>15 DEF Crash
  <2>2. QED
    BY <1>1, <2>1 DEF CapInv
<1>16. ASSUME NEW m \in net, GiveUpResult(m)
       PROVE  CapInv'
  BY <1>4, <1>16 DEF GiveUpResult
<1>17. CASE FileFault
  <2>1. /\ (file'.q = file.q \/ file'.q = <<>>)
        /\ (main' = main \/ (main'.todo = <<>> /\ main'.left = <<>>))
        /\ \A r \in Runs : thr'[r].snap = thr[r].snap \/ thr'[r].snap = <<>>
    BY <1>1, <1>17, FileFaultFacts
  <2>2. Len(file'.q) <= MaxQueue /\ \A r \in Runs : Len(thr'[r].snap) <= MaxQueue
    BY <1>1, <2>1 DEF CapInv
  <2>3. Len(main'.todo) + Len(main'.left) <= MaxQueue
    <3>1. CASE main' = main
      BY <3>1 DEF CapInv
    <3>2. CASE main'.todo = <<>> /\ main'.left = <<>>
      BY <1>1, <3>2
    <3>3. QED
      BY <2>1, <3>1, <3>2
  <2>4. QED
    BY <2>2, <2>3 DEF CapInv
<1>18. QED
  BY <1>6, <1>7, <1>8, <1>9, <1>10, <1>11, <1>12, <1>13, <1>14, <1>15, <1>16, <1>17
     DEF Next, Threads, MainLoop, Faults, FileFault

\* The file of undelivered results keeps its cap under any interleaving.
THEOREM QueueCappedAlways == Spec => []QueueCapped
<1>1. Init => CapInv
  <2>1. Len(<<>>) = 0
    OBVIOUS
  <2>2. QED
    BY <2>1, ScriptRunsAssumption DEF ScriptRunsAssumption, Init, CapInv, NoThread
<1>2. (TypeOK /\ HandsInv /\ LateInv) /\ CapInv /\ [Next]_vars => CapInv'
  <2>1. ASSUME CapInv, UNCHANGED vars
        PROVE  CapInv'
    BY <2>1 DEF vars, CapInv
  <2>2. QED
    BY <2>1, CapStep
<1>3. CapInv => QueueCapped
  BY DEF CapInv, QueueCapped
<1>4. QED
  BY <1>1, <1>2, <1>3, TypeCorrect, PTL DEF Spec

-----------------------------------------------------------------------------
(* Stored results are kept.                                                *)

\* One at a time uses the file.
AloneInv ==
  /\ MainInFile => \A r \in Runs : ~InFile(r)
  /\ \A r, d \in Runs : InFile(r) /\ InFile(d) => r = d

\* The file is empty while it is written, and readable otherwise.
InWrite == main.pc = "flushwrite" \/ \E r \in Runs : thr[r].pc = "write"
EmptiedInv == IF InWrite THEN file = Opened ELSE file.st = "ok"

\* What a thread will write holds its result and all the file holds.
SnapInv ==
  \A r \in Runs :
    /\ ~InFile(r) => thr[r].snap = <<>>
    /\ InFile(r) => InSeq(thr[r].snap, r)
    /\ thr[r].pc = "open" => \A d \in Runs : InSeq(file.q, d) => InSeq(thr[r].snap, d)

\* What the flush has read is recorded, still to be sent, or kept, and in the
\* file until the flush opens it.
FlushInv ==
  /\ ~MainInFile => main.todo = <<>> /\ main.left = <<>>
  /\ main.pc = "flushwrite" => main.todo = <<>>
  /\ main.pc \in {"send", "sent"} =>
       \A r \in Runs : /\ InSeq(file.q, r) => Finished(r) \/ InSeq(main.todo, r) \/ InSeq(main.left, r)
                       /\ InSeq(main.todo, r) \/ InSeq(main.left, r) => InSeq(file.q, r)

\* The flush waits for the answer to its first entry.
HeadInv == \A m \in net : m.waited /\ m.from = "main" => m.run = Head(main.todo).run

\* A run that ended is recorded, in somebody's hands, or in the file.
KeptInv ==
  \A r \in Runs : made[r] # "none" =>
    \/ Finished(r)
    \/ thr[r].pc # "idle"
    \/ file.st = "ok" /\ InSeq(file.q, r)
    \/ InSeq(main.todo, r) \/ InSeq(main.left, r)
    \/ \E d \in Runs : InSeq(thr[d].snap, r)

Safe == AloneInv /\ EmptiedInv /\ SnapInv /\ FlushInv /\ HeadInv /\ KeptInv
KeepInv == ~lossy => Safe

LEMMA InSeqFacts ==
  /\ \A r : ~InSeq(<<>>, r)
  /\ \A q \in Seq(Entry), e \in Entry : \A r : InSeq(Append(q, e), r) <=> InSeq(q, r) \/ e.run = r
  /\ \A q \in Seq(Entry) : \A r : q # <<>> => (InSeq(q, r) <=> Head(q).run = r \/ InSeq(Tail(q), r))
<1> HIDE DEF Entry
<1>1. \A r : ~InSeq(<<>>, r)
  BY DEF InSeq
<1>2. ASSUME NEW q \in Seq(Entry), NEW e \in Entry, NEW r
      PROVE  InSeq(Append(q, e), r) <=> InSeq(q, r) \/ e.run = r
  <2>1. /\ DOMAIN Append(q, e) = 1 .. Len(q) + 1 /\ DOMAIN q = 1 .. Len(q) /\ Len(q) \in Nat
        /\ Append(q, e)[Len(q) + 1] = e
        /\ \A i \in 1 .. Len(q) : Append(q, e)[i] = q[i]
    OBVIOUS
  <2>2. 1 .. Len(q) + 1 = (1 .. Len(q)) \union {Len(q) + 1}
    BY <2>1
  <2>3. QED
    BY <2>1, <2>2, Zenon DEF InSeq
<1>4. ASSUME NEW q \in Seq(Entry), NEW r, q # <<>>, Head(q).run = r \/ InSeq(Tail(q), r)
      PROVE  InSeq(q, r)
  <2>1. /\ Len(q) \in Nat /\ 1 \in 1 .. Len(q) /\ DOMAIN q = 1 .. Len(q) /\ Head(q) = q[1]
        /\ Len(Tail(q)) = Len(q) - 1 /\ DOMAIN Tail(q) = 1 .. Len(Tail(q))
        /\ \A j \in 1 .. Len(Tail(q)) : Tail(q)[j] = q[j + 1]
    BY <1>4, HeadTailProperties
  <2>2. \A j \in 1 .. Len(Tail(q)) : j + 1 \in 1 .. Len(q)
    BY <2>1
  <2>3. QED
    BY <1>4, <2>1, <2>2, Zenon DEF InSeq
<1>3. ASSUME NEW q \in Seq(Entry), NEW r, q # <<>>, InSeq(q, r)
      PROVE  Head(q).run = r \/ InSeq(Tail(q), r)
  <2>1. PICK i \in 1 .. Len(q) : q[i].run = r
    BY <1>3 DEF InSeq
  <2>2. CASE i = 1
    BY <1>3, <2>1, <2>2
  <2>3. CASE i # 1
    <3>1. /\ Len(Tail(q)) = Len(q) - 1 /\ DOMAIN Tail(q) = 1 .. Len(Tail(q))
          /\ \A j \in 1 .. Len(Tail(q)) : Tail(q)[j] = q[j + 1]
      BY <1>3, HeadTailProperties
    <3>2. i - 1 \in 1 .. Len(Tail(q)) /\ (i - 1) + 1 = i
      BY <2>1, <2>3, <3>1
    <3>3. Tail(q)[i - 1].run = r
      BY <2>1, <3>1, <3>2
    <3>4. QED
      BY <3>1, <3>2, <3>3 DEF InSeq
  <2>4. QED
    BY <2>2, <2>3
<1>5. QED
  BY <1>1, <1>2, <1>3, <1>4

\* Below the cap nothing is dropped.
LEMMA AppendBelowCap ==
  ASSUME NEW q \in Seq(Entry), NEW e \in Entry, Len(q) < MaxQueue
  PROVE  CappedAppend(q, e) = Append(q, e)
<1>1. Len(Append(q, e)) = Len(q) + 1 /\ Len(q) \in Nat
  OBVIOUS
<1>2. QED
  BY <1>1, ScriptRunsAssumption DEF ScriptRunsAssumption, CappedAppend

LEMMA Shapes ==
  ASSUME TypeOK
  PROVE  /\ main \in Main /\ file \in File
         /\ main.todo \in Seq(Entry) /\ main.left \in Seq(Entry) /\ file.q \in Seq(Entry)
         /\ \A r \in Runs : thr[r] \in Thread /\ thr[r].snap \in Seq(Entry)
         /\ \A m \in net : m.run \in Runs
BY DEF TypeOK, Main, File, Thread, Result

\* Steps that leave the file, and what the flush holds, alone.
LEMMA QuietKeeps ==
  ASSUME Safe, HeadInv', file' = file,
         main'.todo = main.todo, main'.left = main.left,
         \/ main'.pc = main.pc
         \/ ~MainInFile /\ ~MainInFile'
         \/ main.pc \in {"send", "sent"} /\ main'.pc \in {"send", "sent"},
         \A r \in Runs : Finished(r) => Finished(r)',
         \A r \in Runs : \/ thr'[r] = thr[r] /\ made'[r] = made[r]
                         \/ /\ ~InFile(r) /\ ~InFile(r)' /\ thr'[r].snap = <<>>
                            /\ made'[r] # "none" => Finished(r)' \/ thr'[r].pc # "idle"
  PROVE  Safe'
<1> HIDE DEF InSeq, Finished
<1>1. \A r : ~InSeq(<<>>, r)
  BY InSeqFacts
<1>2. \A r \in Runs : InFile(r)' => thr'[r] = thr[r]
  OBVIOUS
<1>3. \A r \in Runs : InFile(r)' <=> InFile(r)
  BY DEF InFile
<1>4. /\ MainInFile' <=> MainInFile
      /\ main'.pc = "flushwrite" <=> main.pc = "flushwrite"
      /\ main'.pc \in {"send", "sent"} <=> main.pc \in {"send", "sent"}
  BY DEF MainInFile
<1>5. \A r \in Runs : /\ thr'[r].pc = "write" <=> thr[r].pc = "write"
                      /\ thr'[r].pc = "open" <=> thr[r].pc = "open"
  BY <1>3 DEF InFile
<1>6. AloneInv'
  BY <1>3, <1>4 DEF Safe, AloneInv
<1>7. EmptiedInv'
  <2>1. InWrite' <=> InWrite
    BY <1>4, <1>5 DEF InWrite
  <2>2. QED
    BY <2>1 DEF Safe, EmptiedInv
<1>8. SnapInv'
  BY <1>2, <1>3, <1>5 DEF Safe, SnapInv
<1>9. FlushInv'
  BY <1>4 DEF Safe, FlushInv
<1>10. KeptInv'
  <2> SUFFICES ASSUME NEW r \in Runs, made'[r] # "none"
               PROVE  \/ Finished(r)' \/ thr'[r].pc # "idle"
                      \/ file'.st = "ok" /\ InSeq(file'.q, r)
                      \/ InSeq(main'.todo, r) \/ InSeq(main'.left, r)
                      \/ \E d \in Runs : InSeq(thr'[d].snap, r)
    BY DEF KeptInv
  <2>1. CASE thr'[r] = thr[r] /\ made'[r] = made[r]
    <3>1. \A d \in Runs : InSeq(thr[d].snap, r) => InSeq(thr'[d].snap, r)
      BY <1>1 DEF Safe, SnapInv
    <3>2. QED
      BY <2>1, <3>1 DEF Safe, KeptInv
  <2>2. CASE ~(thr'[r] = thr[r] /\ made'[r] = made[r])
    BY <2>2
  <2>3. QED
    BY <2>1, <2>2
<1>11. QED
  BY <1>6, <1>7, <1>8, <1>9, <1>10 DEF Safe

\* The flush has an answer for its first entry: recorded, or kept.
LEMMA FlushAnswered ==
  ASSUME TypeOK, HandsInv, Safe, NEW m \in net, m.waited, m.from = "main", NEW ok \in BOOLEAN,
         MainAnswered(m, ok), file' = file, made' = made,
         \A n \in net' : ~(n.waited /\ n.from = "main"),
         ok => Finished(m.run)', \A r \in Runs : Finished(r) => Finished(r)'
  PROVE  Safe'
<1> HIDE DEF InSeq, Finished
<1>1. main.pc = "sent" /\ main.todo # <<>> /\ m.run = Head(main.todo).run
  BY DEF HandsInv, Safe, HeadInv
<1>2. /\ main' = [pc |-> "send", todo |-> Tail(main.todo),
                  left |-> IF ok THEN main.left ELSE Append(main.left, Head(main.todo))]
      /\ thr' = thr
  BY DEF MainAnswered
<1>3. main'.pc = "send" /\ main'.todo = Tail(main.todo)
      /\ main'.left = IF ok THEN main.left ELSE Append(main.left, Head(main.todo))
  BY <1>2
<1>4. main.todo \in Seq(Entry) /\ main.left \in Seq(Entry) /\ Head(main.todo) \in Entry
  <2>1. main.todo \in Seq(Entry) /\ main.left \in Seq(Entry)
    BY Shapes
  <2> HIDE DEF Entry
  <2>2. QED
    BY <1>1, <2>1
<1>5. ASSUME NEW r \in Runs, Finished(r) \/ InSeq(main.todo, r) \/ InSeq(main.left, r)
      PROVE  Finished(r)' \/ InSeq(main'.todo, r) \/ InSeq(main'.left, r)
  <2>1. InSeq(main.todo, r) => m.run = r \/ InSeq(main'.todo, r)
    BY <1>1, <1>3, <1>4, InSeqFacts
  <2>2. ~ok => \A d : InSeq(main'.left, d) <=> InSeq(main.left, d) \/ m.run = d
    BY <1>1, <1>3, <1>4, InSeqFacts
  <2>3. CASE ok
    BY <1>3, <1>5, <2>1, <2>3
  <2>4. CASE ~ok
    BY <1>5, <2>1, <2>2, <2>4
  <2>5. QED
    BY <2>3, <2>4
<1>11. ASSUME NEW r \in Runs, InSeq(main'.todo, r) \/ InSeq(main'.left, r)
       PROVE  InSeq(main.todo, r) \/ InSeq(main.left, r)
  <2>1. InSeq(main'.todo, r) \/ m.run = r => InSeq(main.todo, r)
    BY <1>1, <1>3, <1>4, InSeqFacts
  <2>2. InSeq(main'.left, r) => InSeq(main.left, r) \/ m.run = r
    BY <1>1, <1>3, <1>4, InSeqFacts
  <2>3. QED
    BY <1>11, <2>1, <2>2
<1>6. AloneInv' /\ EmptiedInv' /\ SnapInv'
  BY <1>1, <1>2, <1>3 DEF Safe, AloneInv, EmptiedInv, SnapInv, InWrite, MainInFile, InFile
<1>7. FlushInv'
  BY <1>1, <1>3, <1>5, <1>11 DEF Safe, FlushInv, MainInFile
<1>8. HeadInv'
  BY DEF HeadInv
<1>9. KeptInv'
  BY <1>2, <1>5 DEF Safe, KeptInv
<1>10. QED
  BY <1>6, <1>7, <1>8, <1>9 DEF Safe

\* The server's steps.
LEMMA ServerKeeps ==
  ASSUME TypeOK, HandsInv, Server
  PROVE  (Safe /\ ~lossy' => Safe') /\ (lossy => lossy')
<1> HIDE DEF InSeq
<1>1. \A r \in Runs : Finished(r) => row[r] \notin {"none", "queued"}
  BY DEF Finished
\* Only the row of a run changes, and not when it is finished.
<1>2. ASSUME UNCHANGED <<net, main, thr, file, made>>, \A r \in Runs : Finished(r) => row'[r] = row[r], Safe
      PROVE  Safe'
  <2>1. \A r \in Runs : Finished(r) => Finished(r)'
    BY <1>2 DEF Finished
  <2>2. HeadInv'
    BY <1>2 DEF Safe, HeadInv
  <2>3. QED
    BY <1>2, <2>1, <2>2, QuietKeeps
<1>3. ASSUME NEW R \in SUBSET Runs, QueueRuns(R)
      PROVE  (Safe => Safe') /\ lossy' = lossy
  <2>1. \A r \in Runs : Finished(r) => row'[r] = row[r]
    BY <1>1, <1>3 DEF QueueRuns
  <2>2. QED
    BY <1>2, <1>3, <2>1 DEF QueueRuns
<1>4. \A r \in Runs : Finished(r) => Marked(Pending)[r] = row[r]
  BY <1>1 DEF Marked, Pending
<1>5. CASE LateGetTasks
  <2>1. \A r \in Runs : Finished(r) => row'[r] = row[r]
    BY <1>4, <1>5 DEF LateGetTasks
  <2>2. QED
    BY <1>2, <1>5, <2>1 DEF LateGetTasks
<1>7. CASE GetTasks
  <2>1. lossy' = lossy /\ file' = file /\ net' = net /\ made' = made
    BY <1>7 DEF GetTasks
  <2> SUFFICES ASSUME Safe PROVE Safe'
    BY <2>1
  <2>2. \A r \in Runs : Finished(r) => Finished(r)'
    BY <1>4, <1>7 DEF GetTasks, Finished
  <2>3. main'.todo = main.todo /\ main'.left = main.left /\ main.pc = "poll" /\ main'.pc = "flush"
    BY <1>7, Shapes DEF GetTasks, Main
  <2>4. HeadInv'
    BY <2>1, <2>3 DEF Safe, HeadInv
  <2>5. ASSUME NEW r \in Runs, thr'[r] # thr[r]
        PROVE  /\ ~InFile(r) /\ ~InFile(r)' /\ thr'[r].snap = <<>>
               /\ thr'[r].pc # "idle"
    <3>1. thr[r].pc = "idle" /\ thr'[r] = [NoThread EXCEPT !.pc = "exec"]
      BY <1>7, <2>5 DEF GetTasks
    <3>2. thr'[r].pc = "exec" /\ thr'[r].snap = <<>>
      BY <3>1 DEF NoThread
    <3>3. QED
      BY <3>1, <3>2 DEF InFile
  <2>6. ~MainInFile /\ ~MainInFile'
    BY <2>3 DEF MainInFile
  <2>7. QED
    BY <2>1, <2>2, <2>3, <2>4, <2>5, <2>6, QuietKeeps
<1>8. ASSUME NEW m \in net, TaskResult(m)
      PROVE  (Safe => Safe') /\ lossy' = lossy
  <2>1. lossy' = lossy /\ file' = file /\ net' = net \ {m} /\ made' = made
    BY <1>8 DEF TaskResult
  <2> SUFFICES ASSUME Safe PROVE Safe'
    BY <2>1
  <2>2. m.run \in Runs
    BY Shapes
  <2>3. Finished(m.run)' /\ \A r \in Runs : Finished(r) => Finished(r)'
    BY <1>8, <2>2 DEF TaskResult, Finished, Status, TypeOK
  <2>4. CASE ~m.waited \/ (m.from = "thread" /\ ThreadAnswered(m, TRUE))
    <3>1. main' = main
      BY <1>8, <2>4 DEF TaskResult, ThreadAnswered
    <3>2. HeadInv'
      BY <2>1, <3>1 DEF Safe, HeadInv
    <3>3. CASE ~m.waited
      <4>1. thr' = thr
        BY <1>8, <3>3 DEF TaskResult
      <4>2. QED
        BY <2>1, <2>3, <3>1, <3>2, <4>1, QuietKeeps
    <3>4. CASE m.waited
      <4>1. thr'[m.run] = NoThread /\ \A r \in Runs \ {m.run} : thr'[r] = thr[r]
        BY <2>2, <2>4, <3>4 DEF ThreadAnswered, TypeOK
      <4>2. thr[m.run].pc = "wait"
        BY <2>4, <3>4 DEF HandsInv
      <4>3. ~InFile(m.run) /\ ~InFile(m.run)' /\ thr'[m.run].snap = <<>>
        BY <4>1, <4>2 DEF InFile, NoThread
      <4>4. QED
        BY <2>1, <2>3, <3>1, <3>2, <4>1, <4>3, QuietKeeps
    <3>5. QED
      BY <3>3, <3>4
  <2>5. CASE m.waited /\ m.from = "main" /\ MainAnswered(m, TRUE)
    <3>1. \A n \in net' : ~(n.waited /\ n.from = "main")
      BY <2>1, <2>5 DEF HandsInv
    <3>2. QED
      BY <2>1, <2>3, <2>5, <3>1, FlushAnswered
  <2>6. QED
    BY <1>8, <2>4, <2>5 DEF TaskResult, Answered
<1>9. QED
  BY <1>3, <1>5, <1>7, <1>8 DEF Server

\* Storing a result: alone in the file and below the cap, it takes along all
\* that the file holds.
LEMMA StoreKeeps ==
  ASSUME TypeOK, HandsInv, Safe, NEW r \in Runs, ~lossy',
         EnqueueRead(r) \/ EnqueueOpen(r) \/ EnqueueWrite(r)
  PROVE  Safe'
<1> HIDE DEF InSeq, Finished
<1>1. UNCHANGED <<row, net, main, made>> /\ thr \in [Runs -> Thread]
  BY DEF EnqueueRead, EnqueueOpen, EnqueueWrite, serverVars, TypeOK
<1>2. \A d \in Runs : Finished(d)' <=> Finished(d)
  BY <1>1 DEF Finished
<1>3. HeadInv'
  BY <1>1 DEF Safe, HeadInv
<1>4. CASE EnqueueRead(r)
  <2>1. ~FileInUse /\ ~(Len(file.q) >= MaxQueue) /\ thr[r].pc = "read"
    BY <1>4 DEF EnqueueRead
  <2>2. ~MainInFile /\ \A d \in Runs : ~InFile(d)
    BY <2>1 DEF FileInUse
  <2>3. ~InWrite /\ file.st = "ok" /\ file' = file
    BY <1>4, <2>2 DEF InWrite, MainInFile, InFile, Safe, EmptiedInv, EnqueueRead
  <2>4. PICK e : e = [run |-> r, out |-> thr[r].out]
    OBVIOUS
  <2>5. e \in Entry /\ e.run = r
    BY <2>1, <2>4 DEF HandsInv, Entry
  <2>6. file.q \in Seq(Entry) /\ Len(file.q) < MaxQueue
    <3>1. file.q \in Seq(Entry)
      BY Shapes
    <3> HIDE DEF Entry
    <3>2. Len(file.q) \in Nat
      BY <3>1
    <3>3. QED
      BY <2>1, <3>1, <3>2, ScriptRunsAssumption DEF ScriptRunsAssumption
  <2>7. PICK snap : snap = CappedAppend(file.q, e)
    OBVIOUS
  <2>8. \A d : InSeq(snap, d) <=> InSeq(file.q, d) \/ d = r
    <3>1. snap = Append(file.q, e)
      BY <2>5, <2>6, <2>7, AppendBelowCap
    <3> HIDE DEF Entry
    <3>2. \A d : InSeq(Append(file.q, e), d) <=> InSeq(file.q, d) \/ e.run = d
      BY <2>5, <2>6, InSeqFacts
    <3>3. QED
      BY <2>5, <3>1, <3>2
  <2>9. thr' = [thr EXCEPT ![r] = [@ EXCEPT !.pc = "open", !.snap = snap]]
    BY <1>4, <2>3, <2>4, <2>7 DEF EnqueueRead
  <2>10. /\ thr'[r].pc = "open" /\ thr'[r].snap = snap
         /\ \A d \in Runs \ {r} : thr'[d] = thr[d]
    BY <1>1, <2>9 DEF Thread
  <2>11. \A d \in Runs \ {r} : ~InFile(d)' /\ thr'[d].snap = <<>>
    BY <2>2, <2>10 DEF InFile, Safe, SnapInv
  <2>12. AloneInv' /\ ~InWrite'
    BY <1>1, <2>2, <2>10, <2>11 DEF AloneInv, MainInFile, InWrite, InFile
  <2>13. EmptiedInv'
    BY <2>3, <2>12 DEF EmptiedInv
  <2>14. SnapInv'
    BY <2>3, <2>8, <2>10, <2>11 DEF SnapInv, InFile
  <2>15. FlushInv'
    BY <1>1, <2>2 DEF Safe, FlushInv, MainInFile
  <2>16. KeptInv'
    <3>1. \A d \in Runs : ~InSeq(thr[d].snap, r) /\ thr[d].snap = <<>>
      BY <2>2, InSeqFacts DEF Safe, SnapInv
    <3>2. \A c : ~InSeq(<<>>, c)
      BY InSeqFacts
    <3>3. QED
      BY <1>1, <1>2, <2>3, <2>10, <3>1, <3>2 DEF Safe, KeptInv
  <2>17. QED
    BY <1>3, <2>12, <2>13, <2>14, <2>15, <2>16 DEF Safe
<1>5. CASE EnqueueOpen(r)
  <2>1. thr[r].pc = "open" /\ InFile(r) /\ file' = Opened
    BY <1>5 DEF EnqueueOpen, InFile
  <2>2. /\ thr'[r].pc = "write" /\ thr'[r].snap = thr[r].snap
        /\ \A d \in Runs \ {r} : thr'[d] = thr[d]
    BY <1>1, <1>5 DEF EnqueueOpen, Thread
  <2>3. ~MainInFile /\ \A d \in Runs \ {r} : ~InFile(d)
    BY <2>1 DEF Safe, AloneInv
  <2>4. \A d \in Runs : (InFile(d)' <=> InFile(d)) /\ thr'[d].snap = thr[d].snap
                        /\ (thr'[d].pc = "idle" <=> thr[d].pc = "idle")
    BY <2>1, <2>2 DEF InFile
  <2>5. AloneInv' /\ InWrite'
    BY <1>1, <2>2, <2>3, <2>4 DEF AloneInv, MainInFile, InWrite
  <2>6. EmptiedInv'
    BY <2>1, <2>5 DEF EmptiedInv
  <2>7. SnapInv'
    <3>1. \A d \in Runs : thr'[d].pc # "open"
      BY <2>2, <2>3 DEF InFile
    <3>2. QED
      BY <2>4, <3>1 DEF Safe, SnapInv
  <2>8. FlushInv'
    BY <1>1, <2>3 DEF Safe, FlushInv, MainInFile
  <2>9. KeptInv'
    <3>1. \A d \in Runs : InSeq(file.q, d) => InSeq(thr[r].snap, d)
      BY <2>1 DEF Safe, SnapInv
    <3>2. QED
      BY <1>1, <1>2, <2>4, <3>1 DEF Safe, KeptInv
  <2>10. QED
    BY <1>3, <2>5, <2>6, <2>7, <2>8, <2>9 DEF Safe
<1>6. CASE EnqueueWrite(r)
  <2>1. thr[r].pc = "write" /\ InFile(r) /\ file' \in Written(thr[r].snap)
    BY <1>6 DEF EnqueueWrite, InFile
  <2>2. file = Opened
    BY <2>1 DEF Safe, EmptiedInv, InWrite
  <2>3. file' = [st |-> "ok", q |-> thr[r].snap]
    BY <2>1, <2>2 DEF Written, Opened
  <2>4. thr'[r] = NoThread /\ \A d \in Runs \ {r} : thr'[d] = thr[d]
    BY <1>1, <1>6 DEF EnqueueWrite
  <2>5. ~MainInFile /\ \A d \in Runs \ {r} : ~InFile(d)
    BY <2>1 DEF Safe, AloneInv
  <2>6. \A d \in Runs : ~InFile(d)' /\ thr'[d].snap = <<>>
    BY <2>4, <2>5 DEF InFile, NoThread, Safe, SnapInv
  <2>7. AloneInv' /\ ~InWrite'
    BY <1>1, <2>5, <2>6 DEF AloneInv, MainInFile, InWrite, InFile
  <2>8. EmptiedInv'
    BY <2>3, <2>7 DEF EmptiedInv
  <2>9. SnapInv'
    BY <2>6 DEF SnapInv, InFile
  <2>10. FlushInv'
    BY <1>1, <2>5 DEF Safe, FlushInv, MainInFile
  <2>11. KeptInv'
    <3>1. file'.st = "ok" /\ file'.q = thr[r].snap
      BY <2>3
    <3>2. InSeq(thr[r].snap, r)
      BY <2>1 DEF Safe, SnapInv
    <3>3. \A c \in Runs : ~InSeq(file.q, c) /\ \A d \in Runs \ {r} : ~InSeq(thr[d].snap, c)
      BY <2>2, <2>5, InSeqFacts DEF Opened, Safe, SnapInv
    <3>4. QED
      BY <1>1, <1>2, <2>4, <3>1, <3>2, <3>3 DEF Safe, KeptInv
  <2>12. QED
    BY <1>3, <2>7, <2>8, <2>9, <2>10, <2>11 DEF Safe
<1>7. QED
  BY <1>4, <1>5, <1>6

\* The main loop: the flush, alone in the file, takes what the file holds and
\* leaves in it what was not recorded.
LEMMA LoopKeeps ==
  ASSUME TypeOK, HandsInv, Safe, ~lossy', MainLoop \/ GiveUpPoll \/ Restart
  PROVE  Safe'
<1> HIDE DEF InSeq
<1>1. UNCHANGED <<row, thr, made>> /\ main \in Main
  BY Shapes DEF MainLoop, FlushRead, FlushPost, FlushOpen, FlushWrite, HeartbeatFails, GiveUpPoll,
                Restart, serverVars
<1>2. /\ \A d \in Runs : Finished(d)' <=> Finished(d)
      /\ \A d \in Runs : InFile(d)' <=> InFile(d)
  BY <1>1 DEF Finished, InFile
<1> HIDE DEF Finished
<1>3. CASE HeartbeatFails \/ GiveUpPoll \/ Restart \/ (FlushRead /\ ~(file.st = "ok" /\ file.q # <<>>))
  <2>1. /\ main' = [main EXCEPT !.pc = "flush"] \/ main' = [main EXCEPT !.pc = "poll"]
        /\ main.pc \in {"poll", "down", "flush"} /\ net' = net /\ file' = file
    BY <1>3 DEF HeartbeatFails, GiveUpPoll, Restart, FlushRead
  <2>2. main'.pc \in {"flush", "poll"} /\ main'.todo = main.todo /\ main'.left = main.left
    BY <1>1, <2>1 DEF Main
  <2>3. ~MainInFile /\ ~MainInFile'
    BY <2>1, <2>2 DEF MainInFile
  <2>4. HeadInv'
    BY <2>1, <2>2 DEF Safe, HeadInv
  <2>5. QED
    BY <1>1, <1>2, <2>1, <2>2, <2>3, <2>4, QuietKeeps
<1>4. CASE FlushRead /\ file.st = "ok" /\ file.q # <<>>
  <2>1. /\ main.pc = "flush" /\ main' = [pc |-> "send", todo |-> file.q, left |-> <<>>]
        /\ ~FileInUse /\ file' = file /\ net' = net
    BY <1>4 DEF FlushRead
  <2>2. main'.pc = "send" /\ main'.todo = file.q /\ main'.left = <<>>
    BY <2>1
  <2>3. ~MainInFile /\ \A d \in Runs : ~InFile(d)
    BY <2>1 DEF FileInUse
  <2>4. AloneInv'
    BY <1>2, <2>3 DEF AloneInv
  <2>5. EmptiedInv'
    <3>1. ~InWrite'
      BY <1>1, <2>2, <2>3 DEF InWrite, InFile
    <3>2. QED
      BY <1>4, <2>1, <3>1 DEF EmptiedInv
  <2>6. SnapInv'
    BY <1>1, <1>2, <2>1 DEF Safe, SnapInv
  <2>7. FlushInv'
    BY <2>1, <2>2, InSeqFacts DEF FlushInv, MainInFile
  <2>8. HeadInv'
    BY <2>1 DEF HeadInv, HandsInv
  <2>9. KeptInv'
    <3>1. main.todo = <<>> /\ main.left = <<>>
      BY <2>3 DEF Safe, FlushInv
    <3>2. \A d : ~InSeq(<<>>, d)
      BY InSeqFacts
    <3>3. QED
      BY <1>1, <1>2, <2>1, <2>2, <3>1, <3>2 DEF Safe, KeptInv
  <2>10. QED
    BY <2>4, <2>5, <2>6, <2>7, <2>8, <2>9 DEF Safe
<1>5. CASE FlushPost
  <2>1. /\ main.pc = "send" /\ main' = [main EXCEPT !.pc = "sent"] /\ file' = file
        /\ net' = net \union {[run |-> Head(main.todo).run, out |-> Head(main.todo).out,
                               from |-> "main", waited |-> TRUE]}
    BY <1>5 DEF FlushPost
  <2>2. main'.pc = "sent" /\ main'.todo = main.todo /\ main'.left = main.left
    BY <1>1, <2>1 DEF Main
  <2>3. HeadInv'
    BY <2>1, <2>2 DEF HandsInv, HeadInv
  <2>4. QED
    BY <1>1, <1>2, <2>1, <2>2, <2>3, QuietKeeps
<1>6. CASE FlushOpen
  <2>1. /\ main.pc = "send" /\ main.todo = <<>> /\ main' = [main EXCEPT !.pc = "flushwrite"]
        /\ file' = Opened /\ net' = net
    BY <1>6 DEF FlushOpen
  <2>2. main'.pc = "flushwrite" /\ main'.todo = main.todo /\ main'.left = main.left
    BY <1>1, <2>1 DEF Main
  <2>3. MainInFile /\ MainInFile' /\ \A d \in Runs : ~InFile(d)
    BY <2>1, <2>2 DEF MainInFile, Safe, AloneInv
  <2>4. AloneInv'
    BY <1>2, <2>3 DEF AloneInv
  <2>5. EmptiedInv'
    BY <2>1, <2>2 DEF EmptiedInv, InWrite
  <2>6. SnapInv'
    BY <1>1, <1>2, <2>3 DEF Safe, SnapInv, InFile
  <2>7. FlushInv'
    BY <2>1, <2>2, <2>3 DEF FlushInv
  <2>8. HeadInv'
    BY <2>1, <2>2 DEF Safe, HeadInv
  <2>9. KeptInv'
    <3>1. \A d \in Runs : InSeq(file.q, d) => Finished(d) \/ InSeq(main.todo, d) \/ InSeq(main.left, d)
      BY <2>1 DEF Safe, FlushInv
    <3>2. QED
      BY <1>1, <1>2, <2>2, <3>1 DEF Safe, KeptInv
  <2>10. QED
    BY <2>4, <2>5, <2>6, <2>7, <2>8, <2>9 DEF Safe
<1>7. CASE FlushWrite
  <2>1. /\ main.pc = "flushwrite" /\ main' = [pc |-> "poll", todo |-> <<>>, left |-> <<>>]
        /\ file' \in Written(main.left) /\ net' = net
    BY <1>7 DEF FlushWrite, Remaining
  <2>2. file = Opened
    BY <2>1 DEF Safe, EmptiedInv, InWrite
  <2>3. file' = [st |-> "ok", q |-> main.left]
    BY <2>1, <2>2 DEF Written, Opened
  <2>4. main'.pc = "poll" /\ main'.todo = <<>> /\ main'.left = <<>>
    BY <2>1
  <2>5. ~MainInFile' /\ \A d \in Runs : ~InFile(d)
    BY <2>1, <2>4 DEF MainInFile, Safe, AloneInv
  <2>6. AloneInv'
    BY <1>2, <2>5 DEF AloneInv
  <2>7. EmptiedInv'
    <3>1. ~InWrite'
      BY <1>1, <2>4, <2>5 DEF InWrite, InFile
    <3>2. QED
      BY <2>3, <3>1 DEF EmptiedInv
  <2>8. SnapInv'
    BY <1>1, <1>2, <2>5 DEF Safe, SnapInv, InFile
  <2>9. FlushInv'
    BY <2>4, <2>5 DEF FlushInv
  <2>10. HeadInv'
    BY <2>1 DEF HeadInv, HandsInv
  <2>11. KeptInv'
    <3>1. file'.st = "ok" /\ file'.q = main.left
      BY <2>3
    <3>2. main.todo = <<>> /\ file.q = <<>>
      BY <2>1, <2>2 DEF Safe, FlushInv, Opened
    <3>3. \A d : ~InSeq(<<>>, d)
      BY InSeqFacts
    <3>4. QED
      BY <1>1, <1>2, <3>1, <3>2, <3>3 DEF Safe, KeptInv
  <2>12. QED
    BY <2>6, <2>7, <2>8, <2>9, <2>10, <2>11 DEF Safe
<1>8. QED
  BY <1>3, <1>4, <1>5, <1>6, <1>7 DEF MainLoop

\* A flush that fails before it has opened the file drops what it has read,
\* all of which is still in the file.
LEMMA FlushFailsKeeps ==
  ASSUME TypeOK, HandsInv, Safe, ~lossy', FlushFails
  PROVE  Safe'
<1> HIDE DEF InSeq
<1>1. /\ main.pc \in {"flush", "send"} /\ main.todo = <<>>
      /\ main' = [pc |-> "poll", todo |-> <<>>, left |-> <<>>]
      /\ UNCHANGED <<row, net, thr, file, made>>
  BY DEF FlushFails, serverVars
<1>2. main'.pc = "poll" /\ main'.todo = <<>> /\ main'.left = <<>>
  BY <1>1
<1>3. \A d \in Runs : (Finished(d)' <=> Finished(d)) /\ (InFile(d)' <=> InFile(d))
  BY <1>1 DEF Finished, InFile
<1> HIDE DEF Finished
<1>4. ~MainInFile' /\ (InWrite' <=> InWrite)
  BY <1>1, <1>2 DEF MainInFile, InWrite
<1>5. AloneInv' /\ EmptiedInv' /\ SnapInv'
  BY <1>1, <1>3, <1>4 DEF Safe, AloneInv, EmptiedInv, SnapInv
<1>6. FlushInv' /\ HeadInv'
  BY <1>1, <1>2, <1>4 DEF FlushInv, HandsInv, HeadInv
<1>7. KeptInv'
  <2>1. \A d \in Runs : ~InSeq(main.todo, d) /\ ~InSeq(<<>>, d)
    BY <1>1, InSeqFacts
  <2>2. CASE main.pc = "flush"
    <3>1. main.left = <<>>
      BY <2>2 DEF Safe, FlushInv, MainInFile
    <3>2. QED
      BY <1>1, <1>3, <2>1, <3>1 DEF Safe, KeptInv
  <2>3. CASE main.pc = "send"
    <3>1. file.st = "ok"
      <4>1. ~InWrite
        BY <2>3 DEF Safe, AloneInv, MainInFile, InWrite, InFile
      <4>2. QED
        BY <4>1 DEF Safe, EmptiedInv
    <3>2. \A d \in Runs : InSeq(main.left, d) => InSeq(file.q, d)
      BY <2>3 DEF Safe, FlushInv
    <3>3. QED
      BY <1>1, <1>3, <2>1, <3>1, <3>2 DEF Safe, KeptInv
  <2>4. QED
    BY <1>1, <2>2, <2>3
<1>8. QED
  BY <1>5, <1>6, <1>7 DEF Safe

\* The end of a script, and a result given up.
LEMMA ResultKeeps ==
  ASSUME TypeOK, HandsInv, Safe, (\E r \in Runs : RunEnds(r)) \/ (\E m \in net : GiveUpResult(m))
  PROVE  Safe'
<1> HIDE DEF InSeq
<1>1. ASSUME NEW r \in Runs, RunEnds(r)
      PROVE  Safe'
  <2>1. PICK o \in Outcomes :
          /\ made' = [made EXCEPT ![r] = o]
          /\ thr' = [thr EXCEPT ![r] = [pc |-> "wait", out |-> o, snap |-> <<>>]]
          /\ net' = net \union {[run |-> r, out |-> o, from |-> "thread", waited |-> TRUE]}
    BY <1>1 DEF RunEnds
  <2>2. thr[r].pc = "exec" /\ UNCHANGED <<row, main, file>>
    BY <1>1 DEF RunEnds, serverVars
  <2>3. /\ thr'[r].pc = "wait" /\ thr'[r].snap = <<>>
        /\ \A d \in Runs \ {r} : thr'[d] = thr[d] /\ made'[d] = made[d]
    BY <2>1 DEF TypeOK
  <2>4. ~InFile(r) /\ ~InFile(r)'
    BY <2>2, <2>3 DEF InFile
  <2>5. HeadInv'
    BY <2>1, <2>2 DEF Safe, HeadInv
  <2>6. \A d \in Runs : Finished(d) => Finished(d)'
    BY <2>2 DEF Finished
  <2>7. QED
    BY <2>2, <2>3, <2>4, <2>5, <2>6, QuietKeeps
<1>2. ASSUME NEW m \in net, GiveUpResult(m)
      PROVE  Safe'
  <2>1. /\ m.waited /\ net' = (net \ {m}) \union {[m EXCEPT !.waited = FALSE]}
        /\ Answered(m, FALSE) /\ UNCHANGED <<row, file, made>>
    BY <1>2 DEF GiveUpResult, serverVars
  <2>2. m.run \in Runs /\ ~[m EXCEPT !.waited = FALSE].waited
    BY DEF TypeOK, Result
  <2>3. \A d \in Runs : Finished(d) => Finished(d)'
    BY <2>1 DEF Finished
  <2>4. CASE m.from = "thread" /\ ThreadAnswered(m, FALSE)
    <3>1. /\ main' = main /\ thr'[m.run] = [thr[m.run] EXCEPT !.pc = "read"]
          /\ \A d \in Runs \ {m.run} : thr'[d] = thr[d]
      BY <2>2, <2>4 DEF ThreadAnswered, TypeOK
    <3>2. thr[m.run].pc = "wait" /\ thr[m.run] \in Thread
      BY <2>1, <2>2, <2>4 DEF HandsInv, TypeOK
    <3>3. thr'[m.run].pc = "read" /\ thr'[m.run].snap = thr[m.run].snap
      BY <3>1, <3>2 DEF Thread
    <3>4. ~InFile(m.run) /\ ~InFile(m.run)' /\ thr'[m.run].snap = <<>>
      BY <2>2, <3>2, <3>3 DEF InFile, Safe, SnapInv
    <3>5. HeadInv'
      BY <2>1, <2>2, <3>1 DEF Safe, HeadInv
    <3>6. QED
      BY <2>1, <2>3, <3>1, <3>3, <3>4, <3>5, QuietKeeps
  <2>5. CASE m.from = "main" /\ MainAnswered(m, FALSE)
    <3>1. \A n \in net' : ~(n.waited /\ n.from = "main")
      BY <2>1, <2>2, <2>5 DEF HandsInv
    <3>2. QED
      BY <2>1, <2>3, <2>5, <3>1, FlushAnswered
  <2>6. QED
    BY <2>1, <2>4, <2>5 DEF Answered
<1>3. QED
  BY <1>1, <1>2

LEMMA KeepStep ==
  ASSUME TypeOK, HandsInv, KeepInv, Next
  PROVE  KeepInv'
<1>1. CASE Server
  BY <1>1, ServerKeeps DEF KeepInv
<1>2. CASE ~Server
  <2>1. lossy => lossy'
    <3>1. ASSUME NEW r \in Runs, EnqueueRead(r)
          PROVE  lossy => lossy'
      BY <3>1, Zenon DEF EnqueueRead
    <3>2. FlushRead => (lossy => lossy')
      BY Zenon DEF FlushRead
    <3>3. \/ lossy' = lossy \/ FlushRead \/ Crash \/ FlushFails
          \/ \E r \in Runs : EnqueueRead(r) \/ EnqueueFails(r)
      BY <1>2 DEF Next, Threads, MainLoop, Faults, RunEnds, EnqueueRead, EnqueueOpen, EnqueueWrite,
                  FlushRead, FlushPost, FlushOpen, FlushWrite, HeartbeatFails, GiveUpPoll,
                  GiveUpResult, Crash, Restart, serverVars
    <3>4. QED
      BY <3>1, <3>2, <3>3 DEF Crash, FlushFails, EnqueueFails
  <2> SUFFICES ASSUME Safe, ~lossy' PROVE Safe'
    BY <2>1 DEF KeepInv
  <2>2. ~Crash /\ \A r \in Runs : ~EnqueueFails(r)
    BY DEF Crash, EnqueueFails
  <2>3. QED
    BY <1>2, <2>2, StoreKeeps, LoopKeeps, ResultKeeps, FlushFailsKeeps DEF Next, Threads, Faults
<1>3. QED
  BY <1>1, <1>2

LEMMA KeepInvariant == Spec => []KeepInv
<1>1. Init => KeepInv
  <2> SUFFICES ASSUME Init PROVE KeepInv
    OBVIOUS
  <2>1. /\ main.pc = "flush" /\ main.todo = <<>> /\ main.left = <<>> /\ file.st = "ok" /\ file.q = <<>>
        /\ \A r \in Runs : thr[r].pc = "idle" /\ thr[r].snap = <<>> /\ made[r] = "none"
        /\ net = {}
    BY DEF Init, NoThread
  <2>2. AloneInv /\ EmptiedInv /\ SnapInv /\ FlushInv /\ HeadInv /\ KeptInv
    BY <2>1 DEF AloneInv, EmptiedInv, SnapInv, FlushInv, HeadInv, KeptInv, InWrite, InFile, MainInFile
  <2>3. QED
    BY <2>2 DEF KeepInv, Safe
<1>2. (TypeOK /\ HandsInv /\ LateInv) /\ KeepInv /\ [Next]_vars => KeepInv'
  <2>1. ASSUME KeepInv, UNCHANGED vars
        PROVE  KeepInv'
    BY <2>1 DEF vars, KeepInv, Safe, AloneInv, EmptiedInv, SnapInv, FlushInv, HeadInv, KeptInv,
                InWrite, InFile, MainInFile, Finished
  <2>2. QED
    BY <2>1, KeepStep
<1>3. QED
  BY <1>1, <1>2, TypeCorrect, PTL DEF Spec

-----------------------------------------------------------------------------
(* Copies of results are true.                                             *)

\* The entries of q have the outcomes the runs have in f.
Match(q, f) == \A i \in DOMAIN q : f[q[i].run] = q[i].out

\* Every copy of a result says what the run ended with.
TruthInv ==
  /\ \A m \in net : made[m.run] = m.out
  /\ Match(file.q, made) /\ Match(main.todo, made) /\ Match(main.left, made)
  /\ \A r \in Runs : Match(thr[r].snap, made)

\* A run is executed after it has left the queue; what is recorded is what
\* the execution ended with.
StageInv ==
  \A r \in Runs :
    /\ row[r] \in {"none", "queued"} => made[r] = "none" /\ thr[r].pc = "idle"
    /\ thr[r].pc = "exec" => made[r] = "none"
    /\ thr[r].pc \in {"wait", "read"} => made[r] = thr[r].out
    /\ Finished(r) => made[r] \in Outcomes /\ row[r] = Status(made[r])

LifeInv == TruthInv /\ StageInv

LEMMA MatchFacts ==
  ASSUME NEW f
  PROVE  /\ Match(<<>>, f)
         /\ \A q \in Seq(Entry), e \in Entry :
              Match(q, f) /\ f[e.run] = e.out => Match(CappedAppend(q, e), f) /\ Match(Append(q, e), f)
         /\ \A q \in Seq(Entry) :
              q # <<>> /\ Match(q, f) => f[Head(q).run] = Head(q).out /\ Match(Tail(q), f)
<1> HIDE DEF Entry
<1>1. Match(<<>>, f)
  BY DEF Match
<1>2. ASSUME NEW q \in Seq(Entry), NEW e \in Entry, Match(q, f), f[e.run] = e.out
      PROVE  Match(Append(q, e), f) /\ Match(CappedAppend(q, e), f)
  <2> DEFINE a == Append(q, e)
  <2>1. /\ a \in Seq(Entry) /\ DOMAIN a = 1 .. Len(a) /\ Len(a) = Len(q) + 1 /\ Len(q) \in Nat
        /\ a[Len(q) + 1] = e /\ DOMAIN q = 1 .. Len(q)
        /\ \A i \in 1 .. Len(q) : a[i] = q[i]
    OBVIOUS
  <2> HIDE DEF a
  <2>2. Match(a, f)
    <3> SUFFICES ASSUME NEW i \in 1 .. Len(q) + 1 PROVE f[a[i].run] = a[i].out
      BY <2>1 DEF Match
    <3>1. CASE i = Len(q) + 1
      BY <1>2, <2>1, <3>1
    <3>2. CASE i # Len(q) + 1
      <4>1. i \in 1 .. Len(q)
        BY <2>1, <3>2
      <4>2. a[i] = q[i] /\ i \in DOMAIN q
        BY <2>1, <4>1
      <4>3. QED
        BY <1>2, <4>2 DEF Match
    <3>3. QED
      BY <3>1, <3>2
  <2>3. Match(CappedAppend(q, e), f)
    <3>1. CASE Len(a) > MaxQueue
      <4> DEFINE k == Len(a) - MaxQueue
                 c == SubSeq(a, k + 1, Len(a))
      <4>1. k \in Nat /\ k + MaxQueue = Len(a) /\ MaxQueue \in Nat
        BY <2>1, <3>1, ScriptRunsAssumption DEF ScriptRunsAssumption
      <4>2. CappedAppend(q, e) = c
        BY <3>1 DEF CappedAppend, a
      <4>3. DOMAIN c = 1 .. MaxQueue /\ \A i \in 1 .. MaxQueue : c[i] = a[k + i] /\ k + i \in 1 .. Len(a)
        BY <2>1, <4>1
      <4> HIDE DEF c, k
      <4>4. QED
        BY <2>1, <2>2, <4>2, <4>3 DEF Match
    <3>2. CASE ~(Len(a) > MaxQueue)
      BY <2>2, <3>2 DEF CappedAppend, a
    <3>3. QED
      BY <3>1, <3>2
  <2>4. QED
    BY <2>2, <2>3 DEF a
<1>3. ASSUME NEW q \in Seq(Entry), q # <<>>, Match(q, f)
      PROVE  f[Head(q).run] = Head(q).out /\ Match(Tail(q), f)
  <2>1. /\ Len(q) \in Nat /\ Len(q) >= 1 /\ Head(q) = q[1] /\ DOMAIN q = 1 .. Len(q)
        /\ DOMAIN Tail(q) = 1 .. Len(q) - 1
        /\ \A i \in 1 .. Len(q) - 1 : Tail(q)[i] = q[i + 1]
    BY <1>3, HeadTailProperties
  <2>2. \A i \in 1 .. Len(q) - 1 : i + 1 \in 1 .. Len(q)
    BY <2>1
  <2>3. 1 \in 1 .. Len(q)
    BY <2>1
  <2>4. QED
    BY <1>3, <2>1, <2>2, <2>3 DEF Match
<1>4. QED
  BY <1>1, <1>2, <1>3

\* A run that ends for the first time contradicts no copy.
LEMMA MatchOfNew ==
  ASSUME NEW q \in Seq(Entry), NEW f, NEW g, NEW r, f[r] = "none",
         \A d \in Runs : d # r => g[d] = f[d], Match(q, f)
  PROVE  Match(q, g)
<1> SUFFICES ASSUME NEW i \in DOMAIN q PROVE g[q[i].run] = q[i].out
  BY DEF Match
<1>1. q[i] \in Entry
  OBVIOUS
<1>2. f[q[i].run] = q[i].out
  BY DEF Match
<1>3. QED
  BY <1>1, <1>2 DEF Entry, Outcomes

\* Steps of the server, where rows change and copies do not appear.
LEMMA LifeServer ==
  ASSUME TypeOK, HandsInv, LifeInv, Server
  PROVE  LifeInv'
<1> HIDE DEF Match
<1>1. made' = made /\ file' = file
  BY DEF Server, QueueRuns, GetTasks, LateGetTasks, TaskResult
<1>2. \A f : Match(<<>>, f)
  BY MatchFacts
<1>3. TruthInv /\ StageInv
  BY DEF LifeInv
\* Rows of runs that wait for the agent.
<1>4. ASSUME UNCHANGED <<net, main, thr>>,
             \A r \in Runs : \/ row'[r] = row[r]
                             \/ row[r] = "none" /\ row'[r] = "queued"
                             \/ row'[r] = "running"
      PROVE  LifeInv'
  <2>1. TruthInv'
    BY <1>1, <1>3, <1>4 DEF TruthInv
  <2>2. StageInv'
    <3> SUFFICES ASSUME NEW r \in Runs
                 PROVE  /\ row'[r] \in {"none", "queued"} => made[r] = "none" /\ thr[r].pc = "idle"
                        /\ thr[r].pc = "exec" => made[r] = "none"
                        /\ thr[r].pc \in {"wait", "read"} => made[r] = thr[r].out
                        /\ Finished(r)' => made[r] \in Outcomes /\ row'[r] = Status(made[r])
      BY <1>1, <1>4 DEF StageInv, Finished, Status
    <3>1. Finished(r)' => Finished(r) /\ row'[r] = row[r]
      BY <1>4 DEF Finished
    <3>2. QED
      BY <1>3, <1>4, <3>1 DEF StageInv
  <2>3. QED
    BY <1>4, <2>1, <2>2 DEF LifeInv
<1>5. ASSUME NEW R \in SUBSET Runs, QueueRuns(R)
      PROVE  LifeInv'
  BY <1>3, <1>4, <1>5 DEF QueueRuns
<1>6. CASE LateGetTasks
  BY <1>3, <1>4, <1>6 DEF LateGetTasks, Marked, Pending
<1>8. CASE GetTasks
  <2>1. \A r \in Runs : row'[r] = IF row[r] = "queued" THEN "running" ELSE row[r]
    BY <1>8 DEF GetTasks, Marked, Pending
  <2>2. \A r \in Runs : thr'[r] = IF row[r] = "queued" /\ thr[r].pc = "idle"
                                  THEN [NoThread EXCEPT !.pc = "exec"] ELSE thr[r]
    BY <1>8 DEF GetTasks, Pending
  <2>3. [NoThread EXCEPT !.pc = "exec"].pc = "exec" /\ [NoThread EXCEPT !.pc = "exec"].snap = <<>>
    BY DEF NoThread
  <2>4. main'.todo = main.todo /\ main'.left = main.left /\ net' = net
    BY <1>8, Shapes DEF GetTasks, Main
  <2>5. TruthInv'
    BY <1>1, <1>2, <1>3, <2>2, <2>3, <2>4 DEF TruthInv
  <2>6. StageInv'
    <3> SUFFICES ASSUME NEW r \in Runs
                 PROVE  /\ row'[r] \in {"none", "queued"} => made[r] = "none" /\ thr'[r].pc = "idle"
                        /\ thr'[r].pc = "exec" => made[r] = "none"
                        /\ thr'[r].pc \in {"wait", "read"} => made[r] = thr'[r].out
                        /\ Finished(r)' => made[r] \in Outcomes /\ row'[r] = Status(made[r])
      BY <1>1 DEF StageInv, Finished, Status
    <3>1. CASE row[r] = "queued"
      BY <1>3, <2>1, <2>2, <2>3, <3>1 DEF StageInv, Finished
    <3>2. CASE row[r] # "queued"
      BY <1>3, <2>1, <2>2, <3>2 DEF StageInv, Finished
    <3>3. QED
      BY <3>1, <3>2
  <2>7. QED
    BY <1>3, <2>4, <2>5, <2>6 DEF LifeInv
<1>9. ASSUME NEW m \in net, TaskResult(m)
      PROVE  LifeInv'
  <2>1. m.run \in Runs /\ m.out \in Outcomes /\ made[m.run] = m.out
    BY <1>3 DEF TypeOK, Result, TruthInv
  <2>2. /\ row' = [row EXCEPT ![m.run] = Status(m.out)] /\ net' = net \ {m}
        /\ (m.waited /\ Answered(m, TRUE)) \/ UNCHANGED <<main, thr>>
    BY <1>9 DEF TaskResult
  <2>3. /\ Match(main'.todo, made) /\ Match(main'.left, made)
        /\ \A r \in Runs : thr'[r] = thr[r] \/ thr'[r] = NoThread
    <3>1. CASE UNCHANGED <<main, thr>>
      BY <1>3, <3>1 DEF TruthInv
    <3>2. CASE m.from = "thread" /\ ThreadAnswered(m, TRUE)
      BY <1>3, <3>2 DEF ThreadAnswered, TruthInv, TypeOK
    <3>3. CASE m.waited /\ m.from = "main" /\ MainAnswered(m, TRUE)
      <4>1. main'.todo = Tail(main.todo) /\ main'.left = main.left /\ thr' = thr
        BY <3>3 DEF MainAnswered
      <4>2. main.todo # <<>> /\ main.todo \in Seq(Entry)
        BY <3>3, Shapes DEF HandsInv
      <4>3. Match(Tail(main.todo), made)
        BY <1>3, <4>2, MatchFacts DEF TruthInv
      <4>4. QED
        BY <1>3, <4>1, <4>3 DEF TruthInv
    <3>4. QED
      BY <2>2, <3>1, <3>2, <3>3 DEF Answered
  <2>4. NoThread.pc = "idle" /\ NoThread.snap = <<>>
    BY DEF NoThread
  <2>5. TruthInv'
    BY <1>1, <1>2, <1>3, <2>2, <2>3, <2>4 DEF TruthInv
  <2>6. StageInv'
    <3> SUFFICES ASSUME NEW r \in Runs
                 PROVE  /\ row'[r] \in {"none", "queued"} => made[r] = "none" /\ thr'[r].pc = "idle"
                        /\ thr'[r].pc = "exec" => made[r] = "none"
                        /\ thr'[r].pc \in {"wait", "read"} => made[r] = thr'[r].out
                        /\ Finished(r)' => made[r] \in Outcomes /\ row'[r] = Status(made[r])
      BY <1>1 DEF StageInv, Finished, Status
    <3>1. row'[r] = IF r = m.run THEN Status(m.out) ELSE row[r]
      BY <2>1, <2>2 DEF TypeOK
    <3>2. Status(m.out) \notin {"none", "queued"}
      BY DEF Status
    <3>3. Finished(r)' => made[r] \in Outcomes /\ row'[r] = Status(made[r])
      BY <1>3, <2>1, <3>1 DEF StageInv, Finished
    <3>4. QED
      BY <1>3, <2>3, <2>4, <3>1, <3>2, <3>3 DEF StageInv
  <2>7. QED
    BY <1>3, <2>2, <2>5, <2>6 DEF LifeInv
<1>10. QED
  BY <1>5, <1>6, <1>8, <1>9 DEF Server

\* Steps of the agent, where copies are made and rows do not change.
LEMMA LifeAgent ==
  ASSUME TypeOK, HandsInv, LifeInv, Threads \/ MainLoop \/ Faults
  PROVE  LifeInv'
<1> HIDE DEF Match
<1>1. row' = row
  BY DEF Threads, MainLoop, Faults, RunEnds, EnqueueRead, EnqueueOpen, EnqueueWrite,
         FlushRead, FlushPost, FlushOpen, FlushWrite, HeartbeatFails, GiveUpPoll,
         GiveUpResult, FlushFails, EnqueueFails, Crash, Restart, serverVars
<1>2. \A f : Match(<<>>, f)
  BY MatchFacts
<1>3. TruthInv /\ StageInv
  BY DEF LifeInv
<1>4. NoThread.pc = "idle" /\ NoThread.snap = <<>>
  BY DEF NoThread
\* A step that makes no outcome.
<1>5. ASSUME made' = made,
             \A m \in net' : made[m.run] = m.out,
             Match(file'.q, made), Match(main'.todo, made), Match(main'.left, made),
             \A r \in Runs :
               \/ thr'[r].snap = thr[r].snap /\ (thr'[r].pc = thr[r].pc \/ (thr'[r].pc = "read" /\ thr[r].pc = "wait"))
                                           /\ thr'[r].out = thr[r].out
               \/ thr[r].pc # "idle" /\ thr'[r].pc \in {"idle", "open", "write"} /\ Match(thr'[r].snap, made)
               \/ thr'[r] = NoThread
      PROVE  LifeInv'
  <2>1. TruthInv'
    BY <1>2, <1>3, <1>4, <1>5 DEF TruthInv
  <2>2. StageInv'
    <3> SUFFICES ASSUME NEW r \in Runs
                 PROVE  /\ row[r] \in {"none", "queued"} => made[r] = "none" /\ thr'[r].pc = "idle"
                        /\ thr'[r].pc = "exec" => made[r] = "none"
                        /\ thr'[r].pc \in {"wait", "read"} => made[r] = thr'[r].out
                        /\ Finished(r) => made[r] \in Outcomes /\ row[r] = Status(made[r])
      BY <1>1, <1>5 DEF StageInv, Finished, Status
    <3>1. QED
      BY <1>3, <1>4, <1>5 DEF StageInv
  <2>3. QED
    BY <1>1, <1>3, <2>1, <2>2 DEF LifeInv
<1>6. ASSUME NEW r \in Runs, RunEnds(r)
      PROVE  LifeInv'
  <2>1. PICK o \in Outcomes :
          /\ made' = [made EXCEPT ![r] = o]
          /\ thr' = [thr EXCEPT ![r] = [pc |-> "wait", out |-> o, snap |-> <<>>]]
          /\ net' = net \union {[run |-> r, out |-> o, from |-> "thread", waited |-> TRUE]}
    BY <1>6 DEF RunEnds
  <2>2. thr[r].pc = "exec" /\ made[r] = "none" /\ UNCHANGED <<main, file>>
    BY <1>3, <1>6 DEF RunEnds, StageInv
  <2>3. made'[r] = o /\ \A d \in Runs : d # r => made'[d] = made[d]
    BY <2>1 DEF TypeOK
  <2>4. /\ thr'[r].pc = "wait" /\ thr'[r].out = o /\ thr'[r].snap = <<>>
        /\ \A d \in Runs : d # r => thr'[d] = thr[d]
    BY <2>1 DEF TypeOK
  <2>5. \A q \in Seq(Entry) : Match(q, made) => Match(q, made')
    BY <2>2, <2>3, MatchOfNew
  <2>6. \A m \in net : m.run \in Runs /\ m.out # "none" /\ made[m.run] = m.out
    BY <1>3 DEF TypeOK, Result, Outcomes, TruthInv
  <2>7. TruthInv'
    <3>1. \A m \in net' : made'[m.run] = m.out
      BY <2>1, <2>2, <2>3, <2>6
    <3>2. \A d \in Runs : Match(thr'[d].snap, made')
      BY <1>2, <1>3, <2>4, <2>5, Shapes DEF TruthInv
    <3>3. Match(file.q, made') /\ Match(main.todo, made') /\ Match(main.left, made')
      BY <1>3, <2>5, Shapes DEF TruthInv
    <3>4. QED
      BY <2>2, <3>1, <3>2, <3>3 DEF TruthInv
  <2>8. StageInv'
    <3> SUFFICES ASSUME NEW d \in Runs
                 PROVE  /\ row[d] \in {"none", "queued"} => made'[d] = "none" /\ thr'[d].pc = "idle"
                        /\ thr'[d].pc = "exec" => made'[d] = "none"
                        /\ thr'[d].pc \in {"wait", "read"} => made'[d] = thr'[d].out
                        /\ Finished(d) => made'[d] \in Outcomes /\ row[d] = Status(made'[d])
      BY <1>1 DEF StageInv, Finished, Status
    <3>1. CASE d = r
      <4>1. ~Finished(r) /\ row[r] \notin {"none", "queued"}
        BY <1>3, <2>2 DEF StageInv, Outcomes
      <4>2. QED
        BY <2>3, <2>4, <3>1, <4>1
    <3>2. CASE d # r
      BY <1>3, <2>3, <2>4, <3>2 DEF StageInv
    <3>3. QED
      BY <3>1, <3>2
  <2>9. QED
    BY <1>1, <1>3, <2>7, <2>8 DEF LifeInv
<1>7. ASSUME NEW r \in Runs, EnqueueRead(r) \/ EnqueueOpen(r) \/ EnqueueWrite(r)
      PROVE  LifeInv'
  <2>1. UNCHANGED <<net, main, made>> /\ thr \in [Runs -> Thread]
    BY <1>7 DEF EnqueueRead, EnqueueOpen, EnqueueWrite, TypeOK
  <2>2. \A d \in Runs \ {r} : thr'[d] = thr[d]
    BY <1>7, <2>1 DEF EnqueueRead, EnqueueOpen, EnqueueWrite
  <2>3. CASE EnqueueRead(r)
    <3>1. PICK e : e = [run |-> r, out |-> thr[r].out]
      OBVIOUS
    <3>2. thr[r].pc = "read" /\ file' = file
      BY <2>3 DEF EnqueueRead
    <3>3. e \in Entry /\ made[e.run] = e.out
      BY <1>3, <3>1, <3>2 DEF HandsInv, Entry, StageInv
    <3>4. PICK snap : snap = CappedAppend(file.q, e)
      OBVIOUS
    <3>5. Match(snap, made)
      BY <1>3, <3>3, <3>4, Shapes, MatchFacts DEF TruthInv
    <3>6. thr'[r] = NoThread \/ thr'[r] = [thr[r] EXCEPT !.pc = "open", !.snap = snap]
      BY <2>1, <2>3, <3>1, <3>4 DEF EnqueueRead
    <3>7. thr'[r] = NoThread \/ (thr'[r].pc = "open" /\ thr'[r].snap = snap)
      BY <2>1, <3>6 DEF Thread
    <3>8. QED
      BY <1>3, <1>5, <2>1, <2>2, <3>2, <3>5, <3>7 DEF TruthInv
  <2>4. CASE EnqueueOpen(r)
    <3>1. thr[r].pc = "open" /\ thr'[r].pc = "write" /\ thr'[r].snap = thr[r].snap /\ file'.q = <<>>
      BY <2>1, <2>4 DEF EnqueueOpen, Thread, Opened
    <3>2. QED
      BY <1>2, <1>3, <1>5, <2>1, <2>2, <3>1 DEF TruthInv
  <2>5. CASE EnqueueWrite(r)
    <3>1. thr'[r] = NoThread /\ file' \in Written(thr[r].snap)
      BY <2>1, <2>5 DEF EnqueueWrite
    <3>2. file'.q \in {thr[r].snap, <<>>}
      BY <3>1 DEF Written
    <3>3. QED
      BY <1>2, <1>3, <1>5, <2>1, <2>2, <3>1, <3>2 DEF TruthInv
  <2>6. QED
    BY <1>7, <2>3, <2>4, <2>5
<1>8. CASE MainLoop \/ GiveUpPoll \/ Restart
  <2>1. UNCHANGED <<thr, made>> /\ main \in Main /\ file \in File
    BY <1>8, Shapes DEF MainLoop, FlushRead, FlushPost, FlushOpen, FlushWrite, HeartbeatFails,
                        GiveUpPoll, Restart
  <2>2. \A m \in net' : made[m.run] = m.out
    <3>1. CASE FlushPost
      <4>1. main.todo # <<>> /\ main.todo \in Seq(Entry)
            /\ net' = net \union {[run |-> Head(main.todo).run, out |-> Head(main.todo).out,
                                   from |-> "main", waited |-> TRUE]}
        BY <3>1, Shapes DEF FlushPost
      <4>2. made[Head(main.todo).run] = Head(main.todo).out
        BY <1>3, <4>1, MatchFacts DEF TruthInv
      <4>3. QED
        BY <1>3, <4>1, <4>2 DEF TruthInv
    <3>2. CASE ~FlushPost
      BY <1>3, <1>8, <3>2 DEF TruthInv, MainLoop, FlushRead, FlushOpen, FlushWrite, HeartbeatFails,
                              GiveUpPoll, Restart
    <3>3. QED
      BY <3>1, <3>2
  <2>3. /\ main'.todo \in {main.todo, file.q, <<>>} /\ main'.left \in {main.left, <<>>}
    BY <1>8, <2>1 DEF MainLoop, FlushRead, FlushPost, FlushOpen, FlushWrite, HeartbeatFails,
                      GiveUpPoll, Restart, Main
  <2>4. file'.q \in {file.q, main.left, <<>>}
    BY <1>8, <2>1 DEF MainLoop, FlushRead, FlushPost, FlushOpen, FlushWrite, HeartbeatFails,
                      GiveUpPoll, Restart, Written, Remaining, Opened
  <2>5. QED
    BY <1>2, <1>3, <1>5, <2>1, <2>2, <2>3, <2>4 DEF TruthInv
<1>9. CASE Crash
  <2>1. /\ made' = made /\ file' = file /\ main'.todo = <<>> /\ main'.left = <<>>
        /\ \A r \in Runs : thr'[r] = NoThread
        /\ net' = {[m EXCEPT !.waited = FALSE] : m \in net}
    BY <1>9 DEF Crash
  <2>2. \A m \in net' : made[m.run] = m.out
    BY <1>3, <2>1 DEF TypeOK, Result, TruthInv
  <2>3. QED
    BY <1>2, <1>3, <1>5, <2>1, <2>2 DEF TruthInv
<1>10. ASSUME NEW m \in net, GiveUpResult(m)
       PROVE  LifeInv'
  <2>1. /\ m.waited /\ net' = (net \ {m}) \union {[m EXCEPT !.waited = FALSE]}
        /\ Answered(m, FALSE) /\ UNCHANGED <<file, made>>
    BY <1>10 DEF GiveUpResult
  <2>2. \A n \in net' : made[n.run] = n.out
    <3>1. [m EXCEPT !.waited = FALSE].run = m.run /\ [m EXCEPT !.waited = FALSE].out = m.out
      BY DEF TypeOK, Result
    <3>2. QED
      BY <1>3, <2>1, <3>1 DEF TruthInv
  <2>3. CASE m.from = "thread" /\ ThreadAnswered(m, FALSE)
    <3>1. m.run \in Runs /\ thr \in [Runs -> Thread]
      BY DEF TypeOK, Result
    <3>2. /\ main' = main /\ thr'[m.run] = [thr[m.run] EXCEPT !.pc = "read"]
          /\ \A d \in Runs \ {m.run} : thr'[d] = thr[d]
      BY <2>3, <3>1 DEF ThreadAnswered
    <3>3. /\ thr'[m.run].pc = "read" /\ thr'[m.run].snap = thr[m.run].snap
          /\ thr'[m.run].out = thr[m.run].out /\ thr[m.run].pc = "wait"
      BY <2>1, <2>3, <3>1, <3>2 DEF Thread, HandsInv
    <3>4. QED
      BY <1>3, <1>5, <2>1, <2>2, <3>2, <3>3 DEF TruthInv
  <2>4. CASE m.from = "main" /\ MainAnswered(m, FALSE)
    <3>1. /\ main'.todo = Tail(main.todo) /\ main'.left = Append(main.left, Head(main.todo))
          /\ thr' = thr
      BY <2>4 DEF MainAnswered
    <3>2. main.todo # <<>> /\ main.todo \in Seq(Entry) /\ main.left \in Seq(Entry)
      BY <2>1, <2>4, Shapes DEF HandsInv
    <3>3. Head(main.todo) \in Entry
      BY <3>2
    <3>4. Match(main'.todo, made) /\ Match(main'.left, made)
      BY <1>3, <3>1, <3>2, <3>3, MatchFacts DEF TruthInv
    <3>5. QED
      BY <1>3, <1>5, <2>1, <2>2, <3>1, <3>4 DEF TruthInv
  <2>5. QED
    BY <2>1, <2>3, <2>4 DEF Answered
<1>11. CASE FileFault
  <2>1. /\ made' = made /\ net' = net /\ file'.q \in {file.q, <<>>}
        /\ main'.todo \in {main.todo, <<>>} /\ main'.left \in {main.left, <<>>}
        /\ \A r \in Runs : thr'[r] = thr[r] \/ thr'[r] = NoThread
    BY <1>11, FileFaultFacts
  <2>2. QED
    BY <1>2, <1>3, <1>5, <2>1 DEF TruthInv
<1>12. QED
  BY <1>6, <1>7, <1>8, <1>9, <1>10, <1>11 DEF Threads, Faults, FileFault

LEMMA LifeInvariant == Spec => []LifeInv
<1>1. Init => LifeInv
  <2> SUFFICES ASSUME Init PROVE LifeInv
    OBVIOUS
  <2>1. TruthInv
    BY MatchFacts DEF Init, TruthInv, NoThread
  <2>2. StageInv
    BY DEF Init, StageInv, NoThread, Finished
  <2>3. QED
    BY <2>1, <2>2 DEF LifeInv
<1>2. (TypeOK /\ HandsInv /\ LateInv) /\ LifeInv /\ [Next]_vars => LifeInv'
  <2>1. ASSUME LifeInv, UNCHANGED vars
        PROVE  LifeInv'
    BY <2>1 DEF vars, LifeInv, TruthInv, StageInv, Finished, Status
  <2>2. QED
    BY <2>1, LifeServer, LifeAgent DEF Next
<1>3. QED
  BY <1>1, <1>2, TypeCorrect, PTL DEF Spec

\* An execution has been counted before it ends.
EndsInv == \A r \in Runs : thr[r].pc # "idle" \/ made[r] # "none" => starts[r] # 0

LEMMA EndsStep ==
  ASSUME TypeOK, HandsInv, StartsInv, EndsInv, Next
  PROVE  EndsInv'
\* Steps that count and execute nothing new.
<1>1. ASSUME starts' = starts,
             \A r \in Runs : thr'[r].pc # "idle" \/ made'[r] # "none" => thr[r].pc # "idle" \/ made[r] # "none"
      PROVE  EndsInv'
  BY <1>1 DEF EndsInv
<1>2. CASE GetTasks
  <2>1. \A r \in Runs : \/ thr'[r] = thr[r] /\ starts'[r] = starts[r]
                        \/ row[r] = "queued" /\ starts'[r] = starts[r] + 1
    BY <1>2 DEF GetTasks, Pending
  <2>2. made' = made
    BY <1>2 DEF GetTasks
  <2>3. QED
    BY <2>1, <2>2 DEF EndsInv, StartsInv
<1>3. ASSUME NEW m \in net, m.waited, NEW ok \in BOOLEAN, Answered(m, ok), starts' = starts, made' = made
      PROVE  EndsInv'
  <2>1. CASE m.from = "thread" /\ ThreadAnswered(m, ok)
    <3>1. m.run \in Runs /\ thr[m.run].pc = "wait"
      BY <1>3, <2>1, Shapes DEF HandsInv
    <3>2. \A r \in Runs : thr'[r] = thr[r] \/ r = m.run
      BY <2>1, <3>1 DEF ThreadAnswered, TypeOK
    <3>3. QED
      BY <1>1, <1>3, <3>1, <3>2
  <2>2. CASE m.from = "main" /\ MainAnswered(m, ok)
    BY <1>1, <1>3, <2>2 DEF MainAnswered
  <2>3. QED
    BY <1>3, <2>1, <2>2 DEF Answered
<1>4. ASSUME NEW m \in net, TaskResult(m)
      PROVE  EndsInv'
  BY <1>1, <1>3, <1>4 DEF TaskResult
<1>5. ASSUME NEW m \in net, GiveUpResult(m)
      PROVE  EndsInv'
  BY <1>3, <1>5 DEF GiveUpResult
<1>6. ASSUME NEW r \in Runs, RunEnds(r)
      PROVE  EndsInv'
  <2>1. thr[r].pc = "exec" /\ starts' = starts
    BY <1>6 DEF RunEnds
  <2>2. \A d \in Runs : d # r => thr'[d] = thr[d] /\ made'[d] = made[d]
    BY <1>6 DEF RunEnds, TypeOK
  <2>3. QED
    BY <1>1, <2>1, <2>2
<1>7. ASSUME NEW r \in Runs, EnqueueRead(r) \/ EnqueueOpen(r) \/ EnqueueWrite(r)
      PROVE  EndsInv'
  <2>1. thr[r].pc # "idle" /\ starts' = starts /\ made' = made
    BY <1>7 DEF EnqueueRead, EnqueueOpen, EnqueueWrite
  <2>2. \A d \in Runs : d # r => thr'[d] = thr[d]
    BY <1>7 DEF EnqueueRead, EnqueueOpen, EnqueueWrite, TypeOK
  <2>3. QED
    BY <1>1, <2>1, <2>2
<1>8. CASE Crash
  <2>1. starts' = starts /\ made' = made /\ \A r \in Runs : thr'[r].pc = "idle"
    BY <1>8 DEF Crash, NoThread
  <2>2. QED
    BY <1>1, <2>1
<1>9. CASE UNCHANGED <<starts, made, thr>>
  BY <1>1, <1>9
<1>11. CASE FileFault
  BY <1>1, <1>11, FileFaultFacts DEF NoThread
<1>10. QED
  BY <1>2, <1>4, <1>5, <1>6, <1>7, <1>8, <1>9, <1>11
  DEF Next, Server, Threads, MainLoop, Faults, FileFault, QueueRuns, LateGetTasks, FlushRead,
      FlushPost, FlushOpen, FlushWrite, HeartbeatFails, GiveUpPoll, Restart

\* A script run is executed at most once, and what is recorded is what that
\* execution ended with, whatever is lost, late or repeated.
THEOREM AtMostOnceAlways == Spec => []AtMostOnce
<1>1. Init => StartsInv /\ DomainInv /\ EndsInv
  BY DEF Init, StartsInv, DomainInv, EndsInv, NoThread
<1>2. (TypeOK /\ HandsInv /\ LateInv) /\ (StartsInv /\ DomainInv /\ EndsInv) /\ [Next]_vars
      => (StartsInv /\ DomainInv /\ EndsInv)'
  <2>1. ASSUME StartsInv, DomainInv, EndsInv, UNCHANGED vars
        PROVE  (StartsInv /\ DomainInv /\ EndsInv)'
    BY <2>1 DEF StartsInv, DomainInv, EndsInv, vars
  <2>2. QED
    BY <2>1, StartsStep, EndsStep
<1>3. ASSUME StartsInv, EndsInv, LifeInv
      PROVE  AtMostOnce
  <2>1. \A r \in Runs : starts[r] \in Nat /\ starts[r] <= 1
    BY <1>3 DEF StartsInv
  <2>2. \A r \in Runs : Finished(r) => made[r] # "none" /\ row[r] = Status(made[r])
    BY <1>3 DEF LifeInv, StageInv, Outcomes
  <2>3. \A r \in Runs : made[r] # "none" => starts[r] # 0
    BY <1>3 DEF EndsInv
  <2>4. QED
    BY <2>1, <2>2, <2>3 DEF AtMostOnce
<1>4. QED
  BY <1>1, <1>2, <1>3, LifeInvariant, TypeCorrect, PTL DEF Spec

\* What a list keeps of a run is what the run ended with.
LEMMA HeldTruly ==
  ASSUME NEW q \in Seq(Entry), Match(q, made), NEW r, InSeq(q, r)
  PROVE  Holds(q, r)
<1>1. PICK i \in DOMAIN q : q[i].run = r
  BY DEF InSeq
<1>2. q[i] \in Entry
  OBVIOUS
<1>3. q[i].out = made[r]
  BY <1>1 DEF Match
<1>4. q[i] = [run |-> r, out |-> made[r]]
  BY <1>1, <1>2, <1>3 DEF Entry
<1>5. QED
  BY <1>4 DEF Holds

\* The outcome of a run is lost only when two use the file at once, when the
\* agent dies, by the cap, or when the file cannot be read or written.
THEOREM LostForCauseAlways == Spec => []LostForCause
<1>1. ASSUME TypeOK, LifeInv, KeepInv, ~lossy, NEW r \in Runs, made[r] # "none"
      PROVE  \/ row[r] = Status(made[r])
             \/ thr[r].pc # "idle"
             \/ file.st = "ok" /\ Holds(file.q, r)
             \/ Holds(main.todo, r) \/ Holds(main.left, r)
             \/ \E d \in Runs : Holds(thr[d].snap, r)
  <2>1. TruthInv /\ StageInv /\ KeptInv
    BY <1>1 DEF LifeInv, KeepInv, Safe
  <2>2. Finished(r) => row[r] = Status(made[r])
    BY <2>1 DEF StageInv
  <2>3. /\ main.todo \in Seq(Entry) /\ main.left \in Seq(Entry) /\ file.q \in Seq(Entry)
        /\ \A d \in Runs : thr[d].snap \in Seq(Entry)
    BY <1>1, Shapes
  <2>4. /\ InSeq(file.q, r) => Holds(file.q, r)
        /\ InSeq(main.todo, r) => Holds(main.todo, r)
        /\ InSeq(main.left, r) => Holds(main.left, r)
        /\ \A d \in Runs : InSeq(thr[d].snap, r) => Holds(thr[d].snap, r)
    BY <2>1, <2>3, HeldTruly DEF TruthInv
  <2>5. QED
    BY <1>1, <2>1, <2>2, <2>4 DEF KeptInv
<1>2. TypeOK /\ LifeInv /\ KeepInv => LostForCause
  BY <1>1 DEF LostForCause, NoResultLost
<1>3. QED
  BY <1>2, KeepInvariant, LifeInvariant, TypeCorrect, PTL

-----------------------------------------------------------------------------
(* The refinement of RunLife.                                              *)

\* What a row and an outcome are to the abstract run, before and after a step.
StageIs(st) == IF st = "running" THEN "taken"
               ELSE IF st \in {"success", "failed"} THEN "recorded" ELSE st
MadeIs(o)   == IF o = "none" THEN "none" ELSE Status(o)
KnownIs(st) == IF st \in {"success", "failed"} THEN st ELSE "none"

LEMMA Mappings ==
  /\ StageOf = [r \in Runs |-> StageIs(row[r])] /\ StageOf' = [r \in Runs |-> StageIs(row'[r])]
  /\ MadeOf = [r \in Runs |-> MadeIs(made[r])]  /\ MadeOf' = [r \in Runs |-> MadeIs(made'[r])]
  /\ KnownOf = [r \in Runs |-> KnownIs(row[r])] /\ KnownOf' = [r \in Runs |-> KnownIs(row'[r])]
<1>1. /\ StageOf = [r \in Runs |-> StageIs(row[r])]
      /\ StageOf' = [r \in Runs |-> StageIs(row'[r])]
  BY DEF StageOf, StageIs, Finished
<1>2. /\ MadeOf = [r \in Runs |-> MadeIs(made[r])]
      /\ MadeOf' = [r \in Runs |-> MadeIs(made'[r])]
  BY DEF MadeOf, MadeIs, Status
<1>3. /\ KnownOf = [r \in Runs |-> KnownIs(row[r])]
      /\ KnownOf' = [r \in Runs |-> KnownIs(row'[r])]
  BY DEF KnownOf, KnownIs, Finished
<1>4. QED
  BY <1>1, <1>2, <1>3

\* Every step is one of the abstract run, or one it does not see.
LEMMA RunLifeStep ==
  ASSUME TypeOK, HandsInv, LifeInv, Next
  PROVE  [Abstract!RunLifeNext]_(Abstract!runLifeVars)
<1>1. TruthInv /\ StageInv
  BY DEF LifeInv
<1>2. ASSUME row' = row, made' = made
      PROVE  UNCHANGED Abstract!runLifeVars
  BY <1>2, Mappings DEF Abstract!runLifeVars
<1>3. ASSUME made' = made, NEW R \in SUBSET Runs, \A r \in R : row[r] = "none",
             row' = [r \in Runs |-> IF r \in R THEN "queued" ELSE row[r]]
      PROVE  Abstract!Queue(R)
  <2>1. \A r \in R : StageOf[r] = "none"
    BY <1>3, Mappings DEF StageIs
  <2>2. StageOf' = [r \in Runs |-> IF r \in R THEN "queued" ELSE StageOf[r]]
    BY <1>3, Mappings DEF StageIs
  <2>3. \A r \in Runs : KnownIs(row'[r]) = KnownIs(row[r])
    BY <1>3 DEF KnownIs
  <2>4. KnownOf' = KnownOf /\ MadeOf' = MadeOf
    BY <1>3, <2>3, Mappings
  <2>5. QED
    BY <1>3, <2>1, <2>2, <2>4 DEF Abstract!Queue
<1>4. ASSUME made' = made, row' = Marked(Pending)
      PROVE  Abstract!Take(Pending)
  <2>1. \A r \in Pending : r \in Runs /\ row[r] = "queued"
    BY DEF Pending
  <2>2. row' = [r \in Runs |-> IF r \in Pending THEN "running" ELSE row[r]]
    BY <1>4 DEF Marked
  <2> HIDE DEF Pending
  <2>3. \A r \in Pending : StageOf[r] = "queued"
    BY <2>1, Mappings DEF StageIs
  <2>4. StageOf' = [r \in Runs |-> IF r \in Pending THEN "taken" ELSE StageOf[r]]
    BY <2>2, Mappings DEF StageIs
  <2>5. \A r \in Runs : KnownIs(row'[r]) = KnownIs(row[r])
    BY <2>1, <2>2 DEF KnownIs
  <2>6. KnownOf' = KnownOf /\ MadeOf' = MadeOf
    BY <1>4, <2>5, Mappings
  <2>7. QED
    BY <1>4, <2>3, <2>4, <2>6 DEF Abstract!Take
<1>5. ASSUME NEW m \in net, TaskResult(m)
      PROVE  [Abstract!RunLifeNext]_(Abstract!runLifeVars)
  <2>1. m.run \in Runs /\ m.out \in Outcomes /\ made[m.run] = m.out
    BY <1>1 DEF TypeOK, Result, TruthInv
  <2>2. made' = made /\ row' = [row EXCEPT ![m.run] = Status(m.out)]
    BY <1>5 DEF TaskResult
  <2>3. row[m.run] \in {"running", "success", "failed"}
    BY <1>1, <2>1 DEF TypeOK, StageInv, Outcomes
  <2>4. CASE row[m.run] # "running"
    <3>1. row[m.run] = Status(m.out)
      BY <1>1, <2>1, <2>3, <2>4 DEF StageInv, Finished
    <3>2. row' = row
      BY <2>2, <3>1 DEF TypeOK
    <3>3. QED
      BY <1>2, <2>2, <3>2
  <2>5. CASE row[m.run] = "running"
    <3>1. PICK r \in Runs : r = m.run
      BY <2>1
    <3>2. PICK o : o = Status(m.out)
      OBVIOUS
    <3>3. o \in {"success", "failed"} /\ MadeIs(made[r]) = o /\ row[r] = "running"
      BY <2>1, <2>5, <3>1, <3>2 DEF Status, MadeIs, Outcomes
    <3>4. \A d \in Runs : row'[d] = IF d = r THEN o ELSE row[d]
      BY <2>2, <3>1, <3>2 DEF TypeOK
    <3>5. StageOf[r] = "taken" /\ MadeOf[r] = o /\ MadeOf[r] # "none" /\ MadeOf' = MadeOf
      BY <2>2, <3>3, Mappings DEF StageIs
    <3>6. StageOf' = [StageOf EXCEPT ![r] = "recorded"]
      <4>1. \A d \in Runs : StageIs(row'[d]) = IF d = r THEN "recorded" ELSE StageIs(row[d])
        BY <3>3, <3>4 DEF StageIs
      <4>2. QED
        BY <4>1, Mappings
    <3>7. KnownOf' = [KnownOf EXCEPT ![r] = MadeOf[r]]
      <4>1. \A d \in Runs : KnownIs(row'[d]) = IF d = r THEN o ELSE KnownIs(row[d])
        BY <3>3, <3>4 DEF KnownIs
      <4>2. QED
        BY <3>5, <4>1, Mappings
    <3>8. Abstract!Record(r)
      BY <2>2, <3>5, <3>6, <3>7 DEF Abstract!Record
    <3>9. QED
      BY <3>8 DEF Abstract!RunLifeNext
  <2>6. QED
    BY <2>4, <2>5
<1>6. ASSUME NEW r \in Runs, RunEnds(r)
      PROVE  Abstract!RunLifeNext
  <2>1. PICK o \in Outcomes : made' = [made EXCEPT ![r] = o]
    BY <1>6 DEF RunEnds
  <2>2. row' = row /\ thr[r].pc = "exec"
    BY <1>6 DEF RunEnds, serverVars
  <2>3. row[r] = "running" /\ made[r] = "none"
    BY <1>1, <2>2 DEF StageInv, TypeOK, Finished, Outcomes
  <2>4. PICK s : s = Status(o)
    OBVIOUS
  <2>5. s \in {"success", "failed"} /\ MadeIs(o) = s
    BY <2>1, <2>4 DEF Status, MadeIs, Outcomes
  <2>6. \A d \in Runs : made'[d] = IF d = r THEN o ELSE made[d]
    BY <2>1 DEF TypeOK
  <2>7. StageOf[r] = "taken" /\ MadeOf[r] = "none" /\ StageOf' = StageOf /\ KnownOf' = KnownOf
    BY <2>2, <2>3, Mappings DEF StageIs, MadeIs
  <2>8. MadeOf' = [MadeOf EXCEPT ![r] = s]
    <3>1. \A d \in Runs : MadeIs(made'[d]) = IF d = r THEN s ELSE MadeIs(made[d])
      BY <2>5, <2>6
    <3>2. QED
      BY <3>1, Mappings
  <2>9. Abstract!Perform(r, s)
    BY <2>2, <2>7, <2>8 DEF Abstract!Perform
  <2>10. QED
    BY <2>5, <2>9 DEF Abstract!RunLifeNext
<1>9. CASE Server
  <2>1. ASSUME NEW R \in SUBSET Runs, QueueRuns(R)
        PROVE  Abstract!RunLifeNext
    BY <1>3, <2>1 DEF QueueRuns, Abstract!RunLifeNext
  <2>2. Pending \in SUBSET Runs
    BY DEF Pending
  <2>3. CASE GetTasks
    BY <1>4, <2>2, <2>3 DEF GetTasks, Abstract!RunLifeNext
  <2>4. CASE LateGetTasks
    BY <1>4, <2>2, <2>4 DEF LateGetTasks, Abstract!RunLifeNext
  <2>6. QED
    BY <1>5, <1>9, <2>1, <2>3, <2>4 DEF Server
<1>10. CASE Threads \/ MainLoop \/ Faults
  <2>1. (row' = row /\ made' = made) \/ \E r \in Runs : RunEnds(r)
    BY <1>10 DEF Threads, MainLoop, Faults, EnqueueRead, EnqueueOpen, EnqueueWrite, FlushRead,
                FlushPost, FlushOpen, FlushWrite, HeartbeatFails, GiveUpPoll, GiveUpResult,
                FlushFails, EnqueueFails, Crash, Restart, serverVars
  <2>2. QED
    BY <1>2, <1>6, <2>1
<1>11. QED
  BY <1>9, <1>10 DEF Next

\* A run has the life of RunLife, for any number of runs, faults and crashes:
\* taken once, executed at most once, and what is recorded is never taken back.
THEOREM ImplementsLifeAlways == Spec => ImplementsRunLife
<1>1. Init => Abstract!RunLifeInit
  <2> SUFFICES ASSUME Init PROVE Abstract!RunLifeInit
    OBVIOUS
  <2>1. \A r \in Runs : row[r] = "none" /\ made[r] = "none"
    BY DEF Init
  <2>2. \A r \in Runs : StageIs(row[r]) = "none" /\ MadeIs(made[r]) = "none" /\ KnownIs(row[r]) = "none"
    BY <2>1 DEF StageIs, MadeIs, KnownIs
  <2>3. QED
    BY <2>1, <2>2, Mappings DEF Abstract!RunLifeInit
<1>2. (TypeOK /\ HandsInv /\ LateInv) /\ LifeInv /\ [Next]_vars
      => [Abstract!RunLifeNext]_(Abstract!runLifeVars)
  <2>1. UNCHANGED vars => UNCHANGED Abstract!runLifeVars
    BY Mappings DEF vars, Abstract!runLifeVars
  <2>2. QED
    BY <2>1, RunLifeStep
<1>3. QED
  BY <1>1, <1>2, LifeInvariant, TypeCorrect, PTL DEF Spec, ImplementsRunLife, Abstract!RunLifeSpec
=============================================================================
