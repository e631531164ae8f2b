--------------------------- MODULE Terminal_proofs ---------------------------
(***************************************************************************)
(* Proofs about Terminal.tla for every number of sessions, commands, posts *)
(* and faults, every set of users and every choice of the time-outs.       *)
(***************************************************************************)
EXTENDS Terminal, FiniteSetTheorems, TLAPS

-----------------------------------------------------------------------------
(* Facts about the operators of the model.                                 *)

\* A list of the commands a poll offers is a sequence of commands.
LEMMA OfferIsList ==
  ASSUME NEW offer \in SUBSET Cmd, NEW q \in [1..Cardinality(offer) -> offer]
  PROVE  q \in Seq(Cmd)
<1>1. IsFiniteSet(offer)
  <2>1. IsFiniteSet(Cmd)
    BY TerminalAssumption, FS_Interval DEF Cmd, TerminalAssumption
  <2>2. QED
    BY <2>1, FS_Subset
<1>2. Cardinality(offer) \in Nat
  BY <1>1, FS_CardinalityType
<1>3. QED
  BY <1>2

\* An age that grows stays within one of its limit.
LEMMA OlderIsBounded ==
  ASSUME NEW limit \in Nat, NEW n \in 0..(limit + 1)
  PROVE  Older(n, limit) \in 0..(limit + 1)
BY DEF Older

\* Counting one more event of a command keeps its counts well formed.
LEMMA CountsType ==
  ASSUME NEW h \in Counts
  PROVE  /\ [h EXCEPT !.claims = @ + 1] \in Counts
         /\ [h EXCEPT !.starts = @ + 1] \in Counts
         /\ [h EXCEPT !.resets = @ + 1] \in Counts
<1>1. h.claims + 1 \in Nat /\ h.starts + 1 \in Nat /\ h.resets + 1 \in Nat
  BY DEF Counts
<1>2. QED
  BY <1>1 DEF Counts

\* Closing what has been idle too long keeps the rows of the sessions well formed.
LEMMA ExpiredSessionsType ==
  ASSUME TypeOK
  PROVE  ExpiredSessions \in [Session -> SessionRow]
BY DEF TypeOK, ExpiredSessions, SessionRow, IdleTooLong

\* So does putting commands back in the queue, for the rows of the commands.
LEMMA ResetCommandsType ==
  ASSUME TypeOK, NEW C \in SUBSET Cmd
  PROVE  /\ ResetCommands(C) \in [Cmd -> CommandRow]
         /\ CountResets(C) \in [Cmd -> Counts]
<1>1. 0 \in 0..(StuckTimeout + 1)
  BY TerminalAssumption DEF TerminalAssumption
<1>2. ResetCommands(C) \in [Cmd -> CommandRow]
  BY <1>1 DEF TypeOK, ResetCommands, CommandRow
<1>3. CountResets(C) \in [Cmd -> Counts]
  <2>1. ASSUME NEW c \in Cmd
        PROVE  (IF c \in C THEN [hist[c] EXCEPT !.resets = @ + 1] ELSE hist[c]) \in Counts
    BY CountsType DEF TypeOK
  <2>2. QED
    BY <2>1 DEF CountResets
<1>4. QED
  BY <1>2, <1>3

LEMMA StuckCommandsType == StuckCommands \in SUBSET Cmd
BY DEF StuckCommands

-----------------------------------------------------------------------------
(* Type correctness.  It is not inductive by itself: that the command the  *)
(* worker names in a request exists depends on the replies reaching the    *)
(* worker in the state in which it waits for them.                         *)

\* What the worker does when it waits for the reply to a request of this kind.
Awaiting(kind) == CASE kind = "running" -> "ask"
                    [] kind = "output"  -> "post"
                    [] kind = "done"    -> "ending"

\* The worker has a command while it deals with one, and waits for the reply to
\* one request at the most: the one it sent last, about that command.
WorkerInv ==
  /\ wpc \in {"ask", "granted", "exec", "post", "ending"} => cur \in Cmd
  /\ \A m \in net : m.waited => m.cmd = cur /\ wpc = Awaiting(m.kind)
  /\ \A m, n \in net : m.waited /\ n.waited => m = n

\* A step of the dashboard keeps every variable within its type.
LEMMA DashboardType ==
  ASSUME TypeOK, Dashboard
  PROVE  TypeOK'
<1> USE TerminalAssumption DEF TerminalAssumption
<1>0. 0 \in 0..(IdleTimeout + 1) /\ 0 \in 0..(StuckTimeout + 1)
  OBVIOUS
<1>1. ASSUME NEW u \in Users, OpenSession(u)
      PROVE  TypeOK'
  <2>1. PICK s \in Session :
          /\ sess' = [sess EXCEPT ![s] = [st |-> "opening", user |-> u, idle |-> 0]]
          /\ \E own \in SUBSET {r \in Session : Existing(u, r)} :
               opening' = opening \union {[sess |-> s, user |-> u,
                                           found |-> own \union {r \in Session : IdleTooLong(r)}]}
          /\ UNCHANGED <<cmd, sweeping, net, agentVars, faults, hist>>
    BY <1>1 DEF OpenSession
  <2>2. sess' \in [Session -> SessionRow]
    BY <1>0, <2>1 DEF TypeOK, SessionRow
  <2>3. opening' \subseteq Open
    BY <2>1 DEF TypeOK, Open
  <2>4. QED
    BY <2>1, <2>2, <2>3 DEF TypeOK, agentVars
<1>2. ASSUME NEW o \in opening, CommitSession(o)
      PROVE  TypeOK'
  <2>1. sess' \in [Session -> SessionRow]
    BY <1>2 DEF CommitSession, TypeOK, SessionRow
  <2>2. cmd' \in [Cmd -> CommandRow] /\ hist' \in [Cmd -> Counts]
    BY <1>2, ResetCommandsType, StuckCommandsType DEF CommitSession
  <2>3. QED
    BY <1>2, <2>1, <2>2 DEF CommitSession, TypeOK, agentVars
<1>3. ASSUME NEW s \in Session, CloseSession(s)
      PROVE  TypeOK'
  BY <1>3 DEF CloseSession, TypeOK, SessionRow, agentVars
<1>4. ASSUME NEW s \in Session, NEW c \in Cmd, SendCommand(s, c)
      PROVE  TypeOK'
  <2>1. s \in 0..MaxSessions
    BY DEF Session
  <2>2. cmd' \in [Cmd -> CommandRow]
    <3>1. [st |-> "pending", sess |-> s, age |-> 0] \in CommandRow
      BY <1>0, <2>1 DEF CommandRow
    <3>2. QED
      BY <1>4, <3>1 DEF SendCommand, TypeOK
  <2>3. sess' \in [Session -> SessionRow]
    <3>1. [sess[s] EXCEPT !.idle = 0] \in SessionRow
      BY <1>0 DEF TypeOK, SessionRow
    <3>2. QED
      BY <1>4, <3>1 DEF SendCommand, TypeOK
  <2>4. QED
    BY <1>4, <2>2, <2>3 DEF SendCommand, TypeOK, agentVars
<1>5. QED
  BY <1>1, <1>2, <1>3, <1>4 DEF Dashboard

\* A step of the server does.
LEMMA ServerType ==
  ASSUME TypeOK, Server
  PROVE  TypeOK'
<1> USE TerminalAssumption DEF TerminalAssumption
<1>0. 0 \in 0..(IdleTimeout + 1) /\ 0 \in 0..(StuckTimeout + 1) /\ 0 \in 0..MaxCmds
  OBVIOUS
<1>1. CASE BeginSweep
  BY <1>1 DEF BeginSweep, StuckCommands, TypeOK, agentVars
<1>2. CASE EndSweep
  <2>1. sweeping \in SUBSET Cmd
    BY DEF TypeOK
  <2>2. cmd' \in [Cmd -> CommandRow] /\ hist' \in [Cmd -> Counts]
    BY <1>2, <2>1, ResetCommandsType DEF EndSweep
  <2>3. sess' \in [Session -> SessionRow]
    BY <1>2, ExpiredSessionsType DEF EndSweep
  <2>4. QED
    BY <1>2, <2>2, <2>3 DEF EndSweep, TypeOK, agentVars
<1>3. ASSUME NEW m \in net, HandleRunning(m)
      PROVE  TypeOK'
  <2>1. m \in Request /\ net' \subseteq Request
    BY <1>3 DEF TypeOK, HandleRunning
  <2>2. cmd' \in [Cmd -> CommandRow]
    <3>1. m.cmd \in Cmd
      BY <2>1 DEF Request
    <3>2. [cmd[m.cmd] EXCEPT !.st = "running", !.age = 0] \in CommandRow
      BY <1>0, <3>1 DEF TypeOK, CommandRow
    <3>3. QED
      BY <1>3, <3>1, <3>2 DEF HandleRunning, TypeOK
  <2>3. hist' \in [Cmd -> Counts]
    <3>1. m.cmd \in Cmd
      BY <2>1 DEF Request
    <3>2. [hist[m.cmd] EXCEPT !.claims = @ + 1] \in Counts
      BY <3>1, CountsType DEF TypeOK
    <3>3. QED
      BY <1>3, <3>1, <3>2 DEF HandleRunning, TypeOK
  <2>4. QED
    BY <1>0, <1>3, <2>1, <2>2, <2>3 DEF HandleRunning, TypeOK
<1>4. ASSUME NEW m \in net, HandleOutput(m)
      PROVE  TypeOK'
  <2>1. sess' \in [Session -> SessionRow]
    <3>1. \A s \in Session : [sess[s] EXCEPT !.idle = 0] \in SessionRow
      BY <1>0 DEF TypeOK, SessionRow
    <3>2. QED
      BY <1>4, <3>1 DEF HandleOutput, TypeOK
  <2>2. QED
    BY <1>4, <2>1 DEF HandleOutput, TypeOK
<1>5. ASSUME NEW m \in net, HandleDone(m)
      PROVE  TypeOK'
  <2>1. cmd' \in [Cmd -> CommandRow]
    <3>1. \A c \in Cmd : /\ [cmd[c] EXCEPT !.st = "done"] \in CommandRow
                         /\ [cmd[c] EXCEPT !.st = "error"] \in CommandRow
      BY DEF TypeOK, CommandRow
    <3>2. QED
      BY <1>5, <3>1 DEF HandleDone, TypeOK
  <2>2. QED
    BY <1>0, <1>5, <2>1 DEF HandleDone, TypeOK
<1>6. QED
  BY <1>1, <1>2, <1>3, <1>4, <1>5 DEF Server

\* A step of the worker does.
LEMMA WorkerType ==
  ASSUME TypeOK, WorkerInv, Worker
  PROVE  TypeOK'
<1> USE TerminalAssumption DEF TerminalAssumption
<1>0. NoProcess \in Process
  BY DEF NoProcess, Process
<1>1. CASE Poll
  <2> DEFINE offer == Offered(ExpiredSessions, ResetCommands(StuckCommands))
  <2>1. offer \in SUBSET Cmd
    BY DEF Offered
  <2>2. todo' \in Seq(Cmd) /\ faults' \in 0..MaxFaults
    <3>1. CASE todo' \in {q \in [1..Cardinality(offer) -> offer] :
                            \A i, j \in 1..Cardinality(offer) : q[i] = q[j] => i = j}
               /\ UNCHANGED faults
      BY <2>1, <3>1, OfferIsList DEF TypeOK
    <3>2. CASE faults < MaxFaults /\ faults' = faults + 1 /\ UNCHANGED todo
      BY <3>2 DEF TypeOK
    <3>3. QED
      BY <1>1, <3>1, <3>2 DEF Poll
  <2>3. cmd' \in [Cmd -> CommandRow] /\ hist' \in [Cmd -> Counts]
    BY <1>1, ResetCommandsType, StuckCommandsType DEF Poll
  <2>4. sess' \in [Session -> SessionRow]
    BY <1>1, ExpiredSessionsType DEF Poll
  <2>5. QED
    BY <1>1, <2>2, <2>3, <2>4 DEF Poll, TypeOK
<1>2. CASE AskRunning
  <2>1. Head(todo) \in Cmd /\ Tail(todo) \in Seq(Cmd)
    BY <1>2 DEF AskRunning, TypeOK
  <2>2. Head(todo) \in 0..MaxCmds
    BY <2>1 DEF Cmd
  <2>3. net' \subseteq Request
    <3>1. [kind |-> "running", cmd |-> Head(todo), ok |-> FALSE, waited |-> TRUE] \in Request
      BY <2>1 DEF Request
    <3>2. QED
      BY <1>2, <3>1 DEF AskRunning, TypeOK
  <2>4. QED
    BY <1>2, <2>1, <2>2, <2>3 DEF AskRunning, TypeOK, dbVars
<1>3. CASE StartCommand
  <2>1. cur \in 0..MaxCmds
    BY DEF TypeOK
  <2>2. proc' \in Process
    <3>1. PICK h \in BOOLEAN : proc' = [NoProcess EXCEPT !.alive = TRUE, !.held = h, !.timer = TRUE]
      BY <1>3 DEF StartCommand
    <3>2. h \in BOOLEAN
      BY <3>1
    <3>3. QED
      BY <1>0, <3>1, <3>2 DEF Process
  <2>3. hist' \in [Cmd -> Counts]
    <3>1. CASE cur \in Cmd
      BY <1>3, <3>1, CountsType DEF StartCommand, TypeOK
    <3>2. CASE cur \notin Cmd
      BY <1>3, <3>2 DEF StartCommand, TypeOK
    <3>3. QED
      BY <3>1, <3>2
  <2>4. QED
    BY <1>3, <2>2, <2>3 DEF StartCommand, TypeOK, dbVars
<1>4. CASE StartFails
  BY <1>0, <1>4 DEF StartFails, TypeOK, dbVars
<1>5. CASE PostOutput
  <2>1. proc' \in Process
    <3>1. proc.posts + 1 \in 0..MaxPosts
      BY <1>5 DEF PostOutput, TypeOK, Process
    <3>2. [proc EXCEPT !.posts = proc.posts + 1] \in Process
      BY <3>1 DEF TypeOK, Process
    <3>3. QED
      BY <1>5, <3>2 DEF PostOutput
  <2>2. net' \subseteq Request
    <3>1. cur \in Cmd
      BY <1>5 DEF WorkerInv, PostOutput
    <3>2. [kind |-> "output", cmd |-> cur, ok |-> FALSE, waited |-> TRUE] \in Request
      BY <3>1 DEF Request
    <3>3. QED
      BY <1>5, <3>2 DEF PostOutput, TypeOK
  <2>3. QED
    BY <1>5, <2>1, <2>2 DEF PostOutput, TypeOK, dbVars
<1>6. CASE KillTimer
  <2>1. proc' \in Process
    <3>1. (proc.ok /\ ~proc.alive) \in BOOLEAN
      OBVIOUS
    <3>2. QED
      BY <1>6, <3>1 DEF KillTimer, TypeOK, Process
  <2>2. net' \subseteq Request
    <3>1. cur \in Cmd
      BY <1>6 DEF WorkerInv, KillTimer
    <3>2. [kind |-> "output", cmd |-> cur, ok |-> FALSE, waited |-> FALSE] \in Request
      BY <3>1 DEF Request
    <3>3. QED
      BY <1>6, <3>2 DEF KillTimer, TypeOK
  <2>3. QED
    BY <1>6, <2>1, <2>2 DEF KillTimer, TypeOK, dbVars
<1>7. CASE FinishCommand
  <2>1. cur \in Cmd
    BY <1>7 DEF WorkerInv, FinishCommand
  <2>2. net' \subseteq Request
    <3>1. proc.ok \in BOOLEAN
      BY DEF TypeOK, Process
    <3>2. [kind |-> "done", cmd |-> cur, ok |-> proc.ok, waited |-> TRUE] \in Request
      BY <2>1, <3>1 DEF Request
    <3>3. QED
      BY <1>7, <3>2 DEF FinishCommand, TypeOK
  <2>3. QED
    BY <1>0, <1>7, <2>2 DEF FinishCommand, TypeOK, dbVars
<1>8. QED
  BY <1>1, <1>2, <1>3, <1>4, <1>5, <1>6, <1>7 DEF Worker

\* A step of the environment does.
LEMMA EnvironmentType ==
  ASSUME TypeOK, Environment
  PROVE  TypeOK'
<1> USE TerminalAssumption DEF TerminalAssumption
<1>0. NoProcess \in Process /\ 0 \in 0..MaxCmds
  BY DEF NoProcess, Process
<1>1. CASE ShellExits
  <2>1. PICK ok \in BOOLEAN : proc' = [proc EXCEPT !.alive = FALSE, !.ok = ok]
    BY <1>1 DEF ShellExits
  <2>2. proc' \in Process
    BY <2>1 DEF TypeOK, Process
  <2>3. QED
    BY <1>1, <2>2 DEF ShellExits, TypeOK, dbVars
<1>2. CASE PipesClose \/ OutputCloses
  BY <1>2 DEF PipesClose, OutputCloses, TypeOK, dbVars, Process
<1>3. Abandoned \subseteq Request
  <2>1. ASSUME NEW m \in net
        PROVE  [m EXCEPT !.waited = FALSE] \in Request
    BY DEF TypeOK, Request
  <2>2. QED
    BY <2>1 DEF Abandoned
<1>4. CASE TimeOut
  BY <1>0, <1>3, <1>4 DEF TimeOut, TypeOK, dbVars
<1>5. CASE Crash
  <2>1. <<>> \in Seq(Cmd)
    OBVIOUS
  <2>2. QED
    BY <1>0, <1>3, <1>5, <2>1 DEF Crash, TypeOK, dbVars
<1>6. CASE Restart
  BY <1>6 DEF Restart, TypeOK, dbVars
<1>7. CASE Tick
  <2>1. sess' \in [Session -> SessionRow]
    <3>1. ASSUME NEW s \in Session
          PROVE  [sess[s] EXCEPT !.idle = Older(@, IdleTimeout)] \in SessionRow
      BY OlderIsBounded DEF TypeOK, SessionRow
    <3>2. QED
      BY <1>7, <3>1 DEF Tick, TypeOK
  <2>2. cmd' \in [Cmd -> CommandRow]
    <3>1. ASSUME NEW c \in Cmd
          PROVE  [cmd[c] EXCEPT !.age = Older(@, StuckTimeout)] \in CommandRow
      BY OlderIsBounded DEF TypeOK, CommandRow
    <3>2. QED
      BY <1>7, <3>1 DEF Tick, TypeOK
  <2>3. proc' \in Process
    <3>1. [proc EXCEPT !.age = Older(@, CmdTimeout)] \in Process
      BY OlderIsBounded DEF TypeOK, Process
    <3>2. QED
      BY <1>7, <3>1 DEF Tick, TypeOK
  <2>4. QED
    BY <1>7, <2>1, <2>2, <2>3 DEF Tick, TypeOK
<1>8. QED
  BY <1>1, <1>2, <1>4, <1>5, <1>6, <1>7 DEF Environment

\* Sending one request when none is waited for: the worker then waits for it.
LEMMA SendKeepsWorkerInv ==
  ASSUME NEW k \in {"running", "output", "done"}, NEW b,
         \A m \in net : ~m.waited,
         cur' \in Cmd, wpc' = Awaiting(k),
         net' = net \union {[kind |-> k, cmd |-> cur', ok |-> b, waited |-> TRUE]}
  PROVE  WorkerInv'
<1> DEFINE new == [kind |-> k, cmd |-> cur', ok |-> b, waited |-> TRUE]
<1>1. new.kind = k /\ new.cmd = cur' /\ new.waited
  OBVIOUS
<1> HIDE DEF new
<1>2. \A m \in net' : m.waited => m = new
  <2>1. net' = net \union {new}
    BY DEF new
  <2>2. QED
    BY <2>1
<1>3. QED
  BY <1>1, <1>2 DEF WorkerInv

\* The worker's command and what it waits for stay in step, in every action.
LEMMA WorkerInvStep ==
  ASSUME TypeOK, WorkerInv, Next
  PROVE  WorkerInv'
<1>0. \A m \in net : m.kind \in {"running", "output", "done"}
  BY DEF TypeOK, Request
<1>1. CASE Dashboard
  BY <1>1 DEF Dashboard, OpenSession, CommitSession, CloseSession, SendCommand, agentVars, WorkerInv
<1>2. CASE BeginSweep \/ EndSweep
  BY <1>2 DEF BeginSweep, EndSweep, agentVars, WorkerInv
<1>3. ASSUME NEW m \in net, HandleRunning(m)
      PROVE  WorkerInv'
  <2>1. CASE m.waited
    BY <1>3, <2>1 DEF HandleRunning, WorkerInv, Awaiting, TypeOK, Request
  <2>2. CASE ~m.waited
    BY <1>3, <2>2 DEF HandleRunning, WorkerInv
  <2>3. QED
    BY <2>1, <2>2
<1>4. ASSUME NEW m \in net, HandleOutput(m)
      PROVE  WorkerInv'
  <2>1. CASE m.waited
    BY <1>4, <2>1 DEF HandleOutput, WorkerInv, Awaiting, TypeOK, Request
  <2>2. CASE ~m.waited
    BY <1>4, <2>2 DEF HandleOutput, WorkerInv
  <2>3. QED
    BY <2>1, <2>2
<1>5. ASSUME NEW m \in net, HandleDone(m)
      PROVE  WorkerInv'
  <2>1. CASE m.waited
    BY <1>5, <2>1 DEF HandleDone, WorkerInv, Awaiting, TypeOK, Request
  <2>2. CASE ~m.waited
    BY <1>5, <2>2 DEF HandleDone, WorkerInv
  <2>3. QED
    BY <2>1, <2>2
<1>6. CASE Worker
  <2>0. wpc \in {"poll", "granted", "exec"} => \A m \in net : ~m.waited
    BY <1>0 DEF WorkerInv, Awaiting
  <2>1. CASE Poll
    BY <2>1 DEF Poll, WorkerInv
  <2>2. CASE AskRunning
    <3>1. Head(todo) \in Cmd
      BY <2>2 DEF AskRunning, TypeOK
    <3>2. QED
      BY <2>0, <2>2, <3>1, SendKeepsWorkerInv DEF AskRunning, Awaiting
  <2>3. CASE StartCommand \/ StartFails
    BY <2>0, <2>3 DEF StartCommand, StartFails, WorkerInv
  <2>4. CASE PostOutput
    BY <2>0, <2>4, SendKeepsWorkerInv DEF PostOutput, WorkerInv, Awaiting
  <2>5. CASE KillTimer
    BY <2>5 DEF KillTimer, WorkerInv
  <2>6. CASE FinishCommand
    BY <2>0, <2>6, SendKeepsWorkerInv DEF FinishCommand, WorkerInv, Awaiting
  <2>7. QED
    BY <1>6, <2>1, <2>2, <2>3, <2>4, <2>5, <2>6 DEF Worker
<1>7. CASE Environment
  <2>1. CASE ShellExits \/ PipesClose \/ OutputCloses \/ Tick
    BY <2>1 DEF ShellExits, PipesClose, OutputCloses, Tick, WorkerInv
  <2>2. \A m \in Abandoned : ~m.waited
    BY DEF Abandoned, TypeOK, Request
  <2>3. CASE TimeOut
    BY <2>2, <2>3 DEF TimeOut, WorkerInv
  <2>4. CASE Crash
    BY <2>2, <2>4 DEF Crash, WorkerInv
  <2>5. CASE Restart
    BY <1>0, <2>5 DEF Restart, WorkerInv, Awaiting
  <2>6. QED
    BY <1>7, <2>1, <2>3, <2>4, <2>5 DEF Environment
<1>8. QED
  BY <1>1, <1>2, <1>3, <1>4, <1>5, <1>6, <1>7 DEF Next, Server

\* Type correctness: every reachable state of the terminal is well formed, for
\* every number of sessions, commands and faults and every choice of time-outs;
\* and the worker never takes a reply for that of another request.
THEOREM TypeCorrect == Spec => [](TypeOK /\ WorkerInv)
<1>1. Init => TypeOK /\ WorkerInv
  <2> SUFFICES ASSUME Init PROVE TypeOK /\ WorkerInv
    OBVIOUS
  <2> USE TerminalAssumption DEF TerminalAssumption
  <2>1. 0 \in 0..MaxSessions /\ 0 \in 0..MaxCmds /\ 0 \in 0..(IdleTimeout + 1)
        /\ 0 \in 0..(StuckTimeout + 1) /\ 0 \in 0..MaxFaults
    OBVIOUS
  <2>2. NoProcess \in Process
    BY DEF NoProcess, Process
  <2>3. <<>> \in Seq(Cmd)
    OBVIOUS
  <2>4. QED
    BY <2>1, <2>2, <2>3 DEF Init, TypeOK, WorkerInv, SessionRow, CommandRow, Counts
<1>2. TypeOK /\ WorkerInv /\ [Next]_vars => (TypeOK /\ WorkerInv)'
  <2>1. ASSUME TypeOK, WorkerInv, Next
        PROVE  (TypeOK /\ WorkerInv)'
    BY <2>1, WorkerInvStep, DashboardType, ServerType, WorkerType, EnvironmentType DEF Next
  <2>2. ASSUME TypeOK, WorkerInv, UNCHANGED vars
        PROVE  (TypeOK /\ WorkerInv)'
    BY <2>2 DEF vars, TypeOK, WorkerInv
  <2>3. QED
    BY <2>1, <2>2
<1>3. QED
  BY <1>1, <1>2, PTL DEF Spec

-----------------------------------------------------------------------------
(* No command is executed twice without a reset in between.                *)

Sent(c) == cmd[c].st # "none"

\* What the status of a command says about its history.
CountInv ==
  \A c \in Cmd :
    /\ hist[c].starts <= hist[c].claims
    /\ cmd[c].st = "none" => hist[c].claims = 0 /\ hist[c].resets = 0
    /\ cmd[c].st = "pending" => hist[c].claims <= hist[c].resets
    /\ cmd[c].st \in {"running", "done", "error"} =>
          hist[c].claims > 0 /\ hist[c].claims <= hist[c].resets + 1

\* What is in flight is about commands that were sent; an outcome, and whatever
\* the worker does with a command once it is granted, is about a claimed one.
FlightInv ==
  /\ sweeping \subseteq {c \in Cmd : Sent(c)}
  /\ \A m \in net : Sent(m.cmd) /\ (m.kind = "done" => hist[m.cmd].claims > 0)
  /\ \A i \in DOMAIN todo : Sent(todo[i])
  /\ wpc \in {"granted", "exec", "post", "ending"} => hist[cur].claims > 0 /\ Sent(cur)
  /\ wpc = "granted" => hist[cur].starts < hist[cur].claims

\* What a clean-up does to the rows and to the history.
LEMMA ResetFacts ==
  ASSUME TypeOK, NEW C \in SUBSET Cmd, NEW c \in Cmd
  PROVE  /\ ResetCommands(C)[c].sess = cmd[c].sess
         /\ ResetCommands(C)[c].st = IF c \in C THEN "pending" ELSE cmd[c].st
         /\ CountResets(C)[c].claims = hist[c].claims
         /\ CountResets(C)[c].starts = hist[c].starts
         /\ CountResets(C)[c].resets = IF c \in C THEN hist[c].resets + 1 ELSE hist[c].resets
BY DEF TypeOK, CommandRow, Counts, ResetCommands, CountResets

\* A clean-up of sent commands keeps both invariants of the history.
LEMMA ResetKeepsCounts ==
  ASSUME TypeOK, CountInv, NEW C \in SUBSET {c \in Cmd : Sent(c)},
         cmd' = ResetCommands(C), hist' = CountResets(C)
  PROVE  CountInv'
<1> SUFFICES ASSUME NEW c \in Cmd
             PROVE  /\ hist'[c].starts <= hist'[c].claims
                    /\ cmd'[c].st = "none" => hist'[c].claims = 0 /\ hist'[c].resets = 0
                    /\ cmd'[c].st = "pending" => hist'[c].claims <= hist'[c].resets
                    /\ cmd'[c].st \in {"running", "done", "error"} =>
                          hist'[c].claims > 0 /\ hist'[c].claims <= hist'[c].resets + 1
  BY DEF CountInv
<1>1. hist[c] \in Counts /\ cmd[c].st \in {"none", "pending", "running", "done", "error"}
  BY DEF TypeOK, CommandRow
<1>2. hist[c].starts \in Nat /\ hist[c].claims \in Nat /\ hist[c].resets \in Nat
  BY <1>1 DEF Counts
<1>3. C \in SUBSET Cmd
  OBVIOUS
<1>4. CASE c \in C
  <2>1. cmd[c].st # "none"
    BY <1>4 DEF Sent
  <2>2. cmd'[c].st = "pending" /\ hist'[c].claims = hist[c].claims
        /\ hist'[c].starts = hist[c].starts /\ hist'[c].resets = hist[c].resets + 1
    BY <1>3, <1>4, ResetFacts
  <2>3. QED
    BY <1>1, <1>2, <2>1, <2>2 DEF CountInv
<1>5. CASE c \notin C
  <2>1. cmd'[c].st = cmd[c].st /\ hist'[c].claims = hist[c].claims
        /\ hist'[c].starts = hist[c].starts /\ hist'[c].resets = hist[c].resets
    BY <1>3, <1>5, ResetFacts
  <2>2. QED
    BY <2>1 DEF CountInv
<1>6. QED
  BY <1>4, <1>5

\* The row of a command that starts running.
LEMMA RunningRow ==
  ASSUME TypeOK, NEW c \in Cmd,
         cmd' = [cmd EXCEPT ![c] = [@ EXCEPT !.st = "running", !.age = 0]]
  PROVE  \A d \in Cmd : /\ cmd'[d].st = IF d = c THEN "running" ELSE cmd[d].st
                        /\ cmd'[d].sess = cmd[d].sess
<1> DEFINE row == [cmd[c] EXCEPT !.st = "running", !.age = 0]
<1>1. row.st = "running" /\ row.sess = cmd[c].sess
  BY DEF TypeOK, CommandRow
<1>2. cmd' = [cmd EXCEPT ![c] = row]
  OBVIOUS
<1> HIDE DEF row
<1>3. QED
  BY <1>1, <1>2 DEF TypeOK

\* What is stuck was sent.
LEMMA StuckWasSent == StuckCommands \in SUBSET {c \in Cmd : Sent(c)}
BY DEF StuckCommands, Stuck, Sent

\* Every action keeps the relation between status and history.
LEMMA CountInvStep ==
  ASSUME TypeOK, WorkerInv, CountInv, FlightInv, Next
  PROVE  CountInv'
<1>0. \A c \in Cmd : /\ hist[c].claims \in Nat /\ hist[c].starts \in Nat /\ hist[c].resets \in Nat
                     /\ cmd[c].st \in {"none", "pending", "running", "done", "error"}
  BY DEF TypeOK, Counts, CommandRow
<1>1. ASSUME UNCHANGED <<cmd, hist>>
      PROVE  CountInv'
  BY <1>1 DEF CountInv
<1>2. CASE Dashboard
  <2>1. ASSUME NEW u \in Users, OpenSession(u)
        PROVE  CountInv'
    BY <1>1, <2>1 DEF OpenSession
  <2>2. ASSUME NEW o \in opening, CommitSession(o)
        PROVE  CountInv'
    BY <2>2, StuckWasSent, ResetKeepsCounts DEF CommitSession
  <2>3. ASSUME NEW s \in Session, CloseSession(s)
        PROVE  CountInv'
    BY <1>1, <2>3 DEF CloseSession
  <2>4. ASSUME NEW s \in Session, NEW c \in Cmd, SendCommand(s, c)
        PROVE  CountInv'
    <3>1. \A d \in Cmd : cmd'[d].st = IF d = c THEN "pending" ELSE cmd[d].st
      BY <2>4 DEF SendCommand, TypeOK
    <3>2. QED
      BY <1>0, <2>4, <3>1 DEF SendCommand, CountInv
  <2>5. QED
    BY <1>2, <2>1, <2>2, <2>3, <2>4 DEF Dashboard
<1>3. CASE BeginSweep
  BY <1>1, <1>3 DEF BeginSweep
<1>4. CASE EndSweep
  BY <1>4, ResetKeepsCounts DEF EndSweep, FlightInv
<1>5. ASSUME NEW m \in net, HandleRunning(m)
      PROVE  CountInv'
  <2>1. m.cmd \in Cmd
    BY DEF TypeOK, Request
  <2>2. CASE MayRun(m.cmd)
    <3>0. /\ cmd' = [cmd EXCEPT ![m.cmd] = [@ EXCEPT !.st = "running", !.age = 0]]
          /\ hist' = [hist EXCEPT ![m.cmd].claims = @ + 1]
      BY <1>5, <2>2 DEF HandleRunning
    <3>1. \A d \in Cmd : cmd'[d].st = IF d = m.cmd THEN "running" ELSE cmd[d].st
      BY <2>1, <3>0, RunningRow DEF TypeOK
    <3>2. \A d \in Cmd : /\ hist'[d].claims = IF d = m.cmd THEN hist[d].claims + 1 ELSE hist[d].claims
                         /\ hist'[d].starts = hist[d].starts
                         /\ hist'[d].resets = hist[d].resets
      BY <2>1, <3>0 DEF TypeOK, Counts
    <3>3. QED
      BY <1>0, <2>2, <3>1, <3>2 DEF CountInv, MayRun
  <2>3. CASE ~MayRun(m.cmd)
    BY <1>1, <1>5, <2>3 DEF HandleRunning
  <2>4. QED
    BY <2>2, <2>3
<1>6. ASSUME NEW m \in net, HandleOutput(m)
      PROVE  CountInv'
  BY <1>1, <1>6 DEF HandleOutput
<1>7. ASSUME NEW m \in net, HandleDone(m)
      PROVE  CountInv'
  <2>1. m.cmd \in Cmd /\ hist[m.cmd].claims > 0
    BY <1>7 DEF TypeOK, Request, FlightInv, HandleDone
  <2>2. \A d \in Cmd : d # m.cmd => cmd'[d] = cmd[d]
    BY <1>7, <2>1 DEF HandleDone, TypeOK
  <2>3. cmd'[m.cmd].st \in {"done", "error"}
    BY <1>7, <2>1 DEF HandleDone, TypeOK, CommandRow
  <2>4. UNCHANGED hist
    BY <1>7 DEF HandleDone
  <2>5. QED
    BY <1>0, <2>1, <2>2, <2>3, <2>4 DEF CountInv
<1>8. CASE Worker
  <2>1. CASE Poll
    BY <2>1, StuckWasSent, ResetKeepsCounts DEF Poll
  <2>2. CASE StartCommand
    <3>0. wpc = "granted" /\ hist' = [hist EXCEPT ![cur].starts = @ + 1] /\ UNCHANGED dbVars
      BY <2>2 DEF StartCommand
    <3>1. cur \in Cmd /\ hist[cur].starts < hist[cur].claims
      BY <3>0 DEF WorkerInv, FlightInv
    <3>2. \A d \in Cmd : /\ hist'[d].starts = IF d = cur THEN hist[d].starts + 1 ELSE hist[d].starts
                         /\ hist'[d].claims = hist[d].claims
                         /\ hist'[d].resets = hist[d].resets
      BY <3>0, <3>1 DEF TypeOK, Counts
    <3>3. UNCHANGED cmd
      BY <3>0 DEF dbVars
    <3>4. QED
      BY <1>0, <3>1, <3>2, <3>3 DEF CountInv
  <2>3. CASE FinishCommand
    BY <2>3 DEF FinishCommand, dbVars, CountInv
  <2>4. QED
    BY <1>1, <1>8, <2>1, <2>2, <2>3
       DEF Worker, AskRunning, StartFails, PostOutput, KillTimer, dbVars
<1>9. CASE Environment
  <2>1. CASE Tick
    <3>1. \A d \in Cmd : cmd'[d].st = cmd[d].st
      BY <2>1 DEF Tick, TypeOK, CommandRow
    <3>2. UNCHANGED hist
      BY <2>1 DEF Tick
    <3>3. QED
      BY <3>1, <3>2 DEF CountInv
  <2>2. QED
    BY <1>1, <1>9, <2>1 DEF Environment, ShellExits, PipesClose, OutputCloses, TimeOut, Crash, Restart, dbVars
<1>10. QED
  BY <1>2, <1>3, <1>4, <1>5, <1>6, <1>7, <1>8, <1>9 DEF Next, Server

\* A clean-up of sent commands unsends none and leaves the claims alone.
LEMMA ResetKeepsSent ==
  ASSUME TypeOK, NEW C \in SUBSET {c \in Cmd : Sent(c)}, NEW c \in Cmd,
         cmd' = ResetCommands(C), hist' = CountResets(C)
  PROVE  /\ Sent(c)' <=> Sent(c)
         /\ hist'[c].claims = hist[c].claims /\ hist'[c].starts = hist[c].starts
<1>1. C \in SUBSET Cmd
  OBVIOUS
<1>2. c \in C => Sent(c)
  OBVIOUS
<1>3. QED
  BY <1>1, <1>2, ResetFacts DEF Sent

\* If no command is unsent and nobody forgets a claim or starts a command, what
\* is in flight stays about sent and claimed commands, so long as nothing is added.
LEMMA FlightMonotone ==
  ASSUME TypeOK, WorkerInv, FlightInv,
         \A c \in Cmd : /\ Sent(c) => Sent(c)'
                       /\ hist'[c].claims \in Nat /\ hist'[c].claims >= hist[c].claims
                       /\ hist'[c].starts = hist[c].starts,
         sweeping' \subseteq sweeping, net' \subseteq net, todo' = todo,
         \/ wpc' = wpc /\ cur' = cur
         \/ wpc' \in {"poll", "down"}
         \/ wpc' = "exec" /\ wpc \in {"post", "granted"} /\ cur' = cur
  PROVE  FlightInv'
<1>1. \A c \in Cmd : hist[c].claims \in Nat /\ hist[c].starts \in Nat
  BY DEF TypeOK, Counts
<1>2. \A m \in net : m.cmd \in Cmd
  BY DEF TypeOK, Request
<1>3. \A i \in DOMAIN todo : todo[i] \in Cmd
  BY DEF TypeOK
<1>4. wpc \in {"granted", "exec", "post", "ending"} => cur \in Cmd
  BY DEF WorkerInv
<1>5. sweeping' \subseteq {c \in Cmd : Sent(c)'}
  BY DEF FlightInv
<1>6. \A m \in net' : Sent(m.cmd)' /\ (m.kind = "done" => hist'[m.cmd].claims > 0)
  BY <1>1, <1>2 DEF FlightInv
<1>7. \A i \in DOMAIN todo' : Sent(todo[i])'
  BY <1>3 DEF FlightInv
<1>8. wpc' \in {"granted", "exec", "post", "ending"} => hist'[cur'].claims > 0 /\ Sent(cur)'
  BY <1>1, <1>4 DEF FlightInv, Sent
<1>9. wpc' = "granted" => hist'[cur'].starts < hist'[cur'].claims
  BY <1>1, <1>4 DEF FlightInv
<1>10. QED
  BY <1>5, <1>6, <1>7, <1>8, <1>9 DEF FlightInv, Sent

\* What a poll hands to the worker is pending, and the oldest of its session.
LEMMA PollOffers ==
  ASSUME Poll, NEW i \in DOMAIN todo'
  PROVE  \E s \in Session : OldestPending(cmd', s, todo'[i]) /\ todo'[i] \in Cmd
<1> DEFINE offer == Offered(ExpiredSessions, ResetCommands(StuckCommands))
<1>1. CASE todo' \in {q \in [1..Cardinality(offer) -> offer] :
                         \A j, k \in 1..Cardinality(offer) : q[j] = q[k] => j = k}
  <2>1. todo'[i] \in offer
    BY <1>1
  <2>2. cmd' = ResetCommands(StuckCommands)
    BY DEF Poll
  <2>3. QED
    BY <2>1, <2>2 DEF Offered
<1>2. CASE todo' = todo
  BY <1>2 DEF Poll
<1>3. QED
  BY <1>1, <1>2 DEF Poll

\* Every action keeps what is in flight about sent and claimed commands.
LEMMA FlightInvStep ==
  ASSUME TypeOK, WorkerInv, CountInv, FlightInv, Next
  PROVE  FlightInv'
<1>0. \A c \in Cmd : hist[c].claims \in Nat /\ hist[c].starts \in Nat
  BY DEF TypeOK, Counts
<1>1. ASSUME UNCHANGED <<cmd, hist>>, sweeping' \subseteq sweeping, net' \subseteq net, todo' = todo,
             \/ wpc' = wpc /\ cur' = cur
             \/ wpc' \in {"poll", "down"}
             \/ wpc' = "exec" /\ wpc \in {"post", "granted"} /\ cur' = cur
      PROVE  FlightInv'
  BY <1>0, <1>1, FlightMonotone DEF Sent
<1>2. CASE Dashboard
  <2>1. ASSUME NEW o \in opening, CommitSession(o)
        PROVE  FlightInv'
    <3>1. \A c \in Cmd : /\ Sent(c)' <=> Sent(c)
                         /\ hist'[c].claims = hist[c].claims /\ hist'[c].starts = hist[c].starts
      BY <2>1, StuckWasSent, ResetKeepsSent DEF CommitSession
    <3>2. UNCHANGED <<sweeping, net, todo, wpc, cur>>
      BY <2>1 DEF CommitSession, agentVars
    <3>3. QED
      BY <1>0, <3>1, <3>2, FlightMonotone
  <2>2. ASSUME NEW s \in Session, NEW c \in Cmd, SendCommand(s, c)
        PROVE  FlightInv'
    <3>1. \A d \in Cmd : Sent(d) => Sent(d)'
      BY <2>2 DEF SendCommand, TypeOK, Sent
    <3>2. UNCHANGED <<hist, sweeping, net, todo, wpc, cur>>
      BY <2>2 DEF SendCommand, agentVars
    <3>3. QED
      BY <1>0, <3>1, <3>2, FlightMonotone
  <2>3. QED
    BY <1>1, <1>2, <2>1, <2>2 DEF Dashboard, OpenSession, CloseSession, agentVars
<1>3. CASE BeginSweep
  <2>1. sweeping' \subseteq {c \in Cmd : Sent(c)}
    BY <1>3, StuckWasSent DEF BeginSweep
  <2>2. UNCHANGED <<cmd, net, wpc, todo, cur, hist>>
    BY <1>3 DEF BeginSweep, agentVars
  <2>3. QED
    BY <2>1, <2>2 DEF FlightInv, Sent
<1>4. CASE EndSweep
  <2>1. \A c \in Cmd : /\ Sent(c)' <=> Sent(c)
                       /\ hist'[c].claims = hist[c].claims /\ hist'[c].starts = hist[c].starts
    BY <1>4, ResetKeepsSent DEF EndSweep, FlightInv
  <2>2. UNCHANGED <<net, todo, wpc, cur>> /\ sweeping' = {}
    BY <1>4 DEF EndSweep, agentVars
  <2>3. QED
    BY <1>0, <2>1, <2>2, FlightMonotone
<1>5. ASSUME NEW m \in net, HandleRunning(m)
      PROVE  FlightInv'
  <2>1. m.cmd \in Cmd /\ (m.waited => m.cmd = cur)
    BY <1>5 DEF TypeOK, Request, WorkerInv
  <2>2. CASE MayRun(m.cmd)
    <3>1. /\ cmd' = [cmd EXCEPT ![m.cmd] = [@ EXCEPT !.st = "running", !.age = 0]]
          /\ hist' = [hist EXCEPT ![m.cmd].claims = @ + 1]
          /\ wpc' = (IF m.waited THEN "granted" ELSE wpc)
          /\ UNCHANGED <<sweeping, todo, cur>> /\ net' \subseteq net
      BY <1>5, <2>2 DEF HandleRunning
    <3>2. \A d \in Cmd : Sent(d) => Sent(d)'
      <4>1. \A d \in Cmd : cmd'[d].st = IF d = m.cmd THEN "running" ELSE cmd[d].st
        BY <2>1, <3>1, RunningRow DEF TypeOK
      <4>2. QED
        BY <4>1 DEF Sent
    <3>3. \A d \in Cmd : /\ hist'[d].claims = IF d = m.cmd THEN hist[d].claims + 1 ELSE hist[d].claims
                         /\ hist'[d].starts = hist[d].starts
      BY <2>1, <3>1 DEF TypeOK, Counts
    <3>4. CASE ~m.waited
      BY <1>0, <3>1, <3>2, <3>3, <3>4, FlightMonotone
    <3>5. CASE m.waited
      <4>1. hist'[cur].starts < hist'[cur].claims /\ hist'[cur].claims > 0
        BY <1>0, <2>1, <3>3, <3>5 DEF CountInv
      <4>2. Sent(cur)'
        <5>1. Sent(cur) /\ cur' = cur
          BY <2>1, <2>2, <3>1, <3>5 DEF MayRun, Sent
        <5>2. QED
          BY <2>1, <3>2, <3>5, <5>1 DEF Sent
      <4>3. sweeping' \subseteq {c \in Cmd : Sent(c)'}
        BY <3>1, <3>2 DEF FlightInv
      <4>4. \A n \in net' : Sent(n.cmd)' /\ (n.kind = "done" => hist'[n.cmd].claims > 0)
        BY <1>0, <3>1, <3>2, <3>3 DEF FlightInv, TypeOK, Request
      <4>5. \A i \in DOMAIN todo' : Sent(todo[i])'
        <5>1. \A i \in DOMAIN todo : todo[i] \in Cmd /\ Sent(todo[i])
          BY DEF FlightInv, TypeOK
        <5>2. todo' = todo
          BY <3>1
        <5>3. QED
          BY <3>2, <5>1, <5>2 DEF Sent
      <4>6. QED
        <5>1. wpc' = "granted" /\ cur' = cur
          BY <3>1, <3>5
        <5>2. QED
          BY <4>1, <4>2, <4>3, <4>4, <4>5, <5>1 DEF FlightInv, Sent
    <3>6. QED
      BY <3>4, <3>5
  <2>3. CASE ~MayRun(m.cmd)
    BY <1>1, <1>5, <2>3 DEF HandleRunning
  <2>4. QED
    BY <2>2, <2>3
<1>6. ASSUME NEW m \in net, HandleOutput(m)
      PROVE  FlightInv'
  <2>1. m.kind = "output" /\ (m.waited => wpc = "post")
    BY <1>6 DEF HandleOutput, WorkerInv, Awaiting
  <2>2. QED
    BY <1>1, <1>6, <2>1 DEF HandleOutput
<1>7. ASSUME NEW m \in net, HandleDone(m)
      PROVE  FlightInv'
  <2>1. m.cmd \in Cmd
    BY DEF TypeOK, Request
  <2>2. \A d \in Cmd : Sent(d) => Sent(d)'
    <3>1. \A d \in Cmd : d # m.cmd => cmd'[d] = cmd[d]
      BY <1>7, <2>1 DEF HandleDone, TypeOK
    <3>2. cmd'[m.cmd].st \in {"done", "error"}
      BY <1>7, <2>1 DEF HandleDone, TypeOK, CommandRow
    <3>3. QED
      BY <3>1, <3>2 DEF Sent
  <2>3. UNCHANGED <<hist, sweeping, todo>> /\ net' \subseteq net
    BY <1>7 DEF HandleDone
  <2>4. (wpc' = wpc /\ cur' = cur) \/ wpc' = "poll"
    BY <1>7 DEF HandleDone
  <2>5. QED
    BY <1>0, <2>2, <2>3, <2>4, FlightMonotone
<1>8. CASE Environment
  <2>1. CASE Tick
    <3>1. \A d \in Cmd : cmd'[d].st = cmd[d].st
      BY <2>1 DEF Tick, TypeOK, CommandRow
    <3>2. UNCHANGED <<hist, sweeping, net, todo, wpc, cur>>
      BY <2>1 DEF Tick
    <3>3. QED
      BY <1>0, <3>1, <3>2, FlightMonotone DEF Sent
  <2>2. CASE TimeOut \/ Crash
    <3>1. \A m \in Abandoned : \E n \in net : m.cmd = n.cmd /\ m.kind = n.kind
      BY DEF Abandoned, TypeOK, Request
    <3>2. \A m \in net' : Sent(m.cmd) /\ (m.kind = "done" => hist[m.cmd].claims > 0)
      BY <2>2, <3>1 DEF TimeOut, Crash, FlightInv
    <3>3. UNCHANGED <<cmd, hist, sweeping>>
      BY <2>2 DEF TimeOut, Crash, dbVars
    <3>4. \A i \in DOMAIN todo' : Sent(todo'[i])
      BY <2>2 DEF TimeOut, Crash, FlightInv
    <3>5. \/ wpc' \in {"poll", "down"}
          \/ wpc' = "exec" /\ cur' = cur /\ wpc = "post"
      BY <2>2 DEF TimeOut, Crash
    <3>6. QED
      BY <3>2, <3>3, <3>4, <3>5 DEF FlightInv, Sent
  <2>3. QED
    BY <1>1, <1>8, <2>1, <2>2 DEF Environment, ShellExits, PipesClose, OutputCloses, Restart, dbVars
<1>9. CASE Worker
  <2>1. CASE Poll
    <3>1. \A c \in Cmd : /\ Sent(c)' <=> Sent(c)
                         /\ hist'[c].claims = hist[c].claims /\ hist'[c].starts = hist[c].starts
      BY <2>1, StuckWasSent, ResetKeepsSent DEF Poll
    <3>2. UNCHANGED <<sweeping, net, wpc, cur>> /\ wpc = "poll"
      BY <2>1 DEF Poll
    <3>3. ASSUME NEW i \in DOMAIN todo'
          PROVE  cmd'[todo'[i]].st # "none"
      <4>1. cmd'[todo'[i]].st = "pending"
        BY <2>1, PollOffers DEF OldestPending
      <4>2. QED
        BY <4>1
    <3>4. sweeping' \subseteq {c \in Cmd : Sent(c)'}
      BY <3>1, <3>2 DEF FlightInv
    <3>5. \A m \in net' : Sent(m.cmd)' /\ (m.kind = "done" => hist'[m.cmd].claims > 0)
      BY <3>1, <3>2 DEF FlightInv, TypeOK, Request
    <3>6. QED
      BY <3>2, <3>3, <3>4, <3>5 DEF FlightInv, Sent
  <2>2. CASE AskRunning
    <3>1. /\ todo # <<>> /\ todo' = Tail(todo) /\ wpc' = "ask" /\ UNCHANGED <<cmd, hist, sweeping>>
          /\ net' = net \union {[kind |-> "running", cmd |-> Head(todo), ok |-> FALSE, waited |-> TRUE]}
      BY <2>2 DEF AskRunning, dbVars
    <3>2. Sent(Head(todo)) /\ \A i \in DOMAIN Tail(todo) : Sent(Tail(todo)[i])
      <4>1. \A i \in DOMAIN Tail(todo) : i + 1 \in DOMAIN todo /\ Tail(todo)[i] = todo[i + 1]
        BY <3>1 DEF TypeOK
      <4>2. 1 \in DOMAIN todo /\ Head(todo) = todo[1]
        BY <3>1 DEF TypeOK
      <4>3. QED
        BY <4>1, <4>2 DEF FlightInv
    <3>3. QED
      BY <3>1, <3>2 DEF FlightInv, Sent
  <2>3. CASE StartCommand
    <3>1. /\ wpc = "granted" /\ wpc' = "exec" /\ UNCHANGED <<cmd, sweeping, net, todo, cur>>
          /\ hist' = [hist EXCEPT ![cur].starts = @ + 1]
      BY <2>3 DEF StartCommand, dbVars
    <3>2. \A c \in Cmd : hist'[c].claims = hist[c].claims
      BY <3>1 DEF TypeOK, Counts
    <3>3. cur \in Cmd /\ \A m \in net : m.cmd \in Cmd
      BY <3>1 DEF WorkerInv, TypeOK, Request
    <3>4. QED
      BY <3>1, <3>2, <3>3 DEF FlightInv, Sent
  <2>4. CASE PostOutput \/ KillTimer \/ FinishCommand
    <3>1. cur \in Cmd /\ hist[cur].claims > 0 /\ Sent(cur)
      BY <2>4 DEF PostOutput, KillTimer, FinishCommand, FlightInv, WorkerInv
    <3>2. \A m \in net' : m \in net \/ m.cmd = cur
      BY <2>4 DEF PostOutput, KillTimer, FinishCommand
    <3>3. \A c \in Cmd : hist'[c].claims = hist[c].claims
      BY <2>4, <3>1 DEF PostOutput, KillTimer, FinishCommand, TypeOK, Counts
    <3>4. UNCHANGED <<cmd, sweeping, todo, cur>> /\ wpc' # "granted"
      BY <2>4 DEF PostOutput, KillTimer, FinishCommand, dbVars
    <3>5. \A m \in net : m.cmd \in Cmd
      BY DEF TypeOK, Request
    <3>6. QED
      BY <3>1, <3>2, <3>3, <3>4, <3>5 DEF FlightInv, Sent
  <2>5. QED
    BY <1>1, <1>9, <2>1, <2>2, <2>3, <2>4
       DEF Worker, StartFails, PostOutput, KillTimer, FinishCommand, dbVars
<1>10. QED
  BY <1>2, <1>3, <1>4, <1>5, <1>6, <1>7, <1>8, <1>9 DEF Next, Server

\* Status and history agree in every reachable state.
THEOREM HistoryCorrect == Spec => [](CountInv /\ FlightInv)
<1>1. Init => CountInv /\ FlightInv
  BY DEF Init, CountInv, FlightInv
<1>2. (TypeOK /\ WorkerInv) /\ (CountInv /\ FlightInv) /\ [Next]_vars => (CountInv /\ FlightInv)'
  <2>1. ASSUME TypeOK, WorkerInv, CountInv, FlightInv, Next
        PROVE  (CountInv /\ FlightInv)'
    BY <2>1, CountInvStep, FlightInvStep
  <2>2. ASSUME CountInv, FlightInv, UNCHANGED vars
        PROVE  (CountInv /\ FlightInv)'
    BY <2>2 DEF vars, CountInv, FlightInv, Sent
  <2>3. QED
    BY <2>1, <2>2
<1>3. QED
  BY <1>1, <1>2, TypeCorrect, PTL DEF Spec

\* A command is executed, and handed out, at most once more than the clean-up has
\* put it back in the queue, whatever is lost, late or restarted.
THEOREM RerunNeedsResetAlways == Spec => []RerunNeedsReset
<1>1. TypeOK /\ CountInv => RerunNeedsReset
  <2> SUFFICES ASSUME TypeOK, CountInv, NEW c \in Cmd
               PROVE  hist[c].starts <= hist[c].claims /\ hist[c].claims <= hist[c].resets + 1
    BY DEF RerunNeedsReset
  <2>1. /\ hist[c].claims \in Nat /\ hist[c].resets \in Nat
        /\ cmd[c].st \in {"none", "pending", "running", "done", "error"}
    BY DEF TypeOK, Counts, CommandRow
  <2>2. QED
    BY <2>1 DEF CountInv
<1>2. QED
  BY <1>1, TypeCorrect, HistoryCorrect, PTL

-----------------------------------------------------------------------------
(* Commands of a session are handed out in the order they were sent.       *)

\* Command d was handed to the worker, or its claim is on its way or counted.
Asked(d) ==
  \/ hist[d].claims > 0
  \/ \E i \in DOMAIN todo : todo[i] = d
  \/ \E m \in net : m.kind = "running" /\ m.cmd = d

SentInOrder == \A c, d \in Cmd : c < d /\ Sent(d) => Sent(c)

AskedInOrder ==
  \A c, d \in Cmd : c < d /\ Asked(d) /\ cmd[c].sess = cmd[d].sess => hist[c].claims > 0

\* A step keeps the order if it changes no sent command's session, forgets no
\* claim and asks for nothing new.
LEMMA OrderMonotone ==
  ASSUME TypeOK, CountInv, FlightInv, SentInOrder, AskedInOrder,
         \A c \in Cmd : Sent(c) => cmd'[c].sess = cmd[c].sess,
         \A c \in Cmd : hist'[c].claims \in Nat /\ hist'[c].claims >= hist[c].claims,
         \A c \in Cmd : Asked(c)' => Asked(c)
  PROVE  AskedInOrder'
<1> SUFFICES ASSUME NEW c \in Cmd, NEW d \in Cmd, c < d, Asked(d)', cmd'[c].sess = cmd'[d].sess
             PROVE  hist'[c].claims > 0
  BY DEF AskedInOrder
<1>1. Asked(d)
  OBVIOUS
<1>2. Sent(d)
  BY <1>1 DEF Asked, CountInv, FlightInv, Sent, TypeOK, Counts
<1>3. Sent(c)
  BY <1>2 DEF SentInOrder
<1>4. cmd[c].sess = cmd[d].sess
  BY <1>2, <1>3
<1>5. hist[c].claims > 0 /\ hist[c].claims \in Nat
  BY <1>1, <1>4 DEF AskedInOrder, TypeOK, Counts
<1>6. QED
  BY <1>5

\* Sending a command is the only step that changes which commands are sent, and
\* it sends them one after the other.
LEMMA SentStep ==
  ASSUME TypeOK, FlightInv, SentInOrder, Next
  PROVE  /\ SentInOrder'
         /\ \A c \in Cmd : Sent(c) => Sent(c)' /\ cmd'[c].sess = cmd[c].sess
<1>1. ASSUME \A c \in Cmd : (Sent(c)' <=> Sent(c)) /\ cmd'[c].sess = cmd[c].sess
      PROVE  /\ SentInOrder'
             /\ \A c \in Cmd : Sent(c) => Sent(c)' /\ cmd'[c].sess = cmd[c].sess
  BY <1>1 DEF SentInOrder
<1>2. ASSUME cmd' = cmd
      PROVE  \A c \in Cmd : (Sent(c)' <=> Sent(c)) /\ cmd'[c].sess = cmd[c].sess
  BY <1>2 DEF Sent
<1>3. ASSUME NEW C \in SUBSET {c \in Cmd : Sent(c)}, cmd' = ResetCommands(C)
      PROVE  \A c \in Cmd : (Sent(c)' <=> Sent(c)) /\ cmd'[c].sess = cmd[c].sess
  <2> SUFFICES ASSUME NEW c \in Cmd
               PROVE  (cmd'[c].st # "none" <=> Sent(c)) /\ cmd'[c].sess = cmd[c].sess
    BY DEF Sent
  <2>1. C \in SUBSET Cmd /\ (c \in C => Sent(c))
    OBVIOUS
  <2>2. /\ ResetCommands(C)[c].sess = cmd[c].sess
        /\ ResetCommands(C)[c].st = IF c \in C THEN "pending" ELSE cmd[c].st
    BY <2>1, ResetFacts
  <2>3. QED
    BY <1>3, <2>1, <2>2 DEF Sent
<1>4. CASE Dashboard
  <2>1. ASSUME NEW o \in opening, CommitSession(o)
        PROVE  \A c \in Cmd : (Sent(c)' <=> Sent(c)) /\ cmd'[c].sess = cmd[c].sess
    BY <1>3, <2>1, StuckWasSent DEF CommitSession
  <2>2. ASSUME NEW s \in Session, NEW c \in Cmd, SendCommand(s, c)
        PROVE  /\ SentInOrder'
               /\ \A d \in Cmd : Sent(d) => Sent(d)' /\ cmd'[d].sess = cmd[d].sess
    <3>1. \A d \in Cmd : /\ cmd'[d].st = IF d = c THEN "pending" ELSE cmd[d].st
                         /\ d # c => cmd'[d].sess = cmd[d].sess
      BY <2>2 DEF SendCommand, TypeOK
    <3>2. /\ ~Sent(c)
          /\ \A d \in Cmd : d < c => Sent(d)
      BY <2>2 DEF SendCommand, Sent
    <3>3. \A d \in Cmd : Sent(d)' <=> d = c \/ Sent(d)
      BY <3>1 DEF Sent
    <3>4. QED
      BY <3>1, <3>2, <3>3 DEF SentInOrder
  <2>3. QED
    BY <1>1, <1>2, <1>4, <2>1, <2>2 DEF Dashboard, OpenSession, CloseSession
<1>5. CASE BeginSweep
  BY <1>1, <1>2, <1>5 DEF BeginSweep
<1>6. CASE EndSweep
  BY <1>1, <1>3, <1>6 DEF EndSweep, FlightInv
<1>7. ASSUME NEW m \in net, HandleRunning(m)
      PROVE  \A c \in Cmd : (Sent(c)' <=> Sent(c)) /\ cmd'[c].sess = cmd[c].sess
  <2>1. m.cmd \in Cmd
    BY DEF TypeOK, Request
  <2>2. CASE MayRun(m.cmd)
    <3>1. cmd' = [cmd EXCEPT ![m.cmd] = [@ EXCEPT !.st = "running", !.age = 0]]
      BY <1>7, <2>2 DEF HandleRunning
    <3>2. \A d \in Cmd : /\ cmd'[d].st = IF d = m.cmd THEN "running" ELSE cmd[d].st
                         /\ cmd'[d].sess = cmd[d].sess
      BY <2>1, <3>1, RunningRow
    <3>3. QED
      BY <2>2, <3>2 DEF MayRun, Sent
  <2>3. CASE ~MayRun(m.cmd)
    BY <1>2, <1>7, <2>3 DEF HandleRunning
  <2>4. QED
    BY <2>2, <2>3
<1>8. ASSUME NEW m \in net, HandleDone(m)
      PROVE  \A c \in Cmd : (Sent(c)' <=> Sent(c)) /\ cmd'[c].sess = cmd[c].sess
  <2>1. m.cmd \in Cmd /\ Sent(m.cmd)
    BY DEF TypeOK, Request, FlightInv
  <2>2. \A d \in Cmd : d # m.cmd => cmd'[d] = cmd[d]
    BY <1>8, <2>1 DEF HandleDone, TypeOK
  <2>3. cmd'[m.cmd].st \in {"done", "error"} /\ cmd'[m.cmd].sess = cmd[m.cmd].sess
    BY <1>8, <2>1 DEF HandleDone, TypeOK, CommandRow
  <2>4. QED
    BY <2>1, <2>2, <2>3 DEF Sent
<1>9. CASE Worker
  <2>1. CASE Poll
    BY <1>1, <1>3, <2>1, StuckWasSent DEF Poll
  <2>2. QED
    BY <1>1, <1>2, <1>9, <2>1
       DEF Worker, AskRunning, StartCommand, StartFails, PostOutput, KillTimer, FinishCommand, dbVars
<1>10. CASE Environment
  <2>1. CASE Tick
    BY <1>1, <2>1 DEF Tick, Sent, TypeOK, CommandRow
  <2>2. QED
    BY <1>1, <1>2, <1>10, <2>1 DEF Environment, ShellExits, PipesClose, OutputCloses, TimeOut, Crash, Restart, dbVars
<1>11. ASSUME NEW m \in net, HandleOutput(m)
       PROVE  cmd' = cmd
  BY <1>11 DEF HandleOutput
<1>12. QED
  BY <1>1, <1>2, <1>4, <1>5, <1>6, <1>7, <1>8, <1>9, <1>10, <1>11 DEF Next, Server

\* Every action keeps the order in which commands are asked for.  Only a poll
\* asks for something new: the oldest pending command of a session, so that the
\* earlier ones of the session, sent and not pending, were claimed.
LEMMA AskedStep ==
  ASSUME TypeOK, WorkerInv, CountInv, FlightInv, SentInOrder, AskedInOrder, Next
  PROVE  AskedInOrder'
<1>0. \A c \in Cmd : hist[c].claims \in Nat
  BY DEF TypeOK, Counts
<1>1. /\ SentInOrder'
      /\ \A c \in Cmd : Sent(c) => Sent(c)' /\ cmd'[c].sess = cmd[c].sess
  BY SentStep
<1>2. ASSUME \A c \in Cmd : hist'[c].claims \in Nat /\ hist'[c].claims >= hist[c].claims,
             \A c \in Cmd : Asked(c)' => Asked(c)
      PROVE  AskedInOrder'
  BY <1>1, <1>2, OrderMonotone
<1>3. ASSUME \A c \in Cmd : hist'[c].claims = hist[c].claims,
             todo' = todo \/ todo' = <<>>,
             \A m \in net' : m.kind = "running" => \E n \in net : n.kind = "running" /\ n.cmd = m.cmd
      PROVE  AskedInOrder'
  <2>1. \A c \in Cmd : Asked(c)' => Asked(c)
    BY <1>3 DEF Asked
  <2>2. QED
    BY <1>0, <1>2, <1>3, <2>1
<1>4. CASE Dashboard
  <2>1. ASSUME NEW o \in opening, CommitSession(o)
        PROVE  AskedInOrder'
    <3>1. \A c \in Cmd : hist'[c].claims = hist[c].claims
      BY <2>1, StuckWasSent, ResetKeepsSent DEF CommitSession
    <3>2. QED
      BY <1>3, <2>1, <3>1 DEF CommitSession, agentVars
  <2>2. QED
    BY <1>3, <1>4, <2>1 DEF Dashboard, OpenSession, CloseSession, SendCommand, agentVars
<1>5. CASE BeginSweep
  BY <1>3, <1>5 DEF BeginSweep, agentVars
<1>6. CASE EndSweep
  <2>1. \A c \in Cmd : hist'[c].claims = hist[c].claims
    BY <1>6, ResetKeepsSent DEF EndSweep, FlightInv
  <2>2. QED
    BY <1>3, <1>6, <2>1 DEF EndSweep, agentVars
<1>7. ASSUME NEW m \in net, HandleRunning(m)
      PROVE  AskedInOrder'
  <2>1. m.cmd \in Cmd /\ Asked(m.cmd)
    BY <1>7 DEF TypeOK, Request, Asked, HandleRunning
  <2>2. \A c \in Cmd : \/ hist'[c].claims = hist[c].claims
                       \/ c = m.cmd /\ hist'[c].claims = hist[c].claims + 1
    BY <1>7, <2>1, SMTT(30) DEF HandleRunning, TypeOK, Counts
  <2>3. todo' = todo /\ net' \subseteq net
    BY <1>7 DEF HandleRunning
  <2>4. \A c \in Cmd : Asked(c)' => Asked(c)
    BY <2>1, <2>2, <2>3 DEF Asked
  <2>5. QED
    BY <1>0, <1>2, <2>2, <2>4
<1>8. ASSUME NEW m \in net, HandleOutput(m) \/ HandleDone(m)
      PROVE  AskedInOrder'
  BY <1>3, <1>8 DEF HandleOutput, HandleDone
<1>9. CASE Worker
  <2>1. CASE Poll
    <3>0. UNCHANGED net
      BY <2>1 DEF Poll
    <3>1. \A c \in Cmd : /\ Sent(c)' <=> Sent(c)
                         /\ hist'[c].claims = hist[c].claims /\ hist'[c].starts = hist[c].starts
      BY <2>1, StuckWasSent, ResetKeepsSent DEF Poll
    <3>2. CountInv'
      BY CountInvStep
    <3>3. SUFFICES ASSUME NEW c \in Cmd, NEW d \in Cmd, c < d, Asked(d)', cmd'[c].sess = cmd'[d].sess
                   PROVE  hist'[c].claims > 0
      BY DEF AskedInOrder
    <3>4. CASE Asked(d)
      <4>1. hist[d].claims > 0 => cmd[d].st # "none"
        BY <1>0 DEF CountInv
      <4>2. Sent(d)
        BY <3>4, <4>1 DEF Asked, FlightInv, Sent
      <4>3. Sent(c)
        BY <3>3, <4>2 DEF SentInOrder
      <4>4. cmd[c].sess = cmd[d].sess
        BY <1>1, <3>3, <4>2, <4>3
      <4>5. QED
        BY <3>1, <3>3, <3>4, <4>4 DEF AskedInOrder
    <3>5. CASE ~Asked(d)
      <4>1. PICK i \in DOMAIN todo' : todo'[i] = d
        BY <3>0, <3>1, <3>3, <3>5 DEF Asked
      <4>2. PICK s \in Session : OldestPending(cmd', s, d)
        BY <2>1, <4>1, PollOffers
      <4>3. cmd'[c].st # "pending"
        BY <3>3, <4>2 DEF OldestPending, Cmd
      <4>4. cmd'[c].st # "none"
        <5>1. cmd'[d].st # "none"
          BY <4>2 DEF OldestPending
        <5>2. QED
          BY <1>1, <3>3, <5>1 DEF SentInOrder, Sent
      <4>5. cmd'[c].st \in {"none", "pending", "running", "done", "error"}
        <5>1. cmd' = ResetCommands(StuckCommands)
          BY <2>1 DEF Poll
        <5>2. QED
          BY <5>1, ResetCommandsType, StuckCommandsType DEF CommandRow
      <4>6. QED
        BY <3>2, <4>3, <4>4, <4>5 DEF CountInv
    <3>6. QED
      BY <3>4, <3>5
  <2>2. CASE AskRunning
    <3>1. /\ todo # <<>> /\ todo' = Tail(todo) /\ UNCHANGED hist
          /\ net' = net \union {[kind |-> "running", cmd |-> Head(todo), ok |-> FALSE, waited |-> TRUE]}
      BY <2>2 DEF AskRunning
    <3>2. \A i \in DOMAIN Tail(todo) : i + 1 \in DOMAIN todo /\ Tail(todo)[i] = todo[i + 1]
      BY <3>1 DEF TypeOK
    <3>3. 1 \in DOMAIN todo /\ Head(todo) = todo[1]
      BY <3>1 DEF TypeOK
    <3>4. \A c \in Cmd : Asked(c)' => Asked(c)
      BY <3>1, <3>2, <3>3 DEF Asked
    <3>5. QED
      BY <1>0, <1>2, <3>1, <3>4
  <2>3. CASE StartCommand
    <3>1. cur \in Cmd /\ UNCHANGED <<net, todo>> /\ hist' = [hist EXCEPT ![cur].starts = @ + 1]
      BY <2>3 DEF StartCommand, WorkerInv
    <3>2. \A c \in Cmd : hist'[c].claims = hist[c].claims
      BY <3>1 DEF TypeOK, Counts
    <3>3. QED
      BY <1>3, <3>1, <3>2
  <2>4. CASE FinishCommand
    <3>1. /\ cur \in Cmd /\ todo' = todo /\ hist' = hist
          /\ net' = net \union {[kind |-> "done", cmd |-> cur, ok |-> proc.ok, waited |-> TRUE]}
      BY <2>4 DEF FinishCommand, WorkerInv
    <3>2. \A c \in Cmd : hist'[c].claims = hist[c].claims
      BY <3>1 DEF TypeOK, Counts
    <3>3. \A m \in net' : m.kind = "running" => m \in net
      BY <3>1
    <3>4. QED
      BY <1>3, <3>1, <3>2, <3>3
  <2>5. CASE StartFails \/ PostOutput \/ KillTimer
    <3>1. \A m \in net' : m.kind = "running" => m \in net
      BY <2>5 DEF StartFails, PostOutput, KillTimer
    <3>2. todo' = todo /\ hist' = hist
      BY <2>5 DEF StartFails, PostOutput, KillTimer
    <3>3. QED
      BY <1>3, <3>1, <3>2
  <2>6. QED
    BY <1>9, <2>1, <2>2, <2>3, <2>4, <2>5 DEF Worker
<1>10. CASE Environment
  <2>1. \A m \in Abandoned : \E n \in net : m.cmd = n.cmd /\ m.kind = n.kind
    BY DEF Abandoned, TypeOK, Request
  <2>2. CASE TimeOut \/ Crash
    BY <1>3, <2>1, <2>2 DEF TimeOut, Crash
  <2>3. QED
    BY <1>3, <1>10, <2>2 DEF Environment, ShellExits, PipesClose, OutputCloses, Restart, Tick
<1>11. QED
  BY <1>4, <1>5, <1>6, <1>7, <1>8, <1>9, <1>10 DEF Next, Server

\* Within a session no command is handed out before one that was sent earlier and
\* never handed out, for any number of sessions, commands and faults.
THEOREM NoOvertakingAlways == Spec => []NoOvertaking
<1>1. Init => SentInOrder /\ AskedInOrder
  BY DEF Init, SentInOrder, AskedInOrder, Asked, Sent
<1>2. (TypeOK /\ WorkerInv) /\ (CountInv /\ FlightInv) /\ (SentInOrder /\ AskedInOrder) /\ [Next]_vars
      => (SentInOrder /\ AskedInOrder)'
  <2>1. ASSUME TypeOK, WorkerInv, CountInv, FlightInv, SentInOrder, AskedInOrder, Next
        PROVE  (SentInOrder /\ AskedInOrder)'
    BY <2>1, SentStep, AskedStep
  <2>2. ASSUME SentInOrder, AskedInOrder, UNCHANGED vars
        PROVE  (SentInOrder /\ AskedInOrder)'
    BY <2>2 DEF vars, SentInOrder, AskedInOrder, Sent, Asked
  <2>3. QED
    BY <2>1, <2>2
<1>3. AskedInOrder => NoOvertaking
  BY DEF AskedInOrder, NoOvertaking, Asked
<1>4. QED
  BY <1>1, <1>2, <1>3, TypeCorrect, HistoryCorrect, PTL DEF Spec

-----------------------------------------------------------------------------
(* One active session of a user, with one opening at a time.               *)

Active(s) == sess[s].st = "active"

\* There is one request per user; its row is there, the sessions it found are
\* no longer being opened, and it has found whatever is active.
OpenInv ==
  /\ IsFiniteSet(opening)
  /\ \A o, p \in opening : o.user = p.user => o = p
  /\ \A o \in opening : /\ sess[o.sess].st = "opening" /\ sess[o.sess].user = o.user
                        /\ \A s \in o.found : sess[s].st \in {"active", "closed"}
                        /\ \A s \in Session : Active(s) /\ sess[s].user = o.user => s \in o.found
  /\ \A s, r \in Session : Active(s) /\ Active(r) /\ sess[s].user = sess[r].user => s = r

\* Sessions keep their user; an active one may be closed.
SessionsKeep ==
  \A s \in Session : /\ sess'[s].user = sess[s].user
                     /\ sess'[s].st = sess[s].st \/ (Active(s) /\ sess'[s].st = "closed")

LEMMA OpenStays ==
  ASSUME TypeOK, OpenInv, SessionsKeep, opening' = opening
  PROVE  OpenInv'
<1>1. \A s \in Session : Active(s)' => Active(s)
  BY DEF SessionsKeep, Active
<1>2. \A o \in opening : /\ sess'[o.sess].st = "opening" /\ sess'[o.sess].user = o.user
                         /\ \A s \in o.found : sess'[s].st \in {"active", "closed"}
                         /\ \A s \in Session : Active(s)' /\ sess'[s].user = o.user => s \in o.found
  <2> SUFFICES ASSUME NEW o \in opening
               PROVE  /\ sess'[o.sess].st = "opening" /\ sess'[o.sess].user = o.user
                      /\ \A s \in o.found : sess'[s].st \in {"active", "closed"}
                      /\ \A s \in Session : Active(s)' /\ sess'[s].user = o.user => s \in o.found
    OBVIOUS
  <2>1. o.sess \in Session /\ o.found \subseteq Session
    BY DEF TypeOK, Open
  <2>2. sess'[o.sess].st = "opening" /\ sess'[o.sess].user = o.user
    BY <2>1 DEF OpenInv, SessionsKeep, Active
  <2>3. \A s \in o.found : sess'[s].st \in {"active", "closed"}
    BY <2>1 DEF OpenInv, SessionsKeep
  <2>4. \A s \in Session : Active(s)' /\ sess'[s].user = o.user => s \in o.found
    BY <1>1 DEF OpenInv, SessionsKeep
  <2>5. QED
    BY <2>2, <2>3, <2>4
<1>3. \A s, r \in Session : Active(s)' /\ Active(r)' /\ sess'[s].user = sess'[r].user => s = r
  BY <1>1 DEF OpenInv, SessionsKeep
<1>4. QED
  BY <1>2, <1>3 DEF OpenInv

LEMMA ExpiredKeeps == ASSUME TypeOK, sess' = ExpiredSessions PROVE SessionsKeep
BY DEF TypeOK, SessionRow, ExpiredSessions, IdleTooLong, SessionsKeep, Active

LEMMA OpenSessionKeeps ==
  ASSUME TypeOK, OpenInv, MaxOpening = 1, NEW u \in Users, OpenSession(u)
  PROVE  OpenInv'
<1>1. PICK s \in Session :
        /\ sess[s].st = "none"
        /\ Cardinality({o \in opening : o.user = u}) < 1
        /\ sess' = [sess EXCEPT ![s] = [st |-> "opening", user |-> u, idle |-> 0]]
        /\ \E own \in SUBSET {r \in Session : Existing(u, r)} :
             /\ own = {} => \A r \in Session : ~Existing(u, r)
             /\ opening' = opening \union {[sess |-> s, user |-> u,
                                            found |-> own \union {r \in Session : IdleTooLong(r)}]}
  BY DEF OpenSession
<1>2. PICK own \in SUBSET {r \in Session : Existing(u, r)} :
             /\ own = {} => \A r \in Session : ~Existing(u, r)
             /\ opening' = opening \union {[sess |-> s, user |-> u,
                                            found |-> own \union {r \in Session : IdleTooLong(r)}]}
  BY <1>1
<1>3. PICK n : n = [sess |-> s, user |-> u, found |-> own \union {r \in Session : IdleTooLong(r)}]
  OBVIOUS
<1>4. opening' = opening \union {n}
  BY <1>2, <1>3
<1>5. n.sess = s /\ n.user = u /\ n.found = own \union {r \in Session : IdleTooLong(r)}
  BY <1>3
<1>6. IsFiniteSet(opening')
  BY <1>4, FS_AddElement DEF OpenInv
<1>7. \A o \in opening : o.user # u
  <2>1. IsFiniteSet({o \in opening : o.user = u})
    BY FS_Subset DEF OpenInv
  <2>2. Cardinality({o \in opening : o.user = u}) \in Nat
    BY <2>1, FS_CardinalityType
  <2>3. Cardinality({o \in opening : o.user = u}) = 0
    BY <1>1, <2>2
  <2>4. {o \in opening : o.user = u} = {}
    BY <2>1, <2>3, FS_EmptySet
  <2>5. QED
    BY <2>4
<1>8. /\ sess'[s].st = "opening" /\ sess'[s].user = u
      /\ \A r \in Session \ {s} : sess'[r] = sess[r]
  BY <1>1 DEF TypeOK
<1>9. \A r \in Session : Active(r)' => r # s /\ Active(r)
  BY <1>8 DEF Active
<1>10. \A o, p \in opening' : o.user = p.user => o = p
  BY <1>4, <1>5, <1>7 DEF OpenInv
<1>11. \A r \in n.found : r \in Session /\ Active(r) /\ r # s
  BY <1>1, <1>5 DEF Existing, IdleTooLong, Active
<1>12. \A r \in Session : Active(r) /\ sess[r].user = u => r \in n.found
  <2> SUFFICES ASSUME NEW r \in Session, Active(r), sess[r].user = u, ~IdleTooLong(r)
               PROVE  r \in own
    BY <1>5
  <2>1. Existing(u, r)
    BY DEF Existing, Active
  <2>2. PICK q \in own : Existing(u, q) /\ q \in Session
    BY <1>2, <2>1
  <2>3. q = r
    BY <2>1, <2>2 DEF Existing, Active, OpenInv
  <2>4. QED
    BY <2>2, <2>3
<1>13. \A o \in opening' : /\ sess'[o.sess].st = "opening" /\ sess'[o.sess].user = o.user
                           /\ \A r \in o.found : sess'[r].st \in {"active", "closed"}
                           /\ \A r \in Session : Active(r)' /\ sess'[r].user = o.user => r \in o.found
  <2>1. ASSUME NEW o \in opening
        PROVE  /\ sess'[o.sess].st = "opening" /\ sess'[o.sess].user = o.user
               /\ \A r \in o.found : sess'[r].st \in {"active", "closed"}
               /\ \A r \in Session : Active(r)' /\ sess'[r].user = o.user => r \in o.found
    <3>1. o.sess \in Session /\ o.found \subseteq Session
      BY DEF TypeOK, Open
    <3>2. /\ sess[o.sess].st = "opening" /\ sess[o.sess].user = o.user
          /\ \A r \in o.found : sess[r].st \in {"active", "closed"}
          /\ \A r \in Session : Active(r) /\ sess[r].user = o.user => r \in o.found
      BY DEF OpenInv
    <3>3. o.sess # s /\ s \notin o.found
      BY <1>1, <3>2
    <3>4. sess'[o.sess].st = "opening" /\ sess'[o.sess].user = o.user
      BY <1>8, <3>1, <3>2, <3>3
    <3>5. \A r \in o.found : sess'[r] = sess[r]
      BY <1>8, <3>1, <3>3
    <3>6. \A r \in Session : Active(r)' /\ sess'[r].user = o.user => r \in o.found
      <4> SUFFICES ASSUME NEW r \in Session, Active(r)', sess'[r].user = o.user PROVE r \in o.found
        OBVIOUS
      <4>1. Active(r) /\ r # s
        BY <1>9
      <4>2. sess'[r] = sess[r]
        BY <1>8, <4>1
      <4>3. QED
        BY <3>2, <4>1, <4>2
    <3>7. QED
      BY <3>2, <3>4, <3>5, <3>6
  <2>2. /\ sess'[n.sess].st = "opening" /\ sess'[n.sess].user = n.user
        /\ \A r \in n.found : sess'[r].st \in {"active", "closed"}
        /\ \A r \in Session : Active(r)' /\ sess'[r].user = n.user => r \in n.found
    BY <1>5, <1>8, <1>9, <1>11, <1>12 DEF Active
  <2>3. QED
    BY <1>4, <2>1, <2>2
<1>14. \A q, r \in Session : Active(q)' /\ Active(r)' /\ sess'[q].user = sess'[r].user => q = r
  BY <1>8, <1>9 DEF OpenInv
<1>15. QED
  BY <1>6, <1>10, <1>13, <1>14 DEF OpenInv

LEMMA CommitSessionKeeps ==
  ASSUME TypeOK, OpenInv, NEW o \in opening, CommitSession(o)
  PROVE  OpenInv'
<1>1. /\ o.sess \in Session /\ o.found \subseteq Session
      /\ sess[o.sess].st = "opening" /\ sess[o.sess].user = o.user
      /\ \A s \in Session : Active(s) /\ sess[s].user = o.user => s \in o.found
  BY DEF TypeOK, Open, OpenInv
<1>2. /\ \A s \in Session : sess'[s].user = sess[s].user
      /\ sess'[o.sess].st = "active"
      /\ \A s \in Session \ {o.sess} : sess'[s].st = IF s \in o.found THEN "closed" ELSE sess[s].st
  <2> SUFFICES ASSUME NEW s \in Session
               PROVE  /\ sess'[s].user = sess[s].user
                      /\ s = o.sess => sess'[s].st = "active"
                      /\ s # o.sess => sess'[s].st = IF s \in o.found THEN "closed" ELSE sess[s].st
    BY <1>1
  <2>1. PICK e : e = sess[s]
    OBVIOUS
  <2>2. e \in SessionRow
    BY <2>1 DEF TypeOK
  <2>3. \A x : /\ [e EXCEPT !.st = x].st = x
              /\ [e EXCEPT !.st = x].user = e.user
    BY <2>2 DEF SessionRow
  <2>4. sess'[s] = CASE s = o.sess -> [e EXCEPT !.st = "active"]
                     [] s \in o.found -> [e EXCEPT !.st = "closed"]
                     [] OTHER -> e
    BY <2>1 DEF CommitSession
  <2>5. CASE s = o.sess
    <3>1. o.sess \notin o.found
      BY <1>1 DEF OpenInv
    <3>2. sess'[s] = [e EXCEPT !.st = "active"]
      BY <2>4, <2>5, <3>1
    <3>3. QED
      BY <2>1, <2>3, <2>5, <3>2
  <2>6. CASE s # o.sess /\ s \in o.found
    <3>1. sess'[s] = [e EXCEPT !.st = "closed"]
      BY <2>4, <2>6
    <3>2. QED
      BY <2>1, <2>3, <2>6, <3>1
  <2>7. CASE s # o.sess /\ s \notin o.found
    BY <2>1, <2>4, <2>7
  <2>8. QED
    BY <2>5, <2>6, <2>7
<1>3. opening' = opening \ {o}
  BY DEF CommitSession
<1>4. IsFiniteSet(opening')
  BY <1>3, FS_RemoveElement DEF OpenInv
<1>5. \A s \in Session : Active(s)' => s = o.sess \/ (Active(s) /\ s \notin o.found)
  BY <1>2 DEF Active
<1>6. ASSUME NEW p \in opening'
      PROVE  /\ sess'[p.sess].st = "opening" /\ sess'[p.sess].user = p.user
             /\ \A s \in p.found : sess'[s].st \in {"active", "closed"}
             /\ \A s \in Session : Active(s)' /\ sess'[s].user = p.user => s \in p.found
  <2>1. /\ p \in opening /\ p # o /\ p.sess \in Session /\ p.found \subseteq Session
        /\ sess[p.sess].st = "opening" /\ sess[p.sess].user = p.user
        /\ \A s \in p.found : sess[s].st \in {"active", "closed"}
        /\ \A s \in Session : Active(s) /\ sess[s].user = p.user => s \in p.found
    BY <1>3 DEF TypeOK, Open, OpenInv
  <2>2. p.user # o.user /\ p.sess # o.sess
    BY <1>1, <2>1 DEF OpenInv
  <2>3. p.sess \notin o.found /\ o.sess \notin p.found
    BY <1>1, <2>1 DEF OpenInv
  <2>4. QED
    BY <1>1, <1>2, <1>5, <2>1, <2>2, <2>3
<1>7. \A s, r \in Session : Active(s)' /\ Active(r)' /\ sess'[s].user = sess'[r].user => s = r
  BY <1>1, <1>2, <1>5 DEF OpenInv
<1>8. \A q, p \in opening' : q.user = p.user => q = p
  BY <1>3 DEF OpenInv
<1>9. QED
  BY <1>4, <1>6, <1>7, <1>8 DEF OpenInv

LEMMA OpenStep == TypeOK /\ OpenInv /\ MaxOpening = 1 /\ [Next]_vars => OpenInv'
<1> SUFFICES ASSUME TypeOK, OpenInv, MaxOpening = 1, [Next]_vars PROVE OpenInv'
  OBVIOUS
<1>1. ASSUME sess' = sess, opening' = opening PROVE OpenInv'
  BY <1>1, OpenStays DEF SessionsKeep
<1>2. CASE Dashboard
  <2>1. ASSUME NEW s \in Session, CloseSession(s) PROVE OpenInv'
    <3>1. SessionsKeep /\ opening' = opening
      BY <2>1 DEF CloseSession, TypeOK, SessionRow, SessionsKeep, Active
    <3>2. QED
      BY <3>1, OpenStays
  <2>2. ASSUME NEW s \in Session, NEW c \in Cmd, SendCommand(s, c) PROVE OpenInv'
    <3>1. SessionsKeep /\ opening' = opening
      BY <2>2 DEF SendCommand, TypeOK, SessionRow, SessionsKeep
    <3>2. QED
      BY <3>1, OpenStays
  <2>3. QED
    BY <1>2, <2>1, <2>2, OpenSessionKeeps, CommitSessionKeeps DEF Dashboard
<1>3. CASE Server
  <2>1. CASE EndSweep
    BY <2>1, ExpiredKeeps, OpenStays DEF EndSweep
  <2>2. ASSUME NEW m \in net, HandleOutput(m) PROVE OpenInv'
    <3>1. SessionsKeep /\ opening' = opening
      BY <2>2 DEF HandleOutput, TypeOK, SessionRow, SessionsKeep
    <3>2. QED
      BY <3>1, OpenStays
  <2>3. ASSUME NEW m \in net, HandleRunning(m) \/ HandleDone(m) PROVE OpenInv'
    BY <1>1, <2>3 DEF HandleRunning, HandleDone
  <2>4. CASE BeginSweep
    BY <1>1, <2>4 DEF BeginSweep
  <2>5. QED
    BY <1>3, <2>1, <2>2, <2>3, <2>4 DEF Server
<1>4. CASE Worker
  <2>1. CASE Poll
    BY <2>1, ExpiredKeeps, OpenStays DEF Poll
  <2>2. QED
    BY <1>1, <1>4, <2>1 DEF Worker, AskRunning, StartCommand, StartFails, PostOutput, KillTimer,
       FinishCommand, dbVars
<1>5. CASE Environment
  <2>1. CASE Tick
    <3>1. SessionsKeep /\ opening' = opening
      BY <2>1 DEF Tick, TypeOK, SessionRow, SessionsKeep
    <3>2. QED
      BY <3>1, OpenStays
  <2>2. QED
    BY <1>1, <1>5, <2>1 DEF Environment, ShellExits, PipesClose, OutputCloses, TimeOut, Crash, Restart,
       dbVars
<1>6. CASE UNCHANGED vars
  BY <1>1, <1>6 DEF vars
<1>7. QED
  BY <1>2, <1>3, <1>4, <1>5, <1>6 DEF Next

\* A user who opens sessions one at a time has one active session, for any
\* number of users, sessions, closings and clean-ups.
THEOREM OneActivePerUserAlways == Spec => []OneActivePerUser
<1>1. CASE MaxOpening # 1
  <2>1. OneActivePerUser
    BY <1>1 DEF OneActivePerUser
  <2>2. QED
    BY <2>1, PTL
<1>2. CASE MaxOpening = 1
  <2>1. Init => OpenInv
    BY FS_EmptySet DEF Init, OpenInv, Active
  <2>2. TypeOK /\ OpenInv /\ [Next]_vars => OpenInv'
    BY <1>2, OpenStep
  <2>3. OpenInv => OneActivePerUser
    BY DEF OpenInv, Active, OneActivePerUser
  <2>4. QED
    BY <2>1, <2>2, <2>3, TypeCorrect, PTL DEF Spec
<1>3. QED
  BY <1>1, <1>2

-----------------------------------------------------------------------------
(* The life of a command: what it has come to is final, unless a clean-up  *)
(* of another device's poll had selected it before and writes it back      *)
(* after; and the terminal implements CommandLife.tla.                     *)

\* Every step does one of eight things to the status and the counts of commands.
Kept(c) == /\ cmd'[c].st = cmd[c].st
           /\ hist'[c].claims = hist[c].claims
           /\ hist'[c].resets = hist[c].resets
           /\ hist'[c].starts = hist[c].starts

Sends(d) == /\ cmd[d].st = "none" /\ cmd'[d].st = "pending"
            /\ UNCHANGED hist
            /\ \A c \in Cmd \ {d} : Kept(c)
Resets(C) == /\ \A c \in C : /\ cmd[c].st = "running" /\ cmd'[c].st = "pending"
                             /\ hist'[c].resets = hist[c].resets + 1
                             /\ hist'[c].claims = hist[c].claims /\ hist'[c].starts = hist[c].starts
             /\ \A c \in Cmd \ C : Kept(c)
Claims(d) == /\ cmd[d].st = "pending" /\ cmd'[d].st = "running"
             /\ hist'[d].claims = hist[d].claims + 1
             /\ hist'[d].resets = hist[d].resets /\ hist'[d].starts = hist[d].starts
             /\ \A c \in Cmd \ {d} : Kept(c)
Starts(d) == /\ cmd' = cmd /\ hist[d].starts < hist[d].claims
             /\ hist'[d].starts = hist[d].starts + 1
             /\ hist'[d].claims = hist[d].claims /\ hist'[d].resets = hist[d].resets
             /\ \A c \in Cmd \ {d} : Kept(c)
Ends(d) == /\ cmd[d].st # "none" /\ hist[d].claims > 0
           /\ cmd'[d].st \in {"done", "error"}
           /\ UNCHANGED hist
           /\ \A c \in Cmd \ {d} : Kept(c)

\* A step of the terminal itself.
OwnStep ==
  \/ \A c \in Cmd : Kept(c)
  \/ \E d \in Cmd : Sends(d) \/ Claims(d) \/ Starts(d) \/ Ends(d)
  \/ \E C \in SUBSET Cmd : Resets(C)

\* Another device's clean-up selects the commands of C ...
Selects(C) == /\ \A c \in C : cmd[c].st = "running"
              /\ sweeping' = sweeping \union C
              /\ \A c \in Cmd : Kept(c)
\* ... and writes them back.
Sweeps == /\ sweeping' = {}
          /\ \A c \in sweeping : /\ cmd'[c].st = "pending"
                                 /\ hist'[c].resets = hist[c].resets + 1
                                 /\ hist'[c].claims = hist[c].claims /\ hist'[c].starts = hist[c].starts
          /\ \A c \in Cmd \ sweeping : Kept(c)

LEMMA StepKinds ==
  ASSUME TypeOK, WorkerInv, FlightInv, Next
  PROVE  \/ OwnStep /\ sweeping' = sweeping
         \/ \E C \in SUBSET Cmd : Selects(C)
         \/ Sweeps
<1>0. \A c \in Cmd : /\ hist[c].claims \in Nat /\ hist[c].starts \in Nat /\ hist[c].resets \in Nat
                     /\ cmd[c].st \in {"none", "pending", "running", "done", "error"}
  BY DEF TypeOK, Counts, CommandRow
<1>1. ASSUME UNCHANGED <<cmd, hist>>
      PROVE  \A c \in Cmd : Kept(c)
  BY <1>1 DEF Kept
<1>2. ASSUME cmd' = ResetCommands(StuckCommands), hist' = CountResets(StuckCommands)
      PROVE  \E C \in SUBSET Cmd : Resets(C)
  <2>1. StuckCommands \in SUBSET Cmd
    BY DEF StuckCommands
  <2>2. \A c \in StuckCommands : cmd[c].st = "running"
    BY DEF StuckCommands, Stuck
  <2>3. Resets(StuckCommands)
    BY <1>2, <2>1, <2>2, ResetFacts DEF Resets, Kept
  <2>4. QED
    BY <2>1, <2>3
<1>3. ASSUME Dashboard
      PROVE  OwnStep
  <2>1. ASSUME \E o \in opening : CommitSession(o)
        PROVE  \E C \in SUBSET Cmd : Resets(C)
    BY <1>2, <2>1 DEF CommitSession
  <2>2. ASSUME NEW s \in Session, NEW c \in Cmd, SendCommand(s, c)
        PROVE  Sends(c)
    BY <2>2 DEF SendCommand, Sends, Kept, TypeOK
  <2>3. QED
    BY <1>1, <1>3, <2>1, <2>2 DEF Dashboard, OpenSession, CloseSession, OwnStep
<1>4. ASSUME BeginSweep
      PROVE  \E C \in SUBSET Cmd : Selects(C)
  <2>1. StuckCommands \in SUBSET Cmd /\ \A c \in StuckCommands : cmd[c].st = "running"
    BY DEF StuckCommands, Stuck
  <2>2. sweeping' = sweeping \union StuckCommands /\ UNCHANGED <<cmd, hist>>
    BY <1>4 DEF BeginSweep
  <2>3. Selects(StuckCommands)
    BY <1>1, <2>1, <2>2 DEF Selects
  <2>4. QED
    BY <2>1, <2>3
<1>5. ASSUME EndSweep
      PROVE  Sweeps
  <2>1. sweeping \in SUBSET Cmd
    BY DEF TypeOK
  <2>2. cmd' = ResetCommands(sweeping) /\ hist' = CountResets(sweeping) /\ sweeping' = {}
    BY <1>5 DEF EndSweep
  <2>3. QED
    BY <2>1, <2>2, ResetFacts DEF Sweeps, Kept
<1>6. ASSUME NEW m \in net, HandleRunning(m)
      PROVE  (\A c \in Cmd : Kept(c)) \/ \E d \in Cmd : Claims(d)
  <2>1. m.cmd \in Cmd
    BY DEF TypeOK, Request
  <2>2. CASE MayRun(m.cmd)
    <3>1. /\ cmd' = [cmd EXCEPT ![m.cmd] = [@ EXCEPT !.st = "running", !.age = 0]]
          /\ hist' = [hist EXCEPT ![m.cmd].claims = @ + 1]
      BY <1>6, <2>2 DEF HandleRunning
    <3>2. \A d \in Cmd : cmd'[d].st = IF d = m.cmd THEN "running" ELSE cmd[d].st
      BY <2>1, <3>1, RunningRow
    <3>3. /\ \A d \in Cmd \ {m.cmd} : hist'[d] = hist[d]
          /\ hist'[m.cmd].claims = hist[m.cmd].claims + 1
          /\ hist'[m.cmd].resets = hist[m.cmd].resets /\ hist'[m.cmd].starts = hist[m.cmd].starts
      BY <2>1, <3>1 DEF TypeOK, Counts
    <3>4. Claims(m.cmd)
      BY <2>1, <2>2, <3>2, <3>3 DEF Claims, Kept, MayRun
    <3>5. QED
      BY <2>1, <3>4
  <2>3. CASE ~MayRun(m.cmd)
    BY <1>1, <1>6, <2>3 DEF HandleRunning
  <2>4. QED
    BY <2>2, <2>3
<1>7. ASSUME NEW m \in net, HandleOutput(m)
      PROVE  \A c \in Cmd : Kept(c)
  BY <1>1, <1>7 DEF HandleOutput
<1>8. ASSUME NEW m \in net, HandleDone(m)
      PROVE  \E d \in Cmd : Ends(d)
  <2>1. m.cmd \in Cmd
    BY DEF TypeOK, Request
  <2>2. cmd[m.cmd].st # "none" /\ hist[m.cmd].claims > 0
    BY <1>8 DEF HandleDone, FlightInv, Sent
  <2>3. hist' = hist /\ cmd' = [cmd EXCEPT ![m.cmd].st = IF m.ok THEN "done" ELSE "error"]
    BY <1>8 DEF HandleDone
  <2>4. cmd'[m.cmd].st \in {"done", "error"} /\ \A c \in Cmd \ {m.cmd} : cmd'[c] = cmd[c]
    BY <2>1, <2>3 DEF TypeOK, CommandRow
  <2>5. Ends(m.cmd)
    BY <2>2, <2>3, <2>4 DEF Ends, Kept
  <2>6. QED
    BY <2>1, <2>5
<1>9. ASSUME Worker
      PROVE  OwnStep
  <2>1. ASSUME Poll
        PROVE  \E C \in SUBSET Cmd : Resets(C)
    BY <1>2, <2>1 DEF Poll
  <2>2. ASSUME StartCommand
        PROVE  \E d \in Cmd : Starts(d)
    <3>1. /\ cur \in Cmd /\ cmd' = cmd /\ hist' = [hist EXCEPT ![cur].starts = @ + 1]
          /\ hist[cur].starts < hist[cur].claims
      BY <2>2 DEF StartCommand, dbVars, WorkerInv, FlightInv
    <3>2. /\ \A d \in Cmd \ {cur} : hist'[d] = hist[d]
          /\ hist'[cur].starts = hist[cur].starts + 1
          /\ hist'[cur].claims = hist[cur].claims /\ hist'[cur].resets = hist[cur].resets
      BY <3>1 DEF TypeOK, Counts
    <3>3. Starts(cur)
      BY <3>1, <3>2 DEF Starts, Kept
    <3>4. QED
      BY <3>1, <3>3
  <2>3. QED
    BY <1>1, <1>9, <2>1, <2>2
       DEF Worker, AskRunning, StartFails, PostOutput, KillTimer, FinishCommand, dbVars, OwnStep
<1>10. ASSUME Environment
       PROVE  \A c \in Cmd : Kept(c)
  <2>1. ASSUME Tick
        PROVE  \A c \in Cmd : Kept(c)
    <3>1. hist' = hist
      BY <2>1 DEF Tick
    <3>2. \A c \in Cmd : cmd'[c].st = cmd[c].st
      BY <2>1 DEF Tick, TypeOK, CommandRow
    <3>3. QED
      BY <3>1, <3>2 DEF Kept
  <2>2. QED
    BY <1>1, <1>10, <2>1
       DEF Environment, ShellExits, PipesClose, OutputCloses, TimeOut, Crash, Restart, dbVars
<1>11. ASSUME Dashboard \/ Worker \/ Environment \/ (\E m \in net : HandleRunning(m) \/ HandleOutput(m) \/ HandleDone(m))
       PROVE  sweeping' = sweeping
  BY <1>11 DEF vars, dbVars, Dashboard, Worker, Environment, OpenSession, CommitSession,
         CloseSession, SendCommand, HandleRunning, HandleOutput, HandleDone,
         Poll, AskRunning, StartCommand, StartFails, PostOutput, KillTimer, FinishCommand,
         ShellExits, PipesClose, OutputCloses, TimeOut, Crash, Restart, Tick
<1>12. ASSUME \E m \in net : HandleRunning(m) \/ HandleOutput(m) \/ HandleDone(m)
       PROVE  OwnStep
  BY <1>6, <1>7, <1>8, <1>12 DEF OwnStep
<1>13. Environment => OwnStep
  BY <1>10 DEF OwnStep
<1>14. QED
  BY <1>3, <1>4, <1>5, <1>9, <1>11, <1>12, <1>13 DEF Next, Server

\* No late request, fault or clean-up revives a command whose outcome is
\* recorded, but for a clean-up that had selected it before.
THEOREM FinishedIsFinalAlways == Spec => FinishedIsFinal
<1>1. ASSUME TypeOK, WorkerInv, FlightInv, Next
      PROVE  \A c \in Cmd : Finished(c) /\ c \notin sweeping => Finished(c)'
  <2>1. ASSUME NEW c \in Cmd, Finished(c), c \notin sweeping
        PROVE  Finished(c)'
    <3>1. CASE OwnStep
      BY <2>1, <3>1 DEF OwnStep, Finished, Kept, Sends, Claims, Starts, Ends, Resets
    <3>2. CASE \E C \in SUBSET Cmd : Selects(C)
      BY <2>1, <3>2 DEF Selects, Finished, Kept
    <3>3. CASE Sweeps
      BY <2>1, <3>3 DEF Sweeps, Finished, Kept
    <3>4. QED
      BY <1>1, <3>1, <3>2, <3>3, StepKinds
  <2>2. QED
    BY <2>1
<1>2. (TypeOK /\ WorkerInv) /\ (CountInv /\ FlightInv) /\ [Next]_vars
      => [\A c \in Cmd : Finished(c) /\ c \notin sweeping => Finished(c)']_vars
  BY <1>1
<1>3. QED
  BY <1>2, TypeCorrect, HistoryCorrect, PTL DEF Spec, FinishedIsFinal

-----------------------------------------------------------------------------
(* The refinement of CommandLife.                                          *)

\* What the mapping says of each status, before and after a step.
LEMMA LifeOfStatus ==
  ASSUME NEW c \in Cmd
  PROVE  /\ cmd[c].st = "pending" => LifeOf[c] = "queued"
         /\ cmd[c].st = "running" => LifeOf[c] = "handed"
         /\ cmd[c].st \in {"done", "error"} => LifeOf[c] = "ended"
         /\ cmd[c].st = "none" => LifeOf[c] = "none"
BY DEF LifeOf, Finished

LEMMA LifeOfNextStatus ==
  ASSUME NEW c \in Cmd
  PROVE  /\ cmd'[c].st = "pending" => LifeOf'[c] = "queued"
         /\ cmd'[c].st = "running" => LifeOf'[c] = "handed"
         /\ cmd'[c].st \in {"done", "error"} => LifeOf'[c] = "ended"
         /\ cmd'[c].st = "none" => LifeOf'[c] = "none"
         /\ cmd'[c].st = cmd[c].st => LifeOf'[c] = LifeOf[c]
BY DEF LifeOf, Finished

\* The four mapped variables are functions of the commands, before and after.
LEMMA MappingsAreFunctions ==
  /\ LifeOf = [c \in Cmd |-> LifeOf[c]] /\ LifeOf' = [c \in Cmd |-> LifeOf'[c]]
  /\ Claimed = [c \in Cmd |-> Claimed[c]] /\ Claimed' = [c \in Cmd |-> Claimed'[c]]
  /\ PutBack = [c \in Cmd |-> PutBack[c]] /\ PutBack' = [c \in Cmd |-> PutBack'[c]]
  /\ Executed = [c \in Cmd |-> Executed[c]] /\ Executed' = [c \in Cmd |-> Executed'[c]]
BY DEF LifeOf, Claimed, PutBack, Executed

\* What the counters map to.
LEMMA MappedCounts ==
  ASSUME NEW c \in Cmd
  PROVE  /\ Claimed[c] = hist[c].claims /\ Claimed'[c] = hist'[c].claims
         /\ PutBack[c] = hist[c].resets /\ PutBack'[c] = hist'[c].resets
         /\ Executed[c] = hist[c].starts /\ Executed'[c] = hist'[c].starts
BY DEF Claimed, PutBack, Executed

\* Every step of the terminal is a step of CommandLife or changes nothing it sees.
LEMMA LifeStep ==
  ASSUME TypeOK, WorkerInv, FlightInv, Next
  PROVE  [Life!LifeNext]_(Life!lifeVars)
<1>1. \A c \in Cmd : /\ Claimed[c] = hist[c].claims /\ Claimed'[c] = hist'[c].claims
                     /\ PutBack[c] = hist[c].resets /\ PutBack'[c] = hist'[c].resets
                     /\ Executed[c] = hist[c].starts /\ Executed'[c] = hist'[c].starts
  BY MappedCounts
<1>2. \A c \in Cmd : Kept(c) => /\ LifeOf'[c] = LifeOf[c] /\ Claimed'[c] = Claimed[c]
                                /\ PutBack'[c] = PutBack[c] /\ Executed'[c] = Executed[c]
  BY <1>1, LifeOfNextStatus DEF Kept
<1>3. ASSUME \A c \in Cmd : Kept(c)
      PROVE  UNCHANGED <<LifeOf, Claimed, PutBack, Executed>>
  BY <1>2, <1>3, MappingsAreFunctions
<1>4. ASSUME NEW d \in Cmd, Sends(d), sweeping' = sweeping
      PROVE  Life!Submit(d)
  <2>1. LifeOf[d] = "none" /\ LifeOf'[d] = "queued"
    BY <1>4, LifeOfStatus, LifeOfNextStatus DEF Sends
  <2>2. /\ \A c \in Cmd \ {d} : LifeOf'[c] = LifeOf[c]
        /\ \A c \in Cmd : /\ Claimed'[c] = Claimed[c] /\ PutBack'[c] = PutBack[c]
                          /\ Executed'[c] = Executed[c]
    BY <1>1, <1>2, <1>4 DEF Sends
  <2>3. QED
    BY <1>4, <2>1, <2>2, MappingsAreFunctions DEF Life!Submit
<1>5. ASSUME NEW d \in Cmd, Claims(d), sweeping' = sweeping
      PROVE  Life!HandOut(d)
  <2>1. LifeOf[d] = "queued" /\ LifeOf'[d] = "handed" /\ Claimed'[d] = Claimed[d] + 1
    BY <1>1, <1>5, LifeOfStatus, LifeOfNextStatus DEF Claims
  <2>2. /\ \A c \in Cmd \ {d} : LifeOf'[c] = LifeOf[c] /\ Claimed'[c] = Claimed[c]
        /\ \A c \in Cmd : PutBack'[c] = PutBack[c] /\ Executed'[c] = Executed[c]
    BY <1>1, <1>2, <1>5 DEF Claims
  <2>3. QED
    BY <1>5, <2>1, <2>2, MappingsAreFunctions DEF Life!HandOut
<1>6. ASSUME NEW d \in Cmd, Starts(d), sweeping' = sweeping
      PROVE  Life!Execute(d)
  <2>1. Executed[d] < Claimed[d] /\ Executed'[d] = Executed[d] + 1
    BY <1>1, <1>6 DEF Starts
  <2>2. /\ \A c \in Cmd \ {d} : Executed'[c] = Executed[c]
        /\ \A c \in Cmd : /\ LifeOf'[c] = LifeOf[c] /\ Claimed'[c] = Claimed[c]
                          /\ PutBack'[c] = PutBack[c]
    BY <1>1, <1>2, <1>6, LifeOfNextStatus DEF Starts
  <2>3. QED
    BY <1>6, <2>1, <2>2, MappingsAreFunctions DEF Life!Execute
<1>7. ASSUME NEW d \in Cmd, Ends(d), sweeping' = sweeping
      PROVE  Life!End(d)
  <2>1. cmd[d].st \in {"none", "pending", "running", "done", "error"}
    BY DEF TypeOK, CommandRow
  <2>2. Claimed[d] > 0 /\ LifeOf[d] # "none" /\ LifeOf'[d] = "ended"
    BY <1>1, <1>7, <2>1, LifeOfStatus, LifeOfNextStatus DEF Ends
  <2>3. /\ \A c \in Cmd \ {d} : LifeOf'[c] = LifeOf[c]
        /\ \A c \in Cmd : /\ Claimed'[c] = Claimed[c] /\ PutBack'[c] = PutBack[c]
                          /\ Executed'[c] = Executed[c]
    BY <1>1, <1>2, <1>7 DEF Ends
  <2>4. QED
    BY <1>7, <2>2, <2>3, MappingsAreFunctions DEF Life!End
<1>8. ASSUME NEW C \in SUBSET Cmd,
             \A c \in C : /\ cmd'[c].st = "pending"
                          /\ hist'[c].resets = hist[c].resets + 1
                          /\ hist'[c].claims = hist[c].claims /\ hist'[c].starts = hist[c].starts,
             \A c \in Cmd \ C : Kept(c)
      PROVE  Life!Requeues(C)
  <2>1. \A c \in C : /\ LifeOf'[c] = "queued"
                     /\ PutBack'[c] = PutBack[c] + 1
                     /\ Claimed'[c] = Claimed[c] /\ Executed'[c] = Executed[c]
    BY <1>1, <1>8, LifeOfNextStatus
  <2>2. \A c \in Cmd \ C : /\ LifeOf'[c] = LifeOf[c] /\ PutBack'[c] = PutBack[c]
                           /\ Claimed'[c] = Claimed[c] /\ Executed'[c] = Executed[c]
    BY <1>2, <1>8
  <2>3. Claimed' = Claimed /\ Executed' = Executed
    BY <2>1, <2>2, MappingsAreFunctions
  <2>4. LifeOf' = [c \in Cmd |-> IF c \in C THEN "queued" ELSE LifeOf[c]]
    BY <2>1, <2>2, MappingsAreFunctions
  <2>5. PutBack' = [c \in Cmd |-> IF c \in C THEN PutBack[c] + 1 ELSE PutBack[c]]
    BY <2>1, <2>2, MappingsAreFunctions
  <2>6. QED
    BY <2>3, <2>4, <2>5 DEF Life!Requeues
<1>9. ASSUME NEW C \in SUBSET Cmd, Resets(C), sweeping' = sweeping
      PROVE  Life!Requeue(C)
  <2>1. \A c \in C : LifeOf[c] = "handed"
    BY <1>9, LifeOfStatus DEF Resets
  <2>2. Life!Requeues(C)
    BY <1>8, <1>9 DEF Resets
  <2>3. QED
    BY <1>9, <2>1, <2>2 DEF Life!Requeue
<1>10. ASSUME NEW C \in SUBSET Cmd, Selects(C)
       PROVE  Life!Notice(C)
  <2>1. \A c \in C : LifeOf[c] = "handed"
    BY <1>10, LifeOfStatus DEF Selects
  <2>2. QED
    BY <1>3, <1>10, <2>1 DEF Selects, Life!Notice
<1>11. ASSUME Sweeps
       PROVE  Life!RequeueNoticed
  <2>1. sweeping \in SUBSET Cmd
    BY DEF TypeOK
  <2>2. Life!Requeues(sweeping)
    BY <1>8, <1>11, <2>1 DEF Sweeps
  <2>3. QED
    BY <1>11, <2>2 DEF Sweeps, Life!RequeueNoticed
<1>12. ASSUME OwnStep, sweeping' = sweeping
       PROVE  Life!LifeNext \/ UNCHANGED Life!lifeVars
  <2>1. ASSUME \A c \in Cmd : Kept(c)
        PROVE  UNCHANGED Life!lifeVars
    BY <1>3, <1>12, <2>1 DEF Life!lifeVars
  <2>2. QED
    BY <1>4, <1>5, <1>6, <1>7, <1>9, <1>12, <2>1 DEF OwnStep, Life!LifeNext
<1>13. QED
  BY <1>10, <1>11, <1>12, StepKinds DEF Life!LifeNext

\* The terminal implements the life of a command, for any number of commands,
\* sessions and faults, whether or not other devices' clean-ups interleave.
THEOREM ImplementsLifeAlways == Spec => ImplementsCommandLife
<1>1. Init => Life!LifeInit
  <2>1. SUFFICES ASSUME Init
                 PROVE  Life!LifeInit
    OBVIOUS
  <2>2. /\ sweeping = {}
        /\ \A c \in Cmd : /\ cmd[c].st = "none"
                           /\ hist[c].claims = 0 /\ hist[c].resets = 0 /\ hist[c].starts = 0
    BY <2>1 DEF Init
  <2>3. \A c \in Cmd : LifeOf[c] = "none" /\ Claimed[c] = 0 /\ PutBack[c] = 0 /\ Executed[c] = 0
    BY <2>2, LifeOfStatus, MappedCounts
  <2>4. QED
    BY <2>2, <2>3, MappingsAreFunctions DEF Life!LifeInit
<1>2. (TypeOK /\ WorkerInv) /\ (CountInv /\ FlightInv) /\ [Next]_vars
      => [Life!LifeNext]_(Life!lifeVars)
  <2>1. UNCHANGED vars => UNCHANGED Life!lifeVars
    BY DEF vars, Life!lifeVars, LifeOf, Claimed, PutBack, Executed, Finished
  <2>2. QED
    BY <2>1, LifeStep
<1>3. QED
  BY <1>1, <1>2, TypeCorrect, HistoryCorrect, PTL
     DEF Spec, ImplementsCommandLife, Life!LifeSpec
=============================================================================
