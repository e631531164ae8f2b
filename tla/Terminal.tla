------------------------------- MODULE Terminal -------------------------------
(***************************************************************************)
(* The remote terminal of one device: the sessions and commands the API    *)
(* keeps (api/routes/terminal.py), the requests in flight between agent    *)
(* and API, and the agent's worker thread (agent/terminal_worker.py).      *)
(*                                                                         *)
(* Each database transaction of a handler is one step, but two that read   *)
(* early and write late are split where the interleaving matters: opening  *)
(* a session, and the clean-up that the polls of OTHER devices perform.    *)
(* A request whose sender gave up waiting stays in flight: the server may  *)
(* handle it late, or never.  Time is a tick; ages saturate one past the   *)
(* limit they are compared with, so the state space stays finite.          *)
(***************************************************************************)
EXTENDS Naturals, FiniteSets, Sequences

CONSTANTS
  MaxSessions,  \* bound: sessions opened in a behaviour
  MaxCmds,      \* bound: commands sent in a behaviour
  MaxPosts,     \* bound: output chunks posted per execution
  MaxFaults,    \* bound: time-outs, lost replies, crashes of the agent and
                \* clean-ups by other devices' polls
  MaxOpening,   \* how many create_session requests of one user may overlap
  Users,        \* technicians who open sessions on the device
  CmdTimeout,   \* _CMD_TIMEOUT: the kill timer of an execution, in ticks
  StuckTimeout, \* _STUCK_CMD_TIMEOUT, in ticks
  IdleTimeout   \* _SESSION_IDLE_TIMEOUT, in ticks

ASSUME TerminalAssumption ==
  /\ MaxSessions \in Nat /\ MaxCmds \in Nat /\ MaxPosts \in Nat
  /\ MaxFaults \in Nat /\ MaxOpening \in Nat
  /\ CmdTimeout \in Nat /\ StuckTimeout \in Nat /\ IdleTimeout \in Nat

VARIABLES
  sess,     \* sess[s]: row of terminal_sessions
  cmd,      \* cmd[c]: row of terminal_commands; c < d when c was sent first
  opening,  \* create_session requests that have looked for an existing session
  sweeping, \* what another device's poll found stuck and has not written yet
  net,      \* requests of the agent that the server has not handled
  wpc,      \* what the worker thread is doing
  todo,     \* commands of the last poll that the worker has not looked at yet
  cur,      \* the command the worker deals with, 0 if none
  proc,     \* the child process of the worker
  faults,   \* what MaxFaults bounds, so far
  hist      \* history: hist[c] counts the claims, executions and resets of
            \* command c

dbVars   == <<sess, cmd, opening, sweeping>>
agentVars == <<wpc, todo, cur, proc>>
vars == <<sess, cmd, opening, sweeping, net, wpc, todo, cur, proc, faults, hist>>

Session == 1..MaxSessions
Cmd     == 1..MaxCmds

SessionRow == [st : {"none", "opening", "active", "closed"},
               user : Users \union {"nobody"}, idle : 0..(IdleTimeout + 1)]
CommandRow == [st : {"none", "pending", "running", "done", "error"},
               sess : 0..MaxSessions, age : 0..(StuckTimeout + 1)]
Request    == [kind : {"running", "output", "done"}, cmd : Cmd,
               ok : BOOLEAN,       \* exit code 0, of a "done" request
               waited : BOOLEAN]   \* the worker still waits for the reply
Open       == [sess : Session, user : Users, found : SUBSET Session]
Process    == [alive : BOOLEAN,    \* the shell itself runs
               held : BOOLEAN,     \* a descendant keeps its pipes open
               timer : BOOLEAN,    \* the kill timer is armed
               age : 0..(CmdTimeout + 1), ok : BOOLEAN, posts : 0..MaxPosts]
Counts     == [claims : Nat, starts : Nat, resets : Nat]

NoProcess == [alive |-> FALSE, held |-> FALSE, timer |-> FALSE,
              age |-> 0, ok |-> FALSE, posts |-> 0]

Finished(c) == cmd[c].st \in {"done", "error"}

Init ==
  /\ sess = [s \in Session |-> [st |-> "none", user |-> "nobody", idle |-> 0]]
  /\ cmd = [c \in Cmd |-> [st |-> "none", sess |-> 0, age |-> 0]]
  /\ opening = {}
  /\ sweeping = {}
  /\ net = {}
  /\ wpc = "poll" /\ todo = <<>> /\ cur = 0 /\ proc = NoProcess
  /\ faults = 0
  /\ hist = [c \in Cmd |-> [claims |-> 0, starts |-> 0, resets |-> 0]]

-----------------------------------------------------------------------------
(* The clean-up that a poll or the opening of a session performs first.    *)

IdleTooLong(s) == sess[s].st = "active" /\ sess[s].idle > IdleTimeout

StuckNever(c)     == FALSE                                            \* mutant of Stuck
StuckAnyStatus(c) == cmd[c].st # "none" /\ cmd[c].age > StuckTimeout  \* mutant of Stuck
Stuck(c) == cmd[c].st = "running" /\ cmd[c].age > StuckTimeout

ExpiredSessions ==
  [s \in Session |-> IF IdleTooLong(s) THEN [sess[s] EXCEPT !.st = "closed"] ELSE sess[s]]

ResetMisspelt(C) ==  \* mutant of ResetCommands: the status of a queued script run
  [c \in Cmd |-> IF c \in C THEN [cmd[c] EXCEPT !.st = "queued", !.age = 0] ELSE cmd[c]]

\* The rows of the commands, with those of C put back in the queue.
ResetCommands(C) ==
  [c \in Cmd |-> IF c \in C THEN [cmd[c] EXCEPT !.st = "pending", !.age = 0] ELSE cmd[c]]

CountResets(C) ==
  [c \in Cmd |-> IF c \in C THEN [hist[c] EXCEPT !.resets = @ + 1] ELSE hist[c]]

StuckCommands == {c \in Cmd : Stuck(c)}

-----------------------------------------------------------------------------
(* The dashboard's requests.                                               *)

ExistingNone(u, s) == FALSE  \* mutant of Existing
\* A session of user u that create_session finds: an active one that its own
\* clean-up is not about to close.
Existing(u, s) == sess[s].st = "active" /\ sess[s].user = u /\ ~IdleTooLong(s)

\* create_session reads: the sessions it will close are those idle too long and
\* one other active session of the user.
OpenSession(u) ==
  \E s \in Session :
    /\ sess[s].st = "none"
    /\ \A r \in Session : r < s => sess[r].st # "none"
    /\ Cardinality({o \in opening : o.user = u}) < MaxOpening
    /\ sess' = [sess EXCEPT ![s] = [st |-> "opening", user |-> u, idle |-> 0]]
    /\ \E own \in SUBSET {r \in Session : Existing(u, r)} :
         /\ Cardinality(own) <= 1
         /\ own = {} => \A r \in Session : ~Existing(u, r)
         /\ opening' = opening \union {[sess |-> s, user |-> u,
                                        found |-> own \union {r \in Session : IdleTooLong(r)}]}
    /\ UNCHANGED <<cmd, sweeping, net, agentVars, faults, hist>>

\* create_session commits: the sessions found are closed, the new one is active.
\* The stuck commands its clean-up puts back are locked from the UPDATE to the
\* commit, so nothing of theirs changes in between.
CommitSession(o) ==
  /\ o \in opening
  /\ sess' = [s \in Session |->
                CASE s = o.sess -> [sess[s] EXCEPT !.st = "active"]
                  [] s \in o.found -> [sess[s] EXCEPT !.st = "closed"]
                  [] OTHER -> sess[s]]
  /\ cmd' = ResetCommands(StuckCommands)
  /\ hist' = CountResets(StuckCommands)
  /\ opening' = opening \ {o}
  /\ UNCHANGED <<sweeping, net, agentVars, faults>>

\* close_session: its owner or an administrator closes a session.
CloseSession(s) ==
  /\ sess[s].st = "active"
  /\ sess' = [sess EXCEPT ![s].st = "closed"]
  /\ UNCHANGED <<cmd, opening, sweeping, net, agentVars, faults, hist>>

\* send_command: only an active session takes commands.
SendCommand(s, c) ==
  /\ sess[s].st = "active"
  /\ cmd[c].st = "none"
  /\ \A d \in Cmd : d < c => cmd[d].st # "none"
  /\ cmd' = [cmd EXCEPT ![c] = [st |-> "pending", sess |-> s, age |-> 0]]
  /\ sess' = [sess EXCEPT ![s].idle = 0]
  /\ UNCHANGED <<opening, sweeping, net, agentVars, faults, hist>>

-----------------------------------------------------------------------------
(* The clean-up of other devices' polls: SELECT, then UPDATE by key.       *)

BeginSweep ==
  /\ faults < MaxFaults
  /\ sweeping = {}
  /\ StuckCommands # {}
  /\ sweeping' = StuckCommands
  /\ faults' = faults + 1
  /\ UNCHANGED <<sess, cmd, opening, net, agentVars, hist>>

EndSweep ==
  /\ sweeping # {}
  /\ cmd' = ResetCommands(sweeping)
  /\ hist' = CountResets(sweeping)
  /\ sess' = ExpiredSessions
  /\ sweeping' = {}
  /\ UNCHANGED <<opening, net, agentVars, faults>>

-----------------------------------------------------------------------------
(* The worker polls.                                                       *)

AnyPending(T, s, c)    == T[c].st = "pending" /\ T[c].sess = s  \* mutant of OldestPending
\* The oldest pending command of session s in the rows T.
OldestPending(T, s, c) ==
  /\ T[c].st = "pending" /\ T[c].sess = s
  /\ \A d \in Cmd : T[d].st = "pending" /\ T[d].sess = s => c <= d

\* What agent_get_sessions offers, given the rows S and T of the two tables.
Offered(S, T) ==
  {c \in Cmd : \E s \in Session : S[s].st = "active" /\ OldestPending(T, s, c)}

\* agent_get_sessions; the reply may be lost.  The sessions of the reply come
\* in no particular order.
Poll ==
  /\ wpc = "poll" /\ todo = <<>>
  /\ sess' = ExpiredSessions
  /\ cmd' = ResetCommands(StuckCommands)
  /\ hist' = CountResets(StuckCommands)
  /\ LET offer == Offered(ExpiredSessions, ResetCommands(StuckCommands))
     IN \/ /\ todo' \in {q \in [1..Cardinality(offer) -> offer] :
                            \A i, j \in 1..Cardinality(offer) : q[i] = q[j] => i = j}
           /\ UNCHANGED faults
        \/ /\ offer # {} /\ faults < MaxFaults
           /\ faults' = faults + 1
           /\ UNCHANGED todo
  /\ UNCHANGED <<opening, sweeping, net, wpc, cur, proc>>

\* The worker takes the next command of its list and asks to run it.
AskRunning ==
  /\ wpc = "poll" /\ todo # <<>>
  /\ cur' = Head(todo) /\ todo' = Tail(todo)
  /\ net' = net \union {[kind |-> "running", cmd |-> Head(todo), ok |-> FALSE, waited |-> TRUE]}
  /\ wpc' = "ask"
  /\ UNCHANGED <<dbVars, proc, faults, hist>>

MayRunAny(c) == cmd[c].st # "none"  \* mutant of MayRun
\* agent_command_running: a command that is not pending is refused.
MayRun(c)    == cmd[c].st = "pending"

HandleRunning(m) ==
  /\ m \in net /\ m.kind = "running"
  /\ net' = net \ {m}
  /\ IF MayRun(m.cmd)
     THEN /\ cmd' = [cmd EXCEPT ![m.cmd] = [@ EXCEPT !.st = "running", !.age = 0]]
          /\ hist' = [hist EXCEPT ![m.cmd].claims = @ + 1]
          /\ wpc' = IF m.waited THEN "granted" ELSE wpc
          /\ cur' = cur
     ELSE /\ UNCHANGED <<cmd, hist>>
          /\ wpc' = IF m.waited THEN "poll" ELSE wpc
          /\ cur' = IF m.waited THEN 0 ELSE cur
  /\ UNCHANGED <<sess, opening, sweeping, todo, proc, faults>>

-----------------------------------------------------------------------------
(* The worker executes a command.                                          *)

\* The shell is started and the kill timer armed.  What it starts may outlive it
\* and hold its pipes.
StartCommand ==
  /\ wpc = "granted"
  /\ \E h \in BOOLEAN :
       proc' = [NoProcess EXCEPT !.alive = TRUE, !.held = h, !.timer = TRUE]
  /\ hist' = [hist EXCEPT ![cur].starts = @ + 1]
  /\ wpc' = "exec"
  /\ UNCHANGED <<dbVars, net, todo, cur, faults>>

\* The shell cannot be started: the error is posted and the command ends.
StartFails ==
  /\ wpc = "granted"
  /\ proc' = NoProcess
  /\ wpc' = "exec"
  /\ UNCHANGED <<dbVars, net, todo, cur, faults, hist>>

\* The shell ends by itself, with exit code 0 or not.
ShellExits ==
  /\ wpc \in {"exec", "post"} /\ proc.alive
  /\ \E ok \in BOOLEAN : proc' = [proc EXCEPT !.alive = FALSE, !.ok = ok]
  /\ UNCHANGED <<dbVars, net, wpc, todo, cur, faults, hist>>

\* The last descendant that held the pipes ends.
PipesClose ==
  /\ wpc \in {"exec", "post"} /\ proc.held
  /\ proc' = [proc EXCEPT !.held = FALSE]
  /\ UNCHANGED <<dbVars, net, wpc, todo, cur, faults, hist>>

\* The shell closes its standard output and runs on: the reading loop ends and
\* cancels the kill timer, and the worker waits for the error output.
OutputCloses ==
  /\ wpc = "exec" /\ proc.alive /\ proc.timer /\ ~proc.held
  /\ proc' = [proc EXCEPT !.timer = FALSE]
  /\ UNCHANGED <<dbVars, net, wpc, todo, cur, faults, hist>>

TimerNever == FALSE  \* mutant of KillDue
KillDue    == proc.timer /\ proc.age >= CmdTimeout

\* _kill_on_timeout kills the shell, and only the shell, and posts a line from
\* its own thread.
KillTimer ==
  /\ wpc \in {"exec", "post"} /\ KillDue
  /\ proc' = [proc EXCEPT !.alive = FALSE, !.timer = FALSE, !.ok = @ /\ ~proc.alive]
  /\ net' = net \union {[kind |-> "output", cmd |-> cur, ok |-> FALSE, waited |-> FALSE]}
  /\ UNCHANGED <<dbVars, wpc, todo, cur, faults, hist>>

\* _post_output from the worker thread, which waits for the reply.
PostOutput ==
  /\ wpc = "exec" /\ proc.posts < MaxPosts
  /\ proc' = [proc EXCEPT !.posts = @ + 1]
  /\ net' = net \union {[kind |-> "output", cmd |-> cur, ok |-> FALSE, waited |-> TRUE]}
  /\ wpc' = "post"
  /\ UNCHANGED <<dbVars, todo, cur, faults, hist>>

\* agent_post_output refreshes the session, whatever its status.
HandleOutput(m) ==
  /\ m \in net /\ m.kind = "output"
  /\ net' = net \ {m}
  /\ sess' = [sess EXCEPT ![cmd[m.cmd].sess].idle = 0]
  /\ wpc' = IF m.waited THEN "exec" ELSE wpc
  /\ UNCHANGED <<cmd, opening, sweeping, todo, cur, proc, faults, hist>>

\* The reading loop ends when nobody holds the pipes; then _mark_done.
PipesClosed == ~proc.alive /\ ~proc.held
FinishCommand ==
  /\ wpc = "exec" /\ PipesClosed
  /\ net' = net \union {[kind |-> "done", cmd |-> cur, ok |-> proc.ok, waited |-> TRUE]}
  /\ proc' = NoProcess
  /\ wpc' = "ending"
  /\ UNCHANGED <<dbVars, todo, cur, faults, hist>>

\* agent_command_done does not look at the status it replaces.
HandleDone(m) ==
  /\ m \in net /\ m.kind = "done"
  /\ net' = net \ {m}
  /\ cmd' = [cmd EXCEPT ![m.cmd].st = IF m.ok THEN "done" ELSE "error"]
  /\ wpc' = IF m.waited THEN "poll" ELSE wpc
  /\ cur' = IF m.waited THEN 0 ELSE cur
  /\ UNCHANGED <<sess, opening, sweeping, todo, proc, faults, hist>>

-----------------------------------------------------------------------------
(* Faults.                                                                 *)

Abandoned == {[m EXCEPT !.waited = FALSE] : m \in net}

\* The worker stops waiting for a reply: a request it waits for stays in flight,
\* and none of the three is repeated.
TimeOut ==
  /\ faults < MaxFaults
  /\ wpc \in {"ask", "granted", "post", "ending"}
  /\ net' = Abandoned
  /\ wpc' = IF wpc = "post" THEN "exec" ELSE "poll"
  /\ cur' = IF wpc = "post" THEN cur ELSE 0
  /\ faults' = faults + 1
  /\ UNCHANGED <<dbVars, todo, proc, hist>>

\* The agent process dies, with what the worker knew.
Crash ==
  /\ faults < MaxFaults
  /\ wpc # "down"
  /\ net' = Abandoned
  /\ wpc' = "down" /\ todo' = <<>> /\ cur' = 0 /\ proc' = NoProcess
  /\ faults' = faults + 1
  /\ UNCHANGED <<dbVars, hist>>

\* The agent starts again, with a new worker thread.
Restart ==
  /\ wpc = "down"
  /\ wpc' = "poll"
  /\ UNCHANGED <<dbVars, net, todo, cur, proc, faults, hist>>

\* Time passes.  The kill timer is not late.
Older(n, limit) == IF n > limit THEN n ELSE n + 1
Tick ==
  /\ ~(wpc \in {"exec", "post"} /\ KillDue)
  /\ sess' = [s \in Session |-> IF sess[s].st = "active"
                                THEN [sess[s] EXCEPT !.idle = Older(@, IdleTimeout)] ELSE sess[s]]
  /\ cmd' = [c \in Cmd |-> IF cmd[c].st = "running"
                           THEN [cmd[c] EXCEPT !.age = Older(@, StuckTimeout)] ELSE cmd[c]]
  /\ proc' = IF proc.alive \/ proc.held THEN [proc EXCEPT !.age = Older(@, CmdTimeout)] ELSE proc
  /\ UNCHANGED <<opening, sweeping, net, wpc, todo, cur, faults, hist>>

-----------------------------------------------------------------------------

Dashboard ==
  \/ \E u \in Users : OpenSession(u)
  \/ \E o \in opening : CommitSession(o)
  \/ \E s \in Session : CloseSession(s)
  \/ \E s \in Session, c \in Cmd : SendCommand(s, c)

Server ==
  \/ BeginSweep
  \/ EndSweep
  \/ \E m \in net : HandleRunning(m) \/ HandleOutput(m) \/ HandleDone(m)

Worker ==
  \/ Poll
  \/ AskRunning
  \/ StartCommand
  \/ StartFails
  \/ PostOutput
  \/ KillTimer
  \/ FinishCommand

Environment ==
  \/ ShellExits
  \/ PipesClose
  \/ OutputCloses
  \/ TimeOut
  \/ Crash
  \/ Restart
  \/ Tick

Next == Dashboard \/ Server \/ Worker \/ Environment

Spec == Init /\ [][Next]_vars

-----------------------------------------------------------------------------
(* Fairness: the worker loop, the kill timer, the requests that are being  *)
(* waited for, the operating system's restart of the agent and time go on. *)
(* Users, faults, late requests, the commands themselves and whatever they *)
(* leave behind owe nothing.                                               *)

HandleWaited == \E m \in net : m.waited /\ (HandleRunning(m) \/ HandleOutput(m) \/ HandleDone(m))

Fairness ==
  /\ WF_vars(Poll) /\ WF_vars(AskRunning) /\ WF_vars(StartCommand) /\ WF_vars(KillTimer)
  /\ WF_vars(FinishCommand) /\ WF_vars(HandleWaited) /\ WF_vars(Restart) /\ WF_vars(Tick)

FairSpec == Spec /\ Fairness

-----------------------------------------------------------------------------
(* Properties.                                                             *)

\* Every variable keeps to the values the code can give it.
TypeOK ==
  /\ sess \in [Session -> SessionRow]
  /\ cmd \in [Cmd -> CommandRow]
  /\ opening \subseteq Open
  /\ sweeping \subseteq Cmd
  /\ net \subseteq Request
  /\ wpc \in {"poll", "ask", "granted", "exec", "post", "ending", "down"}
  /\ todo \in Seq(Cmd)
  /\ cur \in 0..MaxCmds
  /\ proc \in Process
  /\ faults \in 0..MaxFaults
  /\ hist \in [Cmd -> Counts]

\* A command is handed out again, and executed again, only after the clean-up
\* has put it back in the queue: lost replies, requests handled late and
\* restarts of the agent alone never run a command twice
\* (agent_command_running refuses what is not pending).
RerunNeedsReset ==
  \A c \in Cmd : /\ hist[c].starts <= hist[c].claims
                 /\ hist[c].claims <= hist[c].resets + 1

\* Within a session a command is never handed out before every command sent
\* earlier has been handed out at least once (agent_get_sessions offers the
\* oldest pending command), whatever snapshot the worker acts on.
NoOvertaking ==
  \A c, d \in Cmd : c < d /\ cmd[c].sess = cmd[d].sess /\ hist[d].claims > 0
                    => hist[c].claims > 0

\* A command whose outcome is recorded never becomes pending or running again,
\* whatever requests are late: only a clean-up that had selected it before the
\* outcome was recorded revives it.
FinishedIsFinal == [][\A c \in Cmd : Finished(c) /\ c \notin sweeping => Finished(c)']_vars

\* A user who opens sessions one after the other has one active session on the
\* device, however closings, retries and the clean-up fall between: create_session
\* closes "any existing active session for this user+device".  Two requests that
\* overlap each miss the session of the other.
OneActivePerUser ==
  MaxOpening = 1 => \A s, r \in Session : /\ sess[s].st = "active" /\ sess[r].st = "active"
                                          /\ sess[s].user = sess[r].user
                                        => s = r

\* What keeps the worker from coming back: a process that outlives the shell
\* holds its pipes, or the shell runs on with its output closed, which has
\* cancelled the kill timer.
WorkerHeld == \/ proc.held /\ ~proc.alive
              \/ proc.alive /\ ~proc.timer

\* A running command does not stay running for ever: it ends, or a poll puts it
\* back in the queue after a crash or a lost outcome.  Only a worker that is
\* held for ever never polls again.
RunningEnds == \A c \in Cmd : cmd[c].st = "running" ~> cmd[c].st # "running" \/ WorkerHeld

\* The worker always comes back to polling, whatever happens to its requests and
\* to the command it was given: a command that does not end is killed, and what
\* can hold the worker for ever is WorkerHeld and nothing else.
WorkerReturns == wpc # "poll" ~> wpc = "poll" \/ WorkerHeld

\* The execution of a command comes to an end ("max seconds a single command may
\* run"; "guarantees proc dies even if stdout loop hangs").
ExecutionEnds == wpc \in {"exec", "post"} ~> wpc \notin {"exec", "post"}

\* The terminal implements the life of a command of CommandLife.tla.
LifeOf   == [c \in Cmd |-> CASE cmd[c].st = "pending" -> "queued"
                            [] cmd[c].st = "running" -> "handed"
                            [] Finished(c) -> "ended"
                            [] OTHER -> "none"]
Claimed  == [c \in Cmd |-> hist[c].claims]
PutBack  == [c \in Cmd |-> hist[c].resets]
Executed == [c \in Cmd |-> hist[c].starts]

Life == INSTANCE CommandLife WITH
  Cmd <- Cmd, life <- LifeOf, noticed <- sweeping, handed <- Claimed, requeued <- PutBack, run <- Executed

ImplementsCommandLife == Life!LifeSpec
=============================================================================
