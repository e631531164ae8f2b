----------------------------- MODULE ScriptRuns -----------------------------
(***************************************************************************)
(* Script runs of one device: the rows of script_runs, the agent's main    *)
(* loop (agent/rmm_agent.py), one thread per run and the file of results   *)
(* that could not be delivered (agent/executor.py).                        *)
(*                                                                         *)
(* The main loop and the threads share the file without a lock: reading    *)
(* it, opening it for writing (which empties it) and writing it are steps  *)
(* of their own, and each of them may fail.  A request whose sender gave   *)
(* up may be handled late.                                                 *)
(***************************************************************************)
EXTENDS Naturals, FiniteSets, Sequences

CONSTANTS
  Runs,        \* the identifiers of script runs
  MaxFaults,   \* bound: requests the agent gives up, failing uses of the file
  MaxCrashes,  \* bound: deaths of the agent process
  MaxQueue     \* MAX_QUEUE: results the file keeps

ASSUME ScriptRunsAssumption ==
  /\ MaxFaults \in Nat /\ MaxCrashes \in Nat /\ MaxQueue \in Nat \ {0}

VARIABLES
  row,      \* row[r]: status of the run
  late,     \* get_tasks requests the agent gave up and the server has not seen
  net,      \* results on their way to the server
  main,     \* the main loop: pc, entries it flushes, entries it will keep
  thr,      \* thr[r]: the thread of run r, its result, what it will write
  file,     \* pending_results.json
  faults, crashes,
  lossy,    \* history: something happened that may cost a stored result
  made,     \* history: the outcome of the last execution of each run
  starts    \* history: executions of each run

serverVars == <<row, late>>
vars == <<row, late, net, main, thr, file, faults, crashes, lossy, made, starts>>

\* Exit code 0 or another one, of which 124 says that the script was stopped.
Outcomes == {"zero", "nonzero"}
Entry    == [run : Runs, out : Outcomes]
Result   == [run : Runs, out : Outcomes,
             from : {"thread", "main"},  \* who posted it
             waited : BOOLEAN]           \* the sender waits for the reply
Thread   == [pc : {"idle", "exec", "wait", "read", "open", "write"},
             out : Outcomes \union {"none"}, snap : Seq(Entry)]
Main     == [pc : {"flush", "send", "sent", "flushwrite", "poll", "down"},
             todo : Seq(Entry), left : Seq(Entry)]
\* "cut": opened for writing and empty; "bad": no JSON.
File     == [st : {"ok", "cut", "bad"}, q : Seq(Entry)]

NoThread == [pc |-> "idle", out |-> "none", snap |-> <<>>]
Finished(r) == row[r] \in {"success", "failed"}

Init ==
  /\ row = [r \in Runs |-> "none"]
  /\ late = 0 /\ net = {}
  /\ main = [pc |-> "flush", todo |-> <<>>, left |-> <<>>]
  /\ thr = [r \in Runs |-> NoThread]
  /\ file = [st |-> "ok", q |-> <<>>]
  /\ faults = 0 /\ crashes = 0 /\ lossy = FALSE
  /\ made = [r \in Runs |-> "none"]
  /\ starts = [r \in Runs |-> 0]

-----------------------------------------------------------------------------
(* The file.                                                               *)

\* Who has read the file and will write it, or is writing it.
InFile(r) == thr[r].pc \in {"open", "write"}
MainInFile == main.pc \in {"send", "sent", "flushwrite"}
FileInUse == MainInFile \/ \E r \in Runs : InFile(r)

\* _enqueue_result appends and drops the oldest entries above MAX_QUEUE.
CappedAppend(q, e) ==
  LET a == Append(q, e)
  IN IF Len(a) > MaxQueue THEN SubSeq(a, Len(a) - MaxQueue + 1, Len(a)) ELSE a

\* Opening the file for writing empties it.
Opened == [st |-> "cut", q |-> <<>>]

\* What a write leaves: its text, unless another writer wrote since the file
\* was emptied; then a longer text may stick out behind it.
Written(q) ==
  {[st |-> "ok", q |-> q]} \union IF file.st = "cut" THEN {} ELSE {[st |-> "bad", q |-> <<>>]}

-----------------------------------------------------------------------------
(* The server.                                                             *)

\* run_script_service and the other places that create runs.
QueueRuns(R) ==
  /\ R # {} /\ \A r \in R : row[r] = "none"
  /\ row' = [r \in Runs |-> IF r \in R THEN "queued" ELSE row[r]]
  /\ UNCHANGED <<late, net, main, thr, file, faults, crashes, lossy, made, starts>>

PickAny  == {r \in Runs : row[r] \in {"queued", "running"}}  \* mutant of Pending
Pending  == {r \in Runs : row[r] = "queued"}

Marked(R) == [r \in Runs |-> IF r \in R THEN "running" ELSE row[r]]

\* get_tasks answers in time: the runs are marked and their threads started,
\* except for those the agent is still running (_running_tasks).  The token's
\* row, written before the runs are read, keeps one poll behind another.
GetTasks ==
  /\ main.pc = "poll"
  /\ row' = Marked(Pending)
  /\ LET new == {r \in Pending : thr[r].pc = "idle"}
     IN /\ thr' = [r \in Runs |-> IF r \in new THEN [NoThread EXCEPT !.pc = "exec"] ELSE thr[r]]
        /\ starts' = [r \in Runs |-> IF r \in new THEN starts[r] + 1 ELSE starts[r]]
  /\ main' = [main EXCEPT !.pc = "flush"]
  /\ UNCHANGED <<late, net, file, faults, crashes, lossy, made>>

\* A get_tasks whose answer nobody waits for marks runs all the same.
LateGetTasks ==
  /\ late > 0
  /\ late' = late - 1
  /\ row' = Marked(Pending)
  /\ UNCHANGED <<net, main, thr, file, faults, crashes, lossy, made, starts>>

\* How the agent goes on when it knows whether m was delivered.
ThreadAnswered(m, ok) ==
  /\ thr' = [thr EXCEPT ![m.run] = IF ok THEN NoThread ELSE [@ EXCEPT !.pc = "read"]]
  /\ UNCHANGED main
MainAnswered(m, ok) ==
  /\ main' = [pc |-> "send", todo |-> Tail(main.todo),
              left |-> IF ok THEN main.left ELSE Append(main.left, Head(main.todo))]
  /\ UNCHANGED thr
Answered(m, ok) ==
  \/ m.from = "thread" /\ ThreadAnswered(m, ok)
  \/ m.from = "main" /\ MainAnswered(m, ok)

StatusDone(o)    == "completed"  \* mutant of Status
StatusSwapped(o) == IF o = "zero" THEN "failed" ELSE "success"  \* mutant of Status
Status(o)        == IF o = "zero" THEN "success" ELSE "failed"

\* task_result does not look at the status it replaces.
TaskResult(m) ==
  /\ m \in net
  /\ net' = net \ {m}
  /\ row' = [row EXCEPT ![m.run] = Status(m.out)]
  /\ IF m.waited THEN Answered(m, TRUE) ELSE UNCHANGED <<main, thr>>
  /\ UNCHANGED <<late, file, faults, crashes, lossy, made, starts>>

-----------------------------------------------------------------------------
(* The thread of a run.                                                    *)

\* The script ends, or is stopped, and the thread posts the result.
RunEnds(r) ==
  /\ thr[r].pc = "exec"
  /\ \E o \in Outcomes :
       /\ made' = [made EXCEPT ![r] = o]
       /\ thr' = [thr EXCEPT ![r] = [pc |-> "wait", out |-> o, snap |-> <<>>]]
       /\ net' = net \union {[run |-> r, out |-> o, from |-> "thread", waited |-> TRUE]}
  /\ UNCHANGED <<serverVars, main, file, faults, crashes, lossy, starts>>

\* _enqueue_result reads the file; a file that cannot be read ends it.
EnqueueRead(r) ==
  /\ thr[r].pc = "read"
  /\ thr' = [thr EXCEPT ![r] =
               IF file.st = "ok"
               THEN [@ EXCEPT !.pc = "open",
                              !.snap = CappedAppend(file.q, [run |-> r, out |-> thr[r].out])]
               ELSE NoThread]
  /\ lossy' = (lossy \/ FileInUse \/ Len(file.q) >= MaxQueue)
  /\ UNCHANGED <<serverVars, net, main, file, faults, crashes, made, starts>>

EnqueueOpen(r) ==
  /\ thr[r].pc = "open"
  /\ file' = Opened
  /\ thr' = [thr EXCEPT ![r].pc = "write"]
  /\ UNCHANGED <<serverVars, net, main, faults, crashes, lossy, made, starts>>

EnqueueWrite(r) ==
  /\ thr[r].pc = "write"
  /\ file' \in Written(thr[r].snap)
  /\ thr' = [thr EXCEPT ![r] = NoThread]
  /\ UNCHANGED <<serverVars, net, main, faults, crashes, lossy, made, starts>>

-----------------------------------------------------------------------------
(* The main loop: flush_pending_queue, heartbeat, get_tasks.               *)

FlushRead ==
  /\ main.pc = "flush"
  /\ main' = IF file.st = "ok" /\ file.q # <<>>
             THEN [pc |-> "send", todo |-> file.q, left |-> <<>>]
             ELSE [main EXCEPT !.pc = "poll"]
  /\ lossy' = (lossy \/ FileInUse)
  /\ UNCHANGED <<serverVars, net, thr, file, faults, crashes, made, starts>>

FlushPost ==
  /\ main.pc = "send" /\ main.todo # <<>>
  /\ main' = [main EXCEPT !.pc = "sent"]
  /\ net' = net \union {[run |-> Head(main.todo).run, out |-> Head(main.todo).out,
                         from |-> "main", waited |-> TRUE]}
  /\ UNCHANGED <<serverVars, thr, file, faults, crashes, lossy, made, starts>>

FlushOpen ==
  /\ main.pc = "send" /\ main.todo = <<>>
  /\ file' = Opened
  /\ main' = [main EXCEPT !.pc = "flushwrite"]
  /\ UNCHANGED <<serverVars, net, thr, faults, crashes, lossy, made, starts>>

RemainingNone == <<>>  \* mutant of Remaining
Remaining     == main.left
FlushWrite ==
  /\ main.pc = "flushwrite"
  /\ file' \in Written(Remaining)
  /\ main' = [pc |-> "poll", todo |-> <<>>, left |-> <<>>]
  /\ UNCHANGED <<serverVars, net, thr, faults, crashes, lossy, made, starts>>

\* The heartbeat fails: the loop starts again without asking for tasks.
HeartbeatFails ==
  /\ main.pc = "poll"
  /\ main' = [main EXCEPT !.pc = "flush"]
  /\ UNCHANGED <<serverVars, net, thr, file, faults, crashes, lossy, made, starts>>

-----------------------------------------------------------------------------
(* Faults.                                                                 *)

\* The agent gives up a get_tasks request, which the server may still handle.
GiveUpPoll ==
  /\ faults < MaxFaults
  /\ main.pc = "poll"
  /\ main' = [main EXCEPT !.pc = "flush"]
  /\ late' = late + 1
  /\ faults' = faults + 1
  /\ UNCHANGED <<row, net, thr, file, crashes, lossy, made, starts>>

\* A sender gives up a result, which the server may still handle.
GiveUpResult(m) ==
  /\ faults < MaxFaults
  /\ m \in net /\ m.waited
  /\ net' = (net \ {m}) \union {[m EXCEPT !.waited = FALSE]}
  /\ Answered(m, FALSE)
  /\ faults' = faults + 1
  /\ UNCHANGED <<serverVars, file, crashes, lossy, made, starts>>

\* The text a failing write left: none of it, or some.
Spoiled == {file, [st |-> "bad", q |-> <<>>]}

\* A thread fails to read, open or write the file: its result is dropped.
EnqueueFails(r) ==
  /\ faults < MaxFaults
  /\ \/ thr[r].pc \in {"read", "open"} /\ UNCHANGED file
     \/ thr[r].pc = "write" /\ file' \in Spoiled
  /\ thr' = [thr EXCEPT ![r] = NoThread]
  /\ lossy' = TRUE
  /\ faults' = faults + 1
  /\ UNCHANGED <<serverVars, net, main, crashes, made, starts>>

\* The flush fails to read or open the file, which then keeps what it holds,
\* or to write it, which by then is empty.
FlushFails ==
  /\ faults < MaxFaults
  /\ \/ main.pc \in {"flush", "send"} /\ main.todo = <<>> /\ UNCHANGED <<file, lossy>>
     \/ main.pc = "flushwrite" /\ file' \in Spoiled /\ lossy' = TRUE
  /\ main' = [pc |-> "poll", todo |-> <<>>, left |-> <<>>]
  /\ faults' = faults + 1
  /\ UNCHANGED <<serverVars, net, thr, crashes, made, starts>>

\* The agent dies, with its threads; the file stays as it is.
Crash ==
  /\ crashes < MaxCrashes
  /\ main.pc # "down"
  /\ main' = [pc |-> "down", todo |-> <<>>, left |-> <<>>]
  /\ thr' = [r \in Runs |-> NoThread]
  /\ net' = {[m EXCEPT !.waited = FALSE] : m \in net}
  /\ crashes' = crashes + 1
  /\ lossy' = TRUE
  /\ UNCHANGED <<serverVars, file, faults, made, starts>>

Restart ==
  /\ main.pc = "down"
  /\ main' = [main EXCEPT !.pc = "flush"]
  /\ UNCHANGED <<serverVars, net, thr, file, faults, crashes, lossy, made, starts>>

-----------------------------------------------------------------------------

Server == \/ \E R \in SUBSET Runs : QueueRuns(R)
          \/ GetTasks
          \/ LateGetTasks
          \/ \E m \in net : TaskResult(m)

Threads == \E r \in Runs : RunEnds(r) \/ EnqueueRead(r) \/ EnqueueOpen(r) \/ EnqueueWrite(r)

MainLoop == FlushRead \/ FlushPost \/ FlushOpen \/ FlushWrite \/ HeartbeatFails

Faults == \/ GiveUpPoll \/ FlushFails \/ Crash \/ Restart
          \/ \E m \in net : GiveUpResult(m)
          \/ \E r \in Runs : EnqueueFails(r)

Next == Server \/ Threads \/ MainLoop \/ Faults

Spec == Init /\ [][Next]_vars

\* The agent's loop and threads run on, what it waits for is answered.  The
\* server owes nothing to given-up requests, users and scripts owe nothing.
FairSpec ==
  /\ Spec
  /\ WF_vars(FlushRead) /\ WF_vars(FlushPost) /\ WF_vars(FlushOpen) /\ WF_vars(FlushWrite)
  /\ WF_vars(HeartbeatFails \/ GetTasks)
  /\ WF_vars(\E m \in net : m.waited /\ TaskResult(m))
  /\ WF_vars(Restart)
  /\ \A r \in Runs : WF_vars(EnqueueRead(r) \/ EnqueueOpen(r) \/ EnqueueWrite(r))

-----------------------------------------------------------------------------
(* Properties.                                                             *)

InSeq(q, r) == \E i \in DOMAIN q : q[i].run = r

\* Every variable keeps to the values the code can give it.
TypeOK ==
  /\ row \in [Runs -> {"none", "queued", "running", "success", "failed"}]
  /\ late \in 0..MaxFaults
  /\ net \subseteq Result
  /\ main \in Main
  /\ thr \in [Runs -> Thread]
  /\ file \in File
  /\ faults \in 0..MaxFaults /\ crashes \in 0..MaxCrashes
  /\ lossy \in BOOLEAN
  /\ made \in [Runs -> Outcomes \union {"none"}]
  /\ starts \in [Runs -> Nat]

\* A script run is executed at most once, however polls, replies and results
\* are lost or late and however often the agent restarts: get_tasks marks what
\* it hands out before it answers.  What is recorded is what that one execution
\* ended with.
AtMostOnce ==
  \A r \in Runs : /\ starts[r] <= 1
                  /\ Finished(r) => starts[r] = 1 /\ made[r] # "none" /\ row[r] = Status(made[r])

\* The file of undelivered results never holds more than MAX_QUEUE of them,
\* also when the threads and the flush overwrite each other.
QueueCapped == Len(file.q) <= MaxQueue

\* The list q holds the result that run r ended with.
Holds(q, r) == \E i \in DOMAIN q : q[i] = [run |-> r, out |-> made[r]]

\* A run that ended is recorded with the outcome it had, or that outcome is in
\* somebody's hands or in the file ("Persist a failed task result for later
\* delivery").
NoResultLost ==
  \A r \in Runs : made[r] # "none" =>
    \/ row[r] = Status(made[r])
    \/ thr[r].pc # "idle"
    \/ file.st = "ok" /\ Holds(file.q, r)
    \/ Holds(main.todo, r) \/ Holds(main.left, r)
    \/ \E d \in Runs : Holds(thr[d].snap, r)

\* A result is lost in four ways only: another user of the file was in it, the
\* agent died, the cap (MAX_QUEUE) dropped it, or the file could not be read or
\* written, which the agent only logs.
LostForCause == ~lossy => NoResultLost

\* What is in the file is delivered in the end, unless one of the four happens.
QueuedIsDelivered == \A r \in Runs : InSeq(file.q, r) ~> Finished(r) \/ lossy

\* The abstract run: its stage, and the outcome users can tell.
StageOf == [r \in Runs |-> CASE row[r] = "running" -> "taken"
                             [] Finished(r) -> "recorded"
                             [] OTHER -> row[r]]
MadeOf  == [r \in Runs |-> CASE made[r] = "none" -> "none"
                             [] made[r] = "zero" -> "success"
                             [] OTHER -> "failed"]
KnownOf == [r \in Runs |-> IF Finished(r) THEN row[r] ELSE "none"]

Abstract == INSTANCE RunLife WITH
  Run <- Runs, Outcome <- {"success", "failed"}, NoOutcome <- "none",
  stage <- StageOf, made <- MadeOf, known <- KnownOf

ImplementsRunLife == Abstract!RunLifeSpec
=============================================================================
