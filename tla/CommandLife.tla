----------------------------- MODULE CommandLife -----------------------------
(***************************************************************************)
(* What the remote terminal promises about a command, whatever happens to  *)
(* the requests and to the agent: a command is queued once, is executed    *)
(* only by a worker that was handed it, every hand-out after the first one *)
(* was preceded by a requeue, and once it has ended it comes back only if  *)
(* a clean-up had found it handed out before it ended.                     *)
(* Terminal.tla is shown to implement this specification.                  *)
(***************************************************************************)
EXTENDS Naturals

CONSTANT Cmd    \* the identifiers of terminal commands

VARIABLES
  life,         \* life[c]: where command c is
  noticed,      \* commands that a clean-up has found handed out and will queue again
  handed,       \* handed[c]: times c was handed out for execution
  requeued,     \* requeued[c]: times c was put back in the queue
  run           \* run[c]: times c was executed

lifeVars == <<life, noticed, handed, requeued, run>>

Stage == {"none", "queued", "handed", "ended"}

LifeInit ==
  /\ life = [c \in Cmd |-> "none"]
  /\ noticed = {}
  /\ handed = [c \in Cmd |-> 0]
  /\ requeued = [c \in Cmd |-> 0]
  /\ run = [c \in Cmd |-> 0]

\* A user queues a command.
Submit(c) ==
  /\ life[c] = "none"
  /\ life' = [life EXCEPT ![c] = "queued"]
  /\ UNCHANGED <<noticed, handed, requeued, run>>

\* A queued command is handed out for execution.
HandOut(c) ==
  /\ life[c] = "queued"
  /\ life' = [life EXCEPT ![c] = "handed"]
  /\ handed' = [handed EXCEPT ![c] = @ + 1]
  /\ UNCHANGED <<noticed, requeued, run>>

\* The commands of C are queued again, together.
Requeues(C) ==
  /\ life' = [c \in Cmd |-> IF c \in C THEN "queued" ELSE life[c]]
  /\ requeued' = [c \in Cmd |-> IF c \in C THEN requeued[c] + 1 ELSE requeued[c]]
  /\ UNCHANGED <<handed, run>>

\* Commands that were handed out and seem lost are queued again, at once ...
Requeue(C) ==
  /\ \A c \in C : life[c] = "handed"
  /\ Requeues(C)
  /\ UNCHANGED noticed

\* ... or are noticed first and queued later, whatever has become of them.
Notice(C) ==
  /\ \A c \in C : life[c] = "handed"
  /\ noticed' = noticed \union C
  /\ UNCHANGED <<life, handed, requeued, run>>

RequeueNoticed ==
  /\ Requeues(noticed)
  /\ noticed' = {}

\* The command runs on the device: one execution per hand-out at the most,
\* whatever its entry in the queue says by then.
Execute(c) ==
  /\ run[c] < handed[c]
  /\ run' = [run EXCEPT ![c] = @ + 1]
  /\ UNCHANGED <<life, noticed, handed, requeued>>

\* The outcome of a handed-out command is recorded; a late outcome may find
\* the command queued again, or replace an earlier outcome.
End(c) ==
  /\ handed[c] > 0
  /\ life[c] # "none"
  /\ life' = [life EXCEPT ![c] = "ended"]
  /\ UNCHANGED <<noticed, handed, requeued, run>>

LifeNext ==
  \/ \E c \in Cmd : Submit(c) \/ HandOut(c) \/ Execute(c) \/ End(c)
  \/ \E C \in SUBSET Cmd : Requeue(C) \/ Notice(C)
  \/ RequeueNoticed

LifeSpec == LifeInit /\ [][LifeNext]_lifeVars
=============================================================================
