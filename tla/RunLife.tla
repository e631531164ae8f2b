------------------------------- MODULE RunLife -------------------------------
(***************************************************************************)
(* What a script run is meant to be: queued once, taken by the agent once, *)
(* executed at most once, and recorded with the outcome of that execution. *)
(* Nothing forces a run to end: the agent may die with it, and the answer  *)
(* with which it was taken may be lost.                                    *)
(***************************************************************************)
CONSTANTS Run, Outcome, NoOutcome

VARIABLES
  stage,    \* stage[r]: "none", "queued", "taken" or "recorded"
  made,     \* made[r]: the outcome of the execution, NoOutcome before it
  known     \* known[r]: the outcome users see

runLifeVars == <<stage, made, known>>

RunLifeInit ==
  /\ stage = [r \in Run |-> "none"]
  /\ made = [r \in Run |-> NoOutcome]
  /\ known = [r \in Run |-> NoOutcome]

Queue(R) ==
  /\ \A r \in R : stage[r] = "none"
  /\ stage' = [r \in Run |-> IF r \in R THEN "queued" ELSE stage[r]]
  /\ UNCHANGED <<made, known>>

Take(R) ==
  /\ \A r \in R : stage[r] = "queued"
  /\ stage' = [r \in Run |-> IF r \in R THEN "taken" ELSE stage[r]]
  /\ UNCHANGED <<made, known>>

Perform(r, o) ==
  /\ stage[r] = "taken" /\ made[r] = NoOutcome
  /\ made' = [made EXCEPT ![r] = o]
  /\ UNCHANGED <<stage, known>>

Record(r) ==
  /\ stage[r] = "taken" /\ made[r] # NoOutcome
  /\ stage' = [stage EXCEPT ![r] = "recorded"]
  /\ known' = [known EXCEPT ![r] = made[r]]
  /\ UNCHANGED made

RunLifeNext ==
  \/ \E R \in SUBSET Run : Queue(R) \/ Take(R)
  \/ \E r \in Run : Record(r) \/ \E o \in Outcome : Perform(r, o)

RunLifeSpec == RunLifeInit /\ [][RunLifeNext]_runLifeVars
=============================================================================
