-------------------------------- MODULE Tasks --------------------------------
(***************************************************************************)
(* What the dock relies on when it hands a task to FridaTaskRunner: tasks  *)
(* run one at a time and in the order in which they were handed over, the  *)
(* callback of each runs on the main thread, in that same order, after the *)
(* task, and the runner is closed only when no task is left.  Then no      *)
(* callback runs any more.                                                 *)
(***************************************************************************)
EXTENDS Sequences

CONSTANT Batches \* sequences of tasks that may be handed over at once

VARIABLES
  waiting, \* tasks handed over that have not run, oldest first
  results, \* tasks that ran and whose callback has not, oldest first
  open     \* the runner takes tasks

taskVars == <<waiting, results, open>>

TasksInit ==
  /\ waiting = <<>>
  /\ results = <<>>
  /\ open = TRUE

Hand(batch) ==
  /\ open
  /\ waiting' = waiting \o batch
  /\ UNCHANGED <<results, open>>

Execute ==
  /\ waiting # <<>>
  /\ waiting' = Tail(waiting)
  /\ results' = Append(results, Head(waiting))
  /\ UNCHANGED open

\* A callback may itself hand over tasks.
Answer(batch) ==
  /\ open
  /\ results # <<>>
  /\ results' = Tail(results)
  /\ waiting' = waiting \o batch
  /\ UNCHANGED open

Close ==
  /\ open
  /\ waiting = <<>>
  /\ open' = FALSE
  /\ results' = <<>>
  /\ UNCHANGED waiting

TasksNext ==
  \/ \E batch \in Batches : Hand(batch) \/ Answer(batch)
  \/ Execute
  \/ Answer(<<>>)
  \/ Close

TasksSpec == TasksInit /\ [][TasksNext]_taskVars
=============================================================================
