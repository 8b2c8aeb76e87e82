----------------------------- MODULE FencedJobs -----------------------------
(***************************************************************************)
(* What a durable job table promises to those who order jobs, whatever     *)
(* leases, crashes, recovery, cancellation and retries go on inside:       *)
(*                                                                         *)
(*  - a job is owned by at most one epoch, and every new owner has a       *)
(*    larger epoch than all owners before it;                              *)
(*  - a job is finished by its current owner or not at all, and a finished *)
(*    job keeps its result for ever;                                       *)
(*  - a stopped job resumes only in a new epoch.                           *)
(*                                                                         *)
(* One statement of the code may move several jobs, so a step moves any    *)
(* number of them.                                                         *)
(***************************************************************************)
EXTENDS Naturals

CONSTANT Jobs

VARIABLES
  phase,    \* "absent", "open", "owned", "done" or "stopped"
  epoch,    \* the number of the current or last ownership
  result    \* the epoch that finished the job; 0: none, or answered at once

vars == <<phase, epoch, result>>

Init ==
  /\ phase = [j \in Jobs |-> "absent"]
  /\ epoch = [j \in Jobs |-> 0]
  /\ result = [j \in Jobs |-> 0]

Move(j, from, to) == phase[j] \in from /\ phase'[j] \in to

\* A job is ordered; one whose answer is known is done at once.
Submit(j) ==
  /\ Move(j, {"absent"}, {"open", "done"})
  /\ epoch'[j] = epoch[j] /\ result'[j] = result[j]

Acquire(j) ==
  /\ Move(j, {"open"}, {"owned"})
  /\ epoch'[j] > epoch[j] /\ result'[j] = result[j]

\* The owner gives the job up, or loses it.
Release(j) ==
  /\ Move(j, {"owned"}, {"open", "stopped"})
  /\ epoch'[j] >= epoch[j] /\ result'[j] = result[j]

Finish(j) ==
  /\ Move(j, {"owned"}, {"done"})
  /\ epoch'[j] = epoch[j] /\ result'[j] = epoch[j]

Stop(j) ==
  /\ Move(j, {"open"}, {"stopped"})
  /\ epoch'[j] >= epoch[j] /\ result'[j] = result[j]

Resume(j) ==
  /\ Move(j, {"stopped"}, {"open"})
  /\ epoch'[j] > epoch[j] /\ result'[j] = result[j]

Same(j) ==
  /\ phase'[j] = phase[j]
  /\ epoch'[j] = epoch[j] /\ result'[j] = result[j]

JobStep(j) ==
  \/ Submit(j) \/ Acquire(j) \/ Release(j) \/ Finish(j) \/ Stop(j)
  \/ Resume(j) \/ Same(j)

Next == \A j \in Jobs : JobStep(j)

Spec == Init /\ [][Next]_vars
=============================================================================
