-------------------------- MODULE MCAutomationRuns --------------------------
(* Instances of AutomationRuns for TLC.                                    *)
EXTENDS AutomationRuns, TLC

CONSTANTS r1, r2, r3, r4, r5, w1, w2, w3, p, i, j, m, n

\* Unrelated requests of one workflow, which queue up.
Queueing ==
  [r \in Roots |-> [admission |-> "workflow", dedupe |-> r, delivery |-> NoDelivery,
                    overlap |-> "queue", concurrent |-> 1]]
\* Two triggers of one workspace.  r1 and r2 are one delivery, sent twice, and r3
\* another of the same trigger, which runs one at a time; the second trigger
\* may run two, and its delivery r5 supersedes r4.
Triggered ==
  [r \in Roots |->
     [admission  |-> IF r \in {r4, r5} THEN "second" ELSE "first",
      dedupe     |-> IF r = r2 THEN r1 ELSE r,
      delivery   |-> IF r = r2 THEN r1 ELSE r,
      overlap    |-> IF r = r5 THEN "cancel-previous"
                     ELSE IF r \in {r1, r2} THEN "skip" ELSE "queue",
      concurrent |-> IF r \in {r4, r5} THEN 2 ELSE 1]]
Interchangeable == Permutations(Workers)
=============================================================================
