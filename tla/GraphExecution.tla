--------------------------- MODULE GraphExecution ---------------------------
(***************************************************************************)
(* How one worker executes the graph of an automation workflow             *)
(* (executeAutomationGraph): the steps in topological order, the steps     *)
(* left out because a required input received nothing, the attempts of a   *)
(* step, the Retry gates that send a corrected value through the same      *)
(* steps again, and the restart of the execution from the results that the *)
(* database kept when the worker died.                                     *)
(*                                                                         *)
(* A graph is a record: nodes, trigger, gates, terminals, retrySafe (a set *)
(* of nodes), ports (the output ports of a node), required (its required   *)
(* input ports) and edges, records [from, port, to, input, role].  A value *)
(* is the number of the execution that produced it (stamp); a step         *)
(* produces one of its ports.                                              *)
(***************************************************************************)
EXTENDS Naturals, FiniteSets

CONSTANTS Workflows,      \* the graphs a run may execute
          MaxStepRetries, \* maxRetries of the Retry gates
          StepAttempts,   \* maxAttempts of the other steps
          MaxSteps,       \* maxNodeExecutions of the policy of the run
          MaxDeaths       \* bound: deaths of the worker in a behaviour

\* What the schema of a graph requires, valid or not.
ASSUME GraphAssumption ==
  \A g \in Workflows :
    /\ IsFiniteSet(g.nodes) /\ g.gates \subseteq g.nodes /\ "none" \notin g.nodes
    /\ \A n \in g.nodes : "none" \notin g.ports[n]
    /\ IsFiniteSet(g.edges)
    /\ \A e \in g.edges : /\ e.from \in g.nodes /\ e.to \in g.nodes
                          /\ e.port # "none"

VARIABLES workflow,     \* the graph of the version the run is bound to
          execState,    \* "stopped" (queued), "scanning", "done", "failed"
          results,      \* outputs: the results this process holds
          savedResults, \* the newest completed row of automation_node_runs
          passes,       \* retryIterations
          feedback,     \* the gates that hold a corrected value
          visited,      \* the steps of this pass behind the loop
          step,         \* the step whose handler runs, and its attempt
          steps,        \* nodeExecutions of this process
          stamp,        \* executions so far, of every process
          deaths

execVars == <<workflow, execState, results, savedResults, passes, feedback,
              visited, step, steps, stamp, deaths>>

NoResult == [port |-> "none"]
NoStep == [node |-> "none", attempt |-> 0]
Nodes == workflow.nodes

-----------------------------------------------------------------------------
(* The checks a graph passes before it is executed.                        *)

Forward(g) == {e \in g.edges : e.role # "retry"}

\* forwardDescendants: the node and everything its values reach.
Below(g, n) ==
  LET Within[k \in Nat] ==
        IF k = 0 THEN {n}
        ELSE LET near == Within[k - 1]
             IN  near \cup {e.to : e \in {f \in Forward(g) : f.from \in near}}
  IN  Within[Cardinality(g.nodes)]

Acyclic(g) == \A e \in Forward(g) : e.from \notin Below(g, e.to)

\* A Retry route ends at the feedback of a gate above its source, and every
\* step on the way from the gate to the source may be repeated.
RetryRoutesAreSafe(g) ==
  \A e \in g.edges :
     /\ (e.role = "retry") <=> (e.to \in g.gates /\ e.input = "feedback")
     /\ e.role = "retry" =>
          /\ e.from \in Below(g, e.to)
          /\ \A n \in Below(g, e.to) \ {e.to} :
                e.from \in Below(g, n) => n \in g.retrySafe

Connected(g) ==
  /\ Below(g, g.trigger) = g.nodes
  /\ \A n \in g.nodes : (n \in g.terminals) <=> ~\E e \in g.edges : e.from = n
  /\ \A n \in g.nodes : \A i \in g.required[n] :
        \E e \in g.edges : e.to = n /\ e.input = i

ValidGraph(g) == Acyclic(g) /\ RetryRoutesAreSafe(g) /\ Connected(g)

-----------------------------------------------------------------------------
(* The inputs of a step.                                                   *)

Delivers(e) == results[e.from].port = e.port

Delivering(n) == {e \in Forward(workflow) : e.to = n /\ Delivers(e)}

MissingInput(n) ==
  \E i \in workflow.required[n] : \A e \in Delivering(n) : e.input # i

\* What the step reads now, as stamps of the results it comes from.
Reads(n) == {<<e.from, results[e.from].stamp>> : e \in Delivering(n)}

\* inheritedRetryEpochs: the newest pass of each gate among the results read.
Inherited(n) ==
  LET From == {results[e.from].epochs : e \in Delivering(n)}
  IN  [g \in UNION {DOMAIN p : p \in From} |->
         CHOOSE k \in {p[g] : p \in {q \in From : g \in DOMAIN q}} :
            \A p \in From : g \in DOMAIN p => p[g] <= k]

Epochs(n) ==
  IF n \in workflow.gates
  THEN [g \in DOMAIN Inherited(n) \cup {n} |->
          IF g = n THEN passes[n] ELSE Inherited(n)[g]]
  ELSE Inherited(n)

Result(n, port) ==
  [port |-> port, stamp |-> stamp + 1, reads |-> Reads(n), epochs |-> Epochs(n)]

-----------------------------------------------------------------------------
ExecInit ==
  /\ workflow \in Workflows
  /\ execState = "stopped"
  /\ results = [n \in Nodes |-> NoResult]
  /\ savedResults = results
  /\ passes = [g \in workflow.gates |-> 0]
  /\ feedback = {}
  /\ visited = {}
  /\ step = NoStep
  /\ steps = 0 /\ stamp = 0 /\ deaths = 0

\* outputRetryIteration of a gate in what was saved.
SavedPass(g) == IF savedResults[g] = NoResult THEN 0 ELSE savedResults[g].epochs[g]

\* (a plausible bug: a restart takes every saved result)
Outdated_Never(r) == FALSE

\* Of an older pass of some gate: it must be produced again.
Outdated(r) ==
  r # NoResult /\ \E g \in DOMAIN r.epochs : r.epochs[g] < SavedPass(g)

\* A worker claims the run: it validates the graph and takes what was saved.
Execute ==
  /\ execState = "stopped"
  /\ IF ValidGraph(workflow)
     THEN /\ execState' = "scanning"
          /\ passes' = [g \in workflow.gates |-> SavedPass(g)]
          /\ results' = [n \in Nodes |->
               IF Outdated(savedResults[n]) THEN NoResult ELSE savedResults[n]]
     ELSE /\ execState' = "failed"
          /\ UNCHANGED <<passes, results>>
  /\ feedback' = {} /\ visited' = {} /\ steps' = 0
  /\ UNCHANGED <<workflow, savedResults, step, stamp, deaths>>

\* The loop reaches a step when it is past the steps before it.
Reached(n) ==
  /\ execState = "scanning" /\ step = NoStep
  /\ n \notin visited
  /\ \A e \in Forward(workflow) : e.to = n => e.from \in visited

\* The step has a result, or a required input received nothing.
PassOver(n) ==
  /\ Reached(n)
  /\ results[n] # NoResult \/ MissingInput(n)
  /\ visited' = visited \cup {n}
  /\ UNCHANGED <<workflow, execState, results, savedResults, passes, feedback,
                 step, steps, stamp, deaths>>

StartStep(n) ==
  /\ Reached(n)
  /\ results[n] = NoResult /\ ~MissingInput(n)
  /\ steps' = steps + 1
  /\ IF steps' > MaxSteps
     THEN execState' = "failed" /\ UNCHANGED step
     ELSE step' = [node |-> n, attempt |-> 1] /\ UNCHANGED execState
  /\ UNCHANGED <<workflow, results, savedResults, passes, feedback, visited,
                 stamp, deaths>>

\* The result is held, and written to the row of the attempt.
Complete(n, port) ==
  /\ results' = [results EXCEPT ![n] = Result(n, port)]
  /\ savedResults' = [savedResults EXCEPT ![n] = Result(n, port)]
  /\ visited' = visited \cup {n}
  /\ step' = NoStep
  /\ stamp' = stamp + 1
  /\ UNCHANGED <<workflow, execState, passes, feedback, steps, deaths>>

FinishStep ==
  \E n \in Nodes \ workflow.gates : \E port \in workflow.ports[n] \ {"error"} :
     /\ step.node = n
     /\ Complete(n, port)

\* The handler threw: another attempt, the error output, or the end.
FailStep ==
  \E n \in Nodes \ workflow.gates :
     /\ step.node = n
     /\ \/ /\ step.attempt < StepAttempts
           /\ step' = [step EXCEPT !.attempt = @ + 1]
           /\ UNCHANGED <<workflow, execState, results, savedResults, passes,
                          feedback, visited, steps, stamp, deaths>>
        \/ /\ step.attempt = StepAttempts /\ "error" \in workflow.ports[n]
           /\ Complete(n, "error")
        \/ /\ step.attempt = StepAttempts /\ "error" \notin workflow.ports[n]
           /\ execState' = "failed" /\ step' = NoStep
           /\ UNCHANGED <<workflow, results, savedResults, passes, feedback,
                          visited, steps, stamp, deaths>>

\* retryGate: the first value, then the corrected ones, then the exhausted
\* port; a pass without a corrected value ends the run.
PassGate ==
  \E g \in workflow.gates :
     /\ step.node = g
     /\ \/ passes[g] > MaxStepRetries /\ Complete(g, "exhausted")
        \/ /\ passes[g] <= MaxStepRetries
           /\ passes[g] = 0 \/ g \in feedback
           /\ Complete(g, "current")
        \/ /\ passes[g] \in 1 .. MaxStepRetries /\ g \notin feedback
           /\ execState' = "failed" /\ step' = NoStep
           /\ UNCHANGED <<workflow, results, savedResults, passes, feedback,
                          visited, steps, stamp, deaths>>

PassEnded == execState = "scanning" /\ step = NoStep /\ visited = Nodes

\* The Retry routes whose corrected value was not sent yet.
PendingRetries ==
  {e \in workflow.edges :
     /\ e.role = "retry"
     /\ Delivers(e)
     /\ LET sent == results[e.from].epochs
        IN  (IF e.to \in DOMAIN sent THEN sent[e.to] ELSE 0) >= passes[e.to]}

\* The corrected value returns: the gate and everything below it start over.
RetryPass ==
  /\ PassEnded
  /\ \E e \in PendingRetries :
        /\ passes' = [passes EXCEPT ![e.to] = @ + 1]
        /\ feedback' = feedback \cup {e.to}
        /\ results' = [n \in Nodes |->
             IF n \in Below(workflow, e.to) THEN NoResult ELSE results[n]]
  /\ visited' = {}
  /\ UNCHANGED <<workflow, execState, savedResults, step, steps, stamp, deaths>>

\* The run is complete if some final step has a result.
EndRun ==
  /\ PassEnded /\ PendingRetries = {}
  /\ execState' = IF \E n \in workflow.terminals : results[n] # NoResult
                  THEN "done" ELSE "failed"
  /\ UNCHANGED <<workflow, results, savedResults, passes, feedback, visited,
                 step, steps, stamp, deaths>>

\* The worker dies, or its lease moves: the rows it wrote remain.
LoseWorker ==
  /\ execState = "scanning" /\ deaths < MaxDeaths
  /\ deaths' = deaths + 1
  /\ execState' = "stopped"
  /\ results' = [n \in Nodes |-> NoResult]
  /\ passes' = [g \in workflow.gates |-> 0]
  /\ feedback' = {} /\ visited' = {} /\ step' = NoStep /\ steps' = 0
  /\ UNCHANGED <<workflow, savedResults, stamp>>

ExecNext ==
  \/ Execute
  \/ \E n \in Nodes : PassOver(n) \/ StartStep(n)
  \/ FinishStep \/ FailStep \/ PassGate
  \/ RetryPass \/ EndRun
  \/ LoseWorker

ExecSpec == ExecInit /\ [][ExecNext]_execVars

-----------------------------------------------------------------------------
(* Properties.                                                             *)

\* When the loop is past the last step, every result was computed from the
\* results its inputs hold now: whatever retries and restarts came before, no
\* step keeps a value computed from what has been replaced since
\* (runtime.ts:451 "Any downstream output from an older retry epoch is stale
\* and must be executed again").
EveryResultIsCurrent ==
  PassEnded => \A n \in Nodes : results[n] # NoResult => results[n].reads = Reads(n)

\* Every step below a gate needs, for some input, a value of the gate's loop.
LoopsAreTight(g) ==
  \A gate \in g.gates : \A n \in Below(g, gate) \ {gate} :
    \E i \in g.required[n] :
      \A e \in Forward(g) : e.to = n /\ e.input = i => e.from \in Below(g, gate)

\* How much of it is true: the epochs of a result name the gates whose values it
\* read and not every gate above it (inheritedRetryEpochs), so a restart tells old
\* results apart where every step of a loop needs a value of the loop; in other
\* graphs results are current until a worker dies.
ResultsStayCurrent ==
  PassEnded /\ (LoopsAreTight(workflow) \/ deaths = 0) =>
    \A n \in Nodes : results[n] # NoResult => results[n].reads = Reads(n)
=============================================================================
