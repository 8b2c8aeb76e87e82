-------------------------- MODULE MCGraphExecution --------------------------
(* Instances of GraphExecution for TLC.                                    *)
EXTENDS GraphExecution

Edge(from, port, to, input, role) ==
  [from |-> from, port |-> port, to |-> to, input |-> input, role |-> role]
\* The loop of the shipped template: a check whose error is repaired and fed back.
LoopSteps == {"start", "gate", "check", "repair", "write", "add", "stop"}
Looped ==
  [nodes |-> LoopSteps, trigger |-> "start", gates |-> {"gate"},
   terminals |-> {"add", "stop"}, retrySafe |-> LoopSteps \ {"add", "stop"},
   ports |-> [n \in LoopSteps |->
     CASE n = "check" -> {"value", "error"} [] n = "gate" -> {"current", "exhausted"}
       [] OTHER -> {"value"}],
   required |-> [n \in LoopSteps |->
     CASE n = "start" -> {} [] n = "gate" -> {"initial"} [] OTHER -> {"main"}],
   edges |-> {Edge("start", "value", "gate", "initial", "flow"),
              Edge("gate", "current", "check", "main", "flow"),
              Edge("check", "error", "repair", "main", "error"),
              Edge("gate", "current", "repair", "context", "data"),
              Edge("start", "value", "write", "context", "data"),
              Edge("write", "value", "add", "main", "flow"),
              Edge("repair", "value", "gate", "feedback", "retry"),
              Edge("check", "value", "write", "main", "flow"),
              Edge("gate", "exhausted", "stop", "main", "error")}]
\* The validation rejects it: what is fed back does not follow the gate.
Backwards ==
  [Looped EXCEPT !.edges =
     (@ \ {Edge("repair", "value", "gate", "feedback", "retry")})
       \cup {Edge("start", "value", "gate", "feedback", "retry"),
             Edge("repair", "value", "add", "context", "data")}]
\* Two loops in a row.
ChainSteps == {"start", "gate", "check", "repair", "gate2", "check2", "add", "stop", "stop2"}
Chained ==
  [nodes |-> ChainSteps, trigger |-> "start", gates |-> {"gate", "gate2"},
   terminals |-> {"add", "stop", "stop2"}, retrySafe |-> ChainSteps \ {"add", "stop", "stop2"},
   ports |-> [n \in ChainSteps |->
     CASE n \in {"check", "check2"} -> {"value", "no"}
       [] n \in {"gate", "gate2"} -> {"current", "exhausted"} [] OTHER -> {"value"}],
   required |-> [n \in ChainSteps |->
     CASE n = "start" -> {} [] n \in {"gate", "gate2"} -> {"initial"} [] OTHER -> {"main"}],
   edges |-> {Edge("start", "value", "gate", "initial", "flow"),
              Edge("gate", "current", "check", "main", "flow"),
              Edge("check", "no", "repair", "main", "flow"),
              Edge("repair", "value", "gate", "feedback", "retry"),
              Edge("check", "value", "gate2", "initial", "flow"),
              Edge("gate2", "current", "check2", "main", "flow"),
              Edge("check2", "no", "gate2", "feedback", "retry"),
              Edge("check2", "value", "add", "main", "flow"),
              Edge("gate", "exhausted", "stop", "main", "error"),
              Edge("gate2", "exhausted", "stop2", "main", "error")}]
\* The step after the check needs the idea only: what the check sends is optional.
Loose ==
  [Looped EXCEPT
     !.required = [@ EXCEPT !["write"] = {"idea"}],
     !.edges =
       (@ \ {Edge("start", "value", "write", "context", "data")})
         \cup {Edge("start", "value", "write", "idea", "flow")}]
Graphs == {Looped, Backwards, Chained, Loose}
LooseOnly == {Loose}
=============================================================================
