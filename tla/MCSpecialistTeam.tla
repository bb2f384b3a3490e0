------------------------- MODULE MCSpecialistTeam -------------------------
(* Instances of SpecialistTeam for TLC: which tool-calling messages the PM *)
(* sends.                                                                  *)
EXTENDS SpecialistTeam, TLC

Call(as, q) == [assigns |-> as, ask |-> q]

(* One tool call per message, as ask_user's docstring asks for.            *)
OneCall == {Call(<<a>>, FALSE) : a \in Specialists \cup {Unknown}}
             \cup {Call(<<>>, TRUE)}

(* Also two assignments in one message, to different agents.               *)
TwoTasks == OneCall
  \cup {Call(<<p[1], p[2]>>, FALSE) : p \in {q \in Specialists \X Specialists : q[1] # q[2]}}

(* Two assignments, or a question beside one.                                   *)
ManyCalls == (TwoTasks \ OneCall) \cup {Call(<<a>>, TRUE) : a \in Specialists}

Agents == Permutations(Specialists)
=============================================================================
