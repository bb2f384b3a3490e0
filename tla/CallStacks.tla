---------------------------- MODULE CallStacks ----------------------------
(***************************************************************************)
(* What the delegation machinery of app/agent.py promises, without its     *)
(* tool loops, histories and event loop: every task the PM assigned is a   *)
(* stack of specialists, the first working on the task and each next one   *)
(* answering the one below it.  A stack never holds an agent twice         *)
(* ("reject cycles: A -> B -> A", agent.py:551-552) and never grows above  *)
(* MAX_DISCUSSION_DEPTH ("tugas PM = kedalaman 0", agent.py:325).          *)
(***************************************************************************)
EXTENDS Integers, Sequences

CONSTANTS Specialists, MaxDiscussionDepth, Tasks

VARIABLE stack     \* task -> the specialists working on it, caller first

Holds(s, a) == \E i \in DOMAIN s : s[i] = a

Init == stack = [t \in Tasks |-> <<>>]

Assign(t, a) ==
  /\ stack[t] = <<>>
  /\ stack' = [stack EXCEPT ![t] = <<a>>]

Consult(t, a) ==
  /\ stack[t] # <<>>
  /\ ~Holds(stack[t], a)
  /\ Len(stack[t]) < MaxDiscussionDepth
  /\ stack' = [stack EXCEPT ![t] = Append(@, a)]

(* With an answer or with an exception: the caller goes on either way.     *)
Return(t) ==
  /\ stack[t] # <<>>
  /\ stack' = [stack EXCEPT ![t] = SubSeq(@, 1, Len(@) - 1)]

Next == \E t \in Tasks :
          \/ \E a \in Specialists : Assign(t, a) \/ Consult(t, a)
          \/ Return(t)

Spec == Init /\ [][Next]_stack
=============================================================================
