------------------------------ MODULE History ------------------------------
(***************************************************************************)
(* The conversation history of one specialist (_SPECIALIST_HISTORY in      *)
(* app/agent.py): a list of messages, and the trimming that bounds it.     *)
(*                                                                         *)
(* A message keeps only what the properties tell apart: its type, the      *)
(* activation of _run_specialist that appended it, and, for an AIMessage,  *)
(* the number of tool calls it carries.  Tool-call ids are unique in the   *)
(* program; here a ToolMessage answers the last AIMessage of the same      *)
(* activation, which is the only one that can still be open.               *)
(***************************************************************************)
EXTENDS Integers, Sequences

CONSTANT MaxHistory    \* MAX_HISTORY_MESSAGES

ASSUME MaxHistoryAssumption == MaxHistory \in Nat \ {0}

Human(f)   == [type |-> "human", from |-> f, calls |-> 0]
AI(f, n)   == [type |-> "ai",    from |-> f, calls |-> n]
Tool(f)    == [type |-> "tool",  from |-> f, calls |-> 0]

Message(F, C) == [type : {"human", "ai", "tool"}, from : F, calls : 0..C]

IsTool(m) == m.type = "tool"

(* Mutant: the window keeps one message too many.                          *)
TrimStartOneEarly(h) == Len(h) - MaxHistory

(* Where the window starts: the first position at or after the cut that    *)
(* does not hold a ToolMessage, or one past the end when all of them do.   *)
TrimStart(h) ==
  LET cut == Len(h) - MaxHistory + 1
      clean == {i \in cut..Len(h) + 1 : i = Len(h) + 1 \/ ~IsTool(h[i])}
  IN CHOOSE i \in clean : \A j \in clean : i <= j

(* Mutant: cut exactly at the limit, through a call and its replies.       *)
TrimThroughPair(h) ==
  IF Len(h) <= MaxHistory THEN h
  ELSE SubSeq(h, Len(h) - MaxHistory + 1, Len(h))

Trim(h) == IF Len(h) <= MaxHistory THEN h
           ELSE SubSeq(h, TrimStart(h), Len(h))

(* Its tool calls have their replies, right after it.                      *)
Answered(h, i) ==
  \A k \in 1..h[i].calls : i + k \in DOMAIN h /\ h[i + k] = Tool(h[i].from)

(* After it, and those of its replies that there are, a new task begins.   *)
CutOff(h, i) ==
  \E j \in i + 1..Len(h) :
    /\ h[j].type = "human"
    /\ \A k \in i + 1..j - 1 : h[k] = Tool(h[i].from)

RepliesHaveCalls(h) ==
  \A i \in DOMAIN h : IsTool(h[i]) =>
    \E j \in 1..i - 1 : i - j <= h[j].calls

(* Every AIMessage is followed at once by one ToolMessage for each of its  *)
(* calls, and every ToolMessage is such a reply: what a chat-completions   *)
(* endpoint accepts.                                                       *)
Paired(h) ==
  /\ \A i \in DOMAIN h : Answered(h, i)
  /\ RepliesHaveCalls(h)

(* The same, except that the last call of a task may lack replies.         *)
PairedOrCutOff(h) ==
  /\ \A i \in DOMAIN h : Answered(h, i) \/ CutOff(h, i)
  /\ RepliesHaveCalls(h)
=============================================================================
