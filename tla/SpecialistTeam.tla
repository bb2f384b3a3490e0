-------------------------- MODULE SpecialistTeam --------------------------
(***************************************************************************)
(* The delegation core of app/agent.py for ONE session: the Project        *)
(* Manager's graph hands tasks to specialists with assign_task, a          *)
(* specialist runs its tool loop (_run_specialist) and may consult a peer  *)
(* with discuss_with (_run_discussion), which runs that peer's loop inside *)
(* its own.                                                                *)
(*                                                                         *)
(* An activation is one call of _run_specialist.  Everything runs in one   *)
(* asyncio loop: code between two awaits is atomic.  `active' is the       *)
(* activation that holds the loop (0: the loop is free), so the small      *)
(* actions of one activation are never interleaved with another one until  *)
(* it suspends in an LLM call or in a tool.                                *)
(***************************************************************************)
EXTENDS Integers, Sequences, FiniteSets, History

CONSTANTS
  Specialists,         \* the keys of SPECIALISTS
  Unknown,             \* any other agent name an LLM may write
  MaxDiscussionDepth,  \* MAX_DISCUSSION_DEPTH
  MaxAssignTasks,      \* MAX_ASSIGN_TASKS_PER_REQUEST
  MaxSteps,            \* MAX_SPECIALIST_STEPS
  PmMessages,          \* the tool-calling messages the PM may send
  LlmMayFail,          \* may an LLM call fail all of its attempts?
  \* bounds of the model
  MaxCalls,            \* tool calls in one specialist response
  MaxRounds,           \* tool-calling PM messages in one request (the
                       \* program: recursion_limit in each run of the graph)
  MaxRequests,         \* user requests in one behaviour
  MaxActivations,      \* activations alive at once
  MaxLists             \* history lists alive at once

PmMessage == [assigns : Seq(Specialists \cup {Unknown}), ask : BOOLEAN]

ASSUME TeamAssumption ==
  /\ Unknown \notin Specialists
  /\ MaxDiscussionDepth \in Nat \ {0}
  /\ MaxAssignTasks \in Nat
  /\ MaxSteps \in Nat \ {0}
  /\ MaxRounds \in Nat
  /\ \A m \in PmMessages : m \in PmMessage
  /\ LlmMayFail \in BOOLEAN
  /\ MaxCalls \in Nat
  /\ MaxRequests \in Nat
  /\ MaxActivations \in Nat
  /\ MaxLists \in Nat

Ids   == 1..MaxActivations
Lists == 1..MaxLists

VARIABLES
  frames,    \* the live activations, by id
  active,    \* the activation running between two awaits, or 0
  bucket,    \* agent -> the list _SPECIALIST_HISTORY holds for it, or 0
  heap,      \* the contents of the list objects
  turn,      \* where the PM's graph is
  message,   \* the tool-calling PM message being executed
  toStart,   \* its assign_task calls whose task has not run yet
  tasks,     \* root activations the tools node is waiting for
  budget,    \* _ASSIGN_BUDGET[thread_id]
  started,   \* history variable: runs the PM started in this request
  rounds,    \* tool-calling PM messages in this request
  requests   \* user requests so far (bounded by MaxRequests)

teamVars == <<frames, active, bucket, heap>>
pmVars   == <<turn, message, toStart, tasks, budget, started, rounds, requests>>
vars     == <<teamVars, pmVars>>

live == DOMAIN frames

Holds(s, a) == \E i \in DOMAIN s : s[i] = a

Activation ==
  [ agent  : Specialists,
    parent : {0} \cup Ids,       \* the activation that called discuss_with
    task   : Ids,                \* the root activation of this call stack
    chain  : Seq(Specialists),   \* the chain argument
    list   : Lists,              \* the history variable: a reference
    steps  : 0..MaxSteps,        \* iterations of the tool loop begun
    left   : 0..MaxCalls,        \* tool calls still without a reply
    pc     : {"run", "llm", "tool", "discuss", "return", "raise"} ]

Idle == [assigns |-> <<>>, ask |-> FALSE]

TypeOK ==
  /\ live \subseteq Ids
  /\ frames \in [live -> Activation]
  /\ active \in {0} \cup live
  /\ bucket \in [Specialists -> {0} \cup Lists]
  /\ heap \in [Lists -> Seq(Message(Ids, MaxCalls))]
  /\ turn \in {"idle", "pm", "tools", "asking"}
  /\ message \in PmMessage
  /\ toStart \in Seq(Specialists \cup {Unknown})
  /\ tasks \subseteq Ids
  /\ budget \in Nat
  /\ started \in Nat
  /\ rounds \in 0..MaxRounds
  /\ requests \in 0..MaxRequests

Init ==
  /\ frames = <<>>
  /\ active = 0
  /\ bucket = [a \in Specialists |-> 0]
  /\ heap = [r \in Lists |-> <<>>]
  /\ turn = "idle"
  /\ message = Idle
  /\ toStart = <<>>
  /\ tasks = {}
  /\ budget = 0
  /\ started = 0
  /\ rounds = 0
  /\ requests = 0

-----------------------------------------------------------------------------
(* Activations and their lists.                                            *)

IsNextId(f) == f \notin live /\ \A g \in Ids \ live : f <= g

IsFreshList(r) ==
  LET used == {bucket[a] : a \in Specialists} \cup {frames[f].list : f \in live}
  IN r \notin used /\ \A q \in Lists \ used : r <= q

With(fs, f, rec) == [g \in DOMAIN fs \cup {f} |-> IF g = f THEN rec ELSE fs[g]]
Without(fs, f)   == [g \in DOMAIN fs \ {f} |-> fs[g]]

(* The start of _run_specialist: find or create the agent's list, append   *)
(* the task or the peer's message, and go on to the loop.  fs is the set   *)
(* of activations it is added to.                                          *)
Begin(fs, f, a, parent, task, chain) ==
  \E r \in Lists :
    /\ IF bucket[a] = 0 THEN IsFreshList(r) ELSE r = bucket[a]
    /\ bucket' = [bucket EXCEPT ![a] = r]
    /\ heap' = [heap EXCEPT ![r] = Append(IF bucket[a] = 0 THEN <<>> ELSE @, Human(f))]
    /\ frames' = With(fs, f,
         [agent |-> a, parent |-> parent, task |-> task, chain |-> chain,
          list |-> r, steps |-> 0, left |-> 0, pc |-> "run"])
    /\ active' = f

Running(f)   == active = f /\ frames[f].pc = "run"

(* history.append of a reply to one tool call.                             *)
Replied(fs, f) == [fs EXCEPT ![f].left = @ - 1, ![f].pc = "run"]
AddReply(f)    == heap' = [heap EXCEPT ![frames[f].list] = Append(@, Tool(f))]

-----------------------------------------------------------------------------
(* The tool loop of one activation.                                        *)

(* Mutant: off by one, "<=" for "<".                                       *)
OneStepTooMany(f) == frames[f].steps <= MaxSteps

StepsRemain(f) == frames[f].steps < MaxSteps

(* Mutant: the trimmed list stays local.                                   *)
PublishNothing(f, r) == UNCHANGED bucket

(* bucket[agent_key] = history                                             *)
Publish(f, r) == bucket' = [bucket EXCEPT ![frames[f].agent] = r]

(* Top of the loop: trim, publish the list in the bucket, call the LLM.    *)
(* _trim_history returns the same object when nothing is cut and a new     *)
(* list otherwise; the old list is garbage if nobody else holds it.        *)
StartStep(f) ==
  LET old == frames[f].list
      h == heap[old]
      heldElsewhere == \E g \in live \ {f} : frames[g].list = old
  IN
  /\ Running(f)
  /\ frames[f].left = 0
  /\ StepsRemain(f)
  /\ \E r \in Lists :
       /\ IF Len(h) > MaxHistory THEN IsFreshList(r) ELSE r = old
       /\ heap' = [heap EXCEPT ![old] = IF heldElsewhere THEN h ELSE <<>>, ![r] = Trim(h)]
       /\ Publish(f, r)
       /\ frames' = [frames EXCEPT ![f].list = r, ![f].steps = @ + 1, ![f].pc = "llm"]
  /\ active' = 0
  /\ UNCHANGED pmVars

(* The loop ran out of iterations: a PARTIAL report.                       *)
StepLimit(f) ==
  /\ Running(f)
  /\ frames[f].left = 0
  /\ ~StepsRemain(f)
  /\ frames' = [frames EXCEPT ![f].pc = "return"]
  /\ UNCHANGED <<active, bucket, heap, pmVars>>

(* The LLM answers with n tool calls; n = 0 is the final answer.           *)
LlmAnswers(f, n) ==
  /\ active = 0
  /\ frames[f].pc = "llm"
  /\ heap' = [heap EXCEPT ![frames[f].list] = Append(@, AI(f, n))]
  /\ frames' = [frames EXCEPT ![f].left = n, ![f].pc = IF n = 0 THEN "return" ELSE "run"]
  /\ active' = f
  /\ UNCHANGED <<bucket, pmVars>>

(* _invoke_with_retry re-raises after its last attempt.  Its backoff makes *)
(* that seconds after the call; every task of the message has begun by     *)
(* then.                                                                   *)
LlmFails(f) ==
  /\ LlmMayFail
  /\ active = 0
  /\ toStart = <<>>
  /\ frames[f].pc = "llm"
  /\ frames' = [frames EXCEPT ![f].pc = "raise"]
  /\ active' = f
  /\ UNCHANGED <<bucket, heap, pmVars>>

(* A write outside the agent's zone, or a tool the agent does not have:    *)
(* answered without an await.                                              *)
RefuseTool(f) ==
  /\ Running(f)
  /\ frames[f].left > 0
  /\ AddReply(f)
  /\ frames' = Replied(frames, f)
  /\ UNCHANGED <<active, bucket, pmVars>>

(* A file tool or run_command: the activation suspends until it returns.   *)
CallTool(f) ==
  /\ Running(f)
  /\ frames[f].left > 0
  /\ frames' = [frames EXCEPT ![f].pc = "tool"]
  /\ active' = 0
  /\ UNCHANGED <<bucket, heap, pmVars>>

(* It returns, or raises and is turned into a FAILED result.               *)
ToolReturns(f) ==
  /\ active = 0
  /\ frames[f].pc = "tool"
  /\ AddReply(f)
  /\ frames' = Replied(frames, f)
  /\ active' = f
  /\ UNCHANGED <<bucket, pmVars>>

(* Mutants: the cycle guard is missing; the self guard is missing.         *)
MayDiscussWithCaller(f, t) ==
  t \in Specialists \ {frames[f].agent} /\ Len(frames[f].chain) + 1 < MaxDiscussionDepth

MayDiscussWithItself(f, t) ==
  /\ t \in Specialists
  /\ ~Holds(frames[f].chain, t)
  /\ Len(frames[f].chain) + 1 < MaxDiscussionDepth

(* The guards of _run_discussion, in its order.                            *)
MayDiscuss(f, t) ==
  /\ t \in Specialists
  /\ t # frames[f].agent
  /\ ~Holds(frames[f].chain, t)
  /\ Len(frames[f].chain) + 1 < MaxDiscussionDepth

RefuseDiscussion(f, t) ==
  /\ Running(f)
  /\ frames[f].left > 0
  /\ ~MayDiscuss(f, t)
  /\ AddReply(f)
  /\ frames' = Replied(frames, f)
  /\ UNCHANGED <<active, bucket, pmVars>>

(* Mutant: the callee's chain lacks its caller.                            *)
DiscussOutsideChain(f, t, g) ==
  /\ Running(f)
  /\ frames[f].left > 0
  /\ MayDiscuss(f, t)
  /\ IsNextId(g)
  /\ Begin([frames EXCEPT ![f].pc = "discuss"], g, t, f, frames[f].task, frames[f].chain)
  /\ UNCHANGED pmVars

Discuss(f, t, g) ==
  /\ Running(f)
  /\ frames[f].left > 0
  /\ MayDiscuss(f, t)
  /\ IsNextId(g)
  /\ Begin([frames EXCEPT ![f].pc = "discuss"], g, t, f, frames[f].task,
           Append(frames[f].chain, frames[f].agent))
  /\ UNCHANGED pmVars

(* A discussion ends: the reply becomes the caller's ToolMessage.          *)
ReplyToPeer(f) ==
  LET p == frames[f].parent IN
  /\ active = f
  /\ frames[f].pc = "return"
  /\ p # 0
  /\ AddReply(p)
  /\ frames' = Without(Replied(frames, p), f)
  /\ active' = p
  /\ UNCHANGED <<bucket, pmVars>>

(* An assignment ends: the report is the result of assign_task.            *)
ReportToPm(f) ==
  /\ active = f
  /\ frames[f].pc = "return"
  /\ frames[f].parent = 0
  /\ frames' = Without(frames, f)
  /\ active' = 0
  /\ tasks' = tasks \ {f}
  /\ UNCHANGED <<bucket, heap, turn, message, toStart, budget, started, rounds, requests>>

(* Mutant: the discussion is a task of its own, whose exception nobody     *)
(* retrieves.                                                              *)
RaiseIntoTheVoid(f) ==
  /\ active = f
  /\ frames[f].pc = "raise"
  /\ frames[f].parent # 0
  /\ frames' = Without(frames, f)
  /\ active' = 0
  /\ UNCHANGED <<bucket, heap, pmVars>>

(* The exception leaves a discussion: nothing in the caller's tool loop    *)
(* catches it.                                                             *)
RaiseToPeer(f) ==
  LET p == frames[f].parent IN
  /\ active = f
  /\ frames[f].pc = "raise"
  /\ p # 0
  /\ frames' = Without([frames EXCEPT ![p].pc = "raise"], f)
  /\ active' = p
  /\ UNCHANGED <<bucket, heap, pmVars>>

(* Mutant: the tools node never learns that its task died.                 *)
RaiseUnnoticed(f) ==
  /\ active = f
  /\ frames[f].pc = "raise"
  /\ frames[f].parent = 0
  /\ frames' = Without(frames, f)
  /\ active' = 0
  /\ UNCHANGED <<bucket, heap, pmVars>>

(* The exception leaves assign_task.  It fails the tools node and with it  *)
(* the turn; the other tasks of that node are not cancelled.               *)
RaiseToPm(f) ==
  /\ active = f
  /\ frames[f].pc = "raise"
  /\ frames[f].parent = 0
  /\ frames' = Without(frames, f)
  /\ active' = 0
  /\ IF f \in tasks
     THEN turn' = "idle" /\ tasks' = {} /\ message' = Idle
     ELSE UNCHANGED <<turn, tasks, message>>
  /\ UNCHANGED <<bucket, heap, toStart, budget, started, rounds, requests>>

-----------------------------------------------------------------------------
(* The PM's graph.                                                         *)

(* A user message that is not an answer: reset_task_budget, then astream.  *)
NewRequest ==
  /\ turn = "idle"
  /\ active = 0
  /\ requests < MaxRequests
  /\ requests' = requests + 1
  /\ budget' = 0
  /\ started' = 0
  /\ rounds' = 0
  /\ turn' = "pm"
  /\ UNCHANGED <<teamVars, message, toStart, tasks>>

(* The pm node: a message with tool calls is routed to the tools node,     *)
(* which creates one task per call.                                        *)
PmCallsTools(m) ==
  /\ turn = "pm"
  /\ active = 0
  /\ rounds < MaxRounds
  /\ rounds' = rounds + 1
  /\ turn' = "tools"
  /\ message' = m
  /\ toStart' = m.assigns
  /\ UNCHANGED <<teamVars, tasks, budget, started, requests>>

(* The turn ends: a final answer, an LLM failure, or the recursion limit.  *)
PmEndsTurn ==
  /\ turn = "pm"
  /\ active = 0
  /\ turn' = "idle"
  /\ UNCHANGED <<teamVars, message, toStart, tasks, budget, started, rounds, requests>>

Starting(a) ==
  /\ turn = "tools"
  /\ active = 0
  /\ toStart # <<>>
  /\ a = Head(toStart)
  /\ toStart' = Tail(toStart)

(* assign_task to an agent that does not exist: no charge.                 *)
AssignUnknown(a) ==
  /\ Starting(a)
  /\ a \notin Specialists
  /\ UNCHANGED <<teamVars, turn, message, tasks, budget, started, rounds, requests>>

(* assign_task over the budget: charged, refused.                          *)
AssignOverBudget(a) ==
  /\ Starting(a)
  /\ a \in Specialists
  /\ budget' = budget + 1
  /\ budget' > MaxAssignTasks
  /\ UNCHANGED <<teamVars, turn, message, tasks, started, rounds, requests>>

Assign(a, f) ==
  /\ Starting(a)
  /\ a \in Specialists
  /\ budget' = budget + 1
  /\ budget' <= MaxAssignTasks
  /\ IsNextId(f)
  /\ Begin(frames, f, a, 0, f, <<>>)
  /\ tasks' = tasks \cup {f}
  /\ started' = started + 1
  /\ UNCHANGED <<turn, message, rounds, requests>>

(* interrupt() in ask_user: the tools node is abandoned at once, the other *)
(* tasks of the same message run on; the graph waits for the answer.       *)
AskUser ==
  /\ turn = "tools"
  /\ active = 0
  /\ toStart = <<>>
  /\ message.ask
  /\ turn' = "asking"
  /\ tasks' = {}
  /\ UNCHANGED <<teamVars, message, toStart, budget, started, rounds, requests>>

(* Mutant: an answer is taken for a new request and resets the budget.     *)
AnswerResetsBudget ==
  /\ turn = "asking"
  /\ active = 0
  /\ turn' = "tools"
  /\ message' = [message EXCEPT !.ask = FALSE]
  /\ toStart' = message.assigns
  /\ budget' = 0
  /\ UNCHANGED <<teamVars, tasks, started, rounds, requests>>

(* Command(resume): the whole tools node runs again, ask_user now returns. *)
AnswerUser ==
  /\ turn = "asking"
  /\ active = 0
  /\ turn' = "tools"
  /\ message' = [message EXCEPT !.ask = FALSE]
  /\ toStart' = message.assigns
  /\ UNCHANGED <<teamVars, tasks, budget, started, rounds, requests>>

(* Mutant: the PM goes on without waiting for the reports.                 *)
ToolsDoneEarly ==
  /\ turn = "tools"
  /\ active = 0
  /\ toStart = <<>>
  /\ ~message.ask
  /\ turn' = "pm"
  /\ message' = Idle
  /\ UNCHANGED <<teamVars, toStart, tasks, budget, started, rounds, requests>>

(* All tool calls of the message have their results.                       *)
ToolsDone ==
  /\ turn = "tools"
  /\ active = 0
  /\ toStart = <<>>
  /\ tasks = {}
  /\ ~message.ask
  /\ turn' = "pm"
  /\ message' = Idle
  /\ UNCHANGED <<teamVars, toStart, tasks, budget, started, rounds, requests>>

-----------------------------------------------------------------------------
(* One step of an activation, whether it holds the loop or resumes.        *)
Step(f) ==
  \/ StartStep(f) \/ StepLimit(f)
  \/ \E n \in 0..MaxCalls : LlmAnswers(f, n)
  \/ LlmFails(f)
  \/ RefuseTool(f) \/ CallTool(f) \/ ToolReturns(f)
  \/ \E t \in Specialists \cup {Unknown} :
       \/ RefuseDiscussion(f, t)
       \/ \E g \in Ids : Discuss(f, t, g)
  \/ ReplyToPeer(f) \/ ReportToPm(f)
  \/ RaiseToPeer(f) \/ RaiseToPm(f)

Delegate ==
  \E a \in Specialists \cup {Unknown} :
    \/ AssignUnknown(a) \/ AssignOverBudget(a)
    \/ \E f \in Ids : Assign(a, f)

Pm ==
  \/ \E m \in PmMessages : PmCallsTools(m)
  \/ PmEndsTurn \/ ToolsDone \/ AskUser

User == NewRequest \/ AnswerUser

Next == (\E f \in live : Step(f)) \/ Delegate \/ Pm \/ User

Spec == Init /\ [][Next]_vars

(* The event loop serves every ready task, an LLM call ends (client        *)
(* timeouts and bounded retries), and so does a tool.  Nothing is assumed  *)
(* of the user.                                                            *)
Fairness ==
  /\ \A f \in Ids : WF_vars(f \in live /\ Step(f))
  /\ WF_vars(Delegate)
  /\ WF_vars(Pm)

FairSpec == Spec /\ Fairness

-----------------------------------------------------------------------------
(* Cycle guard (agent.py:551-552, "A -> B -> A").  In one call stack no    *)
(* agent is active twice: nobody waits, directly or through others, for a  *)
(* conversation with itself.                                               *)
NobodyWaitsForItself ==
  \A f, g \in live :
    f # g /\ frames[f].task = frames[g].task => frames[f].agent # frames[g].agent

(* The shape of the call stacks, which the guards of _run_discussion rely  *)
(* on: an activation's chain is the chain of its caller and that caller,   *)
(* its caller awaits it, and the activations of one task are one stack     *)
(* whose top is the only one that does not await a peer.                   *)
Calls(f, g) ==      \* f is a caller of g, at once or through others
  /\ Len(frames[f].chain) < Len(frames[g].chain)
  /\ frames[g].chain[Len(frames[f].chain) + 1] = frames[f].agent

SameTask(f, g) == f # g /\ frames[f].task = frames[g].task

AwaitsReply == \A f \in live : frames[f].pc \in {"tool", "discuss"} => frames[f].left > 0

RootOfTask ==
  \A f \in live :
    /\ frames[f].parent = 0 => frames[f].task = f /\ frames[f].chain = <<>>
    /\ frames[f].task \in live /\ frames[frames[f].task].parent = 0

ChainOfCaller ==
  \A f \in live : frames[f].parent # 0 =>
    LET p == frames[f].parent IN
    /\ p \in live
    /\ frames[p].pc = "discuss"
    /\ frames[p].task = frames[f].task
    /\ frames[f].chain = Append(frames[p].chain, frames[p].agent)

OneStack ==
  \A f, g \in live : SameTask(f, g) =>
    /\ Calls(f, g) \/ Calls(g, f)
    /\ frames[f].pc # "discuss" => Calls(g, f)

ChainGuarded ==
  \A f \in live :
    /\ ~Holds(frames[f].chain, frames[f].agent)
    /\ Len(frames[f].chain) < MaxDiscussionDepth

CallTree == AwaitsReply /\ RootOfTask /\ ChainOfCaller /\ OneStack /\ ChainGuarded

Suspended == {"llm", "tool", "discuss"}

(* "keeping the shared bucket in sync" (agent.py:604-605): whatever is     *)
(* appended to, exported or trimmed through the bucket while an activation *)
(* is suspended is the very list it will append its next message to.       *)
BucketInSync ==
  \A f \in live : frames[f].pc \in Suspended =>
    bucket[frames[f].agent] = frames[f].list

(* The step in which an activation sends its window to the LLM.            *)
Invokes(f) == frames[f].pc = "run" /\ f \in live' /\ frames'[f].pc = "llm"
Window(f)  == heap[frames[f].list]

(* The docstring of _trim_history: what an LLM is sent never has a tool    *)
(* call without its reply or a reply without its call.                     *)
PairedAtInvoke == [][\A f \in live : Invokes(f) => Paired(Window(f)')]_vars

(* That, except for the last call of a task which an LLM failure ended:    *)
(* the loop itself and the trimming never separate a call from its replies.*)
PairedOrCutOffAtInvoke ==
  [][\A f \in live : Invokes(f) => PairedOrCutOff(Window(f)')]_vars

(* What an LLM is sent is bounded, is not empty, and does not begin with   *)
(* a ToolMessage (agent.py:477-491).                                       *)
WindowAtInvoke ==
  [][\A f \in live : Invokes(f) =>
       /\ Len(Window(f)') \in 1..MaxHistory
       /\ ~IsTool(Head(Window(f)'))]_vars

(* "Hard delegation budget per user request" (README.md:41): counted over  *)
(* every PM message of the request and every re-run of a tools node that   *)
(* an ask_user interrupted.                                                *)
DelegationBudget == started <= MaxAssignTasks

(* The turn is over only when the specialists are: the history that the    *)
(* server exports at that point is complete (server.py:305-306).           *)
QuietWhenIdle == turn \in {"idle", "pm"} => live = {}

(* The team implements the stacks of CallStacks: the stack of a task is    *)
(* the caller chain and the agent of its only activation that is not       *)
(* itself waiting for a peer.                                              *)
Front(t)    == CHOOSE f \in live : frames[f].task = t /\ frames[f].pc # "discuss"
StackOf(t)  == IF \E f \in live : frames[f].task = t
               THEN Append(frames[Front(t)].chain, frames[Front(t)].agent)
               ELSE <<>>

Stacks == INSTANCE CallStacks WITH Tasks <- Ids, stack <- [t \in Ids |-> StackOf(t)]

ImplementsStacks == Stacks!Spec

(* Every activation ends, however its LLM behaves: steps, tool calls and   *)
(* depth are bounded, and no discussion waits on itself.                   *)
ActivationsEnd == \A f \in Ids : (f \in live) ~> (f \notin live)

(* Every turn ends or stops to ask the user.                               *)
TurnsEnd == (turn \in {"pm", "tools"}) ~> (turn \in {"idle", "asking"})
=============================================================================
