------------------------ MODULE SpecialistTeam_proofs ------------------------
(***************************************************************************)
(* Theorems about SpecialistTeam for every value of its constants: type    *)
(* correctness, the shape of the call stacks, and what follows from it.    *)
(* TypeOK is not inductive without CallTree (a reply goes to a caller that *)
(* is there and has a call left to answer), nor CallTree without TypeOK.   *)
(***************************************************************************)
EXTENDS SpecialistTeam, History_proofs

Msg == Message(Ids, MaxCalls)

(* The inductive invariant.                                                *)
IInv == TypeOK /\ CallTree

-----------------------------------------------------------------------------
(* Typing of messages and activations.                                     *)

LEMMA MessageTypes ==
  ASSUME NEW f \in Ids, NEW n \in 0..MaxCalls
  PROVE  Human(f) \in Msg /\ AI(f, n) \in Msg /\ Tool(f) \in Msg
BY TeamAssumption DEF Msg, Message, Human, AI, Tool

LEMMA ActivationFields ==
  ASSUME TypeOK, NEW f \in live
  PROVE  /\ f \in Ids
         /\ frames[f] \in Activation
         /\ frames[f].agent \in Specialists
         /\ frames[f].parent \in {0} \cup Ids
         /\ frames[f].task \in Ids
         /\ frames[f].chain \in Seq(Specialists)
         /\ frames[f].list \in Lists
         /\ frames[f].steps \in 0..MaxSteps
         /\ frames[f].left \in 0..MaxCalls
         /\ frames[f].pc \in {"run", "llm", "tool", "discuss", "return", "raise"}
BY DEF TypeOK, Activation, live

(* Replacing the record of a live activation.                              *)
LEMMA Replaced ==
  ASSUME TypeOK, NEW f \in live, NEW rec \in Activation,
         frames' = [frames EXCEPT ![f] = rec]
  PROVE  /\ live' = live
         /\ frames' \in [live -> Activation]
         /\ frames'[f] = rec
         /\ \A g \in live \ {f} : frames'[g] = frames[g]
BY DEF TypeOK, live

(* The steps of the tool loop that stay within one activation: only its    *)
(* list, steps, left and pc may change, and it neither was nor becomes a   *)
(* caller awaiting a peer.                                                 *)
Local(f) ==
  /\ live' = live
  /\ frames' \in [live -> Activation]
  /\ \A g \in live \ {f} : frames'[g] = frames[g]
  /\ frames'[f].agent = frames[f].agent
  /\ frames'[f].parent = frames[f].parent
  /\ frames'[f].task = frames[f].task
  /\ frames'[f].chain = frames[f].chain
  /\ frames[f].pc # "discuss"
  /\ frames'[f].pc # "discuss"
  /\ frames'[f].pc = "tool" => frames'[f].left > 0

LEMMA Edited ==
  ASSUME TypeOK, NEW f \in live, frames[f].pc # "discuss",
         NEW rec \in Activation,
         rec.agent = frames[f].agent,
         rec.parent = frames[f].parent,
         rec.task = frames[f].task,
         rec.chain = frames[f].chain,
         rec.pc # "discuss",
         rec.pc = "tool" => rec.left > 0,
         frames' = [frames EXCEPT ![f] = rec]
  PROVE  Local(f)
BY Replaced DEF Local

(* What such a step does to the other variables of the team.               *)
LocalStep(f) ==
  /\ Local(f)
  /\ active' \in {0, f}
  /\ bucket' \in [Specialists -> {0} \cup Lists]
  /\ heap' \in [Lists -> Seq(Msg)]
  /\ UNCHANGED pmVars

LocalAction(f) ==
  \/ StartStep(f) \/ StepLimit(f)
  \/ \E n \in 0..MaxCalls : LlmAnswers(f, n)
  \/ LlmFails(f)
  \/ RefuseTool(f) \/ CallTool(f) \/ ToolReturns(f)
  \/ \E t \in Specialists \cup {Unknown} : RefuseDiscussion(f, t)

LEMMA AppendToList ==
  ASSUME TypeOK, NEW r \in Lists, NEW m \in Msg, heap' = [heap EXCEPT ![r] = Append(@, m)]
  PROVE  heap' \in [Lists -> Seq(Msg)]
<1>1. heap \in [Lists -> Seq(Msg)]
  BY DEF TypeOK, Msg
<1>2. Append(heap[r], m) \in Seq(Msg)
  BY <1>1
<1> QED BY <1>1, <1>2

LEMMA StartStepIsLocal ==
  ASSUME TypeOK, NEW f \in live, StartStep(f)
  PROVE  LocalStep(f)
<1> DEFINE old == frames[f].list
           h   == heap[old]
<1>1. PICK r \in Lists, g \in {h, <<>>} :
        /\ heap' = [heap EXCEPT ![old] = g, ![r] = Trim(h)]
        /\ bucket' = [bucket EXCEPT ![frames[f].agent] = r]
        /\ frames' = [frames EXCEPT ![f].list = r, ![f].steps = @ + 1, ![f].pc = "llm"]
  BY DEF StartStep, Publish
<1> DEFINE rec == [frames[f] EXCEPT !.list = r, !.steps = @ + 1, !.pc = "llm"]
<1>2. frames' = [frames EXCEPT ![f] = rec]
  BY <1>1 DEF TypeOK
<1>3. frames[f].pc = "run" /\ frames[f].steps < MaxSteps
  BY DEF StartStep, Running, StepsRemain
<1>4. frames[f] \in Activation /\ frames[f].steps + 1 \in 0..MaxSteps
  BY <1>3, ActivationFields, TeamAssumption
<1>5. /\ rec \in Activation
      /\ rec.agent = frames[f].agent
      /\ rec.parent = frames[f].parent
      /\ rec.task = frames[f].task
      /\ rec.chain = frames[f].chain
      /\ rec.pc = "llm"
  BY <1>4 DEF Activation
<1>6. Local(f)
  <2> HIDE DEF rec
  <2> QED BY <1>2, <1>3, <1>5, Edited
<1>7. heap' \in [Lists -> Seq(Msg)]
  <2>1. heap \in [Lists -> Seq(Msg)] /\ old \in Lists
    BY ActivationFields DEF TypeOK, Msg
  <2>2. h \in Seq(Msg)
    BY <2>1
  <2>3. Trim(h) \in Seq(Msg) /\ g \in Seq(Msg)
    <3>1. g = h \/ g = <<>>
      OBVIOUS
    <3> HIDE DEF h
    <3>2. Trim(h) \in Seq(Msg)
      BY <2>2, TrimBounds
    <3>3. <<>> \in Seq(Msg)
      OBVIOUS
    <3> QED BY <2>2, <3>1, <3>2, <3>3, Zenon
  <2> QED BY <1>1, <2>1, <2>3
<1>8. bucket' \in [Specialists -> {0} \cup Lists]
  BY <1>1 DEF TypeOK
<1>9. active' = 0 /\ UNCHANGED pmVars
  BY DEF StartStep
<1> QED BY <1>6, <1>7, <1>8, <1>9 DEF LocalStep

LEMMA StepLimitIsLocal ==
  ASSUME TypeOK, NEW f \in live, StepLimit(f)
  PROVE  LocalStep(f)
<1> DEFINE rec == [frames[f] EXCEPT !.pc = "return"]
<1>1. frames' = [frames EXCEPT ![f] = rec]
  BY DEF StepLimit
<1>2. frames[f].pc = "run" /\ active = f /\ UNCHANGED <<active, bucket, heap, pmVars>>
  BY DEF StepLimit, Running
<1>3. /\ rec \in Activation
      /\ rec.agent = frames[f].agent
      /\ rec.parent = frames[f].parent
      /\ rec.task = frames[f].task
      /\ rec.chain = frames[f].chain
      /\ rec.pc = "return"
  BY ActivationFields DEF Activation
<1>4. Local(f)
  <2> HIDE DEF rec
  <2> QED BY <1>1, <1>2, <1>3, Edited
<1> QED BY <1>2, <1>4 DEF LocalStep, TypeOK, Msg

LEMMA LlmAnswersIsLocal ==
  ASSUME TypeOK, NEW f \in live, NEW n \in 0..MaxCalls, LlmAnswers(f, n)
  PROVE  LocalStep(f)
<1> DEFINE rec == [frames[f] EXCEPT !.left = n, !.pc = IF n = 0 THEN "return" ELSE "run"]
<1>1. frames' = [frames EXCEPT ![f] = rec]
  BY DEF LlmAnswers, TypeOK
<1>2. /\ frames[f].pc = "llm"
      /\ active' = f
      /\ heap' = [heap EXCEPT ![frames[f].list] = Append(@, AI(f, n))]
      /\ UNCHANGED <<bucket, pmVars>>
  BY DEF LlmAnswers
<1>3. /\ rec \in Activation
      /\ rec.agent = frames[f].agent
      /\ rec.parent = frames[f].parent
      /\ rec.task = frames[f].task
      /\ rec.chain = frames[f].chain
      /\ rec.pc \in {"run", "return"}
  BY ActivationFields DEF Activation
<1>4. Local(f)
  <2> HIDE DEF rec
  <2> QED BY <1>1, <1>2, <1>3, Edited
<1>5. heap' \in [Lists -> Seq(Msg)]
  BY <1>2, ActivationFields, MessageTypes, AppendToList
<1> QED BY <1>2, <1>4, <1>5 DEF LocalStep, TypeOK

LEMMA LlmFailsIsLocal ==
  ASSUME TypeOK, NEW f \in live, LlmFails(f)
  PROVE  LocalStep(f)
<1> DEFINE rec == [frames[f] EXCEPT !.pc = "raise"]
<1>1. frames' = [frames EXCEPT ![f] = rec]
  BY DEF LlmFails
<1>2. frames[f].pc = "llm" /\ active' = f /\ UNCHANGED <<bucket, heap, pmVars>>
  BY DEF LlmFails
<1>3. /\ rec \in Activation
      /\ rec.agent = frames[f].agent
      /\ rec.parent = frames[f].parent
      /\ rec.task = frames[f].task
      /\ rec.chain = frames[f].chain
      /\ rec.pc = "raise"
  BY ActivationFields DEF Activation
<1>4. Local(f)
  <2> HIDE DEF rec
  <2> QED BY <1>1, <1>2, <1>3, Edited
<1> QED BY <1>2, <1>4 DEF LocalStep, TypeOK, Msg

LEMMA CallToolIsLocal ==
  ASSUME TypeOK, NEW f \in live, CallTool(f)
  PROVE  LocalStep(f)
<1> DEFINE rec == [frames[f] EXCEPT !.pc = "tool"]
<1>1. frames' = [frames EXCEPT ![f] = rec]
  BY DEF CallTool
<1>2. /\ frames[f].pc = "run" /\ frames[f].left > 0
      /\ active' = 0
      /\ UNCHANGED <<bucket, heap, pmVars>>
  BY DEF CallTool, Running
<1>3. /\ rec \in Activation
      /\ rec.agent = frames[f].agent
      /\ rec.parent = frames[f].parent
      /\ rec.task = frames[f].task
      /\ rec.chain = frames[f].chain
      /\ rec.left = frames[f].left
      /\ rec.pc = "tool"
  BY ActivationFields DEF Activation
<1>4. Local(f)
  <2> HIDE DEF rec
  <2> QED BY <1>1, <1>2, <1>3, Edited
<1> QED BY <1>2, <1>4 DEF LocalStep, TypeOK, Msg

(* One reply in the activation's own list: a refused tool, a refused       *)
(* discussion, a tool's result.                                            *)
LEMMA ReplyIsLocal ==
  ASSUME TypeOK, NEW f \in live, frames[f].pc # "discuss", frames[f].left > 0,
         AddReply(f), frames' = Replied(frames, f), active' = f,
         UNCHANGED <<bucket, pmVars>>
  PROVE  LocalStep(f)
<1> DEFINE rec == [frames[f] EXCEPT !.left = @ - 1, !.pc = "run"]
<1>1. frames' = [frames EXCEPT ![f] = rec]
  BY DEF Replied, TypeOK
<1>2. frames[f] \in Activation /\ frames[f].left - 1 \in 0..MaxCalls
  BY ActivationFields, TeamAssumption
<1>3. /\ rec \in Activation
      /\ rec.agent = frames[f].agent
      /\ rec.parent = frames[f].parent
      /\ rec.task = frames[f].task
      /\ rec.chain = frames[f].chain
      /\ rec.pc = "run"
  BY <1>2 DEF Activation
<1>4. Local(f)
  <2> HIDE DEF rec
  <2> QED BY <1>1, <1>3, Edited
<1>5. heap' \in [Lists -> Seq(Msg)]
  <2>1. f \in Ids /\ frames[f].list \in Lists /\ 0 \in 0..MaxCalls
    BY ActivationFields, TeamAssumption
  <2>2. Tool(f) \in Msg
    BY <2>1, MessageTypes
  <2> QED BY <2>1, <2>2, AppendToList DEF AddReply
<1> QED BY <1>4, <1>5 DEF LocalStep, TypeOK

LEMMA LocalActions ==
  ASSUME TypeOK, AwaitsReply, NEW f \in live, LocalAction(f)
  PROVE  LocalStep(f)
<1>1. CASE StartStep(f)
  BY <1>1, StartStepIsLocal
<1>2. CASE StepLimit(f)
  BY <1>2, StepLimitIsLocal
<1>3. CASE \E n \in 0..MaxCalls : LlmAnswers(f, n)
  BY <1>3, LlmAnswersIsLocal
<1>4. CASE LlmFails(f)
  BY <1>4, LlmFailsIsLocal
<1>5. CASE RefuseTool(f)
  BY <1>5, ReplyIsLocal DEF RefuseTool, Running
<1>6. CASE CallTool(f)
  BY <1>6, CallToolIsLocal
<1>7. CASE ToolReturns(f)
  <2>1. frames[f].pc = "tool" /\ frames[f].left > 0
    BY <1>7 DEF ToolReturns, AwaitsReply
  <2> QED BY <1>7, <2>1, ReplyIsLocal DEF ToolReturns
<1>8. CASE \E t \in Specialists \cup {Unknown} : RefuseDiscussion(f, t)
  BY <1>8, ReplyIsLocal DEF RefuseDiscussion, Running
<1> QED BY <1>1, <1>2, <1>3, <1>4, <1>5, <1>6, <1>7, <1>8 DEF LocalAction
-----------------------------------------------------------------------------
(* Such a step leaves the call stacks as they are.                         *)

LEMMA LocalKeepsCallTree ==
  ASSUME TypeOK, CallTree, NEW f \in live, Local(f)
  PROVE  CallTree'
<1>1. live' = live
  BY DEF Local
<1>2. ASSUME NEW g \in live
      PROVE  /\ frames'[g].agent = frames[g].agent
             /\ frames'[g].parent = frames[g].parent
             /\ frames'[g].task = frames[g].task
             /\ frames'[g].chain = frames[g].chain
             /\ frames'[g].pc = "discuss" <=> frames[g].pc = "discuss"
             /\ g # f => frames'[g] = frames[g]
  BY DEF Local
<1>3. AwaitsReply'
  BY <1>1, <1>2 DEF CallTree, AwaitsReply, Local
<1>4. RootOfTask'
  <2>1. \A g \in live : frames[g].task \in live
    BY DEF CallTree, RootOfTask
  <2> QED BY <1>1, <1>2, <2>1 DEF CallTree, RootOfTask
<1>5. ChainOfCaller'
  <2> SUFFICES ASSUME NEW g \in live', frames'[g].parent # 0
               PROVE  /\ frames'[g].parent \in live'
                      /\ frames'[frames'[g].parent].pc = "discuss"
                      /\ frames'[frames'[g].parent].task = frames'[g].task
                      /\ frames'[g].chain = Append(frames'[frames'[g].parent].chain,
                                                   frames'[frames'[g].parent].agent)
    BY DEF ChainOfCaller
  <2>0. g \in live /\ frames'[g].parent = frames[g].parent
    BY <1>1, <1>2
  <2>1. /\ frames[g].parent \in live
        /\ frames[frames[g].parent].pc = "discuss"
        /\ frames[frames[g].parent].task = frames[g].task
        /\ frames[g].chain = Append(frames[frames[g].parent].chain, frames[frames[g].parent].agent)
    BY <2>0 DEF CallTree, ChainOfCaller
  <2> QED BY <1>1, <1>2, <2>0, <2>1
<1>6. OneStack'
  <2>1. \A g, h \in live : SameTask(g, h)' <=> SameTask(g, h)
    BY <1>2 DEF SameTask
  <2>2. \A g, h \in live : Calls(g, h)' <=> Calls(g, h)
    BY <1>2 DEF Calls
  <2> QED BY <1>1, <1>2, <2>1, <2>2 DEF CallTree, OneStack
<1>7. ChainGuarded'
  BY <1>1, <1>2 DEF CallTree, ChainGuarded, Holds
<1> QED BY <1>3, <1>4, <1>5, <1>6, <1>7 DEF CallTree

(* The top of a stack is above every other activation of its task.         *)
LEMMA TopOfStack ==
  ASSUME TypeOK, CallTree, NEW f \in live, frames[f].pc # "discuss",
         NEW g \in live, SameTask(f, g)
  PROVE  /\ frames[g].pc = "discuss"
         /\ Calls(g, f)
         /\ Len(frames[g].chain) < Len(frames[f].chain)
         /\ frames[g].parent # f
<1>1. Calls(g, f)
  BY DEF CallTree, OneStack
<1>2. SameTask(g, f)
  BY DEF SameTask
<1>3. Len(frames[g].chain) \in Nat /\ Len(frames[f].chain) \in Nat
  BY ActivationFields
<1>4. ~Calls(f, g)
  BY <1>1, <1>3 DEF Calls
<1>5. frames[g].pc = "discuss"
  BY <1>2, <1>4 DEF CallTree, OneStack
<1>6. frames[g].parent # f
  <2>1. f # 0
    BY ActivationFields DEF Ids
  <2>2. frames[g].parent # 0 => frames[frames[g].parent].pc = "discuss"
    BY DEF CallTree, ChainOfCaller
  <2> QED BY <2>1, <2>2
<1> QED BY <1>1, <1>5, <1>6 DEF Calls
-----------------------------------------------------------------------------
(* The end of an activation.                                               *)

Popped(f) ==
  /\ frames[f].pc # "discuss"
  /\ live' = live \ {f}
  /\ frames' \in [live' -> Activation]
  /\ \A g \in live' :
       /\ frames'[g].agent = frames[g].agent
       /\ frames'[g].parent = frames[g].parent
       /\ frames'[g].task = frames[g].task
       /\ frames'[g].chain = frames[g].chain
       /\ g # frames[f].parent => frames'[g] = frames[g]
       /\ g = frames[f].parent => frames'[g].pc \in {"run", "raise"}

LEMMA PoppedPeers ==
  ASSUME TypeOK, CallTree, NEW f \in live, Popped(f), NEW g \in live'
  PROVE  /\ g \in live /\ g # f
         /\ frames[g].parent # f
         /\ frames[g].task # f
         /\ frames[f].parent # 0 => frames[g].parent # frames[f].parent
<1>1. g \in live /\ g # f /\ frames[f].pc # "discuss"
  BY DEF Popped
<1>2. f # 0
  BY ActivationFields DEF Ids
<1>3. frames[g].parent # f
  BY <1>1, <1>2 DEF CallTree, ChainOfCaller
<1>4. frames[g].task # f
  <2> SUFFICES ASSUME frames[g].task = f PROVE FALSE
    OBVIOUS
  <2>1. frames[f].parent = 0
    BY <1>1 DEF CallTree, RootOfTask
  <2>2. frames[f].task = f /\ frames[f].chain = <<>>
    BY <2>1 DEF CallTree, RootOfTask
  <2>3. SameTask(f, g)
    BY <1>1, <2>2 DEF SameTask
  <2>4. Len(frames[g].chain) < Len(frames[f].chain)
    BY <1>1, <2>3, TopOfStack
  <2>5. Len(frames[g].chain) \in Nat
    BY <1>1, ActivationFields
  <2> QED BY <2>2, <2>4, <2>5
<1>5. ASSUME frames[f].parent # 0, frames[g].parent = frames[f].parent
      PROVE  FALSE
  <2> DEFINE p == frames[f].parent
  <2>1. /\ p \in live
        /\ frames[p].task = frames[f].task
        /\ frames[f].chain = Append(frames[p].chain, frames[p].agent)
    BY <1>5 DEF CallTree, ChainOfCaller
  <2>2. /\ frames[p].task = frames[g].task
        /\ frames[g].chain = Append(frames[p].chain, frames[p].agent)
    BY <1>1, <1>5 DEF CallTree, ChainOfCaller
  <2>3. SameTask(f, g)
    BY <1>1, <2>1, <2>2 DEF SameTask
  <2>4. Len(frames[g].chain) < Len(frames[f].chain)
    BY <1>1, <2>3, TopOfStack
  <2>5. Len(frames[g].chain) \in Nat
    BY <1>1, ActivationFields
  <2> QED BY <2>1, <2>2, <2>4, <2>5
<1> QED BY <1>1, <1>3, <1>4, <1>5

LEMMA PopKeepsCallTree ==
  ASSUME TypeOK, CallTree, NEW f \in live, Popped(f)
  PROVE  CallTree'
<1> DEFINE p == frames[f].parent
<1>1. /\ live' = live \ {f}
      /\ frames[f].pc # "discuss"
      /\ \A g \in live' :
           /\ frames'[g].agent = frames[g].agent
           /\ frames'[g].parent = frames[g].parent
           /\ frames'[g].task = frames[g].task
           /\ frames'[g].chain = frames[g].chain
           /\ g # p => frames'[g].pc = frames[g].pc /\ frames'[g].left = frames[g].left
           /\ g = p => frames'[g].pc \in {"run", "raise"}
  BY DEF Popped
<1>2. \A g \in live' :
         /\ g \in live /\ g # f
         /\ frames[g].parent # f
         /\ frames[g].task # f
         /\ p # 0 => frames[g].parent # p
  BY PoppedPeers
<1>3. AwaitsReply'
  BY <1>1, <1>2 DEF CallTree, AwaitsReply
<1>4. RootOfTask'
  <2> SUFFICES ASSUME NEW g \in live'
               PROVE  /\ frames'[g].parent = 0 => frames'[g].task = g /\ frames'[g].chain = <<>>
                      /\ frames'[g].task \in live'
                      /\ frames'[frames'[g].task].parent = 0
    BY DEF RootOfTask
  <2>1. /\ frames[g].parent = 0 => frames[g].task = g /\ frames[g].chain = <<>>
        /\ frames[g].task \in live
        /\ frames[frames[g].task].parent = 0
    BY <1>2 DEF CallTree, RootOfTask
  <2>2. frames[g].task \in live'
    BY <1>1, <1>2, <2>1
  <2> QED BY <1>1, <2>1, <2>2
<1>5. ChainOfCaller'
  <2> SUFFICES ASSUME NEW g \in live', frames'[g].parent # 0
               PROVE  /\ frames'[g].parent \in live'
                      /\ frames'[frames'[g].parent].pc = "discuss"
                      /\ frames'[frames'[g].parent].task = frames'[g].task
                      /\ frames'[g].chain = Append(frames'[frames'[g].parent].chain,
                                                   frames'[frames'[g].parent].agent)
    BY DEF ChainOfCaller
  <2> DEFINE q == frames[g].parent
  <2>1. q # 0 /\ frames'[g].parent = q
    BY <1>1
  <2>2. /\ q \in live
        /\ frames[q].pc = "discuss"
        /\ frames[q].task = frames[g].task
        /\ frames[g].chain = Append(frames[q].chain, frames[q].agent)
    BY <1>2, <2>1 DEF CallTree, ChainOfCaller
  <2>3. q \in live' /\ q # p
    BY <1>1, <1>2, <2>1, <2>2
  <2> HIDE DEF q, p
  <2>4. /\ frames'[q].pc = frames[q].pc
        /\ frames'[q].task = frames[q].task
        /\ frames'[q].chain = frames[q].chain
        /\ frames'[q].agent = frames[q].agent
    BY <1>1, <2>3
  <2>5. frames'[g].task = frames[g].task /\ frames'[g].chain = frames[g].chain
    BY <1>1
  <2> QED BY <2>1, <2>2, <2>3, <2>4, <2>5
<1>6. OneStack'
  <2> SUFFICES ASSUME NEW g \in live', NEW h \in live', SameTask(g, h)'
               PROVE  /\ Calls(g, h)' \/ Calls(h, g)'
                      /\ frames'[g].pc # "discuss" => Calls(h, g)'
    BY DEF OneStack
  <2>1. SameTask(g, h)
    BY <1>1 DEF SameTask
  <2>2. /\ Calls(g, h) \/ Calls(h, g)
        /\ frames[g].pc # "discuss" => Calls(h, g)
    BY <1>2, <2>1 DEF CallTree, OneStack
  <2>3. /\ Calls(g, h)' <=> Calls(g, h)
        /\ Calls(h, g)' <=> Calls(h, g)
    BY <1>1 DEF Calls
  <2>4. CASE g # p
    BY <1>1, <2>2, <2>3, <2>4
  <2>5. CASE g = p
    <3>1. /\ frames[f].chain = Append(frames[g].chain, frames[g].agent)
          /\ frames[g].task = frames[f].task
          /\ g # 0
      <4>1. g # 0
        BY <1>2, ActivationFields DEF Ids
      <4> QED BY <2>5, <4>1 DEF CallTree, ChainOfCaller
    <3>2. SameTask(f, h)
      BY <1>2, <2>1, <3>1 DEF SameTask
    <3>3. Len(frames[h].chain) < Len(frames[f].chain)
      BY <1>1, <1>2, <3>2, TopOfStack
    <3>4. frames[g].chain \in Seq(Specialists) /\ frames[h].chain \in Seq(Specialists)
      BY <1>2, ActivationFields
    <3>5. ~Calls(g, h)
      BY <3>1, <3>3, <3>4 DEF Calls
    <3> QED BY <2>2, <2>3, <3>5
  <2> QED BY <2>4, <2>5
<1>7. ChainGuarded'
  BY <1>1, <1>2 DEF CallTree, ChainGuarded, Holds
<1> QED BY <1>3, <1>4, <1>5, <1>6, <1>7 DEF CallTree
-----------------------------------------------------------------------------
(* The start of an activation: of a task, or by a peer.                    *)

LEMMA BegunActivation ==
  ASSUME TypeOK, NEW fs \in [live -> Activation],
         NEW f \in Ids, f \notin live, NEW a \in Specialists,
         NEW parent \in {0} \cup Ids, NEW task \in Ids, NEW chain \in Seq(Specialists),
         Begin(fs, f, a, parent, task, chain)
  PROVE  /\ live' = live \cup {f}
         /\ frames' \in [live' -> Activation]
         /\ \A g \in live : frames'[g] = fs[g]
         /\ frames'[f].agent = a
         /\ frames'[f].parent = parent
         /\ frames'[f].task = task
         /\ frames'[f].chain = chain
         /\ frames'[f].pc = "run"
         /\ active' = f
         /\ bucket' \in [Specialists -> {0} \cup Lists]
         /\ heap' \in [Lists -> Seq(Msg)]
<1>1. PICK r \in Lists : \E h \in {<<>>, heap[r]} :
        /\ bucket' = [bucket EXCEPT ![a] = r]
        /\ heap' = [heap EXCEPT ![r] = Append(h, Human(f))]
        /\ frames' = With(fs, f,
             [agent |-> a, parent |-> parent, task |-> task, chain |-> chain,
              list |-> r, steps |-> 0, left |-> 0, pc |-> "run"])
        /\ active' = f
  BY DEF Begin
<1>0. PICK h \in {<<>>, heap[r]} : heap' = [heap EXCEPT ![r] = Append(h, Human(f))]
  BY <1>1
<1> DEFINE rec == [agent |-> a, parent |-> parent, task |-> task, chain |-> chain,
                   list |-> r, steps |-> 0, left |-> 0, pc |-> "run"]
<1>2. rec \in Activation
  BY TeamAssumption DEF Activation
<1>3. /\ rec.agent = a /\ rec.parent = parent /\ rec.task = task
      /\ rec.chain = chain /\ rec.pc = "run"
  OBVIOUS
<1>4. frames' = [g \in live \cup {f} |-> IF g = f THEN rec ELSE fs[g]]
  BY <1>1 DEF With
<1> HIDE DEF rec
<1>5. /\ live' = live \cup {f}
      /\ frames' \in [live' -> Activation]
      /\ frames'[f] = rec
      /\ \A g \in live : frames'[g] = fs[g]
  BY <1>2, <1>4 DEF live
<1>6. bucket' \in [Specialists -> {0} \cup Lists]
  BY <1>1 DEF TypeOK
<1>7. heap' \in [Lists -> Seq(Msg)]
  <2>1. heap \in [Lists -> Seq(Msg)] /\ h \in Seq(Msg)
    <3>1. heap \in [Lists -> Seq(Msg)]
      BY DEF TypeOK, Msg
    <3>2. heap[r] \in Seq(Msg) /\ <<>> \in Seq(Msg)
      BY <3>1
    <3>3. h = <<>> \/ h = heap[r]
      OBVIOUS
    <3> QED BY <3>1, <3>2, <3>3, Zenon
  <2>2. Human(f) \in Msg
    BY MessageTypes, TeamAssumption
  <2>3. Append(h, Human(f)) \in Seq(Msg)
    BY <2>1, <2>2
  <2> QED BY <1>0, <2>1, <2>3
<1> QED BY <1>1, <1>3, <1>5, <1>6, <1>7

LEMMA AssignEffect ==
  ASSUME TypeOK, NEW a \in Specialists, NEW f \in Ids, Assign(a, f)
  PROVE  /\ f \notin live
         /\ live' = live \cup {f}
         /\ frames' \in [live' -> Activation]
         /\ \A g \in live : frames'[g] = frames[g]
         /\ frames'[f].agent = a
         /\ frames'[f].parent = 0
         /\ frames'[f].task = f
         /\ frames'[f].chain = <<>>
         /\ frames'[f].pc = "run"
         /\ active' = f
         /\ bucket' \in [Specialists -> {0} \cup Lists]
         /\ heap' \in [Lists -> Seq(Msg)]
<1> DEFINE fs     == frames
           nobody == 0
           task   == f
           empty  == <<>>
<1>1. f \notin live /\ Begin(fs, f, a, nobody, task, empty)
  BY DEF Assign, IsNextId
<1>2. /\ fs \in [live -> Activation]
      /\ empty \in Seq(Specialists)
      /\ nobody \in {0} \cup Ids
      /\ task \in Ids
  BY DEF TypeOK
<1> HIDE DEF fs, nobody, task, empty
<1>3. /\ live' = live \cup {f}
      /\ frames' \in [live' -> Activation]
      /\ \A g \in live : frames'[g] = fs[g]
      /\ frames'[f].agent = a
      /\ frames'[f].parent = nobody
      /\ frames'[f].task = task
      /\ frames'[f].chain = empty
      /\ frames'[f].pc = "run"
      /\ active' = f
      /\ bucket' \in [Specialists -> {0} \cup Lists]
      /\ heap' \in [Lists -> Seq(Msg)]
  BY <1>1, <1>2, BegunActivation, Zenon
<1> QED BY <1>1, <1>3 DEF fs, nobody, task, empty

LEMMA AssignKeepsCallTree ==
  ASSUME TypeOK, CallTree, NEW a \in Specialists, NEW f \in Ids, Assign(a, f)
  PROVE  CallTree'
<1>3. /\ f \notin live
      /\ live' = live \cup {f}
      /\ \A g \in live : frames'[g] = frames[g]
      /\ frames'[f].agent = a
      /\ frames'[f].parent = 0
      /\ frames'[f].task = f
      /\ frames'[f].chain = <<>>
      /\ frames'[f].pc = "run"
  BY AssignEffect
<1>4. \A g \in live : frames[g].task # f /\ frames[g].task \in live
  BY <1>3 DEF CallTree, RootOfTask
<1>5. AwaitsReply'
  BY <1>3 DEF CallTree, AwaitsReply
<1>6. RootOfTask'
  BY <1>3, <1>4 DEF CallTree, RootOfTask
<1>7. ChainOfCaller'
  <2> SUFFICES ASSUME NEW g \in live', frames'[g].parent # 0
               PROVE  /\ frames'[g].parent \in live'
                      /\ frames'[frames'[g].parent].pc = "discuss"
                      /\ frames'[frames'[g].parent].task = frames'[g].task
                      /\ frames'[g].chain = Append(frames'[frames'[g].parent].chain,
                                                   frames'[frames'[g].parent].agent)
    BY DEF ChainOfCaller
  <2>1. g \in live /\ frames'[g] = frames[g]
    BY <1>3
  <2>2. /\ frames[g].parent \in live
        /\ frames[frames[g].parent].pc = "discuss"
        /\ frames[frames[g].parent].task = frames[g].task
        /\ frames[g].chain = Append(frames[frames[g].parent].chain, frames[frames[g].parent].agent)
    BY <2>1 DEF CallTree, ChainOfCaller
  <2>3. frames'[frames[g].parent] = frames[frames[g].parent]
    BY <1>3, <2>2
  <2> QED BY <1>3, <2>1, <2>2, <2>3
<1>8. OneStack'
  <2> SUFFICES ASSUME NEW g \in live', NEW h \in live', SameTask(g, h)'
               PROVE  /\ Calls(g, h)' \/ Calls(h, g)'
                      /\ frames'[g].pc # "discuss" => Calls(h, g)'
    BY DEF OneStack
  <2>1. g \in live /\ h \in live
    BY <1>3, <1>4 DEF SameTask
  <2>2. frames'[g] = frames[g] /\ frames'[h] = frames[h]
    BY <1>3, <2>1
  <2>3. SameTask(g, h)
    BY <2>2 DEF SameTask
  <2>4. /\ Calls(g, h) \/ Calls(h, g)
        /\ frames[g].pc # "discuss" => Calls(h, g)
    BY <2>1, <2>3 DEF CallTree, OneStack
  <2> QED BY <2>2, <2>4 DEF Calls
<1>9. ChainGuarded'
  <2>1. ~Holds(<<>>, a) /\ Len(<<>>) < MaxDiscussionDepth
    BY TeamAssumption DEF Holds
  <2> QED BY <1>3, <2>1 DEF CallTree, ChainGuarded, Holds
<1> QED BY <1>5, <1>6, <1>7, <1>8, <1>9 DEF CallTree
LEMMA DiscussEffect ==
  ASSUME TypeOK, NEW f \in live, NEW t \in Specialists \cup {Unknown}, NEW g \in Ids,
         Discuss(f, t, g)
  PROVE  /\ t \in Specialists
         /\ frames[f].pc = "run" /\ frames[f].left > 0
         /\ ~Holds(frames[f].chain, t) /\ t # frames[f].agent
         /\ Len(frames[f].chain) + 1 < MaxDiscussionDepth
         /\ g \notin live
         /\ live' = live \cup {g}
         /\ frames' \in [live' -> Activation]
         /\ \A h \in live :
              /\ frames'[h].agent = frames[h].agent
              /\ frames'[h].parent = frames[h].parent
              /\ frames'[h].task = frames[h].task
              /\ frames'[h].chain = frames[h].chain
              /\ frames'[h].left = frames[h].left
              /\ h # f => frames'[h].pc = frames[h].pc
         /\ frames'[f].pc = "discuss"
         /\ frames'[g].agent = t
         /\ frames'[g].parent = f
         /\ frames'[g].task = frames[f].task
         /\ frames'[g].chain = Append(frames[f].chain, frames[f].agent)
         /\ frames'[g].pc = "run"
         /\ active' = g
         /\ bucket' \in [Specialists -> {0} \cup Lists]
         /\ heap' \in [Lists -> Seq(Msg)]
         /\ UNCHANGED pmVars
<1> DEFINE rec   == [frames[f] EXCEPT !.pc = "discuss"]
           fs    == [frames EXCEPT ![f] = rec]
           chain == Append(frames[f].chain, frames[f].agent)
<1>1. /\ frames[f].pc = "run" /\ frames[f].left > 0
      /\ MayDiscuss(f, t)
      /\ g \notin live
      /\ Begin(fs, g, t, f, frames[f].task, chain)
      /\ UNCHANGED pmVars
  BY DEF Discuss, Running, IsNextId
<1>2. /\ t \in Specialists
      /\ ~Holds(frames[f].chain, t) /\ t # frames[f].agent
      /\ Len(frames[f].chain) + 1 < MaxDiscussionDepth
  BY <1>1 DEF MayDiscuss
<1>3. /\ rec \in Activation
      /\ rec.agent = frames[f].agent
      /\ rec.parent = frames[f].parent
      /\ rec.task = frames[f].task
      /\ rec.chain = frames[f].chain
      /\ rec.left = frames[f].left
      /\ rec.pc = "discuss"
  BY ActivationFields DEF Activation
<1>4. /\ f \in {0} \cup Ids
      /\ frames[f].task \in Ids
      /\ chain \in Seq(Specialists)
  BY ActivationFields
<1> HIDE DEF rec
<1>5. /\ fs \in [live -> Activation]
      /\ fs[f] = rec
      /\ \A h \in live : h # f => fs[h] = frames[h]
  BY <1>3 DEF TypeOK
<1> HIDE DEF fs, chain
<1>6. /\ live' = live \cup {g}
      /\ frames' \in [live' -> Activation]
      /\ \A h \in live : frames'[h] = fs[h]
      /\ frames'[g].agent = t
      /\ frames'[g].parent = f
      /\ frames'[g].task = frames[f].task
      /\ frames'[g].chain = chain
      /\ frames'[g].pc = "run"
      /\ active' = g
      /\ bucket' \in [Specialists -> {0} \cup Lists]
      /\ heap' \in [Lists -> Seq(Msg)]
  BY <1>1, <1>2, <1>4, <1>5, BegunActivation, Zenon
<1>7. /\ \A h \in live :
           /\ frames'[h].agent = frames[h].agent
           /\ frames'[h].parent = frames[h].parent
           /\ frames'[h].task = frames[h].task
           /\ frames'[h].chain = frames[h].chain
           /\ frames'[h].left = frames[h].left
           /\ h # f => frames'[h].pc = frames[h].pc
      /\ frames'[f].pc = "discuss"
  BY <1>3, <1>5, <1>6
<1> QED BY <1>1, <1>2, <1>6, <1>7 DEF chain

LEMMA DiscussKeepsCallTree ==
  ASSUME TypeOK, CallTree, NEW f \in live, NEW t \in Specialists \cup {Unknown},
         NEW g \in Ids, Discuss(f, t, g)
  PROVE  CallTree'
<1>1. /\ t \in Specialists
      /\ frames[f].pc = "run" /\ frames[f].left > 0
      /\ ~Holds(frames[f].chain, t) /\ t # frames[f].agent
      /\ Len(frames[f].chain) + 1 < MaxDiscussionDepth
      /\ g \notin live
      /\ live' = live \cup {g}
      /\ \A h \in live :
           /\ frames'[h].agent = frames[h].agent
           /\ frames'[h].parent = frames[h].parent
           /\ frames'[h].task = frames[h].task
           /\ frames'[h].chain = frames[h].chain
           /\ frames'[h].left = frames[h].left
           /\ h # f => frames'[h].pc = frames[h].pc
      /\ frames'[f].pc = "discuss"
      /\ frames'[g].agent = t
      /\ frames'[g].parent = f
      /\ frames'[g].task = frames[f].task
      /\ frames'[g].chain = Append(frames[f].chain, frames[f].agent)
      /\ frames'[g].pc = "run"
  BY DiscussEffect
<1>2. /\ f \in Ids /\ f # 0
      /\ frames[f].chain \in Seq(Specialists) /\ frames[f].agent \in Specialists
      /\ frames[f].task \in live /\ frames[frames[f].task].parent = 0
  BY ActivationFields DEF Ids, CallTree, RootOfTask
<1>3. AwaitsReply'
  BY <1>1 DEF CallTree, AwaitsReply
<1>4. RootOfTask'
  <2> SUFFICES ASSUME NEW h \in live'
               PROVE  /\ frames'[h].parent = 0 => frames'[h].task = h /\ frames'[h].chain = <<>>
                      /\ frames'[h].task \in live'
                      /\ frames'[frames'[h].task].parent = 0
    BY DEF RootOfTask
  <2>1. CASE h = g
    BY <1>1, <1>2, <2>1
  <2>2. CASE h \in live
    <3>1. /\ frames[h].parent = 0 => frames[h].task = h /\ frames[h].chain = <<>>
          /\ frames[h].task \in live
          /\ frames[frames[h].task].parent = 0
      BY <2>2 DEF CallTree, RootOfTask
    <3> QED BY <1>1, <2>2, <3>1
  <2> QED BY <1>1, <2>1, <2>2
<1>5. ChainOfCaller'
  <2> SUFFICES ASSUME NEW h \in live', frames'[h].parent # 0
               PROVE  /\ frames'[h].parent \in live'
                      /\ frames'[frames'[h].parent].pc = "discuss"
                      /\ frames'[frames'[h].parent].task = frames'[h].task
                      /\ frames'[h].chain = Append(frames'[frames'[h].parent].chain,
                                                   frames'[frames'[h].parent].agent)
    BY DEF ChainOfCaller
  <2>1. CASE h = g
    BY <1>1, <2>1
  <2>2. CASE h \in live
    <3> DEFINE q == frames[h].parent
    <3>1. q # 0 /\ frames'[h].parent = q
      BY <1>1, <2>2
    <3>2. /\ q \in live
          /\ frames[q].pc = "discuss"
          /\ frames[q].task = frames[h].task
          /\ frames[h].chain = Append(frames[q].chain, frames[q].agent)
      BY <2>2, <3>1 DEF CallTree, ChainOfCaller
    <3> HIDE DEF q
    <3>3. /\ frames'[q].pc = "discuss"
          /\ frames'[q].task = frames[q].task
          /\ frames'[q].chain = frames[q].chain
          /\ frames'[q].agent = frames[q].agent
          /\ q \in live'
      BY <1>1, <3>2
    <3>4. frames'[h].task = frames[h].task /\ frames'[h].chain = frames[h].chain
      BY <1>1, <2>2
    <3> QED BY <3>1, <3>2, <3>3, <3>4
  <2> QED BY <1>1, <2>1, <2>2
<1>6. \A h \in live : SameTask(f, h) =>
        /\ frames[h].pc = "discuss" /\ Calls(h, f)
  BY <1>1, TopOfStack
<1>7. ASSUME NEW h \in live, h = f \/ SameTask(f, h)
      PROVE  Calls(h, g)' /\ frames'[h].pc = "discuss"
  <2>1. CASE h = f
    BY <1>1, <1>2, <2>1 DEF Calls
  <2>2. CASE SameTask(f, h)
    <3>1. /\ h # f /\ frames[h].pc = "discuss"
          /\ Len(frames[h].chain) < Len(frames[f].chain)
          /\ frames[f].chain[Len(frames[h].chain) + 1] = frames[h].agent
      BY <1>6, <2>2 DEF Calls, SameTask
    <3>2. Len(frames[h].chain) \in Nat /\ Len(frames[f].chain) \in Nat
      BY <1>2, ActivationFields
    <3>3. /\ Len(frames'[g].chain) = Len(frames[f].chain) + 1
          /\ frames'[g].chain[Len(frames[h].chain) + 1] = frames[h].agent
      BY <1>1, <1>2, <3>1, <3>2
    <3>4. /\ frames'[h].chain = frames[h].chain
          /\ frames'[h].agent = frames[h].agent
          /\ frames'[h].pc = "discuss"
      BY <1>1, <3>1
    <3>5. Len(frames'[h].chain) < Len(frames'[g].chain)
      BY <3>1, <3>2, <3>3, <3>4
    <3> QED BY <3>3, <3>4, <3>5 DEF Calls
  <2> QED BY <1>7, <2>1, <2>2
<1>8. OneStack'
  <2> SUFFICES ASSUME NEW h \in live', NEW k \in live', SameTask(h, k)'
               PROVE  /\ Calls(h, k)' \/ Calls(k, h)'
                      /\ frames'[h].pc # "discuss" => Calls(k, h)'
    BY DEF OneStack
  <2>1. CASE h = g
    <3>1. k \in live /\ (k = f \/ SameTask(f, k))
      BY <1>1, <2>1 DEF SameTask
    <3> QED BY <1>7, <2>1, <3>1
  <2>2. CASE h \in live /\ k = g
    <3>1. h = f \/ SameTask(f, h)
      BY <1>1, <2>2 DEF SameTask
    <3> QED BY <1>7, <2>2, <3>1
  <2>3. CASE h \in live /\ k \in live
    <3>1. SameTask(h, k)
      BY <1>1, <2>3 DEF SameTask
    <3>2. /\ Calls(h, k) \/ Calls(k, h)
          /\ frames[h].pc # "discuss" => Calls(k, h)
      BY <2>3, <3>1 DEF CallTree, OneStack
    <3>3. (Calls(h, k)' <=> Calls(h, k)) /\ (Calls(k, h)' <=> Calls(k, h))
      BY <1>1, <2>3 DEF Calls
    <3> QED BY <1>1, <2>3, <3>2, <3>3
  <2> QED BY <1>1, <2>1, <2>2, <2>3
<1>9. ChainGuarded'
  <2> SUFFICES ASSUME NEW h \in live'
               PROVE  /\ ~Holds(frames'[h].chain, frames'[h].agent)
                      /\ Len(frames'[h].chain) < MaxDiscussionDepth
    BY DEF ChainGuarded
  <2>1. CASE h = g
    <3>1. /\ Len(Append(frames[f].chain, frames[f].agent)) = Len(frames[f].chain) + 1
          /\ ~Holds(Append(frames[f].chain, frames[f].agent), t)
      BY <1>1, <1>2 DEF Holds
    <3> QED BY <1>1, <2>1, <3>1
  <2>2. CASE h \in live
    BY <1>1, <2>2 DEF CallTree, ChainGuarded
  <2> QED BY <1>1, <2>1, <2>2
<1> QED BY <1>3, <1>4, <1>5, <1>8, <1>9 DEF CallTree
-----------------------------------------------------------------------------
(* An activation returns to a peer or raises through it.                   *)

LEMMA CallerFacts ==
  ASSUME TypeOK, CallTree, NEW f \in live, frames[f].parent # 0, frames[f].pc # "discuss"
  PROVE  /\ frames[f].parent \in live \ {f}
         /\ frames[frames[f].parent].pc = "discuss"
         /\ frames[frames[f].parent].left > 0
BY DEF CallTree, ChainOfCaller, AwaitsReply

(* The caller's record is replaced by rec, and f goes.                     *)
LEMMA PoppedToCaller ==
  ASSUME TypeOK, NEW f \in live, frames[f].pc # "discuss",
         NEW p \in live \ {f}, p = frames[f].parent,
         NEW rec \in Activation,
         rec.agent = frames[p].agent,
         rec.parent = frames[p].parent,
         rec.task = frames[p].task,
         rec.chain = frames[p].chain,
         rec.pc \in {"run", "raise"},
         frames' = Without([frames EXCEPT ![p] = rec], f)
  PROVE  Popped(f)
<1> DEFINE fs == [frames EXCEPT ![p] = rec]
<1>1. /\ fs \in [live -> Activation]
      /\ DOMAIN fs = live
      /\ fs[p] = rec
      /\ \A g \in live : g # p => fs[g] = frames[g]
  BY DEF TypeOK
<1>2. frames' = [g \in DOMAIN fs \ {f} |-> fs[g]]
  BY DEF Without
<1> HIDE DEF fs
<1>3. /\ live' = live \ {f}
      /\ frames' \in [live' -> Activation]
      /\ \A g \in live' : frames'[g] = fs[g]
  BY <1>1, <1>2 DEF live
<1>4. ASSUME NEW g \in live'
      PROVE  /\ frames'[g].agent = frames[g].agent
             /\ frames'[g].parent = frames[g].parent
             /\ frames'[g].task = frames[g].task
             /\ frames'[g].chain = frames[g].chain
             /\ g # p => frames'[g] = frames[g]
             /\ g = p => frames'[g].pc \in {"run", "raise"}
  <2>1. CASE g = p
    <3>1. frames'[g] = rec
      BY <1>1, <1>3, <2>1
    <3> QED BY <2>1, <3>1
  <2>2. CASE g # p
    BY <1>1, <1>3, <2>2
  <2> QED BY <2>1, <2>2
<1> QED BY <1>3, <1>4 DEF Popped

LEMMA ReplyToPeerPops ==
  ASSUME TypeOK, CallTree, NEW f \in live, ReplyToPeer(f)
  PROVE  /\ Popped(f)
         /\ active' \in live'
         /\ bucket' \in [Specialists -> {0} \cup Lists]
         /\ heap' \in [Lists -> Seq(Msg)]
         /\ UNCHANGED pmVars
<1> DEFINE p   == frames[f].parent
           rec == [frames[p] EXCEPT !.left = @ - 1, !.pc = "run"]
<1>1. /\ frames[f].pc = "return" /\ p # 0
      /\ AddReply(p)
      /\ frames' = Without(Replied(frames, p), f)
      /\ active' = p
      /\ UNCHANGED <<bucket, pmVars>>
  BY DEF ReplyToPeer
<1>2. p \in live \ {f} /\ frames[p].left > 0
  BY <1>1, CallerFacts
<1>3. frames[p] \in Activation /\ frames[p].left - 1 \in 0..MaxCalls
  BY <1>2, ActivationFields, TeamAssumption
<1>4. /\ rec \in Activation
      /\ rec.agent = frames[p].agent
      /\ rec.parent = frames[p].parent
      /\ rec.task = frames[p].task
      /\ rec.chain = frames[p].chain
      /\ rec.pc = "run"
  BY <1>3 DEF Activation
<1>5. Replied(frames, p) = [frames EXCEPT ![p] = rec]
  BY DEF Replied, TypeOK
<1>6. Popped(f)
  <2>1. frames' = Without([frames EXCEPT ![p] = rec], f)
    BY <1>1, <1>5
  <2>2. p = frames[f].parent
    OBVIOUS
  <2> HIDE DEF rec, p
  <2> QED BY <1>1, <1>2, <1>4, <2>1, <2>2, PoppedToCaller
<1>7. heap' \in [Lists -> Seq(Msg)]
  <2>1. p \in Ids /\ frames[p].list \in Lists /\ 0 \in 0..MaxCalls
    BY <1>2, ActivationFields, TeamAssumption
  <2>2. Tool(p) \in Msg
    BY <2>1, MessageTypes
  <2> QED BY <1>1, <2>1, <2>2, AppendToList DEF AddReply
<1>8. active' \in live'
  BY <1>1, <1>2, <1>6 DEF Popped
<1> QED BY <1>1, <1>6, <1>7, <1>8 DEF TypeOK

LEMMA RaiseToPeerPops ==
  ASSUME TypeOK, CallTree, NEW f \in live, RaiseToPeer(f)
  PROVE  /\ Popped(f)
         /\ active' \in live'
         /\ UNCHANGED <<bucket, heap, pmVars>>
<1> DEFINE p   == frames[f].parent
           rec == [frames[p] EXCEPT !.pc = "raise"]
<1>1. /\ frames[f].pc = "raise" /\ p # 0
      /\ frames' = Without([frames EXCEPT ![p] = rec], f)
      /\ active' = p
      /\ UNCHANGED <<bucket, heap, pmVars>>
  BY DEF RaiseToPeer
<1>2. p \in live \ {f}
  BY <1>1, CallerFacts
<1>3. /\ rec \in Activation
      /\ rec.agent = frames[p].agent
      /\ rec.parent = frames[p].parent
      /\ rec.task = frames[p].task
      /\ rec.chain = frames[p].chain
      /\ rec.pc = "raise"
  BY <1>2, ActivationFields DEF Activation
<1>4. Popped(f)
  <2>1. p = frames[f].parent
    OBVIOUS
  <2> HIDE DEF rec, p
  <2> QED BY <1>1, <1>2, <1>3, <2>1, PoppedToCaller
<1> QED BY <1>1, <1>2, <1>4 DEF Popped

(* A task's root ends.                                                     *)
LEMMA RootPops ==
  ASSUME TypeOK, NEW f \in live, frames[f].pc # "discuss", frames[f].parent = 0,
         frames' = Without(frames, f)
  PROVE  Popped(f)
<1>1. /\ live' = live \ {f}
      /\ frames' \in [live' -> Activation]
      /\ \A g \in live' : frames'[g] = frames[g]
  BY DEF Without, TypeOK, live
<1>2. \A g \in live' : g # 0
  BY <1>1 DEF TypeOK, Ids
<1> QED BY <1>1, <1>2 DEF Popped

-----------------------------------------------------------------------------
(* The invariant holds of every reachable state.                           *)

TeamTypeOK ==
  /\ live \subseteq Ids
  /\ frames \in [live -> Activation]
  /\ active \in {0} \cup live
  /\ bucket \in [Specialists -> {0} \cup Lists]
  /\ heap \in [Lists -> Seq(Msg)]

PmTypeOK ==
  /\ turn \in {"idle", "pm", "tools", "asking"}
  /\ message \in PmMessage
  /\ toStart \in Seq(Specialists \cup {Unknown})
  /\ tasks \subseteq Ids
  /\ budget \in Nat
  /\ started \in Nat
  /\ rounds \in 0..MaxRounds
  /\ requests \in 0..MaxRequests

LEMMA TypeParts ==
  /\ TypeOK <=> TeamTypeOK /\ PmTypeOK
  /\ TypeOK' <=> TeamTypeOK' /\ PmTypeOK'
BY DEF TypeOK, TeamTypeOK, PmTypeOK, Msg

LEMMA InitIInv == Init => IInv
<1> SUFFICES ASSUME Init PROVE IInv
  OBVIOUS
<1>1. live = {} /\ frames = <<>>
  BY DEF Init, live
<1>2. frames \in [live -> Activation]
  BY <1>1
<1>3. Idle \in PmMessage
  BY DEF Idle, PmMessage
<1>4. TypeOK
  BY <1>1, <1>2, <1>3, TeamAssumption DEF Init, TypeOK
<1>5. CallTree
  BY <1>1 DEF CallTree, AwaitsReply, RootOfTask, ChainOfCaller, OneStack, ChainGuarded
<1> QED BY <1>4, <1>5 DEF IInv

(* The PM's and the user's own steps.                                      *)
PmAction ==
  \/ \E a \in Specialists \cup {Unknown} : AssignUnknown(a) \/ AssignOverBudget(a)
  \/ Pm \/ User

LEMMA PmActions ==
  ASSUME TypeOK, PmAction
  PROVE  UNCHANGED teamVars /\ PmTypeOK'
<1> USE TeamAssumption DEF PmTypeOK
<1>1. CASE \E a \in Specialists \cup {Unknown} : AssignUnknown(a) \/ AssignOverBudget(a)
  <2>1. PICK a : AssignUnknown(a) \/ AssignOverBudget(a)
    BY <1>1
  <2>2. /\ toStart # <<>> /\ toStart' = Tail(toStart)
        /\ budget' \in {budget, budget + 1}
        /\ UNCHANGED <<teamVars, turn, message, tasks, started, rounds, requests>>
    BY <2>1 DEF AssignUnknown, AssignOverBudget, Starting
  <2>3. toStart' \in Seq(Specialists \cup {Unknown})
    BY <2>2 DEF TypeOK
  <2> QED BY <2>2, <2>3 DEF TypeOK
<1>2. CASE \E m \in PmMessages : PmCallsTools(m)
  BY <1>2 DEF PmCallsTools, TypeOK, PmMessage
<1>3. CASE PmEndsTurn
  BY <1>3 DEF PmEndsTurn, TypeOK
<1>4. CASE ToolsDone
  BY <1>4 DEF ToolsDone, TypeOK, Idle, PmMessage
<1>5. CASE AskUser
  BY <1>5 DEF AskUser, TypeOK
<1>6. CASE NewRequest
  BY <1>6 DEF NewRequest, TypeOK
<1>7. CASE AnswerUser
  BY <1>7 DEF AnswerUser, TypeOK, PmMessage
<1> QED BY <1>1, <1>2, <1>3, <1>4, <1>5, <1>6, <1>7 DEF PmAction, Pm, User

LEMMA TeamUnchanged ==
  ASSUME TeamTypeOK, CallTree, UNCHANGED teamVars
  PROVE  TeamTypeOK' /\ CallTree'
<1>1. live' = live /\ frames' = frames
  BY DEF teamVars, live
<1> QED BY <1>1 DEF TeamTypeOK, teamVars, CallTree, AwaitsReply, RootOfTask,
          ChainOfCaller, OneStack, SameTask, Calls, ChainGuarded, Holds

LEMMA AssignStep ==
  ASSUME TypeOK, CallTree, NEW a \in Specialists \cup {Unknown}, NEW f \in Ids, Assign(a, f)
  PROVE  TypeOK' /\ CallTree'
<1>1. a \in Specialists
  BY DEF Assign
<1>2. TeamTypeOK'
  <2>1. live' \subseteq Ids
    BY <1>1, AssignEffect DEF TypeOK
  <2> QED BY <1>1, <2>1, AssignEffect DEF TeamTypeOK
<1>3. PmTypeOK'
  BY DEF Assign, Starting, TypeOK, PmTypeOK
<1> QED BY <1>1, <1>2, <1>3, AssignKeepsCallTree, TypeParts

LEMMA LocalActionStep ==
  ASSUME TypeOK, CallTree, NEW f \in live, LocalAction(f)
  PROVE  TypeOK' /\ CallTree'
<1>1. LocalStep(f)
  BY LocalActions DEF CallTree
<1>2. TeamTypeOK'
  BY <1>1 DEF LocalStep, Local, TeamTypeOK, TypeOK
<1>3. PmTypeOK'
  BY <1>1 DEF LocalStep, pmVars, PmTypeOK, TypeOK
<1> QED BY <1>1, <1>2, <1>3, LocalKeepsCallTree, TypeParts DEF LocalStep

LEMMA DiscussStep ==
  ASSUME TypeOK, CallTree, NEW f \in live, NEW t \in Specialists \cup {Unknown},
         NEW g \in Ids, Discuss(f, t, g)
  PROVE  TypeOK' /\ CallTree'
<1>1. /\ live' = live \cup {g}
      /\ frames' \in [live' -> Activation]
      /\ active' = g
      /\ bucket' \in [Specialists -> {0} \cup Lists]
      /\ heap' \in [Lists -> Seq(Msg)]
      /\ UNCHANGED pmVars
  BY DiscussEffect
<1>2. TeamTypeOK'
  BY <1>1 DEF TeamTypeOK, TypeOK
<1>3. PmTypeOK'
  BY <1>1 DEF pmVars, PmTypeOK, TypeOK
<1> QED BY <1>2, <1>3, DiscussKeepsCallTree, TypeParts

(* Every end of an activation is one of these.                             *)
LEMMA Pops ==
  ASSUME TypeOK, CallTree, NEW f \in live,
         ReplyToPeer(f) \/ ReportToPm(f) \/ RaiseToPeer(f) \/ RaiseToPm(f)
  PROVE  /\ Popped(f)
         /\ active' \in {0} \cup live'
         /\ bucket' \in [Specialists -> {0} \cup Lists]
         /\ heap' \in [Lists -> Seq(Msg)]
<1>1. CASE ReplyToPeer(f)
  BY <1>1, ReplyToPeerPops
<1>2. CASE RaiseToPeer(f)
  BY <1>2, RaiseToPeerPops DEF TypeOK, Msg
<1>3. CASE ReportToPm(f) \/ RaiseToPm(f)
  <2>1. /\ frames[f].pc \in {"return", "raise"} /\ frames[f].parent = 0
        /\ frames' = Without(frames, f)
        /\ active' = 0
        /\ UNCHANGED <<bucket, heap>>
    BY <1>3 DEF ReportToPm, RaiseToPm
  <2>2. frames[f].pc # "discuss"
    BY <2>1
  <2>3. Popped(f)
    BY <2>1, <2>2, RootPops
  <2> QED BY <2>1, <2>3 DEF TypeOK, Msg
<1> QED BY <1>1, <1>2, <1>3

LEMMA PopStep ==
  ASSUME TypeOK, CallTree, NEW f \in live,
         ReplyToPeer(f) \/ ReportToPm(f) \/ RaiseToPeer(f) \/ RaiseToPm(f)
  PROVE  TypeOK' /\ CallTree'
<1>1. /\ Popped(f)
      /\ active' \in {0} \cup live'
      /\ bucket' \in [Specialists -> {0} \cup Lists]
      /\ heap' \in [Lists -> Seq(Msg)]
  BY Pops
<1>2. TeamTypeOK'
  BY <1>1 DEF Popped, TeamTypeOK, TypeOK
<1>3. PmTypeOK'
  <2>1. CASE ReplyToPeer(f)
    BY <2>1 DEF ReplyToPeer, pmVars, PmTypeOK, TypeOK
  <2>2. CASE RaiseToPeer(f)
    BY <2>2 DEF RaiseToPeer, pmVars, PmTypeOK, TypeOK
  <2>3. CASE ReportToPm(f)
    BY <2>3 DEF ReportToPm, PmTypeOK, TypeOK
  <2>4. CASE RaiseToPm(f)
    <3>1. Idle \in PmMessage
      BY DEF Idle, PmMessage
    <3>2. /\ turn' \in {turn, "idle"} /\ message' \in {message, Idle} /\ tasks' \in {tasks, {}}
          /\ UNCHANGED <<toStart, budget, started, rounds, requests>>
      BY <2>4 DEF RaiseToPm
    <3> QED BY <3>1, <3>2 DEF PmTypeOK, TypeOK
  <2> QED BY <2>1, <2>2, <2>3, <2>4
<1> QED BY <1>1, <1>2, <1>3, PopKeepsCallTree, TypeParts

LEMMA NextActions ==
  ASSUME Next
  PROVE  \/ PmAction
         \/ \E a \in Specialists \cup {Unknown}, f \in Ids : Assign(a, f)
         \/ \E f \in live :
              \/ LocalAction(f)
              \/ \E t \in Specialists \cup {Unknown}, g \in Ids : Discuss(f, t, g)
              \/ ReplyToPeer(f) \/ ReportToPm(f) \/ RaiseToPeer(f) \/ RaiseToPm(f)
BY Zenon DEF Next, Step, Delegate, PmAction, LocalAction

LEMMA NextIInv == IInv /\ [Next]_vars => IInv'
<1> SUFFICES ASSUME TypeOK, CallTree, [Next]_vars PROVE TypeOK' /\ CallTree'
  BY DEF IInv
<1>1. CASE Next
  <2>1. CASE PmAction
    BY <2>1, PmActions, TypeParts, TeamUnchanged
  <2>2. CASE \E a \in Specialists \cup {Unknown}, f \in Ids : Assign(a, f)
    BY <2>2, AssignStep
  <2>3. CASE \E f \in live : LocalAction(f)
    BY <2>3, LocalActionStep
  <2>4. CASE \E f \in live, t \in Specialists \cup {Unknown}, g \in Ids : Discuss(f, t, g)
    BY <2>4, DiscussStep
  <2>5. CASE \E f \in live : \/ ReplyToPeer(f) \/ ReportToPm(f)
                             \/ RaiseToPeer(f) \/ RaiseToPm(f)
    BY <2>5, PopStep
  <2> QED BY <1>1, <2>1, <2>2, <2>3, <2>4, <2>5, NextActions
<1>2. CASE UNCHANGED vars
  <2>1. UNCHANGED teamVars /\ UNCHANGED pmVars
    BY <1>2 DEF vars
  <2>2. PmTypeOK'
    BY <2>1 DEF TypeOK, pmVars, PmTypeOK
  <2> QED BY <2>1, <2>2, TypeParts, TeamUnchanged
<1> QED BY <1>1, <1>2

(* Every reachable state is well typed and has well-formed call stacks,    *)
(* whatever the agents, the limits and the number of parallel tasks.       *)
THEOREM AlwaysIInv == Spec => []IInv
<1>1. Init => IInv
  BY InitIInv
<1>2. IInv /\ [Next]_vars => IInv'
  BY NextIInv
<1> QED BY <1>1, <1>2, PTL DEF Spec

(* The variables of the delegation core keep their types.                  *)
THEOREM TypeCorrect == Spec => []TypeOK
<1>1. IInv => TypeOK
  BY DEF IInv
<1> QED BY <1>1, AlwaysIInv, PTL

(* The chain every activation carries is the stack of its callers, each    *)
(* awaiting the next, which is what the guards of _run_discussion assume.  *)
THEOREM CallTreeAlways == Spec => []CallTree
<1>1. IInv => CallTree
  BY DEF IInv
<1> QED BY <1>1, AlwaysIInv, PTL

LEMMA SelfWaitFree == IInv => NobodyWaitsForItself
<1> SUFFICES ASSUME TypeOK, CallTree, NEW f \in live, NEW g \in live,
                    f # g, frames[f].task = frames[g].task
             PROVE  frames[f].agent # frames[g].agent
  BY DEF IInv, NobodyWaitsForItself
<1>1. Calls(f, g) \/ Calls(g, f)
  BY DEF CallTree, OneStack, SameTask
<1>2. frames[f].chain \in Seq(Specialists) /\ frames[g].chain \in Seq(Specialists)
  BY ActivationFields
<1>3. CASE Calls(f, g)
  <2>1. /\ Len(frames[f].chain) + 1 \in DOMAIN frames[g].chain
        /\ frames[g].chain[Len(frames[f].chain) + 1] = frames[f].agent
    BY <1>2, <1>3 DEF Calls
  <2>2. ~Holds(frames[g].chain, frames[g].agent)
    BY DEF CallTree, ChainGuarded
  <2> QED BY <2>1, <2>2 DEF Holds
<1>4. CASE Calls(g, f)
  <2>1. /\ Len(frames[g].chain) + 1 \in DOMAIN frames[f].chain
        /\ frames[f].chain[Len(frames[g].chain) + 1] = frames[g].agent
    BY <1>2, <1>4 DEF Calls
  <2>2. ~Holds(frames[f].chain, frames[f].agent)
    BY DEF CallTree, ChainGuarded
  <2> QED BY <2>1, <2>2 DEF Holds
<1> QED BY <1>1, <1>3, <1>4

(* The cycle guard of _run_discussion suffices: no agent is active twice   *)
(* in one call stack, so no conversation waits for itself.                 *)
THEOREM NoSelfWait == Spec => []NobodyWaitsForItself
BY AlwaysIInv, SelfWaitFree, PTL

-----------------------------------------------------------------------------
(* The delegation budget.  What the PM started is what was charged, less   *)
(* the refused charges, so the guard on budget bounds it.                  *)
BudgetInv == started <= budget /\ DelegationBudget

LEMMA BudgetStep ==
  ASSUME TypeOK, BudgetInv, [Next]_vars
  PROVE  BudgetInv'
<1> USE TeamAssumption DEF TypeOK, BudgetInv, DelegationBudget
<1>1. CASE PmAction
  BY <1>1 DEF PmAction, Pm, User, AssignUnknown, AssignOverBudget, PmCallsTools, PmEndsTurn,
              ToolsDone, AskUser, NewRequest, AnswerUser
<1>2. CASE \E a \in Specialists \cup {Unknown}, f \in Ids : Assign(a, f)
  BY <1>2 DEF Assign
<1>3. CASE \E f \in live : LocalAction(f)
  BY <1>3 DEF LocalAction, StartStep, StepLimit, LlmAnswers, LlmFails, RefuseTool, CallTool,
              ToolReturns, RefuseDiscussion, pmVars
<1>4. CASE \E f \in live, t \in Specialists \cup {Unknown}, g \in Ids : Discuss(f, t, g)
  BY <1>4 DEF Discuss, pmVars
<1>5. CASE \E f \in live : \/ ReplyToPeer(f) \/ ReportToPm(f)
                           \/ RaiseToPeer(f) \/ RaiseToPm(f)
  BY <1>5 DEF ReplyToPeer, ReportToPm, RaiseToPeer, RaiseToPm, pmVars
<1>6. CASE UNCHANGED vars
  BY <1>6 DEF vars, pmVars
<1> QED BY <1>1, <1>2, <1>3, <1>4, <1>5, <1>6, NextActions

(* One user request never starts more than MAX_ASSIGN_TASKS_PER_REQUEST    *)
(* specialists, however often an ask_user makes the tools node run again.  *)
THEOREM BudgetAlways == Spec => []DelegationBudget
<1>1. Init => BudgetInv
  BY TeamAssumption DEF Init, BudgetInv, DelegationBudget
<1>2. TypeOK /\ BudgetInv /\ [Next]_vars => BudgetInv'
  BY BudgetStep
<1>3. BudgetInv => DelegationBudget
  BY DEF BudgetInv
<1> QED BY <1>1, <1>2, <1>3, TypeCorrect, PTL DEF Spec
-----------------------------------------------------------------------------
(* The refinement of CallStacks.  Every task that has activations has one  *)
(* that awaits no peer, and only one: the front, which knows the stack.    *)
(* fs is frames, before a step or after it.                                *)

StackIn(fs, t) ==
  IF \E f \in DOMAIN fs : fs[f].task = t
  THEN LET front == CHOOSE f \in DOMAIN fs : fs[f].task = t /\ fs[f].pc # "discuss"
       IN Append(fs[front].chain, fs[front].agent)
  ELSE <<>>

OneFront(fs) ==
  \A f, g \in DOMAIN fs :
    /\ fs[f].task = fs[g].task
    /\ fs[f].pc # "discuss" /\ fs[g].pc # "discuss"
    => f = g

HasFront(fs) ==
  \A f \in DOMAIN fs :
    \E g \in DOMAIN fs : fs[g].task = fs[f].task /\ fs[g].pc # "discuss"

UniqueFront == OneFront(frames)
Fronts      == UniqueFront /\ HasFront(frames)

(* The activations of task t are the same, and so are their places.        *)
SameOn(fs, gs, t) ==
  /\ \A f \in DOMAIN fs : fs[f].task = t => f \in DOMAIN gs /\ gs[f].task = t
  /\ \A f \in DOMAIN gs : gs[f].task = t =>
       /\ f \in DOMAIN fs /\ fs[f].task = t
       /\ gs[f].chain = fs[f].chain
       /\ gs[f].agent = fs[f].agent
       /\ gs[f].pc = "discuss" <=> fs[f].pc = "discuss"

LEMMA StackFunction ==
  \A t : StackOf(t) = StackIn(frames, t) /\ StackOf(t)' = StackIn(frames', t)
BY DEF StackOf, Front, StackIn, live

LEMMA StackOfFront ==
  ASSUME NEW fs, OneFront(fs), NEW f \in DOMAIN fs, fs[f].pc # "discuss"
  PROVE  StackIn(fs, fs[f].task) = Append(fs[f].chain, fs[f].agent)
<1> PICK t : t = fs[f].task
  OBVIOUS
<1>1. PICK g : g = CHOOSE h \in DOMAIN fs : fs[h].task = t /\ fs[h].pc # "discuss"
  OBVIOUS
<1>2. g \in DOMAIN fs /\ fs[g].task = t /\ fs[g].pc # "discuss"
  BY <1>1
<1>3. g = f
  BY <1>2 DEF OneFront
<1> QED BY <1>1, <1>3 DEF StackIn

LEMMA StackOfNobody ==
  ASSUME NEW fs, NEW t, \A f \in DOMAIN fs : fs[f].task # t
  PROVE  StackIn(fs, t) = <<>>
BY DEF StackIn

LEMMA StackOfSame ==
  ASSUME NEW fs, NEW gs, NEW t, OneFront(fs), OneFront(gs), HasFront(fs), SameOn(fs, gs, t)
  PROVE  StackIn(gs, t) = StackIn(fs, t)
<1>1. CASE \E f \in DOMAIN fs : fs[f].task = t
  <2>1. PICK f \in DOMAIN fs : fs[f].task = t /\ fs[f].pc # "discuss"
    BY <1>1 DEF HasFront
  <2>2. /\ f \in DOMAIN gs /\ gs[f].task = t /\ gs[f].pc # "discuss"
        /\ gs[f].chain = fs[f].chain /\ gs[f].agent = fs[f].agent
    BY <2>1 DEF SameOn
  <2>3. StackIn(fs, t) = Append(fs[f].chain, fs[f].agent)
    BY <2>1, StackOfFront
  <2>4. StackIn(gs, t) = Append(gs[f].chain, gs[f].agent)
    BY <2>2, StackOfFront
  <2> QED BY <2>2, <2>3, <2>4
<1>2. CASE ~ \E f \in DOMAIN fs : fs[f].task = t
  <2>1. \A f \in DOMAIN gs : gs[f].task # t
    BY <1>2 DEF SameOn
  <2> QED BY <1>2, <2>1, StackOfNobody
<1> QED BY <1>1, <1>2

(* Where the stack of one task changes, the others stay.                   *)
LEMMA OneStackChanges ==
  ASSUME NEW t \in Ids, NEW s,
         StackIn(frames', t) = s,
         \A u \in Ids \ {t} : StackIn(frames', u) = StackIn(frames, u)
  PROVE  [u \in Ids |-> StackOf(u)]' = [[u \in Ids |-> StackOf(u)] EXCEPT ![t] = s]
BY StackFunction

LEMMA UniqueFrontHolds == IInv => UniqueFront
<1> SUFFICES ASSUME TypeOK, CallTree, NEW f \in live, NEW g \in live,
                    frames[f].task = frames[g].task,
                    frames[f].pc # "discuss", frames[g].pc # "discuss"
             PROVE  f = g
  BY DEF IInv, UniqueFront, OneFront, live
<1>1. SameTask(f, g) => frames[g].pc = "discuss"
  BY TopOfStack
<1> QED BY <1>1 DEF SameTask

LEMMA AssignRefines ==
  ASSUME TypeOK, CallTree, Fronts, OneFront(frames'),
         NEW a \in Specialists \cup {Unknown}, NEW f \in Ids, Assign(a, f)
  PROVE  HasFront(frames') /\ Stacks!Assign(f, a) /\ a \in Specialists
<1>1. a \in Specialists
  BY DEF Assign
<1>2. /\ f \notin live
      /\ live' = live \cup {f}
      /\ \A g \in live : frames'[g] = frames[g]
      /\ frames'[f].agent = a
      /\ frames'[f].task = f
      /\ frames'[f].chain = <<>>
      /\ frames'[f].pc = "run"
  BY <1>1, AssignEffect
<1>3. \A g \in live : frames[g].task # f
  BY <1>2 DEF CallTree, RootOfTask
<1>4. DOMAIN frames = live /\ DOMAIN frames' = live \cup {f}
  BY <1>2 DEF live
<1>5. HasFront(frames')
  BY <1>2, <1>4 DEF HasFront, Fronts
<1>6. StackIn(frames, f) = <<>>
  BY <1>3, <1>4, StackOfNobody
<1>7. StackIn(frames', f) = <<a>>
  <2>1. StackIn(frames', f) = Append(frames'[f].chain, frames'[f].agent)
    <3>1. StackIn(frames', frames'[f].task) = Append(frames'[f].chain, frames'[f].agent)
      BY <1>2, <1>4, StackOfFront
    <3> QED BY <1>2, <3>1
  <2> QED BY <1>2, <2>1
<1>8. ASSUME NEW u \in Ids \ {f}
      PROVE  StackIn(frames', u) = StackIn(frames, u)
  <2>1. SameOn(frames, frames', u)
    BY <1>2, <1>4 DEF SameOn
  <2> QED BY <2>1, StackOfSame DEF Fronts, UniqueFront
<1>9. [u \in Ids |-> StackOf(u)][f] = <<>>
  BY <1>6, StackFunction
<1>10. [u \in Ids |-> StackOf(u)]' = [[u \in Ids |-> StackOf(u)] EXCEPT ![f] = <<a>>]
  BY <1>7, <1>8, OneStackChanges
<1> QED BY <1>1, <1>5, <1>9, <1>10 DEF Stacks!Assign

LEMMA DiscussRefines ==
  ASSUME TypeOK, CallTree, Fronts, OneFront(frames'), NEW f \in live,
         NEW t \in Specialists \cup {Unknown}, NEW g \in Ids, Discuss(f, t, g)
  PROVE  /\ HasFront(frames')
         /\ frames[f].task \in Ids /\ t \in Specialists
         /\ Stacks!Consult(frames[f].task, t)
<1> PICK T : T = frames[f].task
  OBVIOUS
<1>1. /\ t \in Specialists
      /\ frames[f].pc = "run"
      /\ ~Holds(frames[f].chain, t) /\ t # frames[f].agent
      /\ Len(frames[f].chain) + 1 < MaxDiscussionDepth
      /\ g \notin live
      /\ live' = live \cup {g}
      /\ \A h \in live :
           /\ frames'[h].agent = frames[h].agent
           /\ frames'[h].task = frames[h].task
           /\ frames'[h].chain = frames[h].chain
           /\ h # f => frames'[h].pc = frames[h].pc
      /\ frames'[f].pc = "discuss"
      /\ frames'[g].agent = t
      /\ frames'[g].task = T
      /\ frames'[g].chain = Append(frames[f].chain, frames[f].agent)
      /\ frames'[g].pc = "run"
  BY DiscussEffect
<1>2. /\ T \in Ids
      /\ frames[f].chain \in Seq(Specialists)
      /\ frames[f].agent \in Specialists
  BY ActivationFields
<1>3. DOMAIN frames = live /\ DOMAIN frames' = live \cup {g}
  BY <1>1 DEF live
<1>4. HasFront(frames')
  <2> SUFFICES ASSUME NEW h \in DOMAIN frames'
               PROVE  \E k \in DOMAIN frames' :
                        frames'[k].task = frames'[h].task /\ frames'[k].pc # "discuss"
    BY DEF HasFront
  <2>1. CASE frames'[h].task = T
    BY <1>1, <1>3, <2>1
  <2>2. CASE frames'[h].task # T
    <3>1. h \in live /\ frames[h].task = frames'[h].task
      BY <1>1, <1>3, <2>2
    <3>2. PICK k \in live : frames[k].task = frames[h].task /\ frames[k].pc # "discuss"
      BY <1>3, <3>1 DEF Fronts, HasFront
    <3>3. k # f
      BY <2>2, <3>1, <3>2
    <3> QED BY <1>1, <1>3, <3>1, <3>2, <3>3
  <2> QED BY <2>1, <2>2
<1> PICK s : s = Append(frames[f].chain, frames[f].agent)
  OBVIOUS
<1>5. StackIn(frames, T) = s
  BY <1>1, <1>3, StackOfFront DEF Fronts, UniqueFront
<1>6. StackIn(frames', T) = Append(s, t)
  <2>1. StackIn(frames', frames'[g].task) = Append(frames'[g].chain, frames'[g].agent)
    BY <1>1, <1>3, StackOfFront
  <2> QED BY <1>1, <2>1
<1>7. ASSUME NEW u \in Ids \ {T}
      PROVE  StackIn(frames', u) = StackIn(frames, u)
  <2>1. SameOn(frames, frames', u)
    BY <1>1, <1>3 DEF SameOn
  <2> QED BY <2>1, StackOfSame DEF Fronts, UniqueFront
<1>8. s # <<>> /\ Len(s) < MaxDiscussionDepth /\ ~Stacks!Holds(s, t)
  BY <1>1, <1>2 DEF Holds, Stacks!Holds
<1>9. [u \in Ids |-> StackOf(u)][T] = s
  BY <1>2, <1>5, StackFunction
<1>10. [u \in Ids |-> StackOf(u)]' = [[u \in Ids |-> StackOf(u)] EXCEPT ![T] = Append(s, t)]
  BY <1>2, <1>6, <1>7, OneStackChanges
<1>11. Stacks!Consult(T, t)
  BY <1>8, <1>9, <1>10 DEF Stacks!Consult
<1> QED BY <1>1, <1>2, <1>4, <1>11

LEMMA PopRefines ==
  ASSUME TypeOK, CallTree, Fronts, OneFront(frames'), NEW f \in live, Popped(f)
  PROVE  /\ HasFront(frames')
         /\ frames[f].task \in Ids
         /\ Stacks!Return(frames[f].task)
<1> PICK T, p : T = frames[f].task /\ p = frames[f].parent
  OBVIOUS
<1>1. /\ frames[f].pc # "discuss"
      /\ live' = live \ {f}
      /\ \A g \in live' :
           /\ frames'[g].agent = frames[g].agent
           /\ frames'[g].task = frames[g].task
           /\ frames'[g].chain = frames[g].chain
           /\ g # p => frames'[g] = frames[g]
           /\ g = p => frames'[g].pc \in {"run", "raise"}
  BY DEF Popped
<1>2. /\ T \in Ids
      /\ frames[f].chain \in Seq(Specialists)
      /\ frames[f].agent \in Specialists
  BY ActivationFields
<1>3. DOMAIN frames = live /\ DOMAIN frames' = live \ {f}
  BY <1>1 DEF live
<1> PICK s : s = Append(frames[f].chain, frames[f].agent)
  OBVIOUS
<1>4. StackIn(frames, T) = s
  BY <1>1, <1>3, StackOfFront DEF Fronts, UniqueFront
<1>5. p # 0 =>
        /\ p \in live \ {f}
        /\ frames'[p].task = T
        /\ frames'[p].pc # "discuss"
        /\ frames[f].chain = Append(frames'[p].chain, frames'[p].agent)
  <2> SUFFICES ASSUME p # 0
               PROVE  /\ p \in live \ {f}
                      /\ frames'[p].task = T
                      /\ frames'[p].pc # "discuss"
                      /\ frames[f].chain = Append(frames'[p].chain, frames'[p].agent)
    OBVIOUS
  <2>1. /\ p \in live /\ frames[p].pc = "discuss" /\ frames[p].task = T
        /\ frames[f].chain = Append(frames[p].chain, frames[p].agent)
    BY DEF CallTree, ChainOfCaller
  <2>2. p \in live'
    BY <1>1, <2>1
  <2>3. frames'[p].pc \in {"run", "raise"}
    BY <1>1, <2>2
  <2> QED BY <1>1, <2>1, <2>2, <2>3
<1>6. p = 0 => /\ frames[f].chain = <<>>
               /\ \A g \in live \ {f} : frames'[g].task # T
  <2> SUFFICES ASSUME p = 0
               PROVE  frames[f].chain = <<>> /\ \A g \in live \ {f} : frames'[g].task # T
    OBVIOUS
  <2>1. T = f /\ frames[f].chain = <<>>
    BY DEF CallTree, RootOfTask
  <2>2. \A g \in live' : frames[g].task # f
    BY PoppedPeers
  <2> QED BY <1>1, <2>1, <2>2
<1>7. HasFront(frames')
  <2> SUFFICES ASSUME NEW h \in DOMAIN frames'
               PROVE  \E k \in DOMAIN frames' :
                        frames'[k].task = frames'[h].task /\ frames'[k].pc # "discuss"
    BY DEF HasFront
  <2>1. CASE frames'[h].task = T
    BY <1>3, <1>5, <1>6, <2>1
  <2>2. CASE frames'[h].task # T
    <3>1. h \in live /\ frames[h].task = frames'[h].task
      BY <1>1, <1>3, <2>2
    <3>2. PICK k \in live : frames[k].task = frames[h].task /\ frames[k].pc # "discuss"
      BY <1>3, <3>1 DEF Fronts, HasFront
    <3>3. k # f /\ frames'[k].task = frames[k].task
      BY <1>1, <2>2, <3>1, <3>2
    <3>4. frames'[k].pc # "discuss"
      <4>1. CASE k = p
        BY <1>1, <3>2, <3>3, <4>1
      <4>2. CASE k # p
        BY <1>1, <3>2, <3>3, <4>2
      <4> QED BY <4>1, <4>2
    <3> QED BY <1>3, <3>1, <3>2, <3>3, <3>4
  <2> QED BY <2>1, <2>2
<1>8. StackIn(frames', T) = frames[f].chain
  <2>1. CASE p = 0
    BY <1>3, <1>6, <2>1, StackOfNobody
  <2>2. CASE p # 0
    <3>1. p \in DOMAIN frames' /\ frames'[p].pc # "discuss" /\ frames'[p].task = T
      BY <1>3, <1>5, <2>2
    <3>2. StackIn(frames', frames'[p].task) = Append(frames'[p].chain, frames'[p].agent)
      BY <3>1, StackOfFront
    <3> QED BY <1>5, <2>2, <3>1, <3>2
  <2> QED BY <2>1, <2>2
<1>9. ASSUME NEW u \in Ids \ {T}
      PROVE  StackIn(frames', u) = StackIn(frames, u)
  <2>1. p # 0 => frames'[p].task = T
    BY <1>5
  <2>2. \A g \in live : g # 0
    BY ActivationFields DEF Ids
  <2>3. SameOn(frames, frames', u)
    BY <1>1, <1>3, <2>1, <2>2 DEF SameOn
  <2> QED BY <2>3, StackOfSame DEF Fronts, UniqueFront
<1>10. s # <<>> /\ frames[f].chain = SubSeq(s, 1, Len(s) - 1)
  BY <1>2
<1>11. [u \in Ids |-> StackOf(u)][T] = s
  BY <1>2, <1>4, StackFunction
<1>12. [u \in Ids |-> StackOf(u)]'
         = [[u \in Ids |-> StackOf(u)] EXCEPT ![T] = SubSeq(s, 1, Len(s) - 1)]
  BY <1>2, <1>8, <1>9, <1>10, OneStackChanges
<1>13. Stacks!Return(T)
  BY <1>10, <1>11, <1>12 DEF Stacks!Return
<1> QED BY <1>2, <1>7, <1>13

LEMMA LocalRefines ==
  ASSUME TypeOK, Fronts, OneFront(frames'), NEW f \in live, Local(f)
  PROVE  HasFront(frames') /\ UNCHANGED [u \in Ids |-> StackOf(u)]
<1>1. DOMAIN frames = live /\ DOMAIN frames' = live
  BY DEF Local, live
<1>2. \A g \in live :
        /\ frames'[g].agent = frames[g].agent
        /\ frames'[g].task = frames[g].task
        /\ frames'[g].chain = frames[g].chain
        /\ frames'[g].pc = "discuss" <=> frames[g].pc = "discuss"
  BY DEF Local
<1>3. HasFront(frames')
  BY <1>1, <1>2 DEF Fronts, HasFront
<1>4. ASSUME NEW u \in Ids
      PROVE  StackIn(frames', u) = StackIn(frames, u)
  <2>1. SameOn(frames, frames', u)
    BY <1>1, <1>2 DEF SameOn
  <2> QED BY <2>1, StackOfSame DEF Fronts, UniqueFront
<1> QED BY <1>3, <1>4, StackFunction

LEMMA TeamRefines ==
  ASSUME IInv, Fronts, OneFront(frames'), [Next]_vars
  PROVE  HasFront(frames') /\ [Stacks!Next]_[u \in Ids |-> StackOf(u)]
<1> USE DEF IInv
<1>1. CASE UNCHANGED teamVars
  <2>1. frames' = frames
    BY <1>1 DEF teamVars
  <2>2. HasFront(frames')
    BY <2>1 DEF Fronts, HasFront
  <2>3. UNCHANGED [u \in Ids |-> StackOf(u)]
    BY <2>1, StackFunction
  <2> QED BY <2>2, <2>3
<1>2. CASE PmAction
  BY <1>1, <1>2, PmActions
<1>3. ASSUME NEW a \in Specialists \cup {Unknown}, NEW f \in Ids, Assign(a, f)
      PROVE  HasFront(frames') /\ Stacks!Next
  BY <1>3, AssignRefines DEF Stacks!Next
<1>4. ASSUME NEW f \in live, LocalAction(f)
      PROVE  HasFront(frames') /\ UNCHANGED [u \in Ids |-> StackOf(u)]
  BY <1>4, LocalActions, LocalRefines DEF LocalStep, CallTree
<1>5. ASSUME NEW f \in live, NEW t \in Specialists \cup {Unknown}, NEW g \in Ids, Discuss(f, t, g)
      PROVE  HasFront(frames') /\ Stacks!Next
  BY <1>5, DiscussRefines DEF Stacks!Next
<1>6. ASSUME NEW f \in live,
             ReplyToPeer(f) \/ ReportToPm(f) \/ RaiseToPeer(f) \/ RaiseToPm(f)
      PROVE  HasFront(frames') /\ Stacks!Next
  BY <1>6, Pops, PopRefines DEF Stacks!Next
<1>7. CASE UNCHANGED vars
  BY <1>1, <1>7 DEF vars
<1> QED BY <1>2, <1>3, <1>4, <1>5, <1>6, <1>7, NextActions

(* The whole machinery - tool loops, suspensions, failures, several tasks  *)
(* at once - does to each task what CallStacks says: assign, consult       *)
(* within the depth and never twice the same agent, return to the caller.  *)
THEOREM TeamImplementsStacks == Spec => ImplementsStacks
<1>1. Init => Stacks!Init /\ Fronts
  <2> SUFFICES ASSUME Init PROVE Stacks!Init /\ Fronts
    OBVIOUS
  <2>1. DOMAIN frames = {}
    BY DEF Init
  <2>2. \A t \in Ids : StackOf(t) = <<>>
    BY <2>1, StackFunction, StackOfNobody
  <2> QED BY <2>1, <2>2 DEF Stacks!Init, Fronts, UniqueFront, OneFront, HasFront
<1>2. IInv /\ Fronts /\ UniqueFront' /\ [Next]_vars
        => Fronts' /\ [Stacks!Next]_[t \in Ids |-> StackOf(t)]
  BY TeamRefines DEF Fronts, UniqueFront
<1> QED BY <1>1, <1>2, AlwaysIInv, UniqueFrontHolds, PTL DEF Spec, ImplementsStacks, Stacks!Spec
-----------------------------------------------------------------------------
(* The kinds of step inside one activation, by what they do to its list.   *)

Kept(f) == UNCHANGED bucket /\ frames'[f].list = frames[f].list

Appends(f, m) == heap' = [heap EXCEPT ![frames[f].list] = Append(@, m)]

StartsStep(f) ==
  /\ StartStep(f)
  /\ frames[f].pc = "run" /\ frames[f].left = 0
  /\ frames'[f].pc = "llm" /\ frames'[f].left = 0

Moves(f) ==
  /\ Kept(f) /\ UNCHANGED heap
  /\ frames[f].pc = "run" /\ frames'[f].pc \in {"return", "tool"}
  /\ frames'[f].left = frames[f].left
  /\ frames'[f].pc = "return" => frames[f].left = 0

Answers(f, n) ==
  /\ Kept(f) /\ Appends(f, AI(f, n))
  /\ frames[f].pc = "llm" /\ frames'[f].left = n
  /\ frames'[f].pc = IF n = 0 THEN "return" ELSE "run"

Fails(f) ==
  /\ Kept(f) /\ UNCHANGED heap
  /\ LlmMayFail
  /\ frames[f].pc = "llm" /\ frames'[f].pc = "raise"

Replies(f) ==
  /\ Kept(f) /\ Appends(f, Tool(f))
  /\ frames[f].pc \in {"run", "tool"} /\ frames'[f].pc = "run"
  /\ frames[f].left > 0 /\ frames'[f].left = frames[f].left - 1

LEMMA ReplyCase ==
  ASSUME TypeOK, NEW f \in live, frames[f].pc \in {"run", "tool"}, frames[f].left > 0,
         AddReply(f), frames' = Replied(frames, f), UNCHANGED bucket
  PROVE  Replies(f)
<1> PICK old : old = frames[f]
  OBVIOUS
<1>1. old \in Activation /\ frames \in [live -> Activation]
  BY DEF TypeOK
<1>2. frames'[f] = [old EXCEPT !.left = @ - 1, !.pc = "run"]
  BY <1>1 DEF Replied
<1>3. /\ frames'[f].left = old.left - 1 /\ frames'[f].pc = "run"
      /\ frames'[f].list = old.list
  BY <1>1, <1>2 DEF Activation
<1> QED BY <1>3 DEF Replies, Kept, Appends, AddReply

LEMMA LocalCases ==
  ASSUME TypeOK, CallTree, NEW f \in live, LocalAction(f)
  PROVE  \/ StartsStep(f)
         \/ Moves(f)
         \/ \E n \in 0..MaxCalls : Answers(f, n)
         \/ Fails(f)
         \/ Replies(f)
<1> PICK old : old = frames[f]
  OBVIOUS
<1>0. old \in Activation /\ frames \in [live -> Activation]
  BY DEF TypeOK
<1>1. CASE StartStep(f)
  <2>1. PICK r \in Lists :
          frames' = [frames EXCEPT ![f].list = r, ![f].steps = @ + 1, ![f].pc = "llm"]
    BY <1>1 DEF StartStep
  <2>2. frames'[f] = [old EXCEPT !.list = r, !.steps = @ + 1, !.pc = "llm"]
    BY <1>0, <2>1
  <2>3. frames'[f].pc = "llm" /\ frames'[f].left = old.left
    BY <1>0, <2>2 DEF Activation
  <2>4. old.pc = "run" /\ old.left = 0
    BY <1>1 DEF StartStep, Running
  <2> QED BY <1>1, <2>3, <2>4 DEF StartsStep
<1>2. CASE StepLimit(f) \/ CallTool(f)
  <2>1. PICK c \in {"return", "tool"} :
          /\ frames' = [frames EXCEPT ![f].pc = c]
          /\ c = "return" => old.left = 0
    BY <1>2 DEF StepLimit, CallTool
  <2>2. frames'[f] = [old EXCEPT !.pc = c]
    BY <1>0, <2>1
  <2>3. /\ frames'[f].pc = c /\ frames'[f].left = old.left
        /\ frames'[f].list = old.list
    BY <1>0, <2>2 DEF Activation
  <2>4. UNCHANGED <<bucket, heap>> /\ old.pc = "run"
    BY <1>2 DEF StepLimit, CallTool, Running
  <2>5. Moves(f)
    BY <2>1, <2>3, <2>4 DEF Moves, Kept
  <2> QED BY <2>5
<1>3. ASSUME NEW n \in 0..MaxCalls, LlmAnswers(f, n)
      PROVE  Answers(f, n)
  <2>1. PICK c : /\ c = IF n = 0 THEN "return" ELSE "run"
                 /\ frames' = [frames EXCEPT ![f].left = n, ![f].pc = c]
    BY <1>3 DEF LlmAnswers
  <2>2. frames'[f] = [old EXCEPT !.left = n, !.pc = c]
    BY <1>0, <2>1
  <2>3. /\ frames'[f].pc = c /\ frames'[f].left = n
        /\ frames'[f].list = old.list
    BY <1>0, <2>2 DEF Activation
  <2>4. old.pc = "llm" /\ Appends(f, AI(f, n)) /\ UNCHANGED bucket
    BY <1>3 DEF LlmAnswers, Appends
  <2> QED BY <2>1, <2>3, <2>4 DEF Answers, Kept
<1>4. CASE LlmFails(f)
  <2>1. /\ frames' = [frames EXCEPT ![f].pc = "raise"]
        /\ LlmMayFail /\ old.pc = "llm" /\ UNCHANGED <<bucket, heap>>
    BY <1>4 DEF LlmFails
  <2>2. frames'[f] = [old EXCEPT !.pc = "raise"]
    BY <1>0, <2>1
  <2>3. frames'[f].pc = "raise" /\ frames'[f].list = old.list
    BY <1>0, <2>2 DEF Activation
  <2>4. Fails(f)
    BY <2>1, <2>3 DEF Fails, Kept
  <2> QED BY <2>4
<1>5. CASE RefuseTool(f)
  BY <1>5, ReplyCase DEF RefuseTool, Running
<1>6. CASE ToolReturns(f)
  <2>1. old.pc = "tool" /\ old.left > 0
    BY <1>6 DEF ToolReturns, CallTree, AwaitsReply
  <2> QED BY <1>6, <2>1, ReplyCase DEF ToolReturns
<1>7. CASE \E t \in Specialists \cup {Unknown} : RefuseDiscussion(f, t)
  BY <1>7, ReplyCase DEF RefuseDiscussion, Running
<1> QED BY <1>1, <1>2, <1>3, <1>4, <1>5, <1>6, <1>7 DEF LocalAction

-----------------------------------------------------------------------------
(* What holds when the PM sends the messages its prompt asks for.          *)

(* ask_user is the only call of its message.                               *)
AsksAlone == \A m \in PmMessages : m.ask => m.assigns = <<>>

(* A message assigns at most one task.                                     *)
OneAtATime == \A m \in PmMessages : Len(m.assigns) <= 1

QuietPm  == AsksAlone /\ (LlmMayFail => OneAtATime)
SerialPm == AsksAlone /\ OneAtATime

(* The tools node waits for every root activation there is, and an         *)
(* exception that will end the node finds no sibling to leave behind.      *)
RootsAwaited == tasks = {f \in live : frames[f].parent = 0}

NodeInv ==
  /\ turn # "tools" => tasks = {} /\ toStart = <<>>
  /\ message.ask => message.assigns = <<>> /\ tasks = {} /\ toStart = <<>>
  /\ turn = "asking" => message.ask

RaisesOnlyOnFailure == \A f \in live : frames[f].pc = "raise" => LlmMayFail

OneTask ==
  OneAtATime =>
    /\ Len(toStart) <= 1
    /\ tasks # {} => toStart = <<>>
    /\ \A f, g \in tasks : f = g

QuietInv == RootsAwaited /\ NodeInv /\ RaisesOnlyOnFailure /\ OneTask

LEMMA QuietPmAction ==
  ASSUME AsksAlone, TypeOK, QuietInv, PmAction
  PROVE  QuietInv'
<1>1. frames' = frames /\ live' = live
  BY PmActions DEF teamVars, live
<1>2. tasks = {f \in live : frames[f].parent = 0} /\ OneTask /\ NodeInv
  BY DEF QuietInv, RootsAwaited
<1>3. RaisesOnlyOnFailure'
  BY <1>1 DEF QuietInv, RaisesOnlyOnFailure
<1>4. tasks' = tasks => RootsAwaited'
  BY <1>1, <1>2 DEF RootsAwaited
<1>5. CASE \E a \in Specialists \cup {Unknown} : AssignUnknown(a) \/ AssignOverBudget(a)
  <2>1. /\ turn = "tools" /\ toStart # <<>> /\ toStart' = Tail(toStart)
        /\ UNCHANGED <<turn, message, tasks>>
    BY <1>5 DEF AssignUnknown, AssignOverBudget, Starting
  <2>2. toStart \in Seq(Specialists \cup {Unknown})
    BY DEF TypeOK
  <2>3. NodeInv'
    BY <1>2, <2>1 DEF NodeInv
  <2>4. Len(toStart) <= 1 => toStart' = <<>>
    BY <2>1, <2>2
  <2>5. OneTask'
    BY <1>2, <2>1, <2>4 DEF OneTask
  <2> QED BY <1>3, <1>4, <2>1, <2>3, <2>5 DEF QuietInv
<1>6. ASSUME NEW m \in PmMessages, PmCallsTools(m)
      PROVE  QuietInv'
  <2>1. turn = "pm" /\ turn' = "tools" /\ message' = m /\ toStart' = m.assigns /\ tasks' = tasks
    BY <1>6 DEF PmCallsTools
  <2>2. tasks = {}
    BY <1>2, <2>1 DEF NodeInv
  <2>3. NodeInv'
    BY <2>1, <2>2 DEF NodeInv, AsksAlone
  <2>4. OneTask'
    BY <2>1, <2>2 DEF OneTask, OneAtATime
  <2> QED BY <1>3, <1>4, <2>1, <2>3, <2>4 DEF QuietInv
<1>7. CASE PmEndsTurn
  <2>1. turn = "pm" /\ turn' = "idle" /\ UNCHANGED <<message, toStart, tasks>>
    BY <1>7 DEF PmEndsTurn
  <2>2. NodeInv' /\ OneTask'
    BY <1>2, <2>1 DEF NodeInv, OneTask
  <2> QED BY <1>3, <1>4, <2>1, <2>2 DEF QuietInv
<1>8. CASE ToolsDone
  <2>1. /\ turn' = "pm" /\ toStart = <<>> /\ tasks = {}
        /\ message' = Idle /\ UNCHANGED <<toStart, tasks>>
    BY <1>8 DEF ToolsDone
  <2>2. ~Idle.ask
    BY DEF Idle
  <2>3. NodeInv' /\ OneTask'
    BY <1>2, <2>1, <2>2 DEF NodeInv, OneTask
  <2> QED BY <1>3, <1>4, <2>1, <2>3 DEF QuietInv
<1>9. CASE AskUser
  <2>1. turn' = "asking" /\ message.ask /\ tasks' = {} /\ UNCHANGED <<message, toStart>>
    BY <1>9 DEF AskUser
  <2>2. tasks = {} /\ toStart = <<>> /\ message.assigns = <<>>
    BY <1>2, <2>1 DEF NodeInv
  <2>3. NodeInv' /\ OneTask'
    BY <1>2, <2>1, <2>2 DEF NodeInv, OneTask
  <2> QED BY <1>3, <1>4, <2>1, <2>2, <2>3 DEF QuietInv
<1>10. CASE NewRequest
  <2>1. turn = "idle" /\ turn' = "pm" /\ UNCHANGED <<message, toStart, tasks>>
    BY <1>10 DEF NewRequest
  <2>2. NodeInv' /\ OneTask'
    BY <1>2, <2>1 DEF NodeInv, OneTask
  <2> QED BY <1>3, <1>4, <2>1, <2>2 DEF QuietInv
<1>11. CASE AnswerUser
  <2>1. /\ turn = "asking" /\ turn' = "tools" /\ tasks' = tasks
        /\ message' = [message EXCEPT !.ask = FALSE]
        /\ toStart' = message.assigns
    BY <1>11 DEF AnswerUser
  <2>2. message.ask /\ message.assigns = <<>> /\ tasks = {}
    BY <1>2, <2>1 DEF NodeInv
  <2>3. message \in PmMessage
    BY DEF TypeOK
  <2>4. ~message'.ask
    BY <2>1, <2>3 DEF PmMessage
  <2>5. NodeInv' /\ OneTask'
    BY <2>1, <2>2, <2>4 DEF NodeInv, OneTask
  <2> QED BY <1>3, <1>4, <2>1, <2>5 DEF QuietInv
<1> QED BY <1>5, <1>6, <1>7, <1>8, <1>9, <1>10, <1>11 DEF PmAction, Pm, User

LEMMA QuietAssign ==
  ASSUME TypeOK, QuietInv, NEW a \in Specialists \cup {Unknown}, NEW f \in Ids, Assign(a, f)
  PROVE  QuietInv'
<1>1. a \in Specialists
  BY DEF Assign
<1>2. /\ f \notin live
      /\ live' = live \cup {f}
      /\ \A g \in live : frames'[g] = frames[g]
      /\ frames'[f].parent = 0
      /\ frames'[f].pc = "run"
  BY <1>1, AssignEffect
<1>3. /\ turn = "tools" /\ toStart # <<>> /\ toStart' = Tail(toStart)
      /\ tasks' = tasks \cup {f} /\ UNCHANGED <<turn, message>>
  BY DEF Assign, Starting
<1>4. toStart \in Seq(Specialists \cup {Unknown})
  BY DEF TypeOK
<1>5. RootsAwaited'
  BY <1>2, <1>3 DEF QuietInv, RootsAwaited
<1>6. NodeInv'
  BY <1>3 DEF QuietInv, NodeInv
<1>7. RaisesOnlyOnFailure'
  BY <1>2 DEF QuietInv, RaisesOnlyOnFailure
<1>8. Len(toStart) <= 1 => toStart' = <<>>
  BY <1>3, <1>4
<1>9. OneTask'
  BY <1>3, <1>8 DEF QuietInv, OneTask
<1> QED BY <1>5, <1>6, <1>7, <1>9 DEF QuietInv

(* Steps that leave the PM alone and add or remove no root.                *)
LEMMA QuietInside ==
  ASSUME QuietInv, UNCHANGED pmVars, RaisesOnlyOnFailure',
         \A g \in live' : g \in live \/ frames'[g].parent # 0,
         \A g \in live : frames[g].parent = 0 => g \in live',
         \A g \in live : g \in live' => frames'[g].parent = frames[g].parent
  PROVE  QuietInv'
<1>1. UNCHANGED <<turn, message, toStart, tasks>>
  BY DEF pmVars
<1>2. RootsAwaited'
  BY <1>1 DEF QuietInv, RootsAwaited
<1>3. NodeInv' /\ OneTask'
  BY <1>1 DEF QuietInv, NodeInv, OneTask
<1> QED BY <1>2, <1>3 DEF QuietInv

LEMMA QuietRootPop ==
  ASSUME QuietPm, TypeOK, CallTree, QuietInv, NEW f \in live, ReportToPm(f) \/ RaiseToPm(f)
  PROVE  QuietInv'
<1>1. Popped(f) /\ frames[f].parent = 0
  BY Pops DEF ReportToPm, RaiseToPm
<1>2. f \in tasks
  BY <1>1 DEF QuietInv, RootsAwaited
<1>3. /\ live' = live \ {f}
      /\ \A g \in live' : frames'[g].parent = frames[g].parent
  BY <1>1 DEF Popped
<1>4. RaisesOnlyOnFailure'
  <2>1. \A g \in live : g # 0
    BY ActivationFields DEF Ids
  <2> QED BY <1>1, <1>3, <2>1 DEF Popped, QuietInv, RaisesOnlyOnFailure
<1>5. CASE ReportToPm(f)
  <2>1. tasks' = tasks \ {f} /\ UNCHANGED <<turn, message, toStart>>
    BY <1>5 DEF ReportToPm
  <2>2. RootsAwaited'
    BY <1>3, <2>1 DEF QuietInv, RootsAwaited
  <2>3. NodeInv' /\ OneTask'
    BY <2>1 DEF QuietInv, NodeInv, OneTask
  <2> QED BY <1>4, <2>2, <2>3 DEF QuietInv
<1>6. CASE RaiseToPm(f)
  <2>1. /\ turn' = "idle" /\ tasks' = {} /\ message' = Idle /\ toStart' = toStart
        /\ frames[f].pc = "raise"
    BY <1>2, <1>6 DEF RaiseToPm
  <2>2. OneAtATime
    BY <2>1 DEF QuietInv, RaisesOnlyOnFailure, QuietPm
  <2>3. tasks = {f} /\ toStart = <<>>
    BY <1>2, <2>2 DEF QuietInv, OneTask
  <2>4. RootsAwaited'
    BY <1>3, <2>1, <2>3 DEF QuietInv, RootsAwaited
  <2>5. ~Idle.ask
    BY DEF Idle
  <2>6. NodeInv' /\ OneTask'
    BY <2>1, <2>3, <2>5 DEF NodeInv, OneTask
  <2> QED BY <1>4, <2>4, <2>6 DEF QuietInv
<1> QED BY <1>5, <1>6

LEMMA QuietPeerPop ==
  ASSUME TypeOK, CallTree, QuietInv, NEW f \in live, ReplyToPeer(f) \/ RaiseToPeer(f)
  PROVE  QuietInv'
<1>1. Popped(f) /\ UNCHANGED pmVars /\ frames[f].parent # 0
  BY ReplyToPeerPops, RaiseToPeerPops DEF ReplyToPeer, RaiseToPeer
<1> PICK p : p = frames[f].parent
  OBVIOUS
<1>2. /\ live' = live \ {f}
      /\ \A g \in live' : frames'[g].parent = frames[g].parent
      /\ \A g \in live' : g # p => frames'[g] = frames[g]
  BY <1>1 DEF Popped
<1>3. p \in live' => (frames'[p].pc = "raise" => LlmMayFail)
  <2>1. CASE RaiseToPeer(f)
    BY <2>1 DEF RaiseToPeer, QuietInv, RaisesOnlyOnFailure
  <2>2. CASE ReplyToPeer(f)
    <3>1. p \in live \ {f} /\ frames' = Without(Replied(frames, p), f)
      BY <1>1, <2>2, CallerFacts DEF ReplyToPeer
    <3>2. Replied(frames, p)[p].pc = "run" /\ p \in DOMAIN Replied(frames, p)
      BY <3>1 DEF TypeOK, Replied, Activation, live
    <3>3. frames'[p] = Replied(frames, p)[p]
      BY <3>1, <3>2 DEF Without
    <3> QED BY <3>2, <3>3
  <2> QED BY <2>1, <2>2
<1>4. RaisesOnlyOnFailure'
  BY <1>2, <1>3 DEF QuietInv, RaisesOnlyOnFailure
<1> QED BY <1>1, <1>2, <1>4, QuietInside

LEMMA QuietDiscuss ==
  ASSUME TypeOK, QuietInv, NEW f \in live, NEW t \in Specialists \cup {Unknown},
         NEW g \in Ids, Discuss(f, t, g)
  PROVE  QuietInv'
<1>1. /\ live' = live \cup {g} /\ g \notin live
      /\ \A h \in live :
           /\ frames'[h].parent = frames[h].parent
           /\ h # f => frames'[h].pc = frames[h].pc
      /\ frames'[f].pc = "discuss"
      /\ frames'[g].parent = f
      /\ frames'[g].pc = "run"
      /\ UNCHANGED pmVars
  BY DiscussEffect
<1>2. f # 0
  BY ActivationFields DEF Ids
<1>3. RaisesOnlyOnFailure'
  BY <1>1 DEF QuietInv, RaisesOnlyOnFailure
<1> QED BY <1>1, <1>2, <1>3, QuietInside

LEMMA QuietLocal ==
  ASSUME TypeOK, CallTree, QuietInv, NEW f \in live, LocalAction(f)
  PROVE  QuietInv'
<1>1. Local(f) /\ UNCHANGED pmVars
  BY LocalActions DEF LocalStep, CallTree
<1>2. /\ live' = live
      /\ \A g \in live \ {f} : frames'[g] = frames[g]
      /\ frames'[f].parent = frames[f].parent
  BY <1>1 DEF Local
<1>3. frames'[f].pc = "raise" => LlmMayFail
  BY LocalCases DEF StartsStep, Moves, Answers, Fails, Replies
<1>4. RaisesOnlyOnFailure'
  BY <1>2, <1>3 DEF QuietInv, RaisesOnlyOnFailure
<1> QED BY <1>1, <1>2, <1>4, QuietInside

LEMMA QuietStep ==
  ASSUME QuietPm, TypeOK, CallTree, QuietInv, [Next]_vars
  PROVE  QuietInv'
<1>1. CASE PmAction
  BY <1>1, QuietPmAction DEF QuietPm
<1>2. CASE \E a \in Specialists \cup {Unknown}, f \in Ids : Assign(a, f)
  BY <1>2, QuietAssign
<1>3. CASE \E f \in live : LocalAction(f)
  BY <1>3, QuietLocal
<1>4. CASE \E f \in live, t \in Specialists \cup {Unknown}, g \in Ids : Discuss(f, t, g)
  BY <1>4, QuietDiscuss
<1>5. CASE \E f \in live : ReplyToPeer(f) \/ RaiseToPeer(f)
  BY <1>5, QuietPeerPop
<1>6. CASE \E f \in live : ReportToPm(f) \/ RaiseToPm(f)
  BY <1>6, QuietRootPop
<1>7. CASE UNCHANGED vars
  <2>1. UNCHANGED pmVars /\ frames' = frames /\ live' = live
    BY <1>7 DEF vars, teamVars, live
  <2>2. RaisesOnlyOnFailure'
    BY <2>1 DEF QuietInv, RaisesOnlyOnFailure
  <2> QED BY <2>1, <2>2, QuietInside
<1> QED BY <1>1, <1>2, <1>3, <1>4, <1>5, <1>6, <1>7, NextActions

LEMMA QuietInit == Init => QuietInv
<1> SUFFICES ASSUME Init PROVE QuietInv
  OBVIOUS
<1>1. live = {} /\ tasks = {} /\ toStart = <<>> /\ message = Idle /\ turn = "idle"
  BY DEF Init, live
<1>2. ~Idle.ask
  BY DEF Idle
<1> QED BY <1>1, <1>2 DEF QuietInv, RootsAwaited, NodeInv, RaisesOnlyOnFailure, OneTask

(* No work goes on behind a finished turn, and the server exports complete *)
(* histories, as long as the PM does not ask beside an assignment and,     *)
(* where LLM calls may fail for good, assigns one task at a time.          *)
THEOREM QuietAlways == QuietPm => (Spec => []QuietWhenIdle)
<1> SUFFICES ASSUME QuietPm PROVE Spec => []QuietWhenIdle
  OBVIOUS
<1>1. IInv /\ QuietInv /\ [Next]_vars => QuietInv'
  BY QuietStep DEF IInv
<1>2. IInv /\ QuietInv => QuietWhenIdle
  <2> SUFFICES ASSUME CallTree, QuietInv, turn \in {"idle", "pm"} PROVE live = {}
    BY DEF IInv, QuietWhenIdle
  <2>1. tasks = {}
    BY DEF QuietInv, NodeInv
  <2>2. \A f \in live : frames[f].parent # 0
    BY <2>1 DEF QuietInv, RootsAwaited
  <2>3. \A f \in live : frames[f].task \in live /\ frames[frames[f].task].parent = 0
    BY DEF CallTree, RootOfTask
  <2> QED BY <2>2, <2>3
<1> QED BY <1>1, <1>2, QuietInit, AlwaysIInv, PTL DEF Spec
-----------------------------------------------------------------------------
(* One task at a time: the live activations are one call stack, so each    *)
(* agent has at most one, and the list in its bucket has one writer.       *)

OneEach == \A f, g \in live : frames[f].agent = frames[g].agent => f = g

LEMMA SerialIsOneEach ==
  ASSUME SerialPm
  PROVE  IInv /\ QuietInv => OneEach
<1> SUFFICES ASSUME IInv, QuietInv, NEW f \in live, NEW g \in live,
                    frames[f].agent = frames[g].agent
             PROVE  f = g
  BY DEF OneEach
<1>1. /\ frames[f].task \in live /\ frames[frames[f].task].parent = 0
      /\ frames[g].task \in live /\ frames[frames[g].task].parent = 0
  BY DEF IInv, CallTree, RootOfTask
<1>2. frames[f].task \in tasks /\ frames[g].task \in tasks
  BY <1>1 DEF QuietInv, RootsAwaited
<1>3. frames[f].task = frames[g].task
  BY <1>2 DEF SerialPm, QuietInv, OneTask
<1> QED BY <1>3, SelfWaitFree DEF NobodyWaitsForItself

BucketHolds   == \A f \in live : bucket[frames[f].agent] = frames[f].list
BucketsApart  == \A a, b \in Specialists : bucket[a] = bucket[b] /\ bucket[a] # 0 => a = b
BucketInv     == BucketHolds /\ BucketsApart

(* A step that concerns agent a leaves the other agents' lists alone.      *)
OthersKeep(a) ==
  \A b \in Specialists \ {a} :
    bucket'[b] = bucket[b] /\ (bucket[b] # 0 => heap'[bucket[b]] = heap[bucket[b]])

LEMMA ListsAreNotZero == 0 \notin Lists
BY DEF Lists

(* The start of an activation of an agent that has none.                   *)
LEMMA BeginHistory ==
  ASSUME TypeOK, BucketInv, NEW fs, NEW f, NEW a \in Specialists,
         NEW parent, NEW task, NEW chain, Begin(fs, f, a, parent, task, chain)
  PROVE  /\ frames'[f].list = bucket'[a] /\ frames'[f].left = 0
         /\ bucket'[a] \in Lists
         /\ heap'[bucket'[a]] =
              Append(IF bucket[a] = 0 THEN <<>> ELSE heap[bucket[a]], Human(f))
         /\ OthersKeep(a)
         /\ BucketsApart'
<1>1. PICK r \in Lists :
        /\ IF bucket[a] = 0 THEN IsFreshList(r) ELSE r = bucket[a]
        /\ bucket' = [bucket EXCEPT ![a] = r]
        /\ heap' = [heap EXCEPT ![r] = Append(IF bucket[a] = 0 THEN <<>> ELSE @, Human(f))]
        /\ frames' = With(fs, f,
             [agent |-> a, parent |-> parent, task |-> task, chain |-> chain,
              list |-> r, steps |-> 0, left |-> 0, pc |-> "run"])
  BY DEF Begin
<1>2. bucket \in [Specialists -> {0} \cup Lists] /\ DOMAIN heap = Lists
  BY DEF TypeOK
<1>3. frames'[f].list = r /\ frames'[f].left = 0
  BY <1>1 DEF With
<1>4. bucket'[a] = r /\ \A b \in Specialists \ {a} : bucket'[b] = bucket[b]
  BY <1>1, <1>2
<1>5. heap'[r] = Append(IF bucket[a] = 0 THEN <<>> ELSE heap[r], Human(f))
  BY <1>1, <1>2
<1>6. bucket[a] # 0 => r = bucket[a]
  BY <1>1
<1>7. \A b \in Specialists \ {a} : bucket[b] # r
  <2>1. CASE bucket[a] = 0
    BY <1>1, <2>1 DEF IsFreshList
  <2>2. CASE bucket[a] # 0
    BY <1>6, <2>2 DEF BucketInv, BucketsApart
  <2> QED BY <2>1, <2>2
<1>8. \A q \in Lists : q # r => heap'[q] = heap[q]
  BY <1>1, <1>2
<1>9. OthersKeep(a)
  BY <1>2, <1>4, <1>7, <1>8 DEF OthersKeep
<1>10. BucketsApart'
  BY <1>4, <1>7 DEF BucketInv, BucketsApart
<1> QED BY <1>3, <1>4, <1>5, <1>6, <1>9, <1>10

(* A new step: the trimmed history is in the bucket, and is the list the   *)
(* activation goes on writing.                                             *)
LEMMA StartStepHistory ==
  ASSUME TypeOK, BucketInv, NEW f \in live, StartStep(f),
         NEW a \in Specialists, a = frames[f].agent
  PROVE  /\ frames'[f].list = bucket'[a]
         /\ bucket'[a] \in Lists /\ bucket[a] \in Lists
         /\ heap'[bucket'[a]] = Trim(heap[bucket[a]])
         /\ OthersKeep(a)
         /\ BucketsApart'
<1> PICK old, h : old = frames[f].list /\ h = heap[old]
  OBVIOUS
<1>1. PICK r, g :
        /\ r \in Lists
        /\ IF Len(h) > MaxHistory THEN IsFreshList(r) ELSE r = old
        /\ heap' = [heap EXCEPT ![old] = g, ![r] = Trim(h)]
        /\ bucket' = [bucket EXCEPT ![a] = r]
        /\ frames' = [frames EXCEPT ![f].list = r, ![f].steps = @ + 1, ![f].pc = "llm"]
  BY DEF StartStep, Publish
<1>2. /\ bucket \in [Specialists -> {0} \cup Lists] /\ DOMAIN heap = Lists
      /\ frames \in [live -> Activation]
  BY DEF TypeOK
<1>3. old \in Lists /\ old = bucket[a]
  BY ActivationFields DEF BucketInv, BucketHolds
<1>4. frames'[f].list = r
  <2>1. PICK rec : rec = frames[f]
    OBVIOUS
  <2>2. rec \in Activation /\ frames'[f] = [rec EXCEPT !.list = r, !.steps = @ + 1, !.pc = "llm"]
    BY <1>1, <1>2, <2>1
  <2> QED BY <2>2 DEF Activation
<1>5. bucket'[a] = r /\ \A b \in Specialists \ {a} : bucket'[b] = bucket[b]
  BY <1>1, <1>2
<1>6. heap'[r] = Trim(h) /\ \A q \in Lists : q # r /\ q # old => heap'[q] = heap[q]
  BY <1>1, <1>2
<1>7. \A b \in Specialists \ {a} : bucket[b] # r /\ bucket[b] # old
  <2>1. \A b \in Specialists \ {a} : bucket[b] # old
    BY <1>3, ListsAreNotZero DEF BucketInv, BucketsApart
  <2>2. r = old \/ IsFreshList(r)
    BY <1>1
  <2>3. IsFreshList(r) => \A b \in Specialists \ {a} : bucket[b] # r
    BY DEF IsFreshList
  <2> QED BY <2>1, <2>2, <2>3
<1>8. OthersKeep(a)
  BY <1>2, <1>5, <1>6, <1>7 DEF OthersKeep
<1>9. BucketsApart'
  BY <1>5, <1>7 DEF BucketInv, BucketsApart
<1>10. r \in Lists
  BY <1>1
<1> QED BY <1>3, <1>4, <1>5, <1>6, <1>8, <1>9, <1>10

LEMMA BucketUnchanged ==
  ASSUME BucketInv, UNCHANGED bucket, live' \subseteq live,
         \A f \in live' : frames'[f].agent = frames[f].agent /\ frames'[f].list = frames[f].list
  PROVE  BucketInv'
BY DEF BucketInv, BucketHolds, BucketsApart

LEMMA PoppedLists ==
  ASSUME TypeOK, CallTree, NEW f \in live,
         ReplyToPeer(f) \/ ReportToPm(f) \/ RaiseToPeer(f) \/ RaiseToPm(f)
  PROVE  /\ UNCHANGED bucket
         /\ \A g \in live' : frames'[g].list = frames[g].list
<1>1. UNCHANGED bucket
  BY DEF ReplyToPeer, ReportToPm, RaiseToPeer, RaiseToPm
<1>2. Popped(f) /\ live' = live \ {f}
  BY Pops DEF Popped
<1> PICK p : p = frames[f].parent
  OBVIOUS
<1>3. \A g \in live' : g # p => frames'[g] = frames[g]
  BY <1>2 DEF Popped
<1>4. p \in live' => frames'[p].list = frames[p].list
  <2> SUFFICES ASSUME p \in live', p # 0
               PROVE  frames'[p].list = frames[p].list
    <3>1. \A g \in live : g # 0
      BY ActivationFields DEF Ids
    <3> QED BY <1>2, <3>1
  <2>0. frames \in [live -> Activation] /\ p \in live
    BY <1>2 DEF TypeOK
  <2>1. PICK fs : /\ fs = Replied(frames, p) \/ fs = [frames EXCEPT ![p].pc = "raise"]
                  /\ frames' = Without(fs, f)
    BY DEF ReplyToPeer, ReportToPm, RaiseToPeer, RaiseToPm
  <2>2. fs[p].list = frames[p].list
    BY <2>0, <2>1 DEF Replied, Activation
  <2>3. frames'[p] = fs[p]
    BY <2>1 DEF Without, live
  <2> QED BY <2>2, <2>3
<1> QED BY <1>1, <1>2, <1>3, <1>4

LEMMA DiscussLists ==
  ASSUME TypeOK, NEW f \in live, NEW t \in Specialists \cup {Unknown}, NEW g \in Ids,
         Discuss(f, t, g), NEW h \in live
  PROVE  frames'[h].list = frames[h].list
<1> PICK fs : fs = [frames EXCEPT ![f].pc = "discuss"]
  OBVIOUS
<1>1. PICK rec : frames' = With(fs, g, rec)
  BY DEF Discuss, Begin
<1>2. h # g
  BY DEF Discuss, IsNextId
<1>3. frames \in [live -> Activation]
  BY DEF TypeOK
<1>4. fs[h].list = frames[h].list /\ h \in DOMAIN fs
  BY <1>3 DEF Activation
<1>5. frames'[h] = fs[h]
  BY <1>1, <1>2, <1>4 DEF With
<1> QED BY <1>4, <1>5

LEMMA BucketStep ==
  ASSUME TypeOK, CallTree, OneEach, OneEach', BucketInv, [Next]_vars
  PROVE  BucketInv'
<1>1. CASE UNCHANGED teamVars
  BY <1>1, BucketUnchanged DEF teamVars, live
<1>2. CASE PmAction
  BY <1>1, <1>2, PmActions
<1>3. ASSUME NEW a \in Specialists \cup {Unknown}, NEW f \in Ids, Assign(a, f)
      PROVE  BucketInv'
  <2>1. a \in Specialists /\ Begin(frames, f, a, 0, f, <<>>)
    BY <1>3 DEF Assign
  <2>2. /\ frames'[f].list = bucket'[a] /\ OthersKeep(a) /\ BucketsApart'
    BY <2>1, BeginHistory
  <2>3. /\ f \notin live /\ live' = live \cup {f} /\ frames'[f].agent = a
        /\ \A g \in live : frames'[g] = frames[g]
    BY <1>3, <2>1, AssignEffect
  <2>4. ASSUME NEW g \in live
        PROVE  bucket'[frames'[g].agent] = frames'[g].list
    <3>1. frames'[g].agent # a /\ frames'[g].agent \in Specialists
      BY <2>3, ActivationFields DEF OneEach
    <3> QED BY <2>2, <2>3, <3>1 DEF OthersKeep, BucketInv, BucketHolds
  <2>5. BucketHolds'
    BY <2>2, <2>3, <2>4 DEF BucketHolds
  <2> QED BY <2>2, <2>5 DEF BucketInv
<1>4. ASSUME NEW f \in live, LocalAction(f)
      PROVE  BucketInv'
  <2>1. /\ live' = live
        /\ \A g \in live \ {f} : frames'[g] = frames[g]
        /\ frames'[f].agent = frames[f].agent
    BY <1>4, LocalActions DEF LocalStep, Local, CallTree
  <2>2. CASE StartStep(f)
    <3> PICK a : a = frames[f].agent
      OBVIOUS
    <3>1. a \in Specialists
      BY ActivationFields
    <3>2. frames'[f].list = bucket'[a] /\ OthersKeep(a) /\ BucketsApart'
      BY <2>2, <3>1, StartStepHistory
    <3>3. ASSUME NEW g \in live, g # f
          PROVE  bucket'[frames'[g].agent] = frames'[g].list
      <4>1. frames[g].agent # a /\ frames[g].agent \in Specialists
        BY <3>3, ActivationFields DEF OneEach
      <4> QED BY <2>1, <3>2, <3>3, <4>1 DEF OthersKeep, BucketInv, BucketHolds
    <3>4. BucketHolds'
      BY <2>1, <3>2, <3>3 DEF BucketHolds
    <3> QED BY <3>2, <3>4 DEF BucketInv
  <2>3. CASE Kept(f)
    BY <2>1, <2>3, BucketUnchanged DEF Kept
  <2> QED BY <1>4, <2>2, <2>3, LocalCases DEF StartsStep, Moves, Answers, Fails, Replies
<1>5. ASSUME NEW f \in live, NEW t \in Specialists \cup {Unknown}, NEW g \in Ids, Discuss(f, t, g)
      PROVE  BucketInv'
  <2>1. /\ t \in Specialists /\ g \notin live /\ live' = live \cup {g}
        /\ \A h \in live : frames'[h].agent = frames[h].agent
        /\ frames'[g].agent = t
    BY <1>5, DiscussEffect
  <2>2. PICK fs, task, chain : Begin(fs, g, t, f, task, chain)
    BY <1>5 DEF Discuss
  <2>3. frames'[g].list = bucket'[t] /\ OthersKeep(t) /\ BucketsApart'
    <3>1. t \in Specialists
      BY <2>1
    <3> QED BY <2>2, <3>1, BeginHistory
  <2>4. ASSUME NEW h \in live
        PROVE  bucket'[frames'[h].agent] = frames'[h].list
    <3>1. frames'[h].agent # t /\ frames'[h].agent \in Specialists
      BY <2>1, ActivationFields DEF OneEach
    <3>2. frames'[h].list = frames[h].list
      BY <1>5, DiscussLists
    <3> QED BY <2>1, <2>3, <3>1, <3>2 DEF OthersKeep, BucketInv, BucketHolds
  <2>5. BucketHolds'
    BY <2>1, <2>3, <2>4 DEF BucketHolds
  <2> QED BY <2>3, <2>5 DEF BucketInv
<1>6. ASSUME NEW f \in live,
             ReplyToPeer(f) \/ ReportToPm(f) \/ RaiseToPeer(f) \/ RaiseToPm(f)
      PROVE  BucketInv'
  <2>1. /\ live' \subseteq live
        /\ \A g \in live' : frames'[g].agent = frames[g].agent
    BY <1>6, Pops DEF Popped
  <2> QED BY <1>6, <2>1, PoppedLists, BucketUnchanged
<1>7. CASE UNCHANGED vars
  BY <1>1, <1>7 DEF vars
<1> QED BY <1>2, <1>3, <1>4, <1>5, <1>6, <1>7, NextActions
-----------------------------------------------------------------------------
(* What an agent's history holds, one task at a time.  While its activation *)
(* works, only that activation's last call may still wait for replies; what *)
(* a failed one left behind may lack them for good, until the next task.    *)

(* Between an answer's calls and the next answer, every call has a reply.  *)
Settled == \A f \in live : frames[f].pc \in {"llm", "return"} => frames[f].left = 0

ListOf(a) == heap[bucket[a]]

Progress(f, h) ==
  /\ frames[f].left = 0 => Closed(h, LlmMayFail)
  /\ frames[f].left > 0 => Open(h, LlmMayFail, f, frames[f].left)
  /\ MaxCalls < MaxHistory => TailWithin(h, MaxCalls - frames[f].left)

Abandoned(h) ==
  \/ Closed(h, LlmMayFail)
  \/ LlmMayFail /\ \E f \in Ids, n \in 1..MaxCalls : Open(h, LlmMayFail, f, n)

Works(f, a) == f \in live /\ frames[f].agent = a /\ frames[f].pc # "raise"

AgentInv(a) ==
  bucket[a] # 0 =>
    /\ RepliesFollow(ListOf(a))
    /\ \/ Abandoned(ListOf(a))
       \/ \E f \in live : Works(f, a)
    /\ \A f \in live : Works(f, a) => Progress(f, ListOf(a))

HistoryInv == \A a \in Specialists : AgentInv(a)

LEMMA ListTypes ==
  ASSUME TypeOK, NEW a \in Specialists, bucket[a] # 0
  PROVE  ListOf(a) \in Seq(Msg) /\ bucket[a] \in Lists
BY DEF TypeOK, ListOf, Msg

LEMMA SettledStep ==
  ASSUME TypeOK, CallTree, Settled, [Next]_vars
  PROVE  Settled'
<1>1. CASE UNCHANGED teamVars
  BY <1>1 DEF teamVars, Settled, live
<1>2. CASE PmAction
  BY <1>1, <1>2, PmActions
<1>3. ASSUME NEW a \in Specialists \cup {Unknown}, NEW f \in Ids, Assign(a, f)
      PROVE  Settled'
  <2>1. a \in Specialists
    BY <1>3 DEF Assign
  <2>2. /\ live' = live \cup {f}
        /\ \A g \in live : frames'[g] = frames[g]
        /\ frames'[f].pc = "run"
    BY <1>3, <2>1, AssignEffect
  <2> QED BY <2>2 DEF Settled
<1>4. ASSUME NEW f \in live, LocalAction(f)
      PROVE  Settled'
  <2>1. live' = live /\ \A g \in live \ {f} : frames'[g] = frames[g]
    BY <1>4, LocalActions DEF LocalStep, Local, CallTree
  <2>2. frames'[f].pc \in {"llm", "return"} => frames'[f].left = 0
    BY <1>4, LocalCases DEF StartsStep, Moves, Answers, Fails, Replies
  <2> QED BY <2>1, <2>2 DEF Settled
<1>5. ASSUME NEW f \in live, NEW t \in Specialists \cup {Unknown}, NEW g \in Ids, Discuss(f, t, g)
      PROVE  Settled'
  <2>1. /\ live' = live \cup {g}
        /\ \A h \in live :
             /\ frames'[h].left = frames[h].left
             /\ h # f => frames'[h].pc = frames[h].pc
        /\ frames'[f].pc = "discuss"
        /\ frames'[g].pc = "run"
    BY <1>5, DiscussEffect
  <2> QED BY <2>1 DEF Settled
<1>6. ASSUME NEW f \in live,
             ReplyToPeer(f) \/ ReportToPm(f) \/ RaiseToPeer(f) \/ RaiseToPm(f)
      PROVE  Settled'
  BY <1>6, Pops DEF Popped, Settled
<1>7. CASE UNCHANGED vars
  BY <1>1, <1>7 DEF vars
<1> QED BY <1>2, <1>3, <1>4, <1>5, <1>6, <1>7, NextActions

LEMMA Untouched ==
  ASSUME NEW a \in Specialists, AgentInv(a),
         bucket'[a] = bucket[a],
         bucket[a] # 0 => heap'[bucket[a]] = heap[bucket[a]],
         \A g : Works(g, a)' => Works(g, a) /\ frames'[g].left = frames[g].left,
         \A g : Works(g, a) => Works(g, a)'
  PROVE  AgentInv(a)'
<1> SUFFICES ASSUME bucket[a] # 0
             PROVE  /\ RepliesFollow(ListOf(a))'
                    /\ Abandoned(ListOf(a))' \/ \E f \in live' : Works(f, a)'
                    /\ \A f \in live' : Works(f, a)' => Progress(f, ListOf(a))'
  BY DEF AgentInv
<1> PICK h : h = ListOf(a)
  OBVIOUS
<1>1. ListOf(a)' = h
  BY DEF ListOf
<1>2. /\ RepliesFollow(h)
      /\ Abandoned(h) \/ \E f \in live : Works(f, a)
      /\ \A f \in live : Works(f, a) => Progress(f, h)
  BY DEF AgentInv
<1>3. RepliesFollow(ListOf(a))'
  BY <1>1, <1>2 DEF RepliesFollow
<1>4. Abandoned(ListOf(a))' \/ \E f \in live' : Works(f, a)'
  <2>1. Abandoned(h) => Abandoned(ListOf(a))'
    BY <1>1 DEF Abandoned
  <2> QED BY <1>2, <2>1 DEF Works
<1>5. ASSUME NEW f \in live', Works(f, a)'
      PROVE  Progress(f, ListOf(a))'
  <2>1. Progress(f, h) /\ frames'[f].left = frames[f].left
    BY <1>2, <1>5 DEF Works
  <2> QED BY <1>1, <2>1 DEF Progress
<1> QED BY <1>3, <1>4, <1>5

(* The new state of an agent that has one activation.                      *)
LEMMA Established ==
  ASSUME NEW a \in Specialists, NEW h, NEW f,
         ListOf(a)' = h, RepliesFollow(h),
         \A g : Works(g, a)' => g = f,
         Works(f, a)' => Progress(f, h)',
         Abandoned(h) \/ Works(f, a)'
  PROVE  AgentInv(a)'
<1>1. RepliesFollow(ListOf(a))'
  BY DEF RepliesFollow
<1>2. Abandoned(ListOf(a))' \/ \E g \in live' : Works(g, a)'
  <2>1. Abandoned(h) => Abandoned(ListOf(a))'
    BY DEF Abandoned
  <2> QED BY <2>1 DEF Works
<1>3. ASSUME NEW g \in live', Works(g, a)'
      PROVE  Progress(g, ListOf(a))'
  <2>1. Progress(f, h)' /\ g = f
    BY <1>3
  <2> QED BY <2>1 DEF Progress
<1> QED BY <1>1, <1>2, <1>3 DEF AgentInv

(* An activation begins.                                                   *)
LEMMA BegunInv ==
  ASSUME TypeOK, NEW a \in Specialists, AgentInv(a), NEW f \in Ids,
         \A g \in live : frames[g].agent # a /\ frames'[g].agent # a,
         live' = live \cup {f}, frames'[f].left = 0,
         heap'[bucket'[a]] = Append(IF bucket[a] = 0 THEN <<>> ELSE heap[bucket[a]], Human(f)),
         frames'[f].agent = a, frames'[f].pc = "run"
  PROVE  AgentInv(a)'
<1> PICK old : old = IF bucket[a] = 0 THEN <<>> ELSE heap[bucket[a]]
  OBVIOUS
<1> PICK h : h = Append(old, Human(f))
  OBVIOUS
<1>0. MaxCalls \in Nat /\ LlmMayFail \in BOOLEAN /\ f \in Ids
  BY TeamAssumption
<1>1. /\ old \in Seq(Msg) /\ RepliesFollow(old)
      /\ \/ Closed(old, LlmMayFail)
         \/ LlmMayFail /\ \E g, n : Open(old, LlmMayFail, g, n)
  <2>1. CASE bucket[a] = 0
    <3>1. old = <<>>
      BY <2>1
    <3> QED BY <3>1, <1>0, EmptyHistory
  <2>2. CASE bucket[a] # 0
    <3>1. old = ListOf(a) /\ old \in Seq(Msg)
      BY <2>2, ListTypes DEF ListOf
    <3>2. RepliesFollow(old) /\ Abandoned(old)
      BY <2>2, <3>1 DEF AgentInv, Works
    <3> QED BY <3>1, <3>2 DEF Abandoned
  <2> QED BY <2>1, <2>2
<1>2. Human(f) \in Msg /\ ~IsTool(Human(f))
  BY <1>0, MessageTypes DEF Human, IsTool
<1>3. Closed(h, LlmMayFail)
  BY <1>0, <1>1, HumanCloses DEF Msg
<1>4. RepliesFollow(h)
  BY <1>0, <1>1, <1>2, OtherFollows DEF Msg
<1>5. TailWithin(h, MaxCalls)
  <2>1. MaxCalls \in Int /\ MaxCalls >= 0
    BY <1>0
  <2> QED BY <1>0, <1>1, <1>2, <2>1, TailGrows DEF Msg
<1>6. Progress(f, h)'
  <2>1. MaxCalls - frames'[f].left = MaxCalls
    BY <1>0
  <2> QED BY <1>3, <1>5, <2>1 DEF Progress, Closed, TailWithin
<1>7. ListOf(a)' = h /\ Works(f, a)' /\ \A g : Works(g, a)' => g = f
  BY DEF ListOf, Works
<1> QED BY <1>4, <1>6, <1>7, Established

(* One more of an activation's calls has its reply.                        *)
LEMMA ReplyProgress ==
  ASSUME NEW f \in Ids, NEW h \in Seq(Msg), RepliesFollow(h), Progress(f, h),
         frames[f].left \in 0..MaxCalls, frames[f].left > 0,
         frames'[f].left = frames[f].left - 1
  PROVE  /\ RepliesFollow(Append(h, Tool(f)))
         /\ Progress(f, Append(h, Tool(f)))'
<1> PICK n, new : n = frames[f].left /\ new = Append(h, Tool(f))
  OBVIOUS
<1>0. MaxCalls \in Nat /\ LlmMayFail \in BOOLEAN /\ n \in Nat /\ n > 0
  BY TeamAssumption
<1>1. /\ Open(h, LlmMayFail, f, n)
      /\ MaxCalls < MaxHistory => TailWithin(h, MaxCalls - n)
  BY DEF Progress
<1>2. /\ n = 1 => Closed(new, LlmMayFail)
      /\ n > 1 => Open(new, LlmMayFail, f, n - 1)
      /\ RepliesFollow(new)
  BY <1>0, <1>1, ReplyCloses DEF Msg
<1>3. MaxCalls < MaxHistory => TailWithin(new, MaxCalls - (n - 1))
  <2>1. Tool(f) \in Msg
    <3>1. 0 \in 0..MaxCalls
      BY <1>0
    <3> QED BY <3>1, MessageTypes
  <2>2. MaxCalls - n \in Int /\ MaxCalls - n + 1 = MaxCalls - (n - 1)
    BY <1>0
  <2>3. TailWithin(h, MaxCalls - n) => TailWithin(new, MaxCalls - n + 1)
    BY <1>0, <2>1, <2>2, TailGrows DEF Msg
  <2> QED BY <1>1, <2>2, <2>3
<1>4. frames'[f].left = n - 1 /\ (n - 1 = 0 => n = 1) /\ (n - 1 > 0 => n > 1)
  BY <1>0
<1>5. Progress(f, new)'
  BY <1>2, <1>3, <1>4 DEF Progress, Closed, Open, TailWithin
<1> QED BY <1>2, <1>5

(* A step inside the agent's activation.                                   *)
LEMMA LocalInv ==
  ASSUME TypeOK, CallTree, OneEach, BucketInv, Settled,
         NEW f \in live, LocalAction(f), NEW a \in Specialists, a = frames[f].agent,
         AgentInv(a)
  PROVE  AgentInv(a)'
<1> PICK h : h = ListOf(a)
  OBVIOUS
<1>0. MaxCalls \in Nat /\ LlmMayFail \in BOOLEAN /\ f \in Ids
  BY TeamAssumption, ActivationFields
<1>1. /\ live' = live
      /\ \A g \in live \ {f} : frames'[g] = frames[g]
      /\ frames'[f].agent = a
  BY LocalActions DEF LocalStep, Local, CallTree
<1>2. bucket[a] = frames[f].list /\ bucket[a] \in Lists /\ bucket[a] # 0
  BY ActivationFields, ListsAreNotZero DEF BucketInv, BucketHolds
<1>3. h \in Seq(Msg)
  BY <1>2, ListTypes
<1>4. \A g : Works(g, a) \/ Works(g, a)' => g = f
  BY <1>1 DEF OneEach, Works
<1>5. RepliesFollow(h) /\ (frames[f].pc # "raise" => Progress(f, h))
  BY <1>2 DEF AgentInv, Works
<1>6. frames[f].left \in 0..MaxCalls
  BY ActivationFields
<1>7. CASE StartsStep(f)
  <2>1. frames[f].left = 0 /\ frames'[f].left = 0 /\ frames[f].pc = "run" /\ StartStep(f)
    BY <1>7 DEF StartsStep
  <2> PICK new : new = Trim(h)
    OBVIOUS
  <2>2. ListOf(a)' = new
    BY <2>1, StartStepHistory DEF ListOf
  <2>3. Closed(h, LlmMayFail) /\ (MaxCalls < MaxHistory => TailWithin(h, MaxCalls - 0))
    BY <1>5, <2>1 DEF Progress
  <2>4. Closed(new, LlmMayFail) /\ RepliesFollow(new)
    BY <1>0, <1>3, <1>5, <2>3, TrimKeepsReplies DEF Msg
  <2>5. MaxCalls < MaxHistory => TailWithin(new, MaxCalls - 0)
    <3>1. MaxCalls - 0 = MaxCalls
      BY <1>0
    <3> QED BY <1>0, <1>3, <2>3, <3>1, TrimKeepsTail DEF Msg
  <2>6. Progress(f, new)'
    BY <2>1, <2>4, <2>5 DEF Progress, Closed, TailWithin
  <2> QED BY <1>4, <2>2, <2>4, <2>6, Established DEF Abandoned
<1>8. CASE Moves(f)
  <2>1. /\ bucket' = bucket /\ heap' = heap
        /\ frames[f].pc # "raise" /\ frames'[f].pc # "raise"
        /\ frames'[f].left = frames[f].left
    BY <1>8 DEF Moves, Kept
  <2>2. Works(f, a) /\ Works(f, a)'
    BY <1>1, <2>1 DEF Works
  <2> QED BY <1>4, <2>1, <2>2, Untouched
<1>9. ASSUME NEW n \in 0..MaxCalls, Answers(f, n)
      PROVE  AgentInv(a)'
  <2>1. /\ bucket' = bucket /\ Appends(f, AI(f, n))
        /\ frames[f].pc = "llm" /\ frames'[f].left = n /\ n \in Nat
    BY <1>9 DEF Answers, Kept
  <2> PICK new : new = Append(h, AI(f, n))
    OBVIOUS
  <2>2. ListOf(a)' = new
    BY <1>2, <2>1 DEF ListOf, Appends, TypeOK
  <2>3. Closed(h, LlmMayFail)
    BY <1>5, <2>1 DEF Settled, Progress
  <2>4. /\ n = 0 => Closed(new, LlmMayFail)
        /\ Open(new, LlmMayFail, f, n)
    BY <1>0, <1>3, <2>3, AnswerOpens DEF Msg
  <2>5. AI(f, n) \in Msg /\ ~IsTool(AI(f, n))
    BY <1>0, MessageTypes DEF AI, IsTool
  <2>6. RepliesFollow(new)
    BY <1>0, <1>3, <1>5, <2>5, OtherFollows DEF Msg
  <2>7. TailWithin(new, MaxCalls - n)
    <3>1. MaxCalls - n \in Int /\ MaxCalls - n >= 0
      BY <1>0
    <3> QED BY <1>0, <1>3, <2>5, <3>1, TailGrows DEF Msg
  <2>8. Progress(f, new)'
    BY <2>1, <2>4, <2>7 DEF Progress, Closed, Open, TailWithin
  <2>9. frames'[f].pc # "raise" /\ Works(f, a)'
    BY <1>1, <1>9 DEF Works, Answers
  <2> QED BY <1>4, <2>2, <2>6, <2>8, <2>9, Established
<1>10. CASE Fails(f)
  <2>1. /\ bucket' = bucket /\ heap' = heap
        /\ frames[f].pc = "llm" /\ frames'[f].pc = "raise"
    BY <1>10 DEF Fails, Kept
  <2>2. Closed(h, LlmMayFail)
    BY <1>5, <2>1 DEF Settled, Progress
  <2>3. ListOf(a)' = h /\ ~Works(f, a)'
    BY <2>1 DEF ListOf, Works
  <2> QED BY <1>4, <1>5, <2>2, <2>3, Established DEF Abandoned
<1>11. CASE Replies(f)
  <2>1. /\ bucket' = bucket /\ Appends(f, Tool(f))
        /\ frames[f].pc \in {"run", "tool"} /\ frames'[f].pc = "run"
        /\ frames[f].left > 0 /\ frames'[f].left = frames[f].left - 1
    BY <1>11 DEF Replies, Kept
  <2>2. ListOf(a)' = Append(h, Tool(f))
    BY <1>2, <2>1 DEF ListOf, Appends, TypeOK
  <2>3. Progress(f, h)
    BY <1>5, <2>1
  <2>4. RepliesFollow(Append(h, Tool(f))) /\ Progress(f, Append(h, Tool(f)))'
    BY <1>0, <1>3, <1>5, <1>6, <2>1, <2>3, ReplyProgress
  <2>5. Works(f, a)'
    BY <1>1, <2>1 DEF Works
  <2> QED BY <1>4, <2>2, <2>4, <2>5, Established
<1> QED BY <1>7, <1>8, <1>9, <1>10, <1>11, LocalCases


LEMMA AssignHistory ==
  ASSUME TypeOK, OneEach, OneEach', BucketInv, HistoryInv,
         NEW b \in Specialists \cup {Unknown}, NEW f \in Ids, Assign(b, f)
  PROVE  HistoryInv'
<1>1. b \in Specialists /\ Begin(frames, f, b, 0, f, <<>>)
  BY DEF Assign
<1>2. /\ f \notin live /\ live' = live \cup {f}
      /\ frames'[f].agent = b /\ frames'[f].pc = "run"
      /\ \A g \in live : frames'[g] = frames[g]
  BY <1>1, AssignEffect
<1>3. /\ frames'[f].left = 0
      /\ heap'[bucket'[b]] = Append(IF bucket[b] = 0 THEN <<>> ELSE heap[bucket[b]], Human(f))
      /\ OthersKeep(b)
  BY <1>1, BeginHistory
<1>4. AgentInv(b)'
  <2>1. \A g \in live : frames[g].agent # b /\ frames'[g].agent # b
    BY <1>2 DEF OneEach
  <2>2. AgentInv(b)
    BY <1>1 DEF HistoryInv
  <2> QED BY <1>1, <1>2, <1>3, <2>1, <2>2, BegunInv
<1>5. ASSUME NEW a \in Specialists, a # b
      PROVE  AgentInv(a)'
  <2>1. /\ \A g : Works(g, a)' => Works(g, a) /\ frames'[g].left = frames[g].left
        /\ \A g : Works(g, a) => Works(g, a)'
    BY <1>2, <1>5 DEF Works
  <2>2. /\ bucket'[a] = bucket[a]
        /\ bucket[a] # 0 => heap'[bucket[a]] = heap[bucket[a]]
    BY <1>3, <1>5 DEF OthersKeep
  <2> QED BY <2>1, <2>2, Untouched DEF HistoryInv
<1> QED BY <1>4, <1>5 DEF HistoryInv

LEMMA DiscussHistory ==
  ASSUME TypeOK, OneEach, OneEach', BucketInv, HistoryInv, NEW f \in live,
         NEW t \in Specialists \cup {Unknown}, NEW g \in Ids, Discuss(f, t, g)
  PROVE  HistoryInv'
<1>1. /\ t \in Specialists /\ g \notin live /\ live' = live \cup {g}
      /\ frames[f].pc = "run" /\ frames'[f].pc = "discuss"
      /\ \A h \in live :
           /\ frames'[h].agent = frames[h].agent
           /\ frames'[h].left = frames[h].left
           /\ h # f => frames'[h].pc = frames[h].pc
      /\ frames'[g].agent = t /\ frames'[g].pc = "run"
  BY DiscussEffect
<1>2. PICK fs, task, chain : Begin(fs, g, t, f, task, chain)
  BY DEF Discuss
<1>3. /\ frames'[g].left = 0
      /\ heap'[bucket'[t]] = Append(IF bucket[t] = 0 THEN <<>> ELSE heap[bucket[t]], Human(g))
      /\ OthersKeep(t)
  <2>1. t \in Specialists
    BY <1>1
  <2> QED BY <1>2, <2>1, BeginHistory
<1>4. AgentInv(t)'
  <2>1. \A h \in live : frames[h].agent # t /\ frames'[h].agent # t
    BY <1>1 DEF OneEach
  <2>2. AgentInv(t)
    BY <1>1 DEF HistoryInv
  <2> QED BY <1>1, <1>3, <2>1, <2>2, BegunInv
<1>5. ASSUME NEW a \in Specialists, a # t
      PROVE  AgentInv(a)'
  <2>1. /\ \A h : Works(h, a)' => Works(h, a) /\ frames'[h].left = frames[h].left
        /\ \A h : Works(h, a) => Works(h, a)'
    BY <1>1, <1>5 DEF Works
  <2>2. /\ bucket'[a] = bucket[a]
        /\ bucket[a] # 0 => heap'[bucket[a]] = heap[bucket[a]]
    BY <1>3, <1>5 DEF OthersKeep
  <2> QED BY <2>1, <2>2, Untouched DEF HistoryInv
<1> QED BY <1>4, <1>5 DEF HistoryInv

LEMMA LocalHistory ==
  ASSUME TypeOK, CallTree, OneEach, BucketInv, Settled, HistoryInv,
         NEW f \in live, LocalAction(f)
  PROVE  HistoryInv'
<1> PICK b : b = frames[f].agent
  OBVIOUS
<1>1. b \in Specialists
  BY ActivationFields
<1>2. AgentInv(b)'
  BY <1>1, LocalInv DEF HistoryInv
<1>3. /\ live' = live
      /\ \A g \in live \ {f} : frames'[g] = frames[g]
      /\ frames'[f].agent = b
  BY LocalActions DEF LocalStep, Local, CallTree
<1>4. OthersKeep(b)
  <2>1. frames[f].list = bucket[b] /\ bucket[b] # 0
    BY <1>1, ActivationFields, ListsAreNotZero DEF BucketInv, BucketHolds
  <2>2. \A a \in Specialists \ {b} : bucket[a] # bucket[b]
    BY <1>1, <2>1 DEF BucketInv, BucketsApart
  <2>3. heap \in [Lists -> Seq(Msg)]
    BY DEF TypeOK, Msg
  <2>4. CASE StartsStep(f)
    BY <1>1, <2>4, StartStepHistory DEF StartsStep
  <2>5. CASE Kept(f) /\ UNCHANGED heap
    BY <2>5 DEF Kept, OthersKeep
  <2>6. ASSUME NEW m, Kept(f), Appends(f, m)
        PROVE  OthersKeep(b)
    <3>1. \A a \in Specialists \ {b} : bucket[a] # 0 => bucket[a] \in Lists
      BY DEF TypeOK
    <3>2. \A q \in Lists : q # bucket[b] => heap'[q] = heap[q]
      BY <2>1, <2>3, <2>6 DEF Appends
    <3> QED BY <2>2, <2>6, <3>1, <3>2 DEF Kept, OthersKeep
  <2> QED BY <2>4, <2>5, <2>6, LocalCases DEF Moves, Answers, Fails, Replies
<1>5. ASSUME NEW a \in Specialists, a # b
      PROVE  AgentInv(a)'
  <2>1. /\ \A g : Works(g, a)' => Works(g, a) /\ frames'[g].left = frames[g].left
        /\ \A g : Works(g, a) => Works(g, a)'
    BY <1>3, <1>5 DEF Works
  <2>2. /\ bucket'[a] = bucket[a]
        /\ bucket[a] # 0 => heap'[bucket[a]] = heap[bucket[a]]
    BY <1>4, <1>5 DEF OthersKeep
  <2> QED BY <2>1, <2>2, Untouched DEF HistoryInv
<1> QED BY <1>2, <1>5 DEF HistoryInv

(* An activation ends: the agents that neither it nor its caller is.       *)
LEMMA PopUntouched ==
  ASSUME TypeOK, NEW f \in live, Popped(f), NEW a \in Specialists, AgentInv(a),
         bucket'[a] = bucket[a],
         bucket[a] # 0 => heap'[bucket[a]] = heap[bucket[a]],
         ~Works(f, a),
         frames[f].parent \in live => frames[frames[f].parent].agent # a
  PROVE  AgentInv(a)'
<1> PICK p : p = frames[f].parent
  OBVIOUS
<1>1. /\ live' = live \ {f}
      /\ \A g \in live' : frames'[g].agent = frames[g].agent
      /\ \A g \in live' : g # p => frames'[g] = frames[g]
  BY DEF Popped
<1>2. ASSUME NEW g, Works(g, a)'
      PROVE  Works(g, a) /\ frames'[g].left = frames[g].left
  <2>1. g \in live /\ g # p
    BY <1>1, <1>2 DEF Works
  <2> QED BY <1>1, <1>2, <2>1 DEF Works
<1>3. ASSUME NEW g, Works(g, a)
      PROVE  Works(g, a)'
  <2>1. g # f /\ g # p
    BY <1>1, <1>3 DEF Works
  <2> QED BY <1>1, <1>3, <2>1 DEF Works
<1> QED BY <1>2, <1>3, Untouched

(* The agent whose activation returns leaves a closed history.             *)
LEMMA ReturnedInv ==
  ASSUME TypeOK, OneEach, BucketInv, Settled, NEW f \in live, Popped(f),
         frames[f].pc = "return", NEW a \in Specialists, a = frames[f].agent, AgentInv(a),
         bucket'[a] = bucket[a],
         heap'[bucket[a]] = heap[bucket[a]]
  PROVE  AgentInv(a)'
<1> PICK h : h = ListOf(a)
  OBVIOUS
<1>1. bucket[a] # 0
  BY ActivationFields, ListsAreNotZero DEF BucketInv, BucketHolds
<1>2. RepliesFollow(h) /\ Progress(f, h)
  BY <1>1 DEF AgentInv, Works
<1>3. Abandoned(h)
  BY <1>2 DEF Settled, Progress, Abandoned
<1>4. ListOf(a)' = h
  BY DEF ListOf
<1>5. ~Works(f, a)' /\ \A g : Works(g, a)' => g = f
  BY DEF Popped, OneEach, Works
<1> QED BY <1>2, <1>3, <1>4, <1>5, Established

(* The caller's record after a discussion.                                 *)
LEMMA CallerAfter ==
  ASSUME TypeOK, NEW f \in live, NEW p \in live, p # f
  PROVE  /\ frames' = Without(Replied(frames, p), f) =>
              frames'[p].left = frames[p].left - 1 /\ frames'[p].pc = "run"
         /\ frames' = Without([frames EXCEPT ![p].pc = "raise"], f) =>
              frames'[p].pc = "raise"
<1> PICK old : old = frames[p]
  OBVIOUS
<1>1. old \in Activation /\ frames \in [live -> Activation]
  BY DEF TypeOK
<1>2. ASSUME NEW fs, NEW rec, fs = [frames EXCEPT ![p] = rec], frames' = Without(fs, f)
      PROVE  frames'[p] = rec
  BY <1>1, <1>2 DEF Without, live
<1>3. ASSUME frames' = Without(Replied(frames, p), f)
      PROVE  frames'[p].left = old.left - 1 /\ frames'[p].pc = "run"
  <2>1. frames'[p] = [old EXCEPT !.left = @ - 1, !.pc = "run"]
    BY <1>1, <1>2, <1>3 DEF Replied
  <2> QED BY <1>1, <2>1 DEF Activation
<1>4. ASSUME frames' = Without([frames EXCEPT ![p].pc = "raise"], f)
      PROVE  frames'[p].pc = "raise"
  <2>1. frames'[p] = [old EXCEPT !.pc = "raise"]
    BY <1>1, <1>2, <1>4
  <2> QED BY <1>1, <2>1 DEF Activation
<1> QED BY <1>3, <1>4

LEMMA ReplyToPeerHistory ==
  ASSUME TypeOK, CallTree, OneEach, BucketInv, Settled, HistoryInv,
         NEW f \in live, ReplyToPeer(f)
  PROVE  HistoryInv'
<1> PICK p, a : p = frames[f].parent /\ a = frames[f].agent
  OBVIOUS
<1>1. /\ frames[f].pc = "return" /\ p # 0 /\ bucket' = bucket /\ AddReply(p)
      /\ frames' = Without(Replied(frames, p), f)
  BY DEF ReplyToPeer
<1>2. p \in live /\ p # f /\ frames[p].pc = "discuss" /\ frames[p].left > 0
  BY <1>1, CallerFacts
<1>3. Popped(f)
  BY ReplyToPeerPops
<1> PICK b, h : b = frames[p].agent /\ h = ListOf(b)
  OBVIOUS
<1>4. /\ a \in Specialists /\ b \in Specialists /\ a # b /\ p \in Ids
      /\ frames[p].left \in 0..MaxCalls
  BY <1>2, ActivationFields DEF OneEach
<1>5. frames[p].list = bucket[b] /\ bucket[b] \in Lists /\ bucket[b] # 0
  BY <1>2, <1>4, ActivationFields, ListsAreNotZero DEF BucketInv, BucketHolds
<1>6. /\ heap'[bucket[b]] = Append(h, Tool(p))
      /\ \A q \in Lists : q # bucket[b] => heap'[q] = heap[q]
  BY <1>1, <1>5 DEF AddReply, TypeOK, ListOf
<1>7. \A c \in Specialists \ {b} : bucket[c] # 0 => heap'[bucket[c]] = heap[bucket[c]]
  <2>1. \A c \in Specialists \ {b} : bucket[c] # bucket[b]
    BY <1>4, <1>5 DEF BucketInv, BucketsApart
  <2>2. \A c \in Specialists : bucket[c] # 0 => bucket[c] \in Lists
    BY DEF TypeOK
  <2> QED BY <1>6, <2>1, <2>2
<1>8. AgentInv(b)'
  <2>1. frames'[p].left = frames[p].left - 1 /\ frames'[p].pc = "run"
    BY <1>1, <1>2, CallerAfter
  <2>2. h \in Seq(Msg)
    BY <1>4, <1>5, ListTypes
  <2>3. RepliesFollow(h) /\ Progress(p, h)
    BY <1>2, <1>4, <1>5 DEF HistoryInv, AgentInv, Works
  <2>4. RepliesFollow(Append(h, Tool(p))) /\ Progress(p, Append(h, Tool(p)))'
    BY <1>2, <1>4, <2>1, <2>2, <2>3, ReplyProgress
  <2>5. ListOf(b)' = Append(h, Tool(p))
    BY <1>1, <1>6 DEF ListOf
  <2>6. Works(p, b)' /\ \A g : Works(g, b)' => g = p
    BY <1>2, <1>3, <2>1 DEF Popped, OneEach, Works
  <2> QED BY <1>4, <2>4, <2>5, <2>6, Established
<1>9. AgentInv(a)'
  <2>1. bucket[a] # 0
    BY <1>4, ActivationFields, ListsAreNotZero DEF BucketInv, BucketHolds
  <2>2. heap'[bucket[a]] = heap[bucket[a]]
    BY <1>4, <1>7, <2>1
  <2> QED BY <1>1, <1>3, <1>4, <2>2, ReturnedInv DEF HistoryInv
<1>10. ASSUME NEW c \in Specialists, c # a, c # b
       PROVE  AgentInv(c)'
  <2>1. ~Works(f, c)
    BY <1>10 DEF Works
  <2>2. bucket[c] # 0 => heap'[bucket[c]] = heap[bucket[c]]
    BY <1>7, <1>10
  <2> QED BY <1>1, <1>3, <1>10, <2>1, <2>2, PopUntouched DEF HistoryInv
<1> QED BY <1>8, <1>9, <1>10 DEF HistoryInv

LEMMA RaiseToPeerHistory ==
  ASSUME TypeOK, CallTree, OneEach, QuietInv, BucketInv, HistoryInv,
         NEW f \in live, RaiseToPeer(f)
  PROVE  HistoryInv'
<1> PICK p : p = frames[f].parent
  OBVIOUS
<1>1. /\ frames[f].pc = "raise" /\ p # 0 /\ bucket' = bucket /\ heap' = heap
      /\ frames' = Without([frames EXCEPT ![p].pc = "raise"], f)
  BY DEF RaiseToPeer
<1>2. /\ p \in live /\ p # f /\ frames[p].pc = "discuss" /\ frames[p].left > 0
      /\ LlmMayFail
  BY <1>1, CallerFacts DEF QuietInv, RaisesOnlyOnFailure
<1>3. Popped(f)
  BY RaiseToPeerPops
<1> PICK b, h : b = frames[p].agent /\ h = ListOf(b)
  OBVIOUS
<1>4. b \in Specialists /\ p \in Ids /\ frames[p].left \in 0..MaxCalls /\ bucket[b] # 0
  BY <1>2, ActivationFields, ListsAreNotZero DEF BucketInv, BucketHolds
<1>5. AgentInv(b)'
  <2>1. frames'[p].pc = "raise"
    BY <1>1, <1>2, CallerAfter
  <2>2. RepliesFollow(h) /\ Progress(p, h)
    BY <1>2, <1>4 DEF HistoryInv, AgentInv, Works
  <2>3. Abandoned(h)
    <3>1. frames[p].left \in 1..MaxCalls
      BY <1>2, <1>4
    <3> QED BY <1>2, <1>4, <2>2, <3>1 DEF Progress, Abandoned
  <2>4. ListOf(b)' = h
    BY <1>1 DEF ListOf
  <2>5. ~Works(p, b)' /\ \A g : Works(g, b)' => g = p
    BY <1>2, <1>3, <2>1 DEF Popped, OneEach, Works
  <2> QED BY <1>4, <2>2, <2>3, <2>4, <2>5, Established
<1>6. ASSUME NEW c \in Specialists, c # b
      PROVE  AgentInv(c)'
  <2>1. ~Works(f, c)
    BY <1>1 DEF Works
  <2> QED BY <1>1, <1>3, <1>6, <2>1, PopUntouched DEF HistoryInv
<1> QED BY <1>5, <1>6 DEF HistoryInv

LEMMA RootHistory ==
  ASSUME TypeOK, CallTree, OneEach, BucketInv, Settled, HistoryInv,
         NEW f \in live, ReportToPm(f) \/ RaiseToPm(f)
  PROVE  HistoryInv'
<1> PICK a : a = frames[f].agent
  OBVIOUS
<1>1. Popped(f)
  BY Pops
<1>2. /\ frames[f].parent = 0 /\ bucket' = bucket /\ heap' = heap
      /\ frames[f].pc = "return" \/ frames[f].pc = "raise"
  BY DEF ReportToPm, RaiseToPm
<1>3. 0 \notin live /\ a \in Specialists
  BY ActivationFields DEF Ids
<1>4. ASSUME NEW c \in Specialists
      PROVE  AgentInv(c)'
  <2>1. CASE Works(f, c)
    <3>1. c = a /\ frames[f].pc = "return"
      BY <1>2, <2>1 DEF Works
    <3> QED BY <1>1, <1>2, <1>3, <3>1, ReturnedInv DEF HistoryInv
  <2>2. CASE ~Works(f, c)
    BY <1>1, <1>2, <1>3, <2>2, PopUntouched DEF HistoryInv
  <2> QED BY <2>1, <2>2
<1> QED BY <1>4 DEF HistoryInv

LEMMA HistoryStep ==
  ASSUME TypeOK, CallTree, OneEach, OneEach', QuietInv, BucketInv, Settled, HistoryInv,
         [Next]_vars
  PROVE  HistoryInv'
<1>1. CASE UNCHANGED teamVars
  <2>1. bucket' = bucket /\ heap' = heap /\ frames' = frames /\ live' = live
    BY <1>1 DEF teamVars, live
  <2>2. \A a, g : Works(g, a)' <=> Works(g, a)
    BY <2>1 DEF Works
  <2> QED BY <2>1, <2>2, Untouched DEF HistoryInv
<1>2. CASE PmAction
  BY <1>1, <1>2, PmActions
<1>3. CASE \E a \in Specialists \cup {Unknown}, f \in Ids : Assign(a, f)
  BY <1>3, AssignHistory
<1>4. CASE \E f \in live : LocalAction(f)
  BY <1>4, LocalHistory
<1>5. CASE \E f \in live, t \in Specialists \cup {Unknown}, g \in Ids : Discuss(f, t, g)
  BY <1>5, DiscussHistory
<1>6. CASE \E f \in live : ReplyToPeer(f)
  BY <1>6, ReplyToPeerHistory
<1>7. CASE \E f \in live : RaiseToPeer(f)
  BY <1>7, RaiseToPeerHistory
<1>8. CASE \E f \in live : ReportToPm(f) \/ RaiseToPm(f)
  BY <1>8, RootHistory
<1>9. CASE UNCHANGED vars
  BY <1>1, <1>9 DEF vars
<1> QED BY <1>2, <1>3, <1>4, <1>5, <1>6, <1>7, <1>8, <1>9, NextActions

(* The inductive invariant of one task at a time.                          *)
SerialInv == IInv /\ QuietInv /\ BucketInv /\ Settled /\ HistoryInv

LEMMA SerialInit == Init => SerialInv
<1> SUFFICES ASSUME Init PROVE SerialInv
  OBVIOUS
<1>1. live = {} /\ \A a \in Specialists : bucket[a] = 0
  BY DEF Init, live
<1>2. BucketInv /\ Settled /\ HistoryInv
  BY <1>1 DEF BucketInv, BucketHolds, BucketsApart, Settled, HistoryInv, AgentInv
<1> QED BY <1>2, InitIInv, QuietInit DEF SerialInv

LEMMA SerialAlways == SerialPm => (Spec => []SerialInv)
<1> SUFFICES ASSUME SerialPm PROVE Spec => []SerialInv
  OBVIOUS
<1>1. IInv /\ QuietInv => OneEach
  BY SerialIsOneEach
<1>2. IInv' /\ QuietInv' => OneEach'
  BY <1>1, PTL
<1>3. SerialInv /\ [Next]_vars => SerialInv'
  <2> SUFFICES ASSUME SerialInv, [Next]_vars PROVE SerialInv'
    OBVIOUS
  <2>1. IInv /\ TypeOK /\ CallTree /\ QuietInv /\ BucketInv /\ Settled /\ HistoryInv
    BY DEF SerialInv, IInv
  <2>2. IInv'
    BY <2>1, NextIInv
  <2>3. QuietInv'
    BY <2>1, QuietStep DEF SerialPm, QuietPm
  <2>4. OneEach /\ OneEach'
    BY <1>1, <1>2, <2>1, <2>2, <2>3
  <2>5. BucketInv' /\ Settled' /\ HistoryInv'
    BY <2>1, <2>4, BucketStep, SettledStep, HistoryStep
  <2> QED BY <2>2, <2>3, <2>5 DEF SerialInv
<1> QED BY <1>3, SerialInit, PTL DEF Spec

(* With one task at a time, whatever is appended to, exported or trimmed   *)
(* through the bucket is the very list that the agent's suspended          *)
(* activation goes on writing: nothing it adds is lost.                    *)
THEOREM BucketAlwaysInSync == SerialPm => (Spec => []BucketInSync)
<1> SUFFICES ASSUME SerialPm PROVE Spec => []BucketInSync
  OBVIOUS
<1>1. SerialInv => BucketInSync
  BY DEF SerialInv, BucketInv, BucketHolds, BucketInSync
<1> QED BY <1>1, SerialAlways, PTL

(* What an activation that waits for its LLM has been sent.                *)
LEMMA SentWindow ==
  ASSUME SerialInv, NEW f \in live, frames[f].pc = "llm"
  PROVE  /\ Window(f) \in Seq(Msg)
         /\ Closed(Window(f), LlmMayFail) /\ RepliesFollow(Window(f))
         /\ MaxCalls < MaxHistory => TailWithin(Window(f), MaxCalls)
<1> PICK a : a = frames[f].agent
  OBVIOUS
<1>1. TypeOK /\ a \in Specialists /\ MaxCalls \in Nat
  BY ActivationFields, TeamAssumption DEF SerialInv, IInv
<1>2. bucket[a] = frames[f].list /\ bucket[a] # 0
  BY <1>1, ActivationFields, ListsAreNotZero DEF SerialInv, BucketInv, BucketHolds
<1>3. Window(f) = ListOf(a)
  BY <1>2 DEF Window, ListOf
<1>4. ListOf(a) \in Seq(Msg)
  BY <1>1, <1>2, ListTypes
<1>5. frames[f].left = 0 /\ RepliesFollow(ListOf(a)) /\ Progress(f, ListOf(a))
  BY <1>1, <1>2 DEF SerialInv, Settled, HistoryInv, AgentInv, Works
<1>6. MaxCalls - 0 = MaxCalls
  BY <1>1
<1> QED BY <1>3, <1>4, <1>5, <1>6 DEF Progress

SentPaired ==
  \A f \in live : frames[f].pc = "llm" =>
    PairedOrCutOff(Window(f)) /\ (~LlmMayFail => Paired(Window(f)))

SentBounded ==
  \A f \in live : frames[f].pc = "llm" =>
    Len(Window(f)) \in Nat /\ Len(Window(f)) >= 1 /\ ~IsTool(Head(Window(f)))

LEMMA SentIsPaired == SerialInv => SentPaired
<1>1. LlmMayFail \in BOOLEAN
  BY TeamAssumption
<1> QED BY <1>1, SentWindow, ClosedIsPaired DEF SentPaired

(* With one task at a time, every call an LLM is sent has its replies,     *)
(* right after it, except the last call of a task that a failed LLM ended, *)
(* and no reply is without its call: appending, trimming and discussions   *)
(* never separate them, whatever the limits.                               *)
THEOREM PairedOrCutOffAlways == SerialPm => (Spec => PairedOrCutOffAtInvoke)
<1> SUFFICES ASSUME SerialPm PROVE Spec => PairedOrCutOffAtInvoke
  OBVIOUS
<1>1. SerialInv' => SentPaired'
  BY SentIsPaired, PTL
<1>2. SerialInv' => [\A f \in live : Invokes(f) => PairedOrCutOff(Window(f)')]_vars
  BY <1>1 DEF SentPaired, Invokes
<1> QED BY <1>2, SerialAlways, PTL DEF PairedOrCutOffAtInvoke

(* And where no LLM call fails for good, there are no exceptions.          *)
THEOREM PairedAlways == SerialPm /\ ~LlmMayFail => (Spec => PairedAtInvoke)
<1> SUFFICES ASSUME SerialPm, ~LlmMayFail PROVE Spec => PairedAtInvoke
  OBVIOUS
<1>1. SerialInv' => SentPaired'
  BY SentIsPaired, PTL
<1>2. SerialInv' => [\A f \in live : Invokes(f) => Paired(Window(f)')]_vars
  BY <1>1 DEF SentPaired, Invokes
<1> QED BY <1>2, SerialAlways, PTL DEF PairedAtInvoke

(* Only the top of the tool loop calls an LLM.                             *)
LEMMA InvokesAtTheTop ==
  ASSUME TypeOK, CallTree, [Next]_vars, NEW f \in live, Invokes(f)
  PROVE  StartStep(f)
<1>0. frames[f].pc = "run" /\ f \in live' /\ frames'[f].pc = "llm"
  BY DEF Invokes
<1>1. ~ UNCHANGED frames
  BY <1>0
<1>2. ~ PmAction /\ ~ UNCHANGED vars
  BY <1>1, PmActions DEF vars, teamVars
<1>3. ASSUME NEW a \in Specialists \cup {Unknown}, NEW g \in Ids, Assign(a, g)
      PROVE  FALSE
  <2>1. a \in Specialists
    BY <1>3 DEF Assign
  <2> QED BY <1>0, <1>3, <2>1, AssignEffect
<1>4. ASSUME NEW g \in live, LocalAction(g)
      PROVE  StartStep(f)
  <2>1. \A h \in live \ {g} : frames'[h] = frames[h]
    BY <1>4, LocalActions DEF LocalStep, Local, CallTree
  <2>2. g = f
    BY <1>0, <2>1
  <2> QED BY <1>0, <1>4, <2>2, LocalCases DEF StartsStep, Moves, Answers, Fails, Replies
<1>5. ASSUME NEW g \in live, NEW t \in Specialists \cup {Unknown}, NEW h \in Ids, Discuss(g, t, h)
      PROVE  FALSE
  <2>1. /\ frames'[g].pc = "discuss"
        /\ \A i \in live : i # g => frames'[i].pc = frames[i].pc
    BY <1>5, DiscussEffect
  <2> QED BY <1>0, <2>1
<1>6. ASSUME NEW g \in live,
             ReplyToPeer(g) \/ ReportToPm(g) \/ RaiseToPeer(g) \/ RaiseToPm(g)
      PROVE  FALSE
  BY <1>0, <1>6, Pops DEF Popped
<1> QED BY <1>2, <1>3, <1>4, <1>5, <1>6, NextActions

(* A history whose replies follow their calls does not begin with one, and *)
(* one that ends in a bounded number of replies is not empty.              *)
LEMMA WindowHead ==
  ASSUME NEW M, NEW h \in Seq(M), RepliesFollow(h), NEW n, TailWithin(h, n)
  PROVE  Len(h) \in Nat /\ Len(h) >= 1 /\ ~IsTool(Head(h))
<1>1. Len(h) \in Nat /\ DOMAIN h = 1 .. Len(h)
  OBVIOUS
<1>2. PICK j : j \in DOMAIN h
  BY DEF TailWithin
<1>3. Len(h) >= 1 /\ 1 \in DOMAIN h
  BY <1>1, <1>2
<1>4. Head(h) = h[1]
  BY <1>3
<1>5. ~IsTool(h[1])
  BY <1>3 DEF RepliesFollow
<1> QED BY <1>1, <1>3, <1>4, <1>5

(* With one task at a time, and a limit that the replies of one answer do  *)
(* not reach, what an LLM is sent is bounded, is not empty and does not    *)
(* begin with a reply.  Where one answer may fill the limit, trimming may  *)
(* skip everything.                                                        *)
THEOREM WindowAlways ==
  SerialPm /\ MaxCalls < MaxHistory => (Spec => WindowAtInvoke)
<1> SUFFICES ASSUME SerialPm, MaxCalls < MaxHistory PROVE Spec => WindowAtInvoke
  OBVIOUS
<1>1. SerialInv => SentBounded
  BY SentWindow, WindowHead DEF SentBounded
<1>2. SerialInv' => SentBounded'
  BY <1>1, PTL
<1>3. ASSUME SerialInv, [Next]_vars, NEW f \in live, Invokes(f), SerialInv'
      PROVE  Len(Window(f)') <= MaxHistory
  <2> PICK a : a = frames[f].agent
    OBVIOUS
  <2>1. TypeOK /\ CallTree /\ BucketInv
    BY <1>3 DEF SerialInv, IInv
  <2>2. StartStep(f) /\ a \in Specialists
    BY <1>3, <2>1, InvokesAtTheTop, ActivationFields
  <2>3. /\ frames'[f].list = bucket'[a] /\ bucket[a] \in Lists
        /\ heap'[bucket'[a]] = Trim(heap[bucket[a]])
    BY <2>1, <2>2, StartStepHistory
  <2>4. heap[bucket[a]] \in Seq(Msg)
    BY <2>1, <2>3 DEF TypeOK, Msg
  <2>5. Window(f)' = Trim(heap[bucket[a]])
    BY <2>3 DEF Window
  <2> QED BY <2>4, <2>5, TrimBounds
<1>4. SerialInv /\ [Next]_vars /\ SerialInv' =>
        [\A f \in live : Invokes(f) =>
           /\ Len(Window(f)') \in 1..MaxHistory
           /\ ~IsTool(Head(Window(f)'))]_vars
  <2> SUFFICES ASSUME SerialInv, [Next]_vars, SerialInv', NEW f \in live, Invokes(f)
               PROVE  Len(Window(f)') \in 1..MaxHistory /\ ~IsTool(Head(Window(f)'))
    OBVIOUS
  <2>1. /\ Len(Window(f)') \in Nat /\ Len(Window(f)') >= 1
        /\ ~IsTool(Head(Window(f)'))
    BY <1>2 DEF SentBounded, Invokes
  <2>2. Len(Window(f)') <= MaxHistory
    BY <1>3
  <2> QED BY <2>1, <2>2, MaxHistoryAssumption
<1> QED BY <1>4, SerialAlways, PTL DEF WindowAtInvoke, Spec
=============================================================================
