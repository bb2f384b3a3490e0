-------------------------- MODULE RunCommand_proofs --------------------------
(***************************************************************************)
(* Theorems about RunCommand, for any number of background processes.      *)
(***************************************************************************)
EXTENDS RunCommand, TLAPS

(* What has been killed, or never was, at each statement.                  *)
KillInv ==
  /\ pc = "start" => main = "none"
  /\ main = "none" => Live = {} /\ container = "none"
  /\ sandbox => Live = {}
  /\ ~sandbox => container = "none"
  /\ pc \in {"communicate again", "kill container finally", "kill group finally",
             "report", "returned"} => main # "running"
  /\ pc \in {"communicate again", "report", "returned"} => \A h \in Live : OutOfReach(h)
  /\ pc \in {"kill group finally", "report", "returned"} /\ container \in {"asked", "running"} =>
       spared

LEMMA InitInv == Init => TypeOK /\ KillInv
BY DEF Init, TypeOK, Statements, Helper, KillInv, Live, OutOfReach

LEMMA CallKeeps ==
  ASSUME TypeOK, KillInv, Call
  PROVE  TypeOK' /\ KillInv'
<1> USE DEF TypeOK, Statements, Helper, KillInv, Live, OutOfReach, settings, environment
<1>1. CASE Start
  BY <1>1 DEF Start
<1>2. CASE Communicate
  BY <1>2 DEF Communicate, EndOfOutput, Finally, OnTimeout
<1>3. CASE KillContainer
  BY <1>3 DEF KillContainer
<1>4. CASE KillGroup
  BY <1>4 DEF KillGroup
<1>5. CASE Report
  BY <1>5 DEF Report
<1> QED BY <1>1, <1>2, <1>3, <1>4, <1>5 DEF Call

LEMMA EnvironmentKeeps ==
  ASSUME TypeOK, KillInv, Environment
  PROVE  TypeOK' /\ KillInv'
<1> USE DEF TypeOK, Statements, Helper, KillInv, Live, OutOfReach, settings
<1>1. ASSUME NEW h \in Helpers, NEW output \in {"pipe", "file"}, Fork(h, output)
      PROVE  TypeOK' /\ KillInv'
  <2>1. /\ ~sandbox /\ main # "none"
        /\ helper' = [helper EXCEPT ![h] = output]
        /\ UNCHANGED <<settings, pc, timedOut, result, main, escaped, container, spared>>
    BY <1>1 DEF Fork
  <2>2. main = "running" \/ \E g \in Live : g \notin escaped
    BY <1>1 DEF Fork
  <2>3. helper' \in [Helpers -> {"none", "pipe", "file"}]
    BY <2>1
  <2>4. TypeOK'
    BY <2>1, <2>3
  <2>5. pc \in {"communicate again", "report", "returned"} => ~posix
    BY <2>2
  <2> QED BY <2>1, <2>4, <2>5
<1>2. ASSUME NEW h \in Helpers, Escape(h) \/ HelperExits(h)
      PROVE  TypeOK' /\ KillInv'
  <2>1. CASE Escape(h)
    BY <2>1 DEF Escape
  <2>2. CASE HelperExits(h)
    <3>1. /\ helper' = [helper EXCEPT ![h] = "none"] /\ escaped' = escaped \ {h}
          /\ UNCHANGED <<settings, pc, timedOut, result, main, container, spared>>
      BY <2>2 DEF HelperExits
    <3>2. TypeOK'
      BY <3>1
    <3>3. /\ Live' \subseteq Live
          /\ \A g \in Live' : g # h
      BY <3>1
    <3> QED BY <3>1, <3>2, <3>3
  <2> QED BY <1>2, <2>1, <2>2
<1>3. CASE MainExits
  BY <1>3 DEF MainExits
<1>4. CASE AskDaemon \/ DaemonActs
  BY <1>4 DEF AskDaemon, DaemonActs
<1> QED BY <1>1, <1>2, <1>3, <1>4 DEF Environment

LEMMA InvAlways == Spec => [](TypeOK /\ KillInv)
<1>1. ASSUME TypeOK, KillInv, UNCHANGED vars PROVE TypeOK' /\ KillInv'
  <2> USE <1>1 DEF vars, settings, environment
  <2>1. TypeOK'
    BY DEF TypeOK
  <2>2. KillInv'
    BY DEF KillInv, Live, OutOfReach
  <2> QED BY <2>1, <2>2
<1>2. TypeOK /\ KillInv /\ [Next]_vars => TypeOK' /\ KillInv'
  BY <1>1, CallKeeps, EnvironmentKeeps DEF Next
<1> QED BY <1>2, InitInv, PTL DEF Spec

(* The variables of a call keep their types; it returns a result.          *)
THEOREM CommandTypeCorrect == Spec => []TypeOK
BY InvAlways, PTL

(* When run_command returns nothing of the command runs, but for what is   *)
(* out of the reach of its kills.                                          *)
THEOREM NothingIsLeaked == Spec => []NothingLeaks
<1>1. KillInv => NothingLeaks
  BY DEF KillInv, NothingLeaks
<1> QED BY <1>1, InvAlways, PTL

(* The second communicate() blocks only on a process out of the reach of   *)
(* the kill.                                                               *)
THEOREM SecondReadIsOver == Spec => []SecondReadEnds
<1>1. KillInv => SecondReadEnds
  BY DEF KillInv, SecondReadEnds, EndOfOutput
<1> QED BY <1>1, InvAlways, PTL
=============================================================================
