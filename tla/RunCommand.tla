----------------------------- MODULE RunCommand -----------------------------
(***************************************************************************)
(* One call of the run_command tool (app/agent.py), on the thread that     *)
(* LangChain gives it, against the operating system and the Docker daemon. *)
(* Calls share nothing: each has its own process group and its own         *)
(* container name, so one call stands for any number of them.              *)
(*                                                                         *)
(* The process that Popen starts is the shell of the command or, when      *)
(* commands are sandboxed, the docker client, while the container has a    *)
(* life of its own.  communicate() returns when that process has ended and *)
(* nobody holds its output pipes any more.                                 *)
(***************************************************************************)
CONSTANT Helpers    \* processes that a shell may have in the background

VARIABLES
  \* the call
  sandbox,      \* SANDBOX_COMMANDS
  posix,        \* hasattr(os, "killpg")
  pc,           \* the statement of run_command that comes next, or blocks
  timedOut,     \* timed_out
  result,       \* what the tool returned
  \* the operating system and the Docker daemon
  main,         \* the process that Popen started
  helper,       \* the background processes of the shell
  escaped,      \* those that left its process group
  container,    \* the container named container_name
  \* history variable
  spared        \* did the last `docker kill' leave a container to run?

settings    == <<sandbox, posix>>
environment == <<main, helper, escaped, container>>
vars        == <<settings, pc, timedOut, result, environment, spared>>

Statements ==
  { "start", "communicate",
    "kill container on timeout", "kill group on timeout", "communicate again",
    "kill container finally", "kill group finally", "report", "returned" }

(* A background process holds the pipes of the shell, or writes to a file. *)
Helper == {"none", "pipe", "file"}

TypeOK ==
  /\ sandbox \in BOOLEAN /\ posix \in BOOLEAN
  /\ pc \in Statements
  /\ timedOut \in BOOLEAN
  /\ result \in IF pc = "returned" THEN {"OK", "FAILED"} ELSE {"none"}
  /\ main \in {"none", "running", "exit 0", "exit 1"}
  /\ helper \in [Helpers -> Helper]
  /\ escaped \subseteq Helpers
  /\ container \in {"none", "asked", "running", "gone"}
  /\ spared \in BOOLEAN

Init ==
  /\ sandbox \in BOOLEAN /\ posix \in BOOLEAN
  /\ pc = "start"
  /\ timedOut = FALSE
  /\ result = "none"
  /\ main = "none"
  /\ helper = [h \in Helpers |-> "none"]
  /\ escaped = {}
  /\ container = "none"
  /\ spared = FALSE

Live == {h \in Helpers : helper[h] # "none"}

EndOfOutput == main # "running" /\ \A h \in Live : helper[h] # "pipe"

-----------------------------------------------------------------------------
(* run_command.                                                            *)

(* Popen.  The path jail may refuse the directory; docker may be missing.  *)
Start ==
  /\ pc = "start"
  /\ \/ /\ pc' = "communicate"
        /\ main' = "running"
        /\ UNCHANGED result
     \/ /\ pc' = "returned"
        /\ result' = "FAILED"
        /\ UNCHANGED main
  /\ UNCHANGED <<settings, timedOut, helper, escaped, container, spared>>

OnTimeout == IF sandbox THEN "kill container on timeout" ELSE "kill group on timeout"

(* Mutant: after a timeout everything has been killed already.             *)
NothingLeftToKill ==
  IF timedOut THEN "report" ELSE IF sandbox THEN "kill container finally" ELSE "kill group finally"

Finally == IF sandbox THEN "kill container finally" ELSE "kill group finally"

(* Mutant: timeout_seconds is not passed on.                               *)
CommunicateForEver ==
  /\ pc \in {"communicate", "communicate again"}
  /\ EndOfOutput
  /\ pc' = Finally
  /\ UNCHANGED <<settings, timedOut, result, environment, spared>>

(* communicate() ends, or its timeout does; the second one has none.       *)
Communicate ==
  /\ \/ pc = "communicate" /\ EndOfOutput /\ pc' = Finally /\ UNCHANGED timedOut
     \/ pc = "communicate" /\ pc' = OnTimeout /\ timedOut' = TRUE
     \/ pc = "communicate again" /\ EndOfOutput /\ pc' = Finally /\ UNCHANGED timedOut
  /\ UNCHANGED <<settings, result, environment, spared>>

(* _kill_container: `docker kill' finds a running container, or none, or   *)
(* comes too early; its own failure, or its timeout, is swallowed.         *)
KillContainer ==
  /\ \/ pc = "kill container on timeout" /\ pc' = "kill group on timeout"
     \/ pc = "kill container finally" /\ pc' = "kill group finally"
  /\ \/ container = "running" /\ container' = "gone" /\ spared' = FALSE
     \/ container \in {"none", "gone"} /\ UNCHANGED container /\ spared' = FALSE
     \/ container \in {"asked", "running"} /\ UNCHANGED container /\ spared' = TRUE
  /\ UNCHANGED <<settings, timedOut, result, main, helper, escaped>>

(* Mutant: only the process that Popen started is killed.                  *)
KillLeader ==
  /\ \/ pc = "kill group on timeout" /\ pc' = "communicate again"
     \/ pc = "kill group finally" /\ pc' = "report"
  /\ main' = IF main = "running" THEN "exit 1" ELSE main
  /\ UNCHANGED <<settings, timedOut, result, helper, escaped, container, spared>>

(* _kill_process_group: SIGKILL to the group, or, without killpg, to the   *)
(* process that Popen started.                                             *)
KillGroup ==
  /\ \/ pc = "kill group on timeout" /\ pc' = "communicate again"
     \/ pc = "kill group finally" /\ pc' = "report"
  /\ main' = IF main = "running" THEN "exit 1" ELSE main
  /\ helper' = [h \in Helpers |-> IF posix /\ h \notin escaped THEN "none" ELSE helper[h]]
  /\ UNCHANGED <<settings, timedOut, result, escaped, container, spared>>

(* Mutant: a branch without its return.                                    *)
ReportNothing ==
  /\ pc = "report"
  /\ pc' = "returned"
  /\ result' = IF ~timedOut /\ main = "exit 0" THEN "OK" ELSE result
  /\ UNCHANGED <<settings, timedOut, environment, spared>>

(* Output that is not text makes communicate() raise, which is a failure.  *)
Report ==
  /\ pc = "report"
  /\ pc' = "returned"
  /\ result' \in {"FAILED"} \cup IF ~timedOut /\ main = "exit 0" THEN {"OK"} ELSE {}
  /\ UNCHANGED <<settings, timedOut, environment, spared>>

Call == Start \/ Communicate \/ KillContainer \/ KillGroup \/ Report

-----------------------------------------------------------------------------
(* Without a sandbox: the shell and its background processes.              *)

(* The shell, or a process of its group, starts h and hands on the pipes   *)
(* or not.  A process that has left the group stands for those it starts.  *)
Fork(h, output) ==
  /\ ~sandbox
  /\ main = "running" \/ \E g \in Live \ escaped : helper[g] \in {"pipe", output}
  /\ helper[h] = "none"
  /\ helper' = [helper EXCEPT ![h] = output]
  /\ UNCHANGED <<settings, pc, timedOut, result, main, escaped, container, spared>>

(* setsid: h leaves the process group of the shell.                        *)
Escape(h) ==
  /\ h \in Live \ escaped
  /\ escaped' = escaped \cup {h}
  /\ UNCHANGED <<settings, pc, timedOut, result, main, helper, container, spared>>

HelperExits(h) ==
  /\ h \in Live
  /\ helper' = [helper EXCEPT ![h] = "none"]
  /\ escaped' = escaped \ {h}
  /\ UNCHANGED <<settings, pc, timedOut, result, main, container, spared>>

(* The shell ends; or the docker client, which need not outlive the        *)
(* container, and never stays when it has gone.                            *)
MainExits ==
  /\ main = "running"
  /\ main' \in {"exit 0", "exit 1"}
  /\ UNCHANGED <<settings, pc, timedOut, result, helper, escaped, container, spared>>

-----------------------------------------------------------------------------
(* With a sandbox: the container.                                          *)

(* The client asks the daemon, which acts on it whether the client is      *)
(* still there or not.                                                     *)
AskDaemon ==
  /\ sandbox
  /\ main = "running"
  /\ container = "none"
  /\ container' = "asked"
  /\ UNCHANGED <<settings, pc, timedOut, result, main, helper, escaped, spared>>

DaemonActs ==
  /\ \/ container = "asked" /\ container' \in {"running", "gone"}
     \/ container = "running" /\ container' = "gone"
  /\ UNCHANGED <<settings, pc, timedOut, result, main, helper, escaped, spared>>

Environment ==
  \/ \E h \in Helpers :
       (\E output \in {"pipe", "file"} : Fork(h, output)) \/ Escape(h) \/ HelperExits(h)
  \/ MainExits \/ AskDaemon \/ DaemonActs

Next == Call \/ Environment

Spec == Init /\ [][Next]_vars

(* The thread runs, and timeouts expire.  Nothing is assumed of the        *)
(* command: it may run for ever.                                           *)
FairSpec == Spec /\ WF_vars(Call)

-----------------------------------------------------------------------------
(* Who may still hold the pipes when the group has been killed.            *)
OutOfReach(h) == h \in escaped \/ ~posix

(* "Every shell command runs in a disposable container and its own process *)
(* group, force-killed on completion and on timeout" (README.md:35): when  *)
(* the tool returns nothing of the command runs, but for a process that    *)
(* left the group of an unsandboxed shell, and a container that the last   *)
(* `docker kill' failed to kill or came too early for.                     *)
NothingLeaks ==
  pc = "returned" =>
    /\ main # "running"
    /\ \A h \in Live : OutOfReach(h)
    /\ container \in {"asked", "running"} => spared

(* The second communicate() has no timeout.  It blocks only on a process   *)
(* out of the reach of the kill before it, and never in a sandbox.         *)
SecondReadEnds ==
  pc = "communicate again" =>
    \/ EndOfOutput
    \/ ~sandbox /\ \E h \in Live : OutOfReach(h) /\ helper[h] = "pipe"

(* A command that never ends does not hold up its agent (README.md:35),    *)
(* but for the processes that SecondReadEnds names.                        *)
CommandReturns ==
  []<>(pc = "returned" \/ \E h \in Live : OutOfReach(h) /\ helper[h] = "pipe")
=============================================================================
