----------------------------- MODULE RunMetrics -----------------------------
(***************************************************************************)
(* What one session costs: the LLM calls with their retries                *)
(* (_invoke_with_retry in app/agent.py), the collector METRICS             *)
(* (app/metrics.py) with its session and request scopes, the records it    *)
(* appends to runs/<thread_id>.jsonl, and the two programs that open and   *)
(* close requests: a WebSocket handler (app/server.py) and one run of the  *)
(* benchmark (benchmark/run_benchmark.py).                                 *)
(*                                                                         *)
(* A worker is a coroutine that makes LLM calls, one after the other: the  *)
(* PM, or the call stack of one assigned task.  When a question or an      *)
(* error ends a graph run, the other tasks of its tools node are not       *)
(* cancelled: they are strays, and go on calling.                          *)
(*                                                                         *)
(* Tokens, cost, latency and counters are sums over what was recorded; a   *)
(* scope is the set of its entries, and an entry that is absent from the   *)
(* dict is an empty set: every reader of METRICS treats them alike.        *)
(***************************************************************************)
EXTENDS Integers, Sequences

CONSTANTS
  Workers,
  Attempts,      \* attempts of _invoke_with_retry
  MaxResumes,    \* MAX_RESUMES of the benchmark
  \* bounds of the model
  MaxCalls,      \* LLM calls in one behaviour
  MaxRequests    \* user requests in one behaviour

ASSUME MetricsAssumption ==
  /\ Attempts \in Nat \ {0}
  /\ MaxResumes \in Nat
  /\ MaxCalls \in Nat
  /\ MaxRequests \in Nat

VARIABLES
  session,    \* METRICS._session[thread_id]
  request,    \* METRICS._request[thread_id]
  records,    \* runs/<thread_id>.jsonl
  worker,     \* the workers
  driver,     \* which program runs the graph
  at,         \* where it is
  waiting,    \* waiting_for_answer; interrupted
  paused,     \* is the question kept, for a later connection?
  resumes,    \* answers the benchmark has given
  \* history variables
  requests,   \* requests so far
  calls,      \* LLM calls so far
  landed,     \* all that was ever recorded
  cut         \* requests during which a connection was lost

scopes   == <<session, request>>
program  == <<driver, at, waiting, paused, resumes>>
observed == <<requests, calls, landed, cut>>
vars     == <<scopes, records, worker, program, observed>>

(* What one attempt of one call adds: its usage (add_llm_call), or a       *)
(* retry.  `of' and `stray' are not in the program: the request its worker *)
(* was started for, and whether that worker was a stray.                   *)
Entry ==
  [call : 1..MaxCalls, attempt : 1..Attempts, of : 1..MaxRequests, stray : BOOLEAN]

Worker ==
  [ pc      : {"none", "work", "llm", "sleep"},
    call    : 0..MaxCalls,
    attempt : 0..Attempts,
    of      : 0..MaxRequests,
    stray   : BOOLEAN ]

Nobody == [pc |-> "none", call |-> 0, attempt |-> 0, of |-> 0, stray |-> FALSE]

TypeOK ==
  /\ session \subseteq Entry
  /\ request \subseteq Entry
  /\ records \in Seq([of : 1..MaxRequests, entries : SUBSET Entry])
  /\ worker \in [Workers -> Worker]
  /\ driver \in {"server", "benchmark"}
  /\ at \in {"closed", "ready", "turn", "ending"}
  /\ waiting \in BOOLEAN
  /\ paused \in BOOLEAN
  /\ resumes \in 0..MaxResumes
  /\ requests \in 0..MaxRequests
  /\ calls \in 0..MaxCalls
  /\ landed \subseteq Entry
  /\ cut \subseteq 1..MaxRequests

Init ==
  /\ session = {}
  /\ request = {}
  /\ records = <<>>
  /\ worker = [w \in Workers |-> Nobody]
  /\ driver \in {"server", "benchmark"}
  /\ at = "closed"
  /\ waiting = FALSE
  /\ paused = FALSE
  /\ resumes = 0
  /\ requests = 0
  /\ calls = 0
  /\ landed = {}
  /\ cut = {}

-----------------------------------------------------------------------------
(* METRICS.                                                                *)

(* record_llm_call, record_retry: setdefault makes the entry if it is not  *)
(* there (any more).                                                       *)
Record(e) ==
  /\ session' = session \cup {e}
  /\ request' = request \cup {e}
  /\ landed' = landed \cup {e}

(* finish_request: nothing was recorded, nothing is written.  The request  *)
(* scope is left as it is.                                                 *)
FinishRequest ==
  records' = IF request = {} THEN records
             ELSE Append(records, [of |-> requests, entries |-> request])

(* Mutant: the request scope is not dropped.                               *)
DropSessionOnly == session' = {} /\ UNCHANGED request

Drop == session' = {} /\ request' = {}

-----------------------------------------------------------------------------
(* Workers and their calls.                                                *)

Attached(w) == worker[w].pc # "none" /\ ~worker[w].stray

(* The graph run ends under its other workers.                             *)
Detach(ws) == [w \in Workers |-> IF ws[w].pc = "none" THEN ws[w] ELSE [ws[w] EXCEPT !.stray = TRUE]]

(* A worker starts with a call, and makes others between its tools.        *)
Calls(w, of, stray) ==
  /\ calls < MaxCalls
  /\ calls' = calls + 1
  /\ worker' = [worker EXCEPT ![w] =
       [pc |-> "llm", call |-> calls', attempt |-> 1, of |-> of, stray |-> stray]]
  /\ UNCHANGED <<scopes, records, program, requests, landed, cut>>

Begin(w) ==
  /\ at = "turn"
  /\ worker[w].pc = "none"
  /\ Calls(w, requests, FALSE)

CallAgain(w) ==
  /\ worker[w].pc = "work"
  /\ Calls(w, worker[w].of, worker[w].stray)

End(w) ==
  /\ worker[w].pc = "work"
  /\ worker' = [worker EXCEPT ![w] = Nobody]
  /\ UNCHANGED <<scopes, records, program, observed>>

EntryOf(w) ==
  [call |-> worker[w].call, attempt |-> worker[w].attempt,
   of |-> worker[w].of, stray |-> worker[w].stray]

Succeed(w) ==
  /\ worker[w].pc = "llm"
  /\ Record(EntryOf(w))
  /\ worker' = [worker EXCEPT ![w].pc = "work", ![w].call = 0, ![w].attempt = 0]
  /\ UNCHANGED <<records, program, requests, calls, cut>>

(* Mutant: one attempt too many.                                           *)
FailAlways(w) ==
  /\ worker[w].pc = "llm"
  /\ Record(EntryOf(w))
  /\ worker' = [worker EXCEPT ![w].pc = "sleep"]
  /\ UNCHANGED <<records, program, requests, calls, cut>>

FailAttempt(w) ==
  /\ worker[w].pc = "llm"
  /\ worker[w].attempt < Attempts
  /\ Record(EntryOf(w))
  /\ worker' = [worker EXCEPT ![w].pc = "sleep"]
  /\ UNCHANGED <<records, program, requests, calls, cut>>

(* Mutant: the retry does not count as an attempt.                         *)
RetryForEver(w) ==
  /\ worker[w].pc = "sleep"
  /\ worker' = [worker EXCEPT ![w].pc = "llm"]
  /\ UNCHANGED <<scopes, records, program, observed>>

(* asyncio.sleep of the backoff is over.                                   *)
Retry(w) ==
  /\ worker[w].pc = "sleep"
  /\ worker' = [worker EXCEPT ![w].pc = "llm", ![w].attempt = @ + 1]
  /\ UNCHANGED <<scopes, records, program, observed>>

(* The last attempt fails and is re-raised, unrecorded.  From a stray      *)
(* nobody hears it; otherwise it ends the graph run.                       *)
GiveUp(w) ==
  LET others == [worker EXCEPT ![w] = Nobody] IN
  /\ worker[w].pc = "llm"
  /\ worker[w].attempt = Attempts
  /\ IF worker[w].stray
     THEN worker' = others /\ UNCHANGED at
     ELSE worker' = Detach(others) /\ at' = "ending"
  /\ UNCHANGED <<scopes, records, driver, waiting, paused, resumes, observed>>

-----------------------------------------------------------------------------
(* The graph run.                                                          *)

(* The PM's final answer.                                                  *)
Answer ==
  /\ at = "turn"
  /\ \A w \in Workers : ~Attached(w)
  /\ at' = "ending"
  /\ UNCHANGED <<scopes, records, worker, driver, waiting, paused, resumes, observed>>

(* ask_user, maybe beside other tool calls.                                *)
Ask ==
  /\ at = "turn"
  /\ at' = "ending"
  /\ waiting' = TRUE
  /\ paused' = TRUE
  /\ worker' = Detach(worker)
  /\ UNCHANGED <<scopes, records, driver, resumes, observed>>

-----------------------------------------------------------------------------
(* The WebSocket handler.                                                  *)

Connect ==
  /\ driver = "server"
  /\ at = "closed"
  /\ at' = "ready"
  /\ waiting' = paused
  /\ UNCHANGED <<scopes, records, worker, driver, paused, resumes, observed>>

NewRequest ==
  /\ requests < MaxRequests
  /\ requests' = requests + 1
  /\ request' = {}

(* Mutant: an answer, too, starts a request.                               *)
ReceiveAndStart ==
  /\ driver = "server"
  /\ at = "ready"
  /\ at' = "turn"
  /\ waiting' = FALSE
  /\ paused' = FALSE
  /\ IF waiting THEN request' = {} /\ UNCHANGED requests ELSE NewRequest
  /\ UNCHANGED <<session, records, worker, driver, resumes, calls, landed, cut>>

(* An answer goes on with its request; any other message starts one.       *)
Receive ==
  /\ driver = "server"
  /\ at = "ready"
  /\ at' = "turn"
  /\ waiting' = FALSE
  /\ paused' = FALSE
  /\ IF waiting THEN UNCHANGED <<request, requests>> ELSE NewRequest
  /\ UNCHANGED <<session, records, worker, driver, resumes, calls, landed, cut>>

(* Mutant: also a turn that ended with a question writes its record.       *)
EndTurnAlwaysRecorded ==
  /\ driver = "server"
  /\ at = "ending"
  /\ at' = "ready"
  /\ FinishRequest
  /\ UNCHANGED <<scopes, worker, driver, waiting, paused, resumes, observed>>

EndTurn ==
  /\ driver = "server"
  /\ at = "ending"
  /\ at' = "ready"
  /\ IF waiting THEN UNCHANGED records ELSE FinishRequest
  /\ UNCHANGED <<scopes, worker, driver, waiting, paused, resumes, observed>>

(* The client leaves: the graph run is closed with its workers, and        *)
(* cleanup_session drops both scopes.  Or the process dies, at any time,   *)
(* and with it the strays.                                                 *)
Leave(crash) ==
  /\ driver = "server"
  /\ at = "closed" => crash
  /\ at' = "closed"
  /\ waiting' = FALSE
  /\ Drop
  /\ worker' = [w \in Workers |-> IF crash \/ ~worker[w].stray THEN Nobody ELSE worker[w]]
  /\ cut' = IF at \in {"turn", "ending"} \/ waiting THEN cut \cup {requests} ELSE cut
  /\ UNCHANGED <<records, driver, paused, resumes, requests, calls, landed>>

-----------------------------------------------------------------------------
(* The benchmark: one run is one request on a thread_id of its own.        *)

StartRun ==
  /\ driver = "benchmark"
  /\ at = "closed"
  /\ requests = 0
  /\ at' = "turn"
  /\ NewRequest
  /\ UNCHANGED <<session, records, worker, driver, waiting, paused, resumes, calls, landed, cut>>

ResumeRun ==
  /\ driver = "benchmark"
  /\ at = "ending"
  /\ waiting
  /\ resumes < MaxResumes
  /\ resumes' = resumes + 1
  /\ at' = "turn"
  /\ waiting' = FALSE
  /\ UNCHANGED <<scopes, records, worker, driver, paused, observed>>

(* Mutant: cleanup_session before finish_request.                          *)
EndRunDroppedFirst ==
  /\ driver = "benchmark"
  /\ \/ at = "ending" /\ (waiting => resumes = MaxResumes)
     \/ at = "turn"
  /\ at' = "closed"
  /\ waiting' = FALSE
  /\ Drop
  /\ worker' = [w \in Workers |-> IF worker[w].stray THEN worker[w] ELSE Nobody]
  /\ UNCHANGED <<records, driver, paused, resumes, observed>>

(* The run is over, has asked too often, or is cancelled by its timeout.   *)
EndRun ==
  /\ driver = "benchmark"
  /\ \/ at = "ending" /\ (waiting => resumes = MaxResumes)
     \/ at = "turn"
  /\ at' = "closed"
  /\ waiting' = FALSE
  /\ FinishRequest
  /\ Drop
  /\ worker' = [w \in Workers |-> IF worker[w].stray THEN worker[w] ELSE Nobody]
  /\ UNCHANGED <<driver, paused, resumes, observed>>

-----------------------------------------------------------------------------
InCall(w) == Succeed(w) \/ FailAttempt(w) \/ Retry(w) \/ GiveUp(w)

Next ==
  \/ \E w \in Workers : Begin(w) \/ CallAgain(w) \/ InCall(w) \/ End(w)
  \/ Answer \/ Ask
  \/ Connect \/ Receive \/ EndTurn \/ \E crash \in BOOLEAN : Leave(crash)
  \/ StartRun \/ ResumeRun \/ EndRun

Spec == Init /\ [][Next]_vars

(* A request to a provider ends, by the timeouts of its client, and the    *)
(* event loop serves every timer.                                          *)
FairSpec == Spec /\ \A w \in Workers : WF_vars(InCall(w))

-----------------------------------------------------------------------------
(* What the workers of request r recorded before they were strays.         *)
Own(r) == {e \in landed : e.of = r /\ ~e.stray}

Strays(es) == {e \in es : e.stray}

Over(r) == r < requests \/ (r = requests /\ at \in {"ready", "closed"} /\ ~waiting)

(* "One JSON Lines record per completed user request" (README.md:204):     *)
(* exactly one if it made a call, over the pauses of ask_user, reconnects, *)
(* and the scope that finish_request keeps; and no call is in two.         *)
CountedOnce ==
  /\ \A r \in (1..requests) \ cut :
       Over(r) /\ Own(r) # {} => \E i \in DOMAIN records : records[i].of = r
  /\ \A i, j \in DOMAIN records : i # j =>
       /\ records[i].of # records[j].of
       /\ records[i].entries \cap records[j].entries = {}

(* A record is of its request: but for strays, it has nothing else, and    *)
(* all of it unless a connection was lost before the request was finished. *)
RecordsWhole ==
  \A i \in DOMAIN records :
    LET r == records[i] IN
    /\ r.entries \ Strays(r.entries) \subseteq Own(r.of)
    /\ r.of \notin cut => Own(r.of) \subseteq r.entries

(* "Release in-memory metrics for a finished session" (metrics.py:172):    *)
(* what a closed session leaves in METRICS are calls of its strays.        *)
LeftOnlyByStrays == at = "closed" => \A e \in session \cup request : e.stray

(* Every call ends, with an answer or with an exception.                   *)
CallsEnd == \A w \in Workers : worker[w].pc = "llm" ~> worker[w].pc \notin {"llm", "sleep"}
=============================================================================
