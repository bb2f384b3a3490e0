------------------------------ MODULE Session ------------------------------
(***************************************************************************)
(* One saved session (one thread_id) of app/server.py: the WebSocket       *)
(* handlers that open it, what the process holds for it in memory, and     *)
(* what app/session_store.py and the checkpointer keep of it on disk.      *)
(*                                                                         *)
(* A handler is a coroutine.  Its code between two awaits is one action;   *)
(* its `at' names the await it is suspended in.  At an await the client    *)
(* may turn out to be gone (the await raises WebSocketDisconnect) and the  *)
(* process may die.                                                        *)
(*                                                                         *)
(* The work of the team is abstracted to numbered pieces: one run of a     *)
(* specialist, its share of the agent's history, the events that show it   *)
(* to the user and its price are one number.  How it comes about is the    *)
(* subject of SpecialistTeam, and that a history is a window, of History.  *)
(***************************************************************************)
EXTENDS Integers, FiniteSets

CONSTANTS
  Conns,            \* WebSocket handlers that open this session
  Specialists,
  Languages,
  Default,          \* DEFAULT_RESPONSE_LANGUAGE
  None,             \* no language: nothing detected, nothing pinned
  MaxAssignTasks,   \* MAX_ASSIGN_TASKS_PER_REQUEST
  Pins,             \* languages the user asks for explicitly
  \* bounds of the model
  MaxWork,          \* pieces of work in one behaviour
  MaxMessages       \* user messages in one behaviour

Awaits == {"opening", "ready", "switching", "starting", "resuming", "turn", "asking"}

(* Where a break loses something that is not yet stored: some awaits, and  *)
(* any while the user has a question to answer.                            *)
Delicate == {"opening", "resuming", "turn", "asking", "waiting"}

ASSUME SessionAssumption ==
  /\ Default \in Languages
  /\ None \notin Languages
  /\ Pins \subseteq Languages
  /\ MaxAssignTasks \in Nat
  /\ MaxWork \in Nat
  /\ MaxMessages \in Nat

VARIABLES
  \* on disk
  meta,       \* meta.json
  saved,      \* specialists.json
  log,        \* the pieces of work in events.jsonl
  ckpt,       \* does the PM's checkpoint hold a paused ask_user?
  \* in the process
  hist,       \* _SPECIALIST_HISTORY[thread_id]
  budget,     \* _ASSIGN_BUDGET[thread_id]
  pin,        \* _PINNED[thread_id]
  totals,     \* METRICS: what the session has cost since its entry exists
  conn,       \* the local state of the handlers
  \* history variables
  spent,      \* pieces of work ever done
  started,    \* pieces of work done for the current user request
  wanted,     \* the language the user last asked for explicitly
  broken,     \* the delicate points at which something broke
  messages    \* user messages so far (bounded by MaxMessages)

durable  == <<meta, saved, log, ckpt>>
memory   == <<hist, budget, pin, totals>>
observed == <<spent, started, wanted, broken, messages>>
vars     == <<durable, memory, conn, observed>>

Work == 1..MaxWork

Meta ==
  [ titled  : BOOLEAN,
    pending : BOOLEAN,                     \* pending_question is set
    lang    : Languages \cup {None},
    pinned  : BOOLEAN,
    cost    : Nat ]                        \* metrics: the cumulative totals

Handler ==
  [ at      : {"closed"} \cup Awaits,
    waiting : BOOLEAN,                     \* waiting_for_answer
    lang    : Languages,                   \* language
    titled  : BOOLEAN,                     \* title_set
    base    : Nat ]                        \* metrics_base

TypeOK ==
  /\ meta \in Meta
  /\ saved \in [Specialists -> SUBSET Work]
  /\ log \in [Specialists -> SUBSET Work]
  /\ ckpt \in {"ready", "paused"}
  /\ hist \in [Specialists -> SUBSET Work]
  /\ budget \in 0..MaxAssignTasks
  /\ pin \in Languages \cup {None}
  /\ totals \in Nat
  /\ conn \in [Conns -> Handler]
  /\ spent \in 0..MaxWork
  /\ started \in Nat
  /\ wanted \in Languages \cup {None}
  /\ broken \subseteq Delicate
  /\ messages \in 0..MaxMessages

Nothing == [a \in Specialists |-> {}]

Closed == [at |-> "closed", waiting |-> FALSE, lang |-> Default, titled |-> FALSE, base |-> 0]

Init ==
  /\ meta = [titled |-> FALSE, pending |-> FALSE, lang |-> None, pinned |-> FALSE, cost |-> 0]
  /\ saved = Nothing
  /\ log = Nothing
  /\ ckpt = "ready"
  /\ hist = Nothing
  /\ budget = 0
  /\ pin = None
  /\ totals = 0
  /\ conn = [c \in Conns |-> Closed]
  /\ spent = 0
  /\ started = 0
  /\ wanted = None
  /\ broken = {}
  /\ messages = 0

IsPinned == pin # None

-----------------------------------------------------------------------------
(* Opening a session.                                                      *)

RestoredLanguage == IF meta.lang = None THEN Default ELSE meta.lang

(* Mutant: the language is restored, the pin is not.                       *)
RestoreNoPin == pin

(* restore_language; a new session has no pin to restore.                  *)
RestoredPin == IF meta.pinned THEN RestoredLanguage ELSE pin

(* Mutant: nothing is imported.                                            *)
ImportNothing == hist

(* import_specialist_history: an agent the file knows is overwritten.      *)
Imported == [a \in Specialists |-> IF saved[a] # {} THEN saved[a] ELSE hist[a]]

(* Mutant: the cumulative totals of earlier connections are not loaded.    *)
ConnectAtZero(c) ==
  /\ conn[c].at = "closed"
  /\ conn' = [conn EXCEPT ![c] =
       [at |-> "opening", waiting |-> meta.pending, lang |-> RestoredLanguage,
        titled |-> meta.titled, base |-> 0]]
  /\ pin' = RestoredPin
  /\ hist' = Imported
  /\ UNCHANGED <<durable, budget, totals, observed>>

(* ws.accept, up to the first event of the replay.  Everything that the    *)
(* handler takes from meta.json is read here, once.                        *)
Connect(c) ==
  /\ conn[c].at = "closed"
  /\ conn' = [conn EXCEPT ![c] =
       [at |-> "opening", waiting |-> meta.pending, lang |-> RestoredLanguage,
        titled |-> meta.titled, base |-> meta.cost]]
  /\ pin' = RestoredPin
  /\ hist' = Imported
  /\ UNCHANGED <<durable, budget, totals, observed>>

(* The log is replayed; the input is armed for an answer or for a request. *)
Replayed(c) ==
  /\ conn[c].at = "opening"
  /\ conn' = [conn EXCEPT ![c].at = "ready"]
  /\ UNCHANGED <<durable, memory, observed>>

-----------------------------------------------------------------------------
(* A user message.                                                         *)

(* Mutant: the question stays pending until its turn is over.              *)
StartKeepingQuestion(c, h, m) ==
  /\ conn' = [conn EXCEPT ![c] =
       [h EXCEPT !.at = IF h.waiting THEN "resuming" ELSE "starting", !.waiting = FALSE]]
  /\ meta' = m
  /\ IF h.waiting
     THEN UNCHANGED <<budget, started>>
     ELSE budget' = 0 /\ started' = 0

(* Mutant: an answer resets the budget too.                                *)
StartWithFreshBudget(c, h, m) ==
  /\ conn' = [conn EXCEPT ![c] =
       [h EXCEPT !.at = IF h.waiting THEN "resuming" ELSE "starting", !.waiting = FALSE]]
  /\ budget' = 0
  /\ IF h.waiting
     THEN meta' = [m EXCEPT !.pending = FALSE] /\ UNCHANGED started
     ELSE meta' = m /\ started' = 0

(* From the choice of graph_input to the event `working'.  h and m are the *)
(* handler's state and meta.json as the message left them.                 *)
StartTurn(c, h, m) ==
  /\ conn' = [conn EXCEPT ![c] =
       [h EXCEPT !.at = IF h.waiting THEN "resuming" ELSE "starting", !.waiting = FALSE]]
  /\ IF h.waiting
     THEN meta' = [m EXCEPT !.pending = FALSE] /\ UNCHANGED <<budget, started>>
     ELSE meta' = m /\ budget' = 0 /\ started' = 0

(* detect_language: a text that is too short, too ambiguous or not         *)
(* profiled at all gives None.                                             *)
Detections == Languages \cup {None}

(* resolve_session_language: a pin wins, then a confident detection.       *)
Resolved(c, detected) ==
  CASE IsPinned         -> pin
    [] detected # None  -> detected
    [] OTHER            -> conn[c].lang

(* The first message titles the session and records its language.          *)
Titled(c) ==
  IF conn[c].titled THEN meta
  ELSE [meta EXCEPT !.titled = TRUE, !.lang = conn[c].lang, !.pinned = IsPinned]

Receive(c, detected) ==
  LET h == [conn[c] EXCEPT !.titled = TRUE, !.lang = Resolved(c, detected)]
  IN
  /\ conn[c].at = "ready"
  /\ messages < MaxMessages
  /\ messages' = messages + 1
  /\ IF h.lang = conn[c].lang
     THEN StartTurn(c, h, Titled(c))
     ELSE /\ conn' = [conn EXCEPT ![c] = [h EXCEPT !.at = "switching"]]
          /\ meta' = Titled(c)
          /\ UNCHANGED <<budget, started>>
  /\ UNCHANGED <<saved, log, ckpt, hist, pin, totals, spent, wanted, broken>>

(* Mutant: the new language is announced and not stored.                   *)
SwitchUnrecorded(c) ==
  /\ conn[c].at = "switching"
  /\ StartTurn(c, conn[c], meta)
  /\ UNCHANGED <<saved, log, ckpt, hist, pin, totals, spent, wanted, broken, messages>>

(* The browser has been told of the new language; then it is stored.       *)
SwitchLanguage(c) ==
  /\ conn[c].at = "switching"
  /\ StartTurn(c, conn[c], [meta EXCEPT !.lang = conn[c].lang, !.pinned = IsPinned])
  /\ UNCHANGED <<saved, log, ckpt, hist, pin, totals, spent, wanted, broken, messages>>

-----------------------------------------------------------------------------
(* The turn: GRAPH.astream and the events it yields.                       *)

(* A new message starts the graph from its entry point, whatever it was    *)
(* paused on; Command(resume) hands the answer to the paused ask_user.     *)
RunGraph(c) ==
  /\ conn[c].at \in {"starting", "resuming"}
  /\ conn' = [conn EXCEPT ![c].at = "turn"]
  /\ ckpt' = "ready"
  /\ UNCHANGED <<meta, saved, log, memory, observed>>

InGraph(c) == conn[c].at = "turn" /\ ~conn[c].waiting

(* Mutant: the budget is charged and never compared.                       *)
AssignUnlimited(c, a) ==
  /\ InGraph(c)
  /\ spent < MaxWork
  /\ budget' = budget + 1
  /\ started' = started + 1
  /\ spent' = spent + 1
  /\ hist' = [hist EXCEPT ![a] = @ \cup {spent'}]
  /\ log' = [log EXCEPT ![a] = @ \cup {spent'}]
  /\ totals' = totals + 1
  /\ UNCHANGED <<meta, saved, ckpt, pin, conn, wanted, broken, messages>>

(* One assign_task within the budget: a specialist works, is shown and     *)
(* logged, and costs.                                                      *)
Assign(c, a) ==
  /\ InGraph(c)
  /\ spent < MaxWork
  /\ budget < MaxAssignTasks
  /\ budget' = budget + 1
  /\ started' = started + 1
  /\ spent' = spent + 1
  /\ hist' = [hist EXCEPT ![a] = @ \cup {spent'}]
  /\ log' = [log EXCEPT ![a] = @ \cup {spent'}]
  /\ totals' = totals + 1
  /\ UNCHANGED <<meta, saved, ckpt, pin, conn, wanted, broken, messages>>

(* set_response_language, at the user's explicit request.                  *)
PinLanguage(c, l) ==
  /\ InGraph(c)
  /\ pin' = l
  /\ wanted' = l
  /\ UNCHANGED <<durable, hist, budget, totals, conn, spent, started, broken, messages>>

(* interrupt() pauses the graph; the handler sends the question.           *)
Ask(c) ==
  /\ InGraph(c)
  /\ ckpt' = "paused"
  /\ conn' = [conn EXCEPT ![c].at = "asking"]
  /\ UNCHANGED <<meta, saved, log, memory, observed>>

(* Mutant: the pause is remembered by the handler alone.                   *)
AskedUnrecorded(c) ==
  /\ conn[c].at = "asking"
  /\ conn' = [conn EXCEPT ![c].at = "turn", ![c].waiting = TRUE]
  /\ UNCHANGED <<meta, saved, log, ckpt, memory, observed>>

(* The question was sent: it is remembered in the handler and in meta.json.*)
Asked(c) ==
  /\ conn[c].at = "asking"
  /\ conn' = [conn EXCEPT ![c].at = "turn", ![c].waiting = TRUE]
  /\ meta' = [meta EXCEPT !.pending = TRUE]
  /\ UNCHANGED <<saved, log, ckpt, memory, observed>>

Accounted(c) ==
  [meta EXCEPT !.cost = conn[c].base + totals, !.lang = conn[c].lang, !.pinned = IsPinned]

(* Mutant: the histories are saved with the metrics, at the end of a       *)
(* request only.                                                           *)
EndTurnSavingLate(c) ==
  /\ conn[c].at = "turn"
  /\ saved' = IF conn[c].waiting THEN saved ELSE hist
  /\ meta' = IF conn[c].waiting THEN meta ELSE Accounted(c)
  /\ conn' = [conn EXCEPT ![c].at = "ready"]
  /\ UNCHANGED <<log, ckpt, memory, observed>>

(* Mutant: the running total is added to what is stored, not to what was   *)
(* stored when the session was opened.                                     *)
EndTurnCompounding(c) ==
  /\ conn[c].at = "turn"
  /\ saved' = hist
  /\ meta' = IF conn[c].waiting THEN meta
             ELSE [Accounted(c) EXCEPT !.cost = meta.cost + totals]
  /\ conn' = [conn EXCEPT ![c].at = "ready"]
  /\ UNCHANGED <<log, ckpt, memory, observed>>

(* The stream ends: the graph is done, has failed, or has asked.           *)
EndTurn(c) ==
  /\ conn[c].at = "turn"
  /\ saved' = hist
  /\ meta' = IF conn[c].waiting THEN meta ELSE Accounted(c)
  /\ conn' = [conn EXCEPT ![c].at = "ready"]
  /\ UNCHANGED <<log, ckpt, memory, observed>>

-----------------------------------------------------------------------------
(* The end of a connection, and of the process.                            *)

Released == /\ hist' = Nothing
            /\ budget' = 0
            /\ pin' = None
            /\ totals' = 0

(* Mutant: METRICS.drop is forgotten.                                      *)
CleanupKeepingTotals == /\ hist' = Nothing
                        /\ budget' = 0
                        /\ pin' = None
                        /\ UNCHANGED totals

(* cleanup_session.                                                        *)
Cleanup == Released

BreakPoints(c) ==
  Delicate \cap ({conn[c].at} \cup IF conn[c].waiting THEN {"waiting"} ELSE {})

(* An await raises.  The handler of a turn has no client to send its error *)
(* to either, so it runs none of the code after the stream; a running      *)
(* graph is closed with it.  The replay is outside the `try'.              *)
Leave(c) ==
  /\ conn[c].at # "closed"
  /\ conn' = [conn EXCEPT ![c] = Closed]
  /\ IF conn[c].at = "opening" THEN UNCHANGED memory ELSE Cleanup
  /\ broken' = broken \cup BreakPoints(c)
  /\ UNCHANGED <<durable, spent, started, wanted, messages>>

(* The process dies with all of its handlers.                              *)
Crash ==
  /\ conn' = [c \in Conns |-> Closed]
  /\ Released
  /\ broken' = broken \cup ((UNION {BreakPoints(c) : c \in Conns}) \ {"opening"})
  /\ UNCHANGED <<durable, spent, started, wanted, messages>>

-----------------------------------------------------------------------------
Serve(c) ==
  \/ Connect(c) \/ Replayed(c)
  \/ \E d \in Detections : Receive(c, d)
  \/ SwitchLanguage(c)
  \/ RunGraph(c)
  \/ \E a \in Specialists : Assign(c, a)
  \/ \E l \in Pins : PinLanguage(c, l)
  \/ Ask(c) \/ Asked(c) \/ EndTurn(c)
  \/ Leave(c)

Next == (\E c \in Conns : Serve(c)) \/ Crash

Spec == Init /\ [][Next]_vars

-----------------------------------------------------------------------------
(* What holds of a session opened by one connection at a time, wherever a  *)
(* connection or the process breaks.                                       *)

(* A stored question belongs to a paused graph (server.py:205-207): an     *)
(* answer never resumes a graph that asked nothing.                        *)
NoPhantomQuestion ==
  /\ meta.pending => ckpt = "paused"
  /\ \A c \in Conns : conn[c].waiting => ckpt = "paused"

(* specialists.json never forgets a piece of work: "the team remembers     *)
(* what it already built and decided across restarts"                      *)
(* (session_store.py:8-9).                                                 *)
SavedNeverShrinks == [][\A a \in Specialists : saved[a] \subseteq saved'[a]]_vars

(* Between turns the team's memory in the process is its memory on disk,   *)
(* so a restart there changes nothing for the team.                        *)
MemoryOnDisk == \A c \in Conns : conn[c].at = "ready" => hist = saved

(* The stored cost never decreases and never exceeds what was spent:       *)
(* metrics_base and the live totals do not overlap (server.py:61-67).      *)
CostNeverDecreases == [][meta'.cost >= meta.cost]_vars
CostNotInvented    == meta.cost <= spent

(* The next connection restores the language the handler writes in.        *)
LanguageKept ==
  \A c \in Conns : conn[c].at = "ready" /\ conn[c].titled => meta.lang = conn[c].lang

(* A pinned session stays pinned: an explicit request "outranks detection  *)
(* for the rest of the session" (README.md:264-265).                       *)
PinNeverForgotten == [][meta.pinned => meta'.pinned]_vars

(* What is stored of work, cost and language is never taken back.          *)
NothingTakenBack == SavedNeverShrinks /\ CostNeverDecreases /\ PinNeverForgotten

(* What a break at a delicate await may cost, and no other break.          *)

(* The input is armed for an answer exactly when the graph waits for one,  *)
(* unless a question or an answer was cut off (server.py:205-207).         *)
QuestionFound ==
  \A c \in Conns : conn[c].at = "ready" => (conn[c].waiting <=> ckpt = "paused")

QuestionLostOnlyInTransit == broken \cap {"asking", "resuming"} = {} => QuestionFound

(* What the user was shown of the team's work, the team remembers          *)
(* (README.md:223-229), unless a turn was cut off.                         *)
TeamRemembers ==
  \A c \in Conns : conn[c].at = "ready" => \A a \in Specialists : log[a] \subseteq hist[a]

WorkLostOnlyInTurns == broken \cap {"turn", "asking"} = {} => TeamRemembers

(* "Connect then disconnect leaves no residual entry in the session state  *)
(* dicts" (IMPROVEMENTS.md:568), unless it was during the replay.          *)
ReleasedWhenClosed ==
  (\A c \in Conns : conn[c].at = "closed") =>
    hist = Nothing /\ budget = 0 /\ pin = None /\ totals = 0

LeftOnlyByReplay == "opening" \notin broken => ReleasedWhenClosed

(* "Hard delegation budget per user request" (README.md:41), unless the    *)
(* connection was lost while a question of the request was open.           *)
BudgetPerRequest == started <= MaxAssignTasks

BudgetLostOnlyWaiting == "waiting" \notin broken => BudgetPerRequest

(* "Cumulative token/cost totals are persisted" (README.md:443), unless a  *)
(* request was cut off before it was finished.                             *)
CostComplete ==
  (\A c \in Conns : conn[c].at = "closed") => meta.cost = spent

CostLostOnlyUnfinished ==
  broken \cap {"turn", "asking", "waiting", "resuming"} = {} => CostComplete

(* The restored pin is the language the user asked for last                *)
(* (language.py:135-136).                                                  *)
PinIsWanted == IsPinned => pin = wanted
=============================================================================
