------------------------------- MODULE Client -------------------------------
(***************************************************************************)
(* The browser page (app/static/index.html) and the WebSocket handler      *)
(* (app/server.py) that it talks to, as two processes with a queue of      *)
(* events in one direction and of user messages in the other.              *)
(*                                                                         *)
(* The handler is seen through what it sends, what it stores of that and   *)
(* whether it takes the next message for an answer; the rest of it is in   *)
(* Session.  It does not notice at once that its page has gone, and until  *)
(* then goes on; a session has one handler at a time here.                 *)
(*                                                                         *)
(* An item is a message or an event that the page shows and events.jsonl   *)
(* keeps; all tabs of the page are one list of items.                      *)
(***************************************************************************)
EXTENDS Integers, Sequences

CONSTANTS
  Sessions,     \* thread ids
  NoSession,    \* no thread id: the server makes one
  MaxItems      \* bound of the model: items in one behaviour

ASSUME ClientAssumption == NoSession \notin Sessions /\ MaxItems \in Nat

VARIABLES
  \* the page
  threadId,     \* currentThreadId, also in localStorage
  socket,       \* ws
  busy,         \* is the input locked?
  replaying,
  status,       \* the class of the status line
  panes,        \* the items shown
  footer,       \* the cost shown: metricsBase and liveTotals
  \* the connection
  down,         \* events on their way to the page
  up,           \* user messages on their way to the server
  \* the handler and what it stores
  handler,
  stored,       \* by session: the log, and meta.json
  \* history variables
  items,        \* items so far (bounded by MaxItems)
  greeting,     \* opening events that the page has not handled yet
  early         \* did the user write before the page had handled them?

page     == <<threadId, socket, busy, replaying, status, panes, footer>>
server   == <<handler, stored>>
observed == <<items, greeting, early>>
vars     == <<page, down, up, server, observed>>

(* A "msg" is an event that marks an agent as working, a "note" one that   *)
(* does not (tool_result, error).                                          *)
Item == [kind : {"user", "msg", "note", "question"}, id : 1..MaxItems]

Message ==
  [ item   : Item,
    answer : BOOLEAN,           \* did the page ask for an answer?
    early  : BOOLEAN ]

Event ==
       [type : {"open", "replay_start", "replay_end", "awaiting", "working", "done"}]
  \cup [type : {"session"}, session : Sessions, cost : Nat]
  \cup [type : {"metrics"}, totals : Nat]
  \cup [type : {"item"}, item : Item]

Stored ==
  [ exists  : BOOLEAN,          \* is there a directory?
    log     : Seq(Item),        \* events.jsonl
    pending : BOOLEAN,          \* pending_question is set
    cost    : Nat ]             \* the cumulative totals

Handler ==
  [ at      : {"none", "receive", "turn"},
    session : Sessions \cup {NoSession},
    alone   : BOOLEAN,          \* its page has gone
    waiting : BOOLEAN,          \* waiting_for_answer
    base    : Nat,              \* metrics_base
    totals  : Nat ]             \* METRICS.totals(thread_id)

TypeOK ==
  /\ threadId \in Sessions \cup {NoSession}
  /\ socket \in {"closed", "connecting", "open"}
  /\ busy \in BOOLEAN /\ replaying \in BOOLEAN
  /\ status \in {"", "online", "working", "question"}
  /\ panes \in Seq(Item)
  /\ footer \in [base : Nat, live : Nat]
  /\ down \in Seq(Event)
  /\ up \in Seq(Message)
  /\ handler \in Handler
  /\ stored \in [Sessions -> Stored]
  /\ items \in 0..MaxItems
  /\ greeting \in 0..Len(down)
  /\ early \in BOOLEAN

NoHandler ==
  [ at |-> "none", session |-> NoSession, alone |-> FALSE, waiting |-> FALSE,
    base |-> 0, totals |-> 0 ]

Init ==
  /\ threadId = NoSession
  /\ socket = "closed"
  /\ busy = FALSE /\ replaying = FALSE
  /\ status = ""
  /\ panes = <<>>
  /\ footer = [base |-> 0, live |-> 0]
  /\ down = <<>> /\ up = <<>>
  /\ handler = NoHandler
  /\ stored = [s \in Sessions |-> [exists |-> FALSE, log |-> <<>>, pending |-> FALSE, cost |-> 0]]
  /\ items = 0
  /\ greeting = 0
  /\ early = FALSE

NewItem(kind) == [kind |-> kind, id |-> items + 1]

-----------------------------------------------------------------------------
(* The page: connecting.                                                   *)

(* The page's end of the connection has gone.  What the server had still   *)
(* to deliver is lost; what the user wrote may yet be received.  A page    *)
(* without a session needs a new one (bounded by Sessions).                *)
Disconnected ==
  /\ threadId' = NoSession => \E s \in Sessions : ~stored[s].exists
  /\ down' = <<>>
  /\ greeting' = 0
  /\ handler' = [handler EXCEPT !.alone = handler.at # "none"]
  /\ early' = FALSE
  /\ UNCHANGED <<up, stored, items>>

(* connect(), at the start and when the reconnect timer fires.             *)
Connect ==
  /\ socket = "closed"
  /\ socket' = "connecting"
  /\ UNCHANGED <<threadId, busy, replaying, status, panes, footer, down, up, server, observed>>

(* onclose.                                                                *)
Break ==
  /\ socket # "closed"
  /\ socket' = "closed"
  /\ busy' = TRUE
  /\ replaying' = FALSE
  /\ status' = ""
  /\ UNCHANGED <<threadId, panes, footer>>
  /\ Disconnected

(* The page is closed, and opened again: localStorage is all it keeps.     *)
Reload ==
  /\ socket' = "closed"
  /\ busy' = FALSE
  /\ replaying' = FALSE
  /\ status' = ""
  /\ panes' = <<>>
  /\ footer' = [base |-> 0, live |-> 0]
  /\ UNCHANGED threadId
  /\ Disconnected

(* Mutant: clearPanes clears the panes only.                               *)
LiveTotalsKept == footer.live

(* clearPanes: liveTotals.                                                 *)
LiveTotalsCleared == 0

(* switchSession: to a session of the picker, or to a new one.  A socket   *)
(* that is closing delivers nothing, and its onclose is taken away.        *)
SwitchSession(s) ==
  /\ s \in {NoSession} \cup {t \in Sessions \ {threadId} : stored[t].exists}
  /\ threadId' = s
  /\ replaying' = FALSE
  /\ panes' = <<>>
  /\ footer' = [base |-> 0, live |-> LiveTotalsCleared]
  /\ socket' = "connecting"
  /\ Disconnected
  /\ UNCHANGED <<busy, status>>

-----------------------------------------------------------------------------
(* The handler.                                                            *)

(* send_json: nobody hears a handler whose page has gone.                  *)
Sends(events) == down' = IF handler.alone THEN down ELSE down \o events

Shown(item) == [type |-> "item", item |-> item]

(* Mutant: a resumed session is always ready for a new request.            *)
AlwaysReady(s) == [type |-> "done"]

(* Does the session wait for a request, or for an answer?                  *)
Armed(s) == [type |-> IF stored[s].pending THEN "awaiting" ELSE "done"]

Replay(s) ==
  <<[type |-> "replay_start"]>> \o [i \in DOMAIN stored[s].log |-> Shown(stored[s].log[i])]
    \o <<[type |-> "replay_end"], Armed(s)>>

(* A handler accepts the connection: it resumes the session of the page,   *)
(* or makes one, which it neither replays nor declares ready.              *)
Open ==
  /\ socket = "connecting"
  /\ handler.at = "none"
  /\ \E s \in Sessions :
       LET resuming == threadId # NoSession
           greetings == <<[type |-> "open"],
                          [type |-> "session", session |-> s, cost |-> stored[s].cost]>>
                          \o IF resuming THEN Replay(s) ELSE <<>>
       IN /\ IF resuming THEN s = threadId ELSE ~stored[s].exists
          /\ stored' = [stored EXCEPT ![s].exists = TRUE]
          /\ handler' = [ at |-> "receive", session |-> s, alone |-> FALSE,
                          waiting |-> stored[s].pending, base |-> stored[s].cost, totals |-> 0 ]
          /\ down' = greetings
          /\ greeting' = Len(greetings)
  /\ UNCHANGED <<page, up, items, early>>

(* Mutant: only messages are kept.                                         *)
MessagesOnly == {"user", "msg", "question"}

(* _PERSISTED_EVENT_TYPES.                                                 *)
Persisted == {"user", "msg", "note", "question"}

(* append_event.                                                           *)
Logged(item) ==
  LET log == stored[handler.session].log
  IN  IF item.kind \in Persisted THEN Append(log, item) ELSE log

(* A user message: logged, and taken for an answer or for a request.       *)
Receive ==
  /\ handler.at = "receive"
  /\ up # <<>>
  /\ up' = Tail(up)
  /\ stored' = [stored EXCEPT ![handler.session].log = Logged(Head(up).item),
                              ![handler.session].pending = FALSE]
  /\ handler' = [handler EXCEPT !.at = "turn", !.waiting = FALSE]
  /\ Sends(<<[type |-> "working"]>>)
  /\ UNCHANGED <<page, observed>>

(* An event of the turn; before a "msg" come an LLM call and its metrics.  *)
Work(kind) ==
  /\ handler.at = "turn"
  /\ items < MaxItems
  /\ items' = items + 1
  /\ \/ /\ kind = "msg"
        /\ handler' = [handler EXCEPT !.totals = @ + 1]
        /\ Sends(<<[type |-> "metrics", totals |-> handler.totals + 1], Shown(NewItem(kind))>>)
     \/ /\ kind = "note"
        /\ Sends(<<Shown(NewItem(kind))>>)
        /\ UNCHANGED handler
  /\ stored' = [stored EXCEPT ![handler.session].log = Logged(NewItem(kind))]
  /\ UNCHANGED <<page, up, greeting, early>>

(* The PM asks: this ends the turn, and its cost is not accounted yet.     *)
Ask ==
  /\ handler.at = "turn"
  /\ items < MaxItems
  /\ items' = items + 1
  /\ handler' = [handler EXCEPT !.at = "receive", !.waiting = TRUE]
  /\ Sends(<<Shown(NewItem("question"))>>)
  /\ stored' = [stored EXCEPT ![handler.session].log = Logged(NewItem("question")),
                              ![handler.session].pending = TRUE]
  /\ UNCHANGED <<page, up, greeting, early>>

Finish ==
  /\ handler.at = "turn"
  /\ handler' = [handler EXCEPT !.at = "receive"]
  /\ stored' = [stored EXCEPT ![handler.session].cost = handler.base + handler.totals]
  /\ Sends(<<[type |-> "metrics", totals |-> handler.totals], [type |-> "done"]>>)
  /\ UNCHANGED <<page, up, observed>>

(* A send or a receive raises, at the latest when nothing is left to read. *)
Leave ==
  /\ handler.alone
  /\ handler' = NoHandler
  /\ up' = <<>>
  /\ UNCHANGED <<page, down, stored, observed>>

-----------------------------------------------------------------------------
(* The page: handleEvent, and the user.                                    *)

Handles(type) ==
  /\ down # <<>>
  /\ Head(down).type = type
  /\ down' = Tail(down)
  /\ greeting' = IF greeting > 0 THEN greeting - 1 ELSE 0
  /\ UNCHANGED <<up, server, items, early>>

(* Mutant: a class that the style sheet does not have.                     *)
ReadyClass == "ready"

(* The class of lang.ready and lang.restored.                              *)
OnlineClass == "online"

(* Mutant: the input waits for `awaiting' or `done'.                       *)
OnOpenStaysLocked ==
  /\ Handles("open")
  /\ socket' = "open"
  /\ status' = OnlineClass
  /\ UNCHANGED <<threadId, busy, replaying, panes, footer>>

OnOpen ==
  /\ Handles("open")
  /\ socket' = "open"
  /\ status' = OnlineClass
  /\ busy' = FALSE
  /\ UNCHANGED <<threadId, replaying, panes, footer>>

OnSession ==
  /\ Handles("session")
  /\ threadId' = Head(down).session
  /\ panes' = <<>>
  /\ footer' = [base |-> Head(down).cost, live |-> LiveTotalsCleared]
  /\ UNCHANGED <<socket, busy, replaying, status>>

OnReplayStart ==
  /\ Handles("replay_start")
  /\ replaying' = TRUE
  /\ UNCHANGED <<threadId, socket, busy, status, panes, footer>>

OnReplayEnd ==
  /\ Handles("replay_end")
  /\ replaying' = FALSE
  /\ status' = OnlineClass
  /\ UNCHANGED <<threadId, socket, busy, panes, footer>>

OnAwaiting ==
  /\ Handles("awaiting")
  /\ status' = "question"
  /\ busy' = FALSE
  /\ UNCHANGED <<threadId, socket, replaying, panes, footer>>

OnWorking ==
  /\ Handles("working")
  /\ status' = "working"
  /\ UNCHANGED <<threadId, socket, busy, replaying, panes, footer>>

OnMetrics ==
  /\ Handles("metrics")
  /\ footer' = [footer EXCEPT !.live = Head(down).totals]
  /\ UNCHANGED <<threadId, socket, busy, replaying, status, panes>>

(* Mutant: after an error the user may try again.                          *)
QuestionsAndErrors == {"question", "note"}

(* The items with a setBusy(false).                                        *)
Unlocking == {"question"}

(* addMsg, addActivity, and markBusy, which a replay leaves out.           *)
OnItem ==
  /\ Handles("item")
  /\ LET kind == Head(down).item.kind
     IN /\ panes' = Append(panes, Head(down).item)
        /\ status' = CASE kind = "question"           -> "question"
                       [] kind = "msg" /\ ~replaying  -> "working"
                       [] OTHER                       -> status
        /\ busy' = IF kind \in Unlocking THEN FALSE ELSE busy
  /\ UNCHANGED <<threadId, socket, replaying, footer>>

OnDone ==
  /\ Handles("done")
  /\ status' = OnlineClass
  /\ busy' = FALSE
  /\ UNCHANGED <<threadId, socket, replaying, panes, footer>>

HandleEvent ==
  \/ OnOpen \/ OnSession \/ OnReplayStart \/ OnReplayEnd \/ OnAwaiting
  \/ OnWorking \/ OnMetrics \/ OnItem \/ OnDone

(* send: the user's own message is shown without waiting for the server.   *)
Send ==
  /\ ~busy
  /\ socket = "open"
  /\ items < MaxItems
  /\ items' = items + 1
  /\ panes' = Append(panes, NewItem("user"))
  /\ busy' = TRUE
  /\ early' = (early \/ greeting > 0)
  /\ up' = Append(up, [item |-> NewItem("user"), answer |-> status = "question", early |-> early'])
  /\ UNCHANGED <<threadId, socket, replaying, status, footer, down, server, greeting>>

Interrupted == Break \/ Reload \/ \E s \in Sessions \cup {NoSession} : SwitchSession(s)

Serves == Open \/ Receive \/ (\E kind \in {"msg", "note"} : Work(kind)) \/ Ask \/ Finish \/ Leave

Next == Connect \/ Interrupted \/ Serves \/ HandleEvent \/ Send

Spec == Init /\ [][Next]_vars

(* The timer fires, the page handles what arrives, the server accepts      *)
(* connections, reads, notices that a page has gone, and ends its turns    *)
(* (TurnsEnd of SpecialistTeam).                                           *)
FairSpec ==
  Spec /\ WF_vars(Connect) /\ WF_vars(HandleEvent) /\ WF_vars(Open \/ Receive \/ Leave) /\ WF_vars(Finish)

-----------------------------------------------------------------------------
(* "Every message and activity the browser was shown, replayed verbatim"   *)
(* (session_store.py:10): while a connection stands, the panes and what is *)
(* still to be shown are events.jsonl and what the user has still to       *)
(* deliver, in the same order, unless the user wrote into the replay.      *)
ItemsIn(es) ==
  LET shown[i \in 0..Len(es)] ==
        IF i = 0 THEN <<>>
        ELSE IF es[i].type = "item" THEN Append(shown[i - 1], es[i].item)
        ELSE shown[i - 1]
  IN shown[Len(es)]

Unsent == [i \in DOMAIN up |-> up[i].item]

PanesAreTheLog ==
  socket = "open" /\ ~early /\ (\A i \in DOMAIN down : down[i].type # "session") =>
    panes \o ItemsIn(down) = stored[handler.session].log \o Unsent

(* The input is open only while the server waits for input, of this very   *)
(* session, unless the user wrote into the replay: one turn at a time.     *)
InputLockedInTurns ==
  socket = "open" /\ ~busy /\ ~early =>
    /\ handler.at = "receive" /\ up = <<>>
    /\ greeting = 0 => threadId = handler.session

(* server.py:205-207: the server takes a message for an answer exactly     *)
(* when the page had asked for one, whatever broke in between, unless the  *)
(* user wrote into the replay.                                             *)
AnswersAreAnswers ==
  handler.at = "receive" /\ up # <<>> /\ ~Head(up).early =>
    (Head(up).answer <=> handler.waiting)

(* The footer is the session's total (index.html:307-310): when the page   *)
(* is ready for a request and nothing is on its way, it shows what is      *)
(* stored, after any number of reconnects and switches.                    *)
FooterIsStored ==
  socket = "open" /\ down = <<>> /\ up = <<>> /\ handler.at = "receive" /\ ~handler.waiting =>
    footer.base + footer.live = stored[threadId].cost

(* A page whose connection lasts is ready for input again and again; in    *)
(* particular a locked input comes back after every reconnect, switch,     *)
(* answer and failed turn.                                                 *)
InputComesBack == <>[][~Interrupted]_vars => []<>~busy
=============================================================================
