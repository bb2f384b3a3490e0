---------------------------- MODULE Client_proofs ----------------------------
(***************************************************************************)
(* Theorems about Client, for any sessions and any number of items: when   *)
(* the input is open, what is taken for an answer, what the footer shows,  *)
(* and that the panes are the log.                                         *)
(***************************************************************************)
EXTENDS Client, WellFoundedInduction, TLAPS

(* The handler has a page, and the page is not yet gone.                   *)
Live == handler.at # "none" /\ ~handler.alone

(* The events that open the input.                                         *)
Unlocks(e) ==
  \/ e.type \in {"open", "awaiting", "done"}
  \/ e.type = "item" /\ e.item.kind = "question"

ConnInv ==
  /\ socket = "closed" => ~Live
  /\ socket = "open" => Live
  /\ ~Live => down = <<>> /\ greeting = 0 /\ ~early
  /\ handler.at = "none" => up = <<>> /\ ~handler.alone
  /\ handler.at # "none" => handler.session \in Sessions
  /\ socket = "connecting" /\ Live => greeting > 0 /\ down[1].type = "open"
  /\ \A i \in DOMAIN down : down[i].type \in {"open", "session"} => i <= greeting
  /\ \A i \in DOMAIN down : down[i].type = "metrics" => i > greeting

(* The page shows the handler's session, or will.                          *)
SessionInv ==
  Live =>
    /\ \A i \in DOMAIN down : down[i].type = "session" =>
         down[i].session = handler.session /\ down[i].cost = handler.base
    /\ \/ \E i \in DOMAIN down : down[i].type = "session"
       \/ threadId = handler.session /\ footer.base = handler.base

(* The last opening event says what the handler waits for; a new session   *)
(* has none that does, and is ready.                                       *)
OpeningInv ==
  LET last == down[Len(down)] IN
  Live /\ ~early /\ greeting > 0 =>
    /\ handler.at = "receive" /\ up = <<>> /\ Len(down) = greeting
    /\ \/ last.type = IF handler.waiting THEN "awaiting" ELSE "done"
       \/ /\ last.type = "session" /\ ~handler.waiting
          /\ \/ Len(down) = 2 /\ down[1].type = "open"
             \/ Len(down) = 1 /\ status = "online" /\ ~busy

(* Then: the input is open and nothing is under way; or a message is; or a *)
(* turn is; or the end of a turn is.                                       *)
TurnInv ==
  LET last == down[Len(down)] IN
  Live /\ ~early /\ greeting = 0 =>
    /\ handler.at = "receive" /\ ~busy =>
         up = <<>> /\ down = <<>> /\ (status = "question" <=> handler.waiting)
    /\ handler.at = "turn" => busy /\ up = <<>> /\ \A i \in DOMAIN down : ~Unlocks(down[i])
    /\ handler.at = "receive" /\ busy =>
         \/ Len(up) = 1 /\ down = <<>>
         \/ /\ up = <<>> /\ down # <<>>
            /\ \A i \in DOMAIN down : Unlocks(down[i]) => i = Len(down)
            /\ Unlocks(last)
            /\ last.type = IF handler.waiting THEN "item" ELSE "done"

(* A message that was not early is alone, and is what was asked for.       *)
MessageInv ==
  /\ early => \A i \in DOMAIN up : up[i].early
  /\ \A i \in DOMAIN up : ~up[i].early =>
       Len(up) = 1 /\ handler.at = "receive" /\ (up[i].answer <=> handler.waiting)

(* The cost of a session is stored when it is ready for a request.         *)
StoreInv ==
  /\ \A s \in Sessions : ~stored[s].exists => ~stored[s].pending
  /\ handler.at # "none" => stored[handler.session].exists
  /\ handler.at = "turn" => ~handler.waiting
  /\ handler.at = "receive" /\ ~handler.waiting =>
       stored[handler.session].cost = handler.base + handler.totals

(* The last metrics event brings the footer up to date.                    *)
MetricsAt == {i \in DOMAIN down : down[i].type = "metrics"}

Opening == \E i \in DOMAIN down : down[i].type = "session"

FooterInv ==
  Live =>
    \/ \E i \in MetricsAt : down[i].totals = handler.totals /\ \A j \in MetricsAt : j <= i
    \/ MetricsAt = {} /\ ~Opening /\ footer.live = handler.totals
    \/ MetricsAt = {} /\ Opening /\ handler.totals = 0

ClientInv ==
  /\ TypeOK /\ ConnInv /\ SessionInv /\ OpeningInv /\ TurnInv /\ MessageInv
  /\ StoreInv /\ FooterInv

-----------------------------------------------------------------------------
(* Types.                                                                  *)

LEMMA EventsTyped ==
  /\ \A t \in {"open", "replay_start", "replay_end", "awaiting", "working", "done"} : [type |-> t] \in Event
  /\ \A s \in Sessions, n \in Nat : [type |-> "session", session |-> s, cost |-> n] \in Event
  /\ \A n \in Nat : [type |-> "metrics", totals |-> n] \in Event
  /\ \A m \in Item : [type |-> "item", item |-> m] \in Event
<1>1. \A t \in {"open", "replay_start", "replay_end", "awaiting", "working", "done"} : [type |-> t] \in Event
  BY Zenon DEF Event
<1>2. \A s \in Sessions : \A n \in Nat : [type |-> "session", session |-> s, cost |-> n] \in Event
  BY DEF Event
<1>3. \A n \in Nat : [type |-> "metrics", totals |-> n] \in Event
  BY DEF Event
<1>4. \A m \in Item : [type |-> "item", item |-> m] \in Event
  BY DEF Event
<1> QED BY <1>1, <1>2, <1>3, <1>4

LEMMA EventFields ==
  ASSUME NEW e \in Event
  PROVE  /\ e.type = "session" => e.session \in Sessions /\ e.cost \in Nat
         /\ e.type = "metrics" => e.totals \in Nat
         /\ e.type = "item" => e.item \in Item
<1>1. CASE e \in [type : {"open", "replay_start", "replay_end", "awaiting", "working", "done"}]
  BY <1>1
<1>2. CASE e \in [type : {"session"}, session : Sessions, cost : Nat]
  BY <1>2
<1>3. CASE e \in [type : {"metrics"}, totals : Nat]
  BY <1>3
<1>4. CASE e \in [type : {"item"}, item : Item]
  BY <1>4
<1> QED BY <1>1, <1>2, <1>3, <1>4 DEF Event

(* What the server sends to a page that connects.                          *)
Greetings(s) ==
  <<[type |-> "open"], [type |-> "session", session |-> s, cost |-> stored[s].cost]>>
    \o IF threadId # NoSession THEN Replay(s) ELSE <<>>

(* m between two elements in front, one before it and two behind it.       *)
Frames(g, n, a, b, c, m, d, e) ==
  /\ Len(g) = n + 5
  /\ g[1] = a /\ g[2] = b /\ g[3] = c
  /\ \A i \in 4..n + 3 : g[i] = m[i - 3]
  /\ g[n + 4] = d /\ g[n + 5] = e

LEMMA Framed ==
  ASSUME NEW S, NEW a \in S, NEW b \in S, NEW c \in S, NEW d \in S, NEW e \in S,
         NEW m \in Seq(S)
  PROVE  LET g == <<a, b>> \o (<<c>> \o m \o <<d, e>>) IN
         Len(m) \in Nat /\ g \in Seq(S) /\ Frames(g, Len(m), a, b, c, m, d, e)
<1> PICK n, g : n = Len(m) /\ g = <<a, b>> \o (<<c>> \o m \o <<d, e>>)
  OBVIOUS
<1> PICK k : k = <<c>> \o m \o <<d, e>>
  OBVIOUS
<1>1. n \in Nat
  OBVIOUS
<1>2. /\ k \in Seq(S) /\ Len(k) = n + 3
      /\ k[1] = c /\ k[n + 2] = d /\ k[n + 3] = e
  OBVIOUS
<1>3. \A i \in 2..n + 1 : k[i] = m[i - 1]
  OBVIOUS
<1>4. g \in Seq(S) /\ Len(g) = n + 5 /\ g[1] = a /\ g[2] = b
  BY <1>2
<1>5. \A i \in 1..n + 3 : g[i + 2] = k[i]
  BY <1>2
<1>6. 1 + 2 = 3 /\ (n + 2) + 2 = n + 4 /\ (n + 3) + 2 = n + 5
  BY <1>1
<1>7. 1 \in 1..n + 3 /\ n + 2 \in 1..n + 3 /\ n + 3 \in 1..n + 3
  BY <1>1
<1>8. g[3] = c /\ g[n + 4] = d /\ g[n + 5] = e
  BY <1>2, <1>5, <1>6, <1>7
<1>9. ASSUME NEW i \in 4..n + 3
      PROVE  g[i] = m[i - 3]
  <2>1. i - 2 \in 1..n + 3 /\ (i - 2) + 2 = i /\ i - 2 \in 2..n + 1 /\ (i - 2) - 1 = i - 3
    BY <1>1
  <2> QED BY <1>3, <1>5, <2>1
<1> QED BY <1>1, <1>4, <1>8, <1>9 DEF Frames

LEMMA GreetingsAre ==
  ASSUME TypeOK, NEW s \in Sessions
  PROVE  LET g == Greetings(s) IN
         /\ g \in Seq(Event) /\ Len(g) >= 2
         /\ g[1] = [type |-> "open"]
         /\ g[2] = [type |-> "session", session |-> s, cost |-> stored[s].cost]
         /\ \A i \in DOMAIN g : i > 2 => g[i].type \notin {"open", "session", "metrics"}
         /\ IF threadId # NoSession
            THEN g[Len(g)].type = (IF stored[s].pending THEN "awaiting" ELSE "done") /\ Len(g) > 2
            ELSE Len(g) = 2
         /\ LET n == Len(stored[s].log) IN
            threadId # NoSession =>
              /\ Len(g) = n + 5
              /\ \A i \in 1..n + 5 : IF i \in 4..n + 3 THEN g[i] = Shown(stored[s].log[i - 3])
                                                       ELSE g[i].type # "item"
<1> PICK log : log = stored[s].log
  OBVIOUS
<1> PICK open, session, start, end, armed :
      /\ open = [type |-> "open"]
      /\ session = [type |-> "session", session |-> s, cost |-> stored[s].cost]
      /\ start = [type |-> "replay_start"]
      /\ end = [type |-> "replay_end"]
      /\ armed = [type |-> IF stored[s].pending THEN "awaiting" ELSE "done"]
  OBVIOUS
<1> PICK shown : shown = [i \in DOMAIN log |-> Shown(log[i])]
  OBVIOUS
<1>1. log \in Seq(Item) /\ stored[s].cost \in Nat
  BY DEF TypeOK, Stored
<1>2. open \in Event /\ session \in Event /\ start \in Event /\ end \in Event /\ armed \in Event
  BY <1>1, EventsTyped
<1>3. /\ open.type = "open" /\ session.type = "session" /\ start.type = "replay_start"
      /\ end.type = "replay_end" /\ armed.type = IF stored[s].pending THEN "awaiting" ELSE "done"
  OBVIOUS
<1>4. /\ shown \in Seq(Event) /\ Len(shown) = Len(log)
      /\ \A i \in DOMAIN shown : shown[i].type = "item" /\ shown[i] = Shown(log[i])
  <2>1. \A i \in DOMAIN log : Shown(log[i]) \in Event /\ Shown(log[i]).type = "item"
    BY <1>1, EventsTyped DEF Shown
  <2>2. DOMAIN log = 1..Len(log) /\ Len(log) \in Nat
    BY <1>1
  <2>3. shown \in [1..Len(log) -> Event] /\ \A i \in 1..Len(log) : shown[i] = Shown(log[i])
    BY <2>1, <2>2
  <2>4. shown \in Seq(Event) /\ Len(shown) = Len(log) /\ DOMAIN shown = DOMAIN log
    BY <2>2, <2>3
  <2> QED BY <2>1, <2>2, <2>3, <2>4
<1>5. CASE threadId = NoSession
  <2>1. Greetings(s) = <<open, session>>
    BY <1>5 DEF Greetings
  <2> QED BY <1>2, <1>5, <2>1
<1>6. CASE threadId # NoSession
  <2> PICK first, last : first = <<open, session>> /\ last = <<end, armed>>
    OBVIOUS
  <2>1. Greetings(s) = first \o (<<start>> \o shown \o last)
    BY <1>6 DEF Greetings, Replay, Armed
  <2> PICK g : g = Greetings(s)
    OBVIOUS
  <2> PICK n : n = Len(shown)
    OBVIOUS
  <2>2. /\ n \in Nat /\ g \in Seq(Event) /\ Len(g) = n + 5
        /\ g[1] = open /\ g[2] = session /\ g[3] = start
        /\ \A i \in 4..n + 3 : g[i] = shown[i - 3]
        /\ g[n + 4] = end /\ g[n + 5] = armed
    <3>1. g = first \o (<<start>> \o shown \o last)
      BY <2>1
    <3>2. shown \in Seq(Event)
      BY <1>4
    <3>3. LET h == <<open, session>> \o (<<start>> \o shown \o <<end, armed>>) IN
          /\ Len(shown) \in Nat /\ h \in Seq(Event)
          /\ Frames(h, Len(shown), open, session, start, shown, end, armed)
      BY <1>2, <3>2, Framed, Zenon
    <3>4. n \in Nat /\ g \in Seq(Event) /\ Frames(g, n, open, session, start, shown, end, armed)
      BY <3>1, <3>3, Zenon
    <3> QED BY <3>4 DEF Frames
  <2>3. \A i \in DOMAIN g : i > 2 => g[i].type \notin {"open", "session", "metrics"}
    <3> SUFFICES ASSUME NEW i \in 1..n + 5, i > 2
                 PROVE  g[i].type \notin {"open", "session", "metrics"}
      BY <2>2
    <3>1. CASE i = 3 \/ i = n + 4 \/ i = n + 5
      BY <1>3, <2>2, <3>1
    <3>2. CASE i \in 4..n + 3
      <4>1. i - 3 \in DOMAIN shown
        BY <1>4, <2>2, <3>2
      <4> QED BY <1>4, <2>2, <3>2, <4>1
    <3> QED BY <2>2, <3>1, <3>2
  <2>4. \A i \in 1..n + 5 : IF i \in 4..n + 3 THEN g[i] = Shown(log[i - 3]) ELSE g[i].type # "item"
    <3> SUFFICES ASSUME NEW i \in 1..n + 5
                 PROVE  IF i \in 4..n + 3 THEN g[i] = Shown(log[i - 3]) ELSE g[i].type # "item"
      OBVIOUS
    <3>1. CASE i \in 4..n + 3
      <4>1. i - 3 \in DOMAIN shown
        BY <1>4, <2>2, <3>1
      <4> QED BY <1>4, <2>2, <3>1, <4>1
    <3>2. CASE i \notin 4..n + 3
      <4>1. i \in {1, 2, 3, n + 4, n + 5}
        BY <2>2, <3>2
      <4> QED BY <1>3, <2>2, <3>2, <4>1
    <3> QED BY <3>1, <3>2
  <2> QED BY <1>3, <1>4, <1>6, <2>2, <2>3, <2>4
<1> QED BY <1>5, <1>6


(* What the page and the handler do to `down'.                             *)
LEMMA HandlesFacts ==
  ASSUME TypeOK, NEW type, Handles(type)
  PROVE  /\ down \in Seq(Event) /\ Len(down) \in Nat \ {0}
         /\ down[1] = Head(down) /\ Head(down) \in Event /\ Head(down).type = type
         /\ down' \in Seq(Event) /\ Len(down') = Len(down) - 1
         /\ DOMAIN down = 1..Len(down) /\ DOMAIN down' = 1..Len(down) - 1
         /\ \A i \in 1..Len(down) - 1 : down'[i] = down[i + 1]
         /\ greeting \in 0..Len(down)
         /\ greeting' = (IF greeting > 0 THEN greeting - 1 ELSE 0) /\ greeting' \in 0..Len(down')
         /\ UNCHANGED <<up, handler, stored, items, early>>
<1>1. /\ down \in Seq(Event) /\ down # <<>> /\ Head(down).type = type /\ down' = Tail(down)
      /\ greeting \in 0..Len(down) /\ greeting' = (IF greeting > 0 THEN greeting - 1 ELSE 0)
      /\ UNCHANGED <<up, handler, stored, items, early>>
  BY DEF TypeOK, Handles, server
<1>2. Len(down) \in Nat \ {0} /\ down[1] = Head(down) /\ Head(down) \in Event
  BY <1>1
<1>3. /\ down' \in Seq(Event) /\ Len(down') = Len(down) - 1
      /\ DOMAIN down = 1..Len(down) /\ DOMAIN down' = 1..Len(down) - 1
      /\ \A i \in 1..Len(down) - 1 : down'[i] = down[i + 1]
  BY <1>1, <1>2
<1>4. greeting' \in 0..Len(down')
  BY <1>1, <1>2, <1>3
<1> QED BY <1>1, <1>2, <1>3, <1>4

LEMMA HandlerFields ==
  ASSUME TypeOK
  PROVE  /\ handler.at \in {"none", "receive", "turn"}
         /\ handler.session \in Sessions \cup {NoSession}
         /\ handler.alone \in BOOLEAN /\ handler.waiting \in BOOLEAN
         /\ handler.base \in Nat /\ handler.totals \in Nat
BY DEF TypeOK, Handler

LEMMA StoredFields ==
  ASSUME TypeOK, NEW s \in Sessions
  PROVE  /\ stored[s].exists \in BOOLEAN /\ stored[s].pending \in BOOLEAN
         /\ stored[s].log \in Seq(Item) /\ stored[s].cost \in Nat
BY DEF TypeOK, Stored

LEMMA ItemTyped ==
  ASSUME TypeOK, items < MaxItems, NEW kind \in {"user", "msg", "note", "question"}
  PROVE  NewItem(kind) \in Item /\ NewItem(kind).kind = kind /\ items + 1 \in 0..MaxItems
<1>1. items \in Nat /\ items + 1 \in 1..MaxItems /\ items + 1 \in 0..MaxItems
  <2>1. items \in 0..MaxItems
    BY DEF TypeOK
  <2> QED BY <2>1, ClientAssumption
<1> QED BY <1>1 DEF NewItem, Item

LEMMA SentTyped ==
  ASSUME TypeOK, NEW es \in Seq(Event), Sends(es), greeting' = greeting
  PROVE  down' \in Seq(Event) /\ greeting' \in 0..Len(down')
<1>1. down \in Seq(Event) /\ greeting \in 0..Len(down)
  BY DEF TypeOK
<1>2. CASE handler.alone
  BY <1>1, <1>2 DEF Sends
<1>3. CASE ~handler.alone
  <2>1. down' = down \o es
    BY <1>3 DEF Sends
  <2>2. down' \in Seq(Event) /\ Len(down') = Len(down) + Len(es)
    BY <1>1, <2>1
  <2> QED BY <1>1, <2>2
<1> QED BY <1>2, <1>3

LEMMA DisconnectedTyped ==
  ASSUME TypeOK, Disconnected
  PROVE  /\ down' = <<>> /\ down' \in Seq(Event) /\ ~early' /\ greeting' = 0 /\ greeting' \in 0..Len(down')
         /\ handler' \in Handler /\ early' \in BOOLEAN
         /\ handler'.at = handler.at /\ handler'.waiting = handler.waiting
         /\ handler'.session = handler.session /\ handler'.base = handler.base
         /\ handler'.totals = handler.totals
         /\ handler'.alone = (handler.at # "none")
         /\ UNCHANGED <<up, stored, items>>
<1>1. /\ down' = <<>> /\ greeting' = 0 /\ early' = FALSE /\ UNCHANGED <<up, stored, items>>
      /\ handler' = [handler EXCEPT !.alone = handler.at # "none"]
  BY DEF Disconnected
<1>2. handler \in Handler
  BY DEF TypeOK
<1>3. /\ handler' \in Handler
      /\ handler'.at = handler.at /\ handler'.waiting = handler.waiting
      /\ handler'.session = handler.session /\ handler'.base = handler.base
      /\ handler'.totals = handler.totals
      /\ handler'.alone = (handler.at # "none")
  BY <1>1, <1>2 DEF Handler
<1>4. down' \in Seq(Event) /\ greeting' \in 0..Len(down')
  BY <1>1
<1> QED BY <1>1, <1>3, <1>4

LEMMA InterruptedTyped ==
  ASSUME TypeOK, Interrupted
  PROVE  TypeOK'
<1>1. Disconnected
  BY DEF Interrupted, Break, Reload, SwitchSession
<1> USE DisconnectedTyped
<1>2. CASE Break
  BY <1>1, <1>2 DEF Break, TypeOK
<1>3. CASE Reload
  <2>1. panes' \in Seq(Item) /\ footer' \in [base : Nat, live : Nat]
    <3>1. panes' = <<>> /\ footer' = [base |-> 0, live |-> 0]
      BY <1>3 DEF Reload
    <3> QED BY <3>1
  <2> QED BY <1>1, <1>3, <2>1 DEF Reload, TypeOK
<1>4. ASSUME NEW s \in Sessions \cup {NoSession}, SwitchSession(s) PROVE TypeOK'
  <2>1. panes' \in Seq(Item) /\ footer' \in [base : Nat, live : Nat]
    BY <1>4 DEF SwitchSession, LiveTotalsCleared
  <2> QED BY <1>1, <1>4, <2>1 DEF SwitchSession, TypeOK
<1> QED BY <1>2, <1>3, <1>4 DEF Interrupted

LEMMA OpenTyped ==
  ASSUME TypeOK, Open
  PROVE  TypeOK'
<1> PICK s \in Sessions :
      /\ stored' = [stored EXCEPT ![s].exists = TRUE]
      /\ handler' = [ at |-> "receive", session |-> s, alone |-> FALSE,
                      waiting |-> stored[s].pending, base |-> stored[s].cost, totals |-> 0 ]
      /\ down' = Greetings(s)
      /\ greeting' = Len(down')
  BY DEF Open, Greetings
<1>1. UNCHANGED <<page, up, items, early>>
  BY DEF Open
<1>2. handler' \in Handler
  BY StoredFields DEF Handler
<1>3. stored' \in [Sessions -> Stored]
  BY DEF TypeOK, Stored
<1>4. down' \in Seq(Event) /\ greeting' \in 0..Len(down')
  <2>1. Greetings(s) \in Seq(Event)
    BY GreetingsAre
  <2> QED BY <2>1
<1> QED BY <1>1, <1>2, <1>3, <1>4 DEF TypeOK, page

LEMMA LoggedTyped ==
  ASSUME TypeOK, handler.session \in Sessions, NEW item \in Item
  PROVE  Logged(item) \in Seq(Item)
BY StoredFields DEF Logged

LEMMA ServesTyped ==
  ASSUME TypeOK, Serves, handler.at # "none" => handler.session \in Sessions
  PROVE  TypeOK'
<1>1. CASE Open
  BY <1>1, OpenTyped
<1>2. CASE Receive
  <2>1. handler.session \in Sessions /\ up \in Seq(Message) /\ up # <<>>
    BY <1>2 DEF Receive, TypeOK
  <2>2. Head(up) \in Message /\ up' \in Seq(Message)
    BY <1>2, <2>1 DEF Receive
  <2>3. Logged(Head(up).item) \in Seq(Item)
    BY <2>1, <2>2, LoggedTyped DEF Message
  <2>4. stored' \in [Sessions -> Stored]
    BY <1>2, <2>1, <2>3 DEF Receive, TypeOK, Stored
  <2>5. handler' \in Handler
    BY <1>2 DEF Receive, TypeOK, Handler
  <2>6. <<[type |-> "working"]>> \in Seq(Event)
    BY EventsTyped
  <2>7. down' \in Seq(Event) /\ greeting' \in 0..Len(down')
    BY <1>2, <2>6, SentTyped DEF Receive, observed
  <2> QED BY <1>2, <2>2, <2>4, <2>5, <2>7 DEF Receive, TypeOK, page, observed
<1>3. ASSUME NEW kind \in {"msg", "note"}, Work(kind) PROVE TypeOK'
  <2>1. handler.session \in Sessions /\ items < MaxItems
    BY <1>3 DEF Work
  <2>2. NewItem(kind) \in Item /\ items' \in 0..MaxItems
    BY <1>3, <2>1, ItemTyped DEF Work
  <2>3. stored' \in [Sessions -> Stored]
    BY <1>3, <2>1, <2>2, LoggedTyped DEF Work, TypeOK, Stored
  <2>4. handler' \in Handler
    <3>1. handler \in Handler /\ handler.totals + 1 \in Nat
      <4>1. handler.totals \in Nat
        BY HandlerFields
      <4>2. handler \in Handler
        BY DEF TypeOK
      <4> QED BY <4>1, <4>2
    <3>2. handler' = handler \/ handler' = [handler EXCEPT !.totals = handler.totals + 1]
      BY <1>3, <3>1 DEF Work, Handler
    <3> QED BY <3>1, <3>2 DEF Handler
  <2>5. Shown(NewItem(kind)) \in Event /\ [type |-> "metrics", totals |-> handler.totals + 1] \in Event
    BY <2>2, EventsTyped, HandlerFields DEF Shown
  <2>6. down' \in Seq(Event) /\ greeting' \in 0..Len(down')
    <3>1. <<[type |-> "metrics", totals |-> handler.totals + 1], Shown(NewItem(kind))>> \in Seq(Event)
          /\ <<Shown(NewItem(kind))>> \in Seq(Event)
      BY <2>5
    <3> QED BY <1>3, <3>1, SentTyped DEF Work
  <2> QED BY <1>3, <2>2, <2>3, <2>4, <2>6 DEF Work, TypeOK, page
<1>4. CASE Ask
  <2>1. handler.session \in Sessions /\ items < MaxItems
    BY <1>4 DEF Ask
  <2>2. NewItem("question") \in Item /\ items' \in 0..MaxItems
    BY <1>4, <2>1, ItemTyped DEF Ask
  <2>3. stored' \in [Sessions -> Stored]
    BY <1>4, <2>1, <2>2, LoggedTyped DEF Ask, TypeOK, Stored
  <2>4. handler' \in Handler
    BY <1>4 DEF Ask, TypeOK, Handler
  <2>5. <<Shown(NewItem("question"))>> \in Seq(Event)
    BY <2>2, EventsTyped DEF Shown
  <2>6. down' \in Seq(Event) /\ greeting' \in 0..Len(down')
    BY <1>4, <2>5, SentTyped DEF Ask
  <2> QED BY <1>4, <2>2, <2>3, <2>4, <2>6 DEF Ask, TypeOK, page
<1>5. CASE Finish
  <2>1. handler.session \in Sessions
    BY <1>5 DEF Finish
  <2>2. handler.base + handler.totals \in Nat
    BY HandlerFields
  <2>3. stored' \in [Sessions -> Stored]
    BY <1>5, <2>1, <2>2 DEF Finish, TypeOK, Stored
  <2>4. handler' \in Handler
    BY <1>5 DEF Finish, TypeOK, Handler
  <2>5. <<[type |-> "metrics", totals |-> handler.totals], [type |-> "done"]>> \in Seq(Event)
    BY EventsTyped, HandlerFields
  <2>6. down' \in Seq(Event) /\ greeting' \in 0..Len(down')
    BY <1>5, <2>5, SentTyped DEF Finish, observed
  <2> QED BY <1>5, <2>3, <2>4, <2>6 DEF Finish, TypeOK, page, observed
<1>6. CASE Leave
  <2>1. NoHandler \in Handler
    BY DEF NoHandler, Handler
  <2>2. up' \in Seq(Message) /\ handler' \in Handler
    BY <1>6, <2>1 DEF Leave
  <2> QED BY <1>6, <2>2 DEF Leave, TypeOK, page, observed
<1> QED BY <1>1, <1>2, <1>3, <1>4, <1>5, <1>6 DEF Serves

LEMMA HandleEventTyped ==
  ASSUME TypeOK, HandleEvent
  PROVE  TypeOK'
<1>1. CASE OnItem
  <2>1. Handles("item") /\ UNCHANGED <<threadId, socket, replaying, footer>>
    BY <1>1 DEF OnItem
  <2>2. Head(down).item \in Item
    BY <2>1, HandlesFacts, EventFields
  <2>3. panes' \in Seq(Item) /\ status' \in {"", "online", "working", "question"} /\ busy' \in BOOLEAN
    <3>1. panes \in Seq(Item) /\ panes' = Append(panes, Head(down).item)
      BY <1>1 DEF OnItem, TypeOK
    <3>2. status' \in {status, "question", "working"} /\ (busy' = FALSE \/ busy' = busy)
      BY <1>1 DEF OnItem
    <3>3. panes' \in Seq(Item)
      BY <2>2, <3>1
    <3>4. status' \in {"", "online", "working", "question"}
      BY <3>2 DEF TypeOK
    <3>5. busy' \in BOOLEAN
      BY <3>2 DEF TypeOK
    <3> QED BY <3>3, <3>4, <3>5
  <2> QED BY <2>1, <2>3, HandlesFacts DEF TypeOK
<1>2. CASE OnSession
  <2>1. Handles("session") /\ UNCHANGED <<socket, busy, replaying, status>>
    BY <1>2 DEF OnSession
  <2>2. Head(down).session \in Sessions /\ Head(down).cost \in Nat
    BY <2>1, HandlesFacts, EventFields
  <2>3. threadId' \in Sessions /\ panes' \in Seq(Item) /\ footer' \in [base : Nat, live : Nat]
    BY <1>2, <2>2 DEF OnSession, LiveTotalsCleared
  <2> QED BY <2>1, <2>3, HandlesFacts DEF TypeOK
<1>3. CASE OnMetrics
  <2>1. Handles("metrics") /\ UNCHANGED <<threadId, socket, busy, replaying, status, panes>>
    BY <1>3 DEF OnMetrics
  <2>2. Head(down).totals \in Nat
    BY <2>1, HandlesFacts, EventFields
  <2>3. footer' \in [base : Nat, live : Nat]
    BY <1>3, <2>2 DEF OnMetrics, TypeOK
  <2> QED BY <2>1, <2>3, HandlesFacts DEF TypeOK
<1>4. CASE OnOpen
  BY <1>4, HandlesFacts DEF OnOpen, OnlineClass, TypeOK
<1>5. CASE OnReplayStart \/ OnReplayEnd
  BY <1>5, HandlesFacts DEF OnReplayStart, OnReplayEnd, OnlineClass, TypeOK
<1>6. CASE OnAwaiting \/ OnWorking \/ OnDone
  BY <1>6, HandlesFacts DEF OnAwaiting, OnWorking, OnDone, OnlineClass, TypeOK
<1> QED BY <1>1, <1>2, <1>3, <1>4, <1>5, <1>6 DEF HandleEvent

LEMMA SendTyped ==
  ASSUME TypeOK, Send
  PROVE  TypeOK'
<1>1. items < MaxItems /\ items' = items + 1
  BY DEF Send
<1>2. NewItem("user") \in Item /\ items' \in 0..MaxItems
  BY <1>1, ItemTyped
<1>3. panes' \in Seq(Item)
  <2>1. panes \in Seq(Item) /\ panes' = Append(panes, NewItem("user"))
    BY DEF Send, TypeOK
  <2> QED BY <1>2, <2>1
<1>4. early' \in BOOLEAN /\ (status = "question") \in BOOLEAN
  BY DEF Send, TypeOK
<1>5. [item |-> NewItem("user"), answer |-> status = "question", early |-> early'] \in Message
  BY <1>2, <1>4 DEF Message
<1>6. up' \in Seq(Message)
  <2> PICK m : m = [item |-> NewItem("user"), answer |-> status = "question", early |-> early']
    OBVIOUS
  <2>1. up \in Seq(Message) /\ up' = Append(up, m)
    BY DEF Send, TypeOK
  <2> QED BY <1>5, <2>1
<1> QED BY <1>2, <1>3, <1>4, <1>6 DEF Send, TypeOK, server


-----------------------------------------------------------------------------
(* Connections come and go.                                                *)

LEMMA InitClientInv == Init => ClientInv
<1> SUFFICES ASSUME Init PROVE ClientInv
  OBVIOUS
<1>1. handler = NoHandler /\ NoHandler \in Handler /\ NoHandler.at = "none" /\ NoHandler.alone = FALSE
  BY DEF Init, NoHandler, Handler
<1>2. TypeOK
  <2>1. stored \in [Sessions -> Stored]
    <3>1. [exists |-> FALSE, log |-> <<>>, pending |-> FALSE, cost |-> 0] \in Stored
      <4>1. <<>> \in Seq(Item)
        OBVIOUS
      <4> QED BY <4>1 DEF Stored
    <3> QED BY <3>1 DEF Init
  <2>2. items \in 0..MaxItems
    <3>1. items = 0
      BY DEF Init
    <3> QED BY <3>1, ClientAssumption
  <2>3. footer \in [base : Nat, live : Nat]
    BY DEF Init
  <2>4. down \in Seq(Event) /\ up \in Seq(Message) /\ panes \in Seq(Item) /\ greeting \in 0..Len(down)
    <3>1. down = <<>> /\ up = <<>> /\ panes = <<>> /\ greeting = 0
      BY DEF Init
    <3> QED BY <3>1
  <2> QED BY <1>1, <2>1, <2>2, <2>3, <2>4 DEF Init, TypeOK
<1>3. ~Live /\ down = <<>> /\ up = <<>> /\ greeting = 0 /\ ~early
  BY <1>1 DEF Live, Init
<1>4. ConnInv /\ SessionInv /\ OpeningInv /\ TurnInv /\ MessageInv /\ FooterInv
  <2>1. socket = "closed" /\ DOMAIN down = {} /\ DOMAIN up = {}
    <3>1. socket = "closed"
      BY DEF Init
    <3>2. DOMAIN down = {} /\ DOMAIN up = {}
      BY <1>3
    <3> QED BY <3>1, <3>2
  <2>2. ConnInv
    BY <1>1, <1>3, <2>1 DEF ConnInv
  <2> QED BY <1>3, <2>1, <2>2 DEF SessionInv, OpeningInv, TurnInv, MessageInv, FooterInv
<1>5. StoreInv
  BY <1>1 DEF Init, StoreInv
<1> QED BY <1>2, <1>4, <1>5 DEF ClientInv

LEMMA ConnectKeeps ==
  ASSUME ClientInv, Connect
  PROVE  ClientInv'
<1>1. /\ socket = "closed" /\ socket' = "connecting"
      /\ UNCHANGED <<threadId, busy, replaying, status, panes, footer, down, up, handler, stored>>
      /\ UNCHANGED <<items, greeting, early>>
  BY DEF Connect, server, observed
<1>2. TypeOK'
  BY <1>1 DEF ClientInv, TypeOK
<1>3. ~Live /\ Live' = Live
  BY <1>1 DEF ClientInv, ConnInv, Live
<1>4. ConnInv'
  BY <1>1, <1>3 DEF ClientInv, ConnInv
<1>5. SessionInv' /\ OpeningInv' /\ TurnInv' /\ FooterInv'
  BY <1>3 DEF SessionInv, OpeningInv, TurnInv, FooterInv
<1>6. MessageInv' /\ StoreInv'
  BY <1>1 DEF ClientInv, MessageInv, StoreInv
<1> QED BY <1>2, <1>4, <1>5, <1>6 DEF ClientInv

LEMMA InterruptedKeeps ==
  ASSUME ClientInv, Interrupted
  PROVE  ClientInv'
<1>1. TypeOK'
  BY InterruptedTyped DEF ClientInv
<1>2. Disconnected /\ socket' \in {"closed", "connecting"}
  BY DEF Interrupted, Break, Reload, SwitchSession
<1>3. /\ down' = <<>> /\ ~early' /\ greeting' = 0
      /\ handler'.at = handler.at /\ handler'.waiting = handler.waiting
      /\ handler'.session = handler.session /\ handler'.base = handler.base
      /\ handler'.totals = handler.totals
      /\ handler'.alone = (handler.at # "none")
      /\ UNCHANGED <<up, stored, items>>
  BY <1>2, DisconnectedTyped DEF ClientInv
<1>4. ~Live'
  BY <1>3 DEF Live
<1>5. ConnInv'
  <2>1. DOMAIN down' = {} /\ socket' # "open"
    BY <1>2, <1>3
  <2>2. handler'.at = "none" => up' = <<>> /\ ~handler'.alone
    BY <1>3 DEF ClientInv, ConnInv
  <2>3. handler'.at # "none" => handler'.session \in Sessions
    BY <1>3 DEF ClientInv, ConnInv
  <2> QED BY <1>3, <1>4, <2>1, <2>2, <2>3 DEF ConnInv
<1>6. SessionInv' /\ OpeningInv' /\ TurnInv' /\ FooterInv'
  BY <1>4 DEF SessionInv, OpeningInv, TurnInv, FooterInv
<1>7. MessageInv' /\ StoreInv'
  BY <1>3 DEF ClientInv, MessageInv, StoreInv
<1> QED BY <1>1, <1>5, <1>6, <1>7 DEF ClientInv

LEMMA LeaveKeeps ==
  ASSUME ClientInv, Leave
  PROVE  ClientInv'
<1>1. TypeOK'
  BY ServesTyped DEF ClientInv, ConnInv, Serves
<1>2. /\ handler.alone /\ handler' = NoHandler /\ up' = <<>>
      /\ UNCHANGED <<threadId, socket, busy, status, footer, down, stored, greeting, early>>
  BY DEF Leave, page, observed
<1>3. handler'.at = "none" /\ handler'.alone = FALSE
  BY <1>2 DEF NoHandler
<1>4. ~Live /\ ~Live'
  BY <1>2, <1>3 DEF Live
<1>5. ConnInv'
  BY <1>2, <1>3, <1>4 DEF ClientInv, ConnInv
<1>6. SessionInv' /\ OpeningInv' /\ TurnInv' /\ FooterInv'
  BY <1>4 DEF SessionInv, OpeningInv, TurnInv, FooterInv
<1>7. MessageInv'
  BY <1>2 DEF MessageInv
<1>8. StoreInv'
  BY <1>2, <1>3 DEF ClientInv, StoreInv
<1> QED BY <1>1, <1>5, <1>6, <1>7, <1>8 DEF ClientInv

LEMMA OpenKeeps ==
  ASSUME ClientInv, Open
  PROVE  ClientInv'
<1>1. TypeOK'
  BY OpenTyped DEF ClientInv
<1> PICK s \in Sessions :
      /\ IF threadId # NoSession THEN s = threadId ELSE ~stored[s].exists
      /\ stored' = [stored EXCEPT ![s].exists = TRUE]
      /\ handler' = [ at |-> "receive", session |-> s, alone |-> FALSE,
                      waiting |-> stored[s].pending, base |-> stored[s].cost, totals |-> 0 ]
      /\ down' = Greetings(s)
      /\ greeting' = Len(down')
  BY DEF Open, Greetings
<1>2. /\ socket = "connecting" /\ handler.at = "none"
      /\ UNCHANGED <<threadId, socket, busy, status, footer, up, early>>
  BY DEF Open, page
<1>3. up = <<>> /\ ~early
  BY <1>2 DEF ClientInv, ConnInv, Live
<1>4. /\ handler'.at = "receive" /\ handler'.session = s /\ ~handler'.alone
      /\ handler'.waiting = stored[s].pending /\ handler'.base = stored[s].cost
      /\ handler'.totals = 0
  OBVIOUS
<1> PICK g : g = Greetings(s)
  OBVIOUS
<1>5. /\ g \in Seq(Event) /\ Len(g) >= 2 /\ Len(g) \in Nat /\ DOMAIN g = 1..Len(g)
      /\ g[1].type = "open"
      /\ g[2].type = "session" /\ g[2].session = s /\ g[2].cost = stored[s].cost
      /\ \A i \in DOMAIN g : i > 2 => g[i].type \notin {"open", "session", "metrics"}
      /\ IF threadId # NoSession
         THEN g[Len(g)].type = (IF stored[s].pending THEN "awaiting" ELSE "done")
         ELSE Len(g) = 2
  <2>1. TypeOK
    BY DEF ClientInv
  <2>2. LET h == Greetings(s) IN
         /\ h \in Seq(Event) /\ Len(h) >= 2
         /\ h[1] = [type |-> "open"]
         /\ h[2] = [type |-> "session", session |-> s, cost |-> stored[s].cost]
         /\ \A i \in DOMAIN h : i > 2 => h[i].type \notin {"open", "session", "metrics"}
         /\ IF threadId # NoSession
            THEN h[Len(h)].type = (IF stored[s].pending THEN "awaiting" ELSE "done") /\ Len(h) > 2
            ELSE Len(h) = 2
    BY <2>1, GreetingsAre
  <2> QED BY <2>2
<1>6. Live' /\ down' = g /\ greeting' = Len(g) /\ greeting' > 0
  BY <1>4, <1>5 DEF Live
<1>7. ConnInv'
  <2>1. \A i \in DOMAIN g : g[i].type \in {"open", "session"} => i <= Len(g)
    BY <1>5
  <2>2. \A i \in DOMAIN g : g[i].type # "metrics"
    BY <1>5
  <2> QED BY <1>2, <1>4, <1>5, <1>6, <2>1, <2>2 DEF ConnInv
<1>8. SessionInv'
  <2>1. \A i \in DOMAIN g : g[i].type = "session" => i = 2
    BY <1>5
  <2>2. 2 \in DOMAIN g
    BY <1>5
  <2> QED BY <1>4, <1>5, <1>6, <2>1, <2>2 DEF SessionInv
<1>9. OpeningInv'
  <2>1. threadId = NoSession => ~stored[s].pending
    BY DEF ClientInv, StoreInv
  <2> QED BY <1>2, <1>3, <1>4, <1>5, <1>6, <2>1 DEF OpeningInv
<1>10. TurnInv' /\ MessageInv'
  BY <1>2, <1>3, <1>6 DEF TurnInv, MessageInv
<1>11. StoreInv'
  <2>1. stored'[s].exists /\ stored'[s].cost = stored[s].cost
        /\ \A r \in Sessions : stored'[r].pending = stored[r].pending
             /\ (stored[r].exists => stored'[r].exists)
    BY DEF ClientInv, TypeOK, Stored
  <2>2. stored[s].cost \in Nat
    BY StoredFields DEF ClientInv
  <2> QED BY <1>4, <2>1, <2>2 DEF ClientInv, StoreInv
<1>12. FooterInv'
  <2>1. MetricsAt' = {} /\ Opening'
    BY <1>5, <1>6 DEF MetricsAt, Opening
  <2> QED BY <1>4, <2>1 DEF FooterInv
<1> QED BY <1>1, <1>7, <1>8, <1>9, <1>10, <1>11, <1>12 DEF ClientInv


-----------------------------------------------------------------------------
(* The handler serves.                                                     *)

LEMMA SentFacts ==
  ASSUME TypeOK, NEW es \in Seq(Event), Sends(es)
  PROVE  /\ down \in Seq(Event) /\ Len(down) \in Nat /\ DOMAIN down = 1..Len(down)
         /\ Len(es) \in Nat
         /\ handler.alone => down' = down
         /\ ~handler.alone =>
              /\ down' \in Seq(Event) /\ Len(down') = Len(down) + Len(es)
              /\ DOMAIN down' = 1..Len(down) + Len(es)
              /\ \A i \in 1..Len(down) : down'[i] = down[i]
              /\ \A i \in 1..Len(es) : down'[Len(down) + i] = es[i]
<1>1. down \in Seq(Event)
  BY DEF TypeOK
<1>2. CASE handler.alone
  BY <1>1, <1>2 DEF Sends
<1>3. CASE ~handler.alone
  <2>1. down' = down \o es
    BY <1>3 DEF Sends
  <2> QED BY <1>1, <1>3, <2>1
<1> QED BY <1>2, <1>3

(* Nothing that is sent later is an opening event.                         *)
LEMMA SendsKeepConn ==
  ASSUME ClientInv, NEW es \in Seq(Event), Sends(es),
         \A i \in DOMAIN es : es[i].type \notin {"open", "session"},
         handler.at # "none", handler'.at # "none", handler'.session = handler.session,
         handler'.alone = handler.alone, handler'.base = handler.base,
         UNCHANGED <<threadId, socket, busy, status, footer, greeting, early>>
  PROVE  ConnInv' /\ SessionInv'
<1> USE DEF ClientInv
<1>1. Live' = Live /\ (Live <=> ~handler.alone)
  BY DEF Live
<1>2. greeting \in 0..Len(down)
  BY DEF TypeOK
<1>3. CASE handler.alone
  <2>1. down' = down
    BY <1>3, SentFacts
  <2> QED BY <1>1, <1>3, <2>1 DEF ConnInv, SessionInv
<1>4. CASE ~handler.alone
  <2>1. /\ Len(down) \in Nat /\ DOMAIN down = 1..Len(down) /\ Len(es) \in Nat
        /\ DOMAIN down' = 1..Len(down) + Len(es)
        /\ \A i \in 1..Len(down) : down'[i] = down[i]
        /\ \A i \in 1..Len(es) : down'[Len(down) + i] = es[i]
    BY <1>4, SentFacts
  <2>2. \A i \in DOMAIN down' : i \notin DOMAIN down =>
          i > greeting /\ down'[i].type \notin {"open", "session"}
    <3> SUFFICES ASSUME NEW i \in DOMAIN down', i \notin DOMAIN down
                 PROVE  i > greeting /\ down'[i].type \notin {"open", "session"}
      OBVIOUS
    <3>1. i - Len(down) \in 1..Len(es) /\ i = Len(down) + (i - Len(down))
      BY <2>1
    <3>2. DOMAIN es = 1..Len(es)
      OBVIOUS
    <3> QED BY <1>2, <2>1, <3>1, <3>2
  <2>3. DOMAIN down \subseteq DOMAIN down' /\ \A i \in DOMAIN down : down'[i] = down[i]
    BY <2>1
  <2>4. ConnInv'
    <3>1. socket = "connecting" /\ Live => greeting' > 0 /\ down'[1].type = "open"
      <4> HAVE socket = "connecting" /\ Live
      <4>1. greeting > 0 /\ down[1].type = "open"
        BY DEF ConnInv
      <4>2. 1 \in 1..Len(down)
        BY <1>2, <2>1, <4>1
      <4> QED BY <2>1, <4>1, <4>2
    <3>2. \A i \in DOMAIN down' : down'[i].type \in {"open", "session"} => i <= greeting'
      BY <2>2, <2>3 DEF ConnInv
    <3>3. \A i \in DOMAIN down' : down'[i].type = "metrics" => i > greeting'
      BY <2>2, <2>3 DEF ConnInv
    <3>4. handler.session \in Sessions /\ socket # "closed"
      BY <1>1, <1>4 DEF ConnInv
    <3> QED BY <1>1, <1>4, <3>1, <3>2, <3>3, <3>4 DEF ConnInv
  <2>5. SessionInv'
    BY <1>1, <1>4, <2>2, <2>3 DEF SessionInv
  <2> QED BY <2>4, <2>5
<1> QED BY <1>3, <1>4

(* What is sent without metrics leaves the footer's future alone; with     *)
(* them it decides it.                                                     *)
LEMMA SendsKeepFooter ==
  ASSUME ClientInv, NEW es \in Seq(Event), Sends(es),
         \A i \in DOMAIN es : es[i].type # "session",
         \/ handler'.totals = handler.totals /\ \A i \in DOMAIN es : es[i].type # "metrics"
         \/ /\ Len(es) > 0 /\ es[1].type = "metrics" /\ es[1].totals = handler'.totals
            /\ \A i \in DOMAIN es : es[i].type = "metrics" => i = 1,
         handler.at # "none", handler'.at # "none", handler'.alone = handler.alone,
         UNCHANGED footer
  PROVE  FooterInv'
<1> USE DEF ClientInv
<1>1. CASE handler.alone
  BY <1>1 DEF FooterInv, Live
<1>2. CASE ~handler.alone
  <2>1. Live /\ Live'
    BY <1>2 DEF Live
  <2>2. /\ Len(down) \in Nat /\ DOMAIN down = 1..Len(down) /\ Len(es) \in Nat
        /\ DOMAIN down' = 1..Len(down) + Len(es)
        /\ \A i \in 1..Len(down) : down'[i] = down[i]
        /\ \A i \in 1..Len(es) : down'[Len(down) + i] = es[i]
    BY <1>2, SentFacts
  <2>3. DOMAIN es = 1..Len(es)
    OBVIOUS
  <2>4. \A i \in DOMAIN down' : i \in DOMAIN down \/
          (i - Len(down) \in DOMAIN es /\ down'[i] = es[i - Len(down)])
    <3> SUFFICES ASSUME NEW i \in DOMAIN down', i \notin DOMAIN down
                 PROVE  i - Len(down) \in DOMAIN es /\ down'[i] = es[i - Len(down)]
      OBVIOUS
    <3>1. i - Len(down) \in 1..Len(es) /\ i = Len(down) + (i - Len(down))
      BY <2>2
    <3> QED BY <2>2, <2>3, <3>1
  <2>5. Opening' <=> Opening
    <3>1. Opening => Opening'
      BY <2>2 DEF Opening
    <3>2. Opening' => Opening
      BY <2>2, <2>4 DEF Opening
    <3> QED BY <3>1, <3>2
  <2>6. CASE handler'.totals = handler.totals /\ \A i \in DOMAIN es : es[i].type # "metrics"
    <3>1. MetricsAt' = MetricsAt
      <4>1. MetricsAt \subseteq MetricsAt'
        BY <2>2 DEF MetricsAt
      <4>2. MetricsAt' \subseteq MetricsAt
        BY <2>2, <2>4, <2>6 DEF MetricsAt
      <4> QED BY <4>1, <4>2
    <3>2. \A i \in MetricsAt : down'[i] = down[i]
      BY <2>2 DEF MetricsAt
    <3> QED BY <2>1, <2>5, <2>6, <3>1, <3>2 DEF FooterInv
  <2>7. CASE /\ Len(es) > 0 /\ es[1].type = "metrics" /\ es[1].totals = handler'.totals
             /\ \A i \in DOMAIN es : es[i].type = "metrics" => i = 1
    <3> PICK k : k = Len(down) + 1
      OBVIOUS
    <3>1. 1 \in 1..Len(es) /\ k \in DOMAIN down' /\ down'[k] = es[1]
      BY <2>2, <2>7
    <3>2. k \in MetricsAt' /\ down'[k].totals = handler'.totals
      BY <2>7, <3>1 DEF MetricsAt
    <3>3. ASSUME NEW j \in MetricsAt' PROVE j <= k
      <4>1. j \in DOMAIN down' /\ down'[j].type = "metrics"
        BY DEF MetricsAt
      <4>2. CASE j \in DOMAIN down
        BY <2>2, <4>2
      <4>3. CASE j - Len(down) \in DOMAIN es /\ down'[j] = es[j - Len(down)]
        <5>1. j - Len(down) = 1
          BY <2>7, <4>1, <4>3
        <5> QED BY <2>2, <4>1, <5>1
      <4> QED BY <2>4, <4>1, <4>2, <4>3
    <3> QED BY <2>1, <3>2, <3>3 DEF FooterInv
  <2> QED BY <2>6, <2>7
<1> QED BY <1>1, <1>2

(* A turn is going on: the input is locked, and every message that is      *)
(* under way is early.                                                     *)
LEMMA InTurn ==
  ASSUME ClientInv, handler.at = "turn"
  PROVE  /\ \A i \in DOMAIN up : up[i].early
         /\ handler.session \in Sessions /\ ~handler.waiting
         /\ Live /\ ~early =>
              greeting = 0 /\ busy /\ up = <<>> /\ \A i \in DOMAIN down : ~Unlocks(down[i])
<1> USE DEF ClientInv
<1>1. \A i \in DOMAIN up : up[i].early
  <2> SUFFICES ASSUME NEW i \in DOMAIN up PROVE up[i].early
    OBVIOUS
  <2>1. ~up[i].early => handler.at = "receive"
    BY DEF MessageInv
  <2> QED BY <2>1
<1>2. handler.session \in Sessions /\ ~handler.waiting
  BY DEF ConnInv, StoreInv
<1>3. greeting \in Nat
  <2>1. greeting \in 0..Len(down) /\ down \in Seq(Event)
    BY DEF TypeOK
  <2>2. Len(down) \in Nat
    BY <2>1
  <2> QED BY <2>1, <2>2
<1>4. Live /\ ~early => greeting = 0
  BY <1>3 DEF OpeningInv
<1>5. Live /\ ~early => busy /\ up = <<>> /\ \A i \in DOMAIN down : ~Unlocks(down[i])
  BY <1>4 DEF TurnInv
<1> QED BY <1>1, <1>2, <1>4, <1>5

(* What a turn sends comes after events that do not open the input.        *)
LEMMA TurnSends ==
  ASSUME ClientInv, handler.at = "turn", Live, ~early, NEW es \in Seq(Event), Sends(es),
         UNCHANGED <<busy, up, greeting>>
  PROVE  /\ greeting' = 0 /\ busy' /\ up' = <<>>
         /\ \A i \in DOMAIN down' : i <= Len(down) => ~Unlocks(down'[i])
         /\ (\A i \in DOMAIN es : ~Unlocks(es[i])) => \A i \in DOMAIN down' : ~Unlocks(down'[i])
         /\ Len(down') = Len(down) + Len(es)
         /\ \A i \in 1..Len(es) : down'[Len(down) + i] = es[i]
<1>1. greeting = 0 /\ busy /\ up = <<>> /\ \A i \in DOMAIN down : ~Unlocks(down[i])
  BY InTurn
<1>2. /\ Len(down) \in Nat /\ DOMAIN down = 1..Len(down) /\ Len(es) \in Nat
      /\ Len(down') = Len(down) + Len(es)
      /\ DOMAIN down' = 1..Len(down) + Len(es)
      /\ \A i \in 1..Len(down) : down'[i] = down[i]
      /\ \A i \in 1..Len(es) : down'[Len(down) + i] = es[i]
  BY SentFacts DEF ClientInv, Live
<1>3. \A i \in DOMAIN down' : i <= Len(down) => ~Unlocks(down'[i])
  BY <1>1, <1>2
<1>4. ASSUME \A i \in DOMAIN es : ~Unlocks(es[i]), NEW i \in DOMAIN down'
      PROVE  ~Unlocks(down'[i])
  <2>1. CASE i <= Len(down)
    BY <1>3, <2>1
  <2>2. CASE i > Len(down)
    <3>1. i - Len(down) \in 1..Len(es) /\ i = Len(down) + (i - Len(down))
      BY <1>2, <2>2
    <3>2. DOMAIN es = 1..Len(es)
      OBVIOUS
    <3> QED BY <1>2, <1>4, <3>1, <3>2
  <2> QED BY <1>2, <2>1, <2>2
<1> QED BY <1>1, <1>2, <1>3, <1>4

LEMMA TurnEnds ==
  ASSUME ClientInv, handler.at = "turn", Live, ~early, NEW es \in Seq(Event), Sends(es),
         Len(es) > 0, Unlocks(es[Len(es)]), \A i \in DOMAIN es : Unlocks(es[i]) => i = Len(es),
         UNCHANGED <<busy, up, greeting>>
  PROVE  /\ greeting' = 0 /\ busy' /\ up' = <<>> /\ down' # <<>>
         /\ \A i \in DOMAIN down' : Unlocks(down'[i]) => i = Len(down')
         /\ down'[Len(down')] = es[Len(es)]
<1>1. /\ greeting' = 0 /\ busy' /\ up' = <<>>
      /\ \A i \in DOMAIN down' : i <= Len(down) => ~Unlocks(down'[i])
      /\ Len(down') = Len(down) + Len(es)
      /\ \A i \in 1..Len(es) : down'[Len(down) + i] = es[i]
  BY TurnSends
<1>2. Len(down) \in Nat /\ Len(es) \in Nat /\ DOMAIN es = 1..Len(es) /\ DOMAIN down' = 1..Len(down')
  BY <1>1, SentFacts DEF ClientInv, Live
<1>3. down'[Len(down')] = es[Len(es)] /\ Len(down') > 0
  BY <1>1, <1>2
<1>4. ASSUME NEW i \in DOMAIN down', Unlocks(down'[i])
      PROVE  i = Len(down')
  <2>1. i > Len(down) /\ i \in 1..Len(down) + Len(es)
    BY <1>1, <1>2, <1>4
  <2>2. i - Len(down) \in 1..Len(es) /\ i = Len(down) + (i - Len(down))
    BY <1>2, <2>1
  <2>3. i - Len(down) = Len(es)
    BY <1>1, <1>2, <1>4, <2>2
  <2> QED BY <1>1, <1>2, <2>2, <2>3
<1>5. down' # <<>>
  BY <1>3
<1> QED BY <1>1, <1>3, <1>4, <1>5


LEMMA ReceiveKeeps ==
  ASSUME ClientInv, Receive
  PROVE  ClientInv'
<1> USE DEF ClientInv
<1>1. TypeOK'
  BY ServesTyped DEF ConnInv, Serves
<1>2. /\ handler.at = "receive" /\ up # <<>> /\ up' = Tail(up)
      /\ Sends(<<[type |-> "working"]>>)
      /\ UNCHANGED <<threadId, socket, busy, status, footer, greeting, early>>
  BY DEF Receive, page, observed
<1>3. /\ handler'.at = "turn" /\ ~handler'.waiting
      /\ handler'.session = handler.session /\ handler'.alone = handler.alone
      /\ handler'.base = handler.base /\ handler'.totals = handler.totals
  <2>1. handler \in Handler /\ handler' = [handler EXCEPT !.at = "turn", !.waiting = FALSE]
    BY DEF TypeOK, Receive
  <2> QED BY <2>1 DEF Handler
<1>4. handler.session \in Sessions
  BY <1>2 DEF ConnInv
<1> PICK es : es = <<[type |-> "working"]>>
  OBVIOUS
<1>5. es \in Seq(Event) /\ Sends(es) /\ DOMAIN es = 1..1 /\ es[1].type = "working"
  BY <1>2, EventsTyped
<1>6. \A i \in DOMAIN es : es[i].type \notin {"open", "session", "metrics"}
  BY <1>5
<1>7. ConnInv' /\ SessionInv'
  BY <1>2, <1>3, <1>5, <1>6, SendsKeepConn
<1>8. FooterInv'
  BY <1>2, <1>3, <1>5, <1>6, SendsKeepFooter
<1>9. ASSUME Live', ~early'
      PROVE  greeting' = 0 /\ busy' /\ up' = <<>> /\ \A i \in DOMAIN down' : ~Unlocks(down'[i])
  <2>1. Live /\ ~early
    BY <1>2, <1>3, <1>9 DEF Live
  <2>2. greeting = 0
    <3>1. greeting \in 0..Len(down) /\ down \in Seq(Event)
      BY DEF TypeOK
    <3>2. Len(down) \in Nat
      BY <3>1
    <3>3. ~(greeting > 0)
      BY <1>2, <2>1 DEF OpeningInv
    <3> QED BY <3>1, <3>2, <3>3
  <2>3. busy /\ Len(up) = 1 /\ down = <<>>
    BY <1>2, <2>1, <2>2 DEF TurnInv
  <2>4. down' = es
    BY <1>5, <2>1, <2>3 DEF Live, Sends
  <2>5. up' = <<>>
    <3>1. up \in Seq(Message)
      BY DEF TypeOK
    <3> QED BY <1>2, <2>3, <3>1
  <2>6. \A i \in DOMAIN down' : ~Unlocks(down'[i])
    BY <1>5, <2>4 DEF Unlocks
  <2> QED BY <1>2, <2>2, <2>3, <2>5, <2>6
<1>10. OpeningInv' /\ TurnInv'
  BY <1>3, <1>9 DEF OpeningInv, TurnInv
<1>11. MessageInv'
  <2>1. up \in Seq(Message)
    BY DEF TypeOK
  <2>2. \A i \in DOMAIN up' : i + 1 \in DOMAIN up /\ up'[i] = up[i + 1] /\ Len(up) # 1
    BY <1>2, <2>1
  <2> QED BY <1>2, <2>2 DEF MessageInv
<1>12. StoreInv'
  <2>1. \A s \in Sessions : stored'[s].exists = stored[s].exists
          /\ (stored'[s].pending => stored[s].pending)
    <3>1. stored \in [Sessions -> Stored]
      BY DEF TypeOK
    <3>2. stored' = [stored EXCEPT ![handler.session].log = Logged(Head(up).item),
                                   ![handler.session].pending = FALSE]
      BY DEF Receive
    <3> QED BY <1>4, <3>1, <3>2 DEF Stored
  <2> QED BY <1>2, <1>3, <1>4, <2>1 DEF StoreInv
<1> QED BY <1>1, <1>7, <1>8, <1>10, <1>11, <1>12

(* An event of a turn is an item, perhaps after metrics.                   *)
LEMMA WorkKeeps ==
  ASSUME ClientInv, NEW kind \in {"msg", "note"}, Work(kind)
  PROVE  ClientInv'
<1> USE DEF ClientInv
<1>1. TypeOK'
  BY ServesTyped DEF ConnInv, Serves
<1>2. /\ handler.at = "turn" /\ items < MaxItems
      /\ UNCHANGED <<threadId, socket, busy, status, footer, up, greeting, early>>
  BY DEF Work, page
<1>3. handler.totals \in Nat /\ handler \in Handler /\ handler.totals + 1 \in Nat
  <2>1. handler.totals \in Nat
    BY HandlerFields
  <2>2. handler \in Handler
    BY DEF TypeOK
  <2> QED BY <2>1, <2>2
<1>4. /\ handler'.at = "turn" /\ handler'.waiting = handler.waiting
      /\ handler'.session = handler.session /\ handler'.alone = handler.alone
      /\ handler'.base = handler.base
      /\ IF kind = "msg" THEN handler'.totals = handler.totals + 1 ELSE handler'.totals = handler.totals
  <2>1. IF kind = "msg" THEN handler' = [handler EXCEPT !.totals = @ + 1] ELSE handler' = handler
    BY DEF Work
  <2> QED BY <1>2, <1>3, <2>1 DEF Handler
<1> PICK metrics, shown :
      metrics = [type |-> "metrics", totals |-> handler.totals + 1] /\ shown = Shown(NewItem(kind))
  OBVIOUS
<1>5. /\ metrics \in Event /\ metrics.type = "metrics" /\ metrics.totals = handler.totals + 1
      /\ shown \in Event /\ shown.type = "item" /\ shown.item.kind = kind
  <2>1. NewItem(kind) \in Item /\ NewItem(kind).kind = kind
    BY <1>2, ItemTyped
  <2> QED BY <1>3, <2>1, EventsTyped DEF Shown
<1>0. \A q \in Seq(Event) : DOMAIN q = 1..Len(q)
  OBVIOUS
<1> PICK es : es = IF kind = "msg" THEN <<metrics, shown>> ELSE <<shown>>
  OBVIOUS
<1>6. /\ es \in Seq(Event) /\ Sends(es)
      /\ IF kind = "msg" THEN Len(es) = 2 /\ es[1] = metrics /\ es[2] = shown
                         ELSE Len(es) = 1 /\ es[1] = shown
  BY <1>5 DEF Work
<1>7. DOMAIN es = 1..Len(es)
  BY <1>0, <1>6
<1>8. \A i \in DOMAIN es : es[i].type \notin {"open", "session"} /\ ~Unlocks(es[i])
  <2>1. ~Unlocks(metrics) /\ ~Unlocks(shown)
    BY <1>5 DEF Unlocks
  <2> QED BY <1>5, <1>6, <1>7, <2>1
<1>9. ConnInv' /\ SessionInv'
  BY <1>2, <1>4, <1>6, <1>8, SendsKeepConn
<1>10. FooterInv'
  <2>1. CASE kind = "msg"
    <3>1. \A i \in DOMAIN es : es[i].type = "metrics" => i = 1
      BY <1>5, <1>6, <1>7, <2>1
    <3>2. Len(es) > 0 /\ es[1].type = "metrics" /\ es[1].totals = handler'.totals
      BY <1>4, <1>5, <1>6, <2>1
    <3>3. handler.at # "none" /\ handler'.at # "none"
      BY <1>2, <1>4
    <3> QED BY <1>2, <1>4, <1>6, <1>8, <3>1, <3>2, <3>3, SendsKeepFooter
  <2>2. CASE kind # "msg"
    <3>1. \A i \in DOMAIN es : es[i].type # "metrics"
      BY <1>5, <1>6, <1>7, <2>2
    <3> QED BY <1>2, <1>4, <1>6, <1>8, <2>2, <3>1, SendsKeepFooter
  <2> QED BY <2>1, <2>2
<1>11. ASSUME Live', ~early'
       PROVE  greeting' = 0 /\ busy' /\ up' = <<>> /\ \A i \in DOMAIN down' : ~Unlocks(down'[i])
  BY <1>2, <1>4, <1>6, <1>7, <1>8, <1>11, TurnSends DEF Live
<1>12. OpeningInv' /\ TurnInv'
  BY <1>4, <1>11 DEF OpeningInv, TurnInv
<1>13. MessageInv'
  BY <1>2, InTurn DEF MessageInv
<1>14. StoreInv'
  <2>1. \A s \in Sessions : stored'[s].exists = stored[s].exists /\ stored'[s].pending = stored[s].pending
    <3>1. stored \in [Sessions -> Stored] /\ handler.session \in Sessions
      BY <1>2, InTurn DEF TypeOK
    <3>2. stored' = [stored EXCEPT ![handler.session].log = Logged(NewItem(kind))]
      BY DEF Work
    <3> QED BY <3>1, <3>2 DEF Stored
  <2> QED BY <1>2, <1>4, <2>1, InTurn DEF StoreInv
<1> QED BY <1>1, <1>9, <1>10, <1>12, <1>13, <1>14

(* A question ends a turn, and is the last event of it.                    *)
LEMMA AskKeeps ==
  ASSUME ClientInv, Ask
  PROVE  ClientInv'
<1> USE DEF ClientInv
<1>1. TypeOK'
  BY ServesTyped DEF ConnInv, Serves
<1>2. /\ handler.at = "turn" /\ items < MaxItems
      /\ UNCHANGED <<threadId, socket, busy, status, footer, up, greeting, early>>
  BY DEF Ask, page
<1>3. /\ handler'.at = "receive" /\ handler'.waiting
      /\ handler'.session = handler.session /\ handler'.alone = handler.alone
      /\ handler'.base = handler.base /\ handler'.totals = handler.totals
  <2>1. handler \in Handler /\ handler' = [handler EXCEPT !.at = "receive", !.waiting = TRUE]
    BY DEF TypeOK, Ask
  <2> QED BY <2>1 DEF Handler
<1> PICK shown : shown = Shown(NewItem("question"))
  OBVIOUS
<1>4. shown \in Event /\ shown.type = "item" /\ shown.item.kind = "question"
  <2>1. NewItem("question") \in Item /\ NewItem("question").kind = "question"
    BY <1>2, ItemTyped
  <2> QED BY <2>1, EventsTyped DEF Shown
<1> PICK es : es = <<shown>>
  OBVIOUS
<1>5. es \in Seq(Event) /\ Sends(es) /\ Len(es) = 1 /\ DOMAIN es = 1..1 /\ es[1] = shown
  BY <1>4 DEF Ask
<1>6. \A i \in DOMAIN es : es[i].type \notin {"open", "session", "metrics"}
  BY <1>4, <1>5
<1>7. ConnInv' /\ SessionInv'
  BY <1>2, <1>3, <1>5, <1>6, SendsKeepConn
<1>8. FooterInv'
  BY <1>2, <1>3, <1>5, <1>6, SendsKeepFooter
<1>9. ASSUME Live', ~early'
      PROVE  /\ greeting' = 0 /\ busy' /\ up' = <<>> /\ down' # <<>>
             /\ \A i \in DOMAIN down' : Unlocks(down'[i]) => i = Len(down')
             /\ Unlocks(down'[Len(down')]) /\ down'[Len(down')].type = "item"
  <2>1. Live /\ ~early
    BY <1>2, <1>3, <1>9 DEF Live
  <2>2. Unlocks(es[1]) /\ es[Len(es)] = es[1] /\ Len(es) > 0
    BY <1>4, <1>5 DEF Unlocks
  <2>3. \A i \in DOMAIN es : Unlocks(es[i]) => i = Len(es)
    BY <1>5
  <2> QED BY <1>2, <1>4, <1>5, <2>1, <2>2, <2>3, TurnEnds
<1>10. OpeningInv' /\ TurnInv'
  BY <1>3, <1>9 DEF OpeningInv, TurnInv
<1>11. MessageInv'
  BY <1>2, InTurn DEF MessageInv
<1>12. StoreInv'
  <2>1. \A s \in Sessions : /\ stored'[s].exists = stored[s].exists
                            /\ s # handler.session => stored'[s].pending = stored[s].pending
    <3>1. stored \in [Sessions -> Stored] /\ handler.session \in Sessions
      BY <1>2, InTurn DEF TypeOK
    <3>2. stored' = [stored EXCEPT ![handler.session].log = Logged(NewItem("question")),
                                   ![handler.session].pending = TRUE]
      BY DEF Ask
    <3> QED BY <3>1, <3>2 DEF Stored
  <2>2. stored[handler.session].exists /\ \A s \in Sessions : ~stored[s].exists => ~stored[s].pending
    BY <1>2 DEF StoreInv
  <2> QED BY <1>2, <1>3, <2>1, <2>2, InTurn DEF StoreInv
<1> QED BY <1>1, <1>7, <1>8, <1>10, <1>11, <1>12

(* A turn that is over has its cost stored and the footer told.            *)
LEMMA FinishKeeps ==
  ASSUME ClientInv, Finish
  PROVE  ClientInv'
<1> USE DEF ClientInv
<1>1. TypeOK'
  BY ServesTyped DEF ConnInv, Serves
<1>2. /\ handler.at = "turn"
      /\ UNCHANGED <<threadId, socket, busy, status, footer, up, greeting, early>>
  BY DEF Finish, page, observed
<1>3. /\ handler'.at = "receive" /\ handler'.waiting = handler.waiting
      /\ handler'.session = handler.session /\ handler'.alone = handler.alone
      /\ handler'.base = handler.base /\ handler'.totals = handler.totals
  <2>1. handler \in Handler /\ handler' = [handler EXCEPT !.at = "receive"]
    BY DEF TypeOK, Finish
  <2> QED BY <2>1 DEF Handler
<1>4. ~handler.waiting /\ handler.session \in Sessions
  BY <1>2, InTurn
<1> PICK metrics, done :
      metrics = [type |-> "metrics", totals |-> handler.totals] /\ done = [type |-> "done"]
  OBVIOUS
<1>5. /\ metrics \in Event /\ metrics.type = "metrics" /\ metrics.totals = handler'.totals
      /\ done \in Event /\ done.type = "done"
  BY <1>3, EventsTyped, HandlerFields
<1> PICK es : es = <<metrics, done>>
  OBVIOUS
<1>6. /\ es \in Seq(Event) /\ Sends(es) /\ Len(es) = 2 /\ DOMAIN es = 1..2
      /\ es[1] = metrics /\ es[2] = done
  BY <1>5 DEF Finish
<1>7. \A i \in DOMAIN es : es[i].type \notin {"open", "session"} /\ (es[i].type = "metrics" => i = 1)
  BY <1>5, <1>6
<1>8. ConnInv' /\ SessionInv'
  BY <1>2, <1>3, <1>6, <1>7, SendsKeepConn
<1>9. FooterInv'
  <2>1. handler.at # "none" /\ handler'.at # "none"
    BY <1>2, <1>3
  <2>2. Len(es) > 0 /\ es[1].type = "metrics" /\ es[1].totals = handler'.totals
    BY <1>5, <1>6
  <2> QED BY <1>2, <1>3, <1>6, <1>7, <2>1, <2>2, SendsKeepFooter
<1>10. ASSUME Live', ~early'
       PROVE  /\ greeting' = 0 /\ busy' /\ up' = <<>> /\ down' # <<>>
              /\ \A i \in DOMAIN down' : Unlocks(down'[i]) => i = Len(down')
              /\ Unlocks(down'[Len(down')]) /\ down'[Len(down')].type = "done"
  <2>1. ~Unlocks(es[1]) /\ Unlocks(es[2])
    BY <1>5, <1>6 DEF Unlocks
  <2>2. \A i \in DOMAIN es : Unlocks(es[i]) => i = Len(es)
    BY <1>6, <2>1
  <2>3. Live /\ ~early
    BY <1>2, <1>3, <1>10 DEF Live
  <2>4. Len(es) > 0 /\ Unlocks(es[Len(es)]) /\ es[Len(es)].type = "done"
    BY <1>5, <1>6, <2>1
  <2> QED BY <1>2, <1>6, <2>2, <2>3, <2>4, TurnEnds
<1>11. OpeningInv' /\ TurnInv'
  BY <1>3, <1>4, <1>10 DEF OpeningInv, TurnInv
<1>12. MessageInv'
  BY <1>2, InTurn DEF MessageInv
<1>13. StoreInv'
  <2>1. /\ \A s \in Sessions : stored'[s].exists = stored[s].exists /\ stored'[s].pending = stored[s].pending
        /\ stored'[handler.session].cost = handler.base + handler.totals
    <3>1. stored \in [Sessions -> Stored]
      BY DEF TypeOK
    <3>2. stored' = [stored EXCEPT ![handler.session].cost = handler.base + handler.totals]
      BY DEF Finish
    <3> QED BY <1>4, <3>1, <3>2 DEF Stored
  <2> QED BY <1>2, <1>3, <1>4, <2>1 DEF StoreInv
<1> QED BY <1>1, <1>8, <1>9, <1>11, <1>12, <1>13

-----------------------------------------------------------------------------
(* The page handles an event.                                              *)

(* What an event does to the page.                                         *)
LEMMA Effects ==
  ASSUME TypeOK, HandleEvent
  PROVE  LET e == Head(down) IN
         /\ Handles(e.type)
         /\ IF Unlocks(e) THEN ~busy' ELSE busy' = busy
         /\ e.type \in {"open", "done"} => status' = "online"
         /\ e.type = "session" => status' = status
         /\ Unlocks(e) /\ e.type \in {"awaiting", "item"} => status' = "question"
         /\ IF e.type = "session" THEN threadId' = e.session /\ footer'.base = e.cost /\ footer'.live = 0
                                  ELSE threadId' = threadId /\ footer'.base = footer.base
         /\ e.type = "metrics" => footer'.live = e.totals
         /\ e.type \notin {"session", "metrics"} => footer'.live = footer.live
         /\ IF e.type = "open" THEN socket' = "open" ELSE socket' = socket
<1> PICK e : e = Head(down)
  OBVIOUS
<1>1. CASE OnItem
  <2>1. /\ Handles("item") /\ e.type = "item" /\ UNCHANGED <<threadId, socket, footer>>
        /\ e.item.kind = "question" => status' = "question"
        /\ busy' = IF e.item.kind = "question" THEN FALSE ELSE busy
    BY <1>1 DEF OnItem, Handles, Unlocking
  <2> QED BY <2>1 DEF Unlocks
<1>2. CASE OnSession
  <2>1. /\ Handles("session") /\ e.type = "session" /\ UNCHANGED <<socket, busy, status>>
        /\ threadId' = e.session /\ footer' = [base |-> e.cost, live |-> 0]
    BY <1>2 DEF OnSession, Handles, LiveTotalsCleared
  <2> QED BY <2>1 DEF Unlocks
<1>3. CASE OnMetrics
  <2>1. /\ Handles("metrics") /\ e.type = "metrics" /\ UNCHANGED <<threadId, socket, busy, status>>
        /\ footer' = [footer EXCEPT !.live = e.totals] /\ footer \in [base : Nat, live : Nat]
    BY <1>3 DEF OnMetrics, Handles, TypeOK
  <2>2. footer'.base = footer.base /\ footer'.live = e.totals
    BY <2>1
  <2> QED BY <2>1, <2>2 DEF Unlocks
<1>4. CASE OnOpen \/ OnAwaiting \/ OnDone
  BY <1>4 DEF OnOpen, OnAwaiting, OnDone, Handles, OnlineClass, Unlocks
<1>5. CASE OnReplayStart \/ OnReplayEnd \/ OnWorking
  BY <1>5 DEF OnReplayStart, OnReplayEnd, OnWorking, Handles, Unlocks
<1> QED BY <1>1, <1>2, <1>3, <1>4, <1>5 DEF HandleEvent

LEMMA HandleEventKeeps ==
  ASSUME ClientInv, HandleEvent
  PROVE  ClientInv'
<1>0. TypeOK /\ ConnInv /\ SessionInv /\ OpeningInv /\ TurnInv /\ MessageInv /\ StoreInv /\ FooterInv
  BY DEF ClientInv
<1>1. TypeOK'
  BY <1>0, HandleEventTyped
<1> PICK e, n : e = Head(down) /\ n = Len(down)
  OBVIOUS
<1>2. /\ Handles(e.type)
      /\ IF Unlocks(e) THEN ~busy' ELSE busy' = busy
      /\ e.type \in {"open", "done"} => status' = "online"
      /\ e.type = "session" => status' = status
      /\ Unlocks(e) /\ e.type \in {"awaiting", "item"} => status' = "question"
  BY <1>0, Effects
<1>3. /\ IF e.type = "session" THEN threadId' = e.session /\ footer'.base = e.cost /\ footer'.live = 0
                               ELSE threadId' = threadId /\ footer'.base = footer.base
      /\ e.type = "metrics" => footer'.live = e.totals
      /\ e.type \notin {"session", "metrics"} => footer'.live = footer.live
      /\ IF e.type = "open" THEN socket' = "open" ELSE socket' = socket
  BY <1>0, Effects
<1>4. /\ n \in Nat \ {0} /\ down[1] = e /\ Len(down') = n - 1
      /\ DOMAIN down = 1..n /\ DOMAIN down' = 1..n - 1
      /\ \A i \in 1..n - 1 : down'[i] = down[i + 1]
      /\ down' \in Seq(Event)
      /\ UNCHANGED <<up, handler, stored, items, early>>
  BY <1>0, <1>2, HandlesFacts
<1>5. greeting \in 0..n /\ greeting' = (IF greeting > 0 THEN greeting - 1 ELSE 0)
  BY <1>0, <1>2, HandlesFacts
<1>6. /\ \A i \in DOMAIN down' : i + 1 \in DOMAIN down /\ down'[i] = down[i + 1]
      /\ \A i \in DOMAIN down : i # 1 => i - 1 \in DOMAIN down' /\ down'[i - 1] = down[i]
  BY <1>4
<1>head. 1 \in DOMAIN down /\ down[1] = e
  BY <1>4
<1>7. Live /\ Live'
  <2>1. down # <<>>
    BY <1>4
  <2>2. Live
    BY <1>0, <2>1 DEF ConnInv
  <2> QED BY <1>4, <2>2 DEF Live
<1>8. ConnInv'
  <2>1. socket' \notin {"closed", "connecting"}
    BY <1>0, <1>3, <1>4, <1>7 DEF ConnInv
  <2>2. ASSUME NEW i \in DOMAIN down', down'[i].type \in {"open", "session"} PROVE i <= greeting'
    <3>1. i + 1 <= greeting
      BY <1>0, <1>6, <2>2 DEF ConnInv
    <3> QED BY <1>4, <1>5, <3>1
  <2>3. ASSUME NEW i \in DOMAIN down', down'[i].type = "metrics" PROVE i > greeting'
    <3>1. i + 1 > greeting
      BY <1>0, <1>6, <2>3 DEF ConnInv
    <3> QED BY <1>4, <1>5, <3>1
  <2>4. handler'.session \in Sessions /\ handler'.at # "none"
    BY <1>0, <1>4, <1>7 DEF ConnInv, Live
  <2> QED BY <1>7, <2>1, <2>2, <2>3, <2>4 DEF ConnInv
<1>9. SessionInv'
  <2>1. \A i \in DOMAIN down' : down'[i].type = "session" =>
          down'[i].session = handler'.session /\ down'[i].cost = handler'.base
    BY <1>0, <1>4, <1>6, <1>7 DEF SessionInv
  <2>2. CASE e.type = "session"
    <3>1. e.session = handler.session /\ e.cost = handler.base
      BY <1>0, <1>4, <1>7, <2>2 DEF SessionInv
    <3> QED BY <1>3, <1>4, <2>1, <2>2, <3>1 DEF SessionInv
  <2>3. CASE e.type # "session"
    <3>1. CASE threadId = handler.session /\ footer.base = handler.base
      BY <1>3, <1>4, <2>1, <2>3, <3>1 DEF SessionInv
    <3>2. CASE \E i \in DOMAIN down : down[i].type = "session"
      <4>1. \E i \in DOMAIN down' : down'[i].type = "session"
        BY <1>4, <1>6, <2>3, <3>2
      <4> QED BY <2>1, <4>1 DEF SessionInv
    <3> QED BY <1>0, <1>7, <3>1, <3>2 DEF SessionInv
  <2> QED BY <2>2, <2>3
<1>10. OpeningInv'
  <2> SUFFICES ASSUME ~early, greeting' > 0
               PROVE  LET last == down'[Len(down')] IN
                      /\ handler.at = "receive" /\ up = <<>> /\ Len(down') = greeting'
                      /\ \/ last.type = IF handler.waiting THEN "awaiting" ELSE "done"
                         \/ /\ last.type = "session" /\ ~handler.waiting
                            /\ Len(down') = 1 /\ status' = "online" /\ ~busy'
    BY <1>4 DEF OpeningInv
  <2>1. greeting > 1 /\ greeting' = greeting - 1
    BY <1>5
  <2>2. /\ handler.at = "receive" /\ up = <<>> /\ n = greeting
        /\ \/ down[n].type = IF handler.waiting THEN "awaiting" ELSE "done"
           \/ /\ down[n].type = "session" /\ ~handler.waiting
              /\ n = 2 /\ e.type = "open"
    <3>1. /\ handler.at = "receive" /\ up = <<>> /\ Len(down) = greeting
          /\ \/ down[Len(down)].type = IF handler.waiting THEN "awaiting" ELSE "done"
             \/ /\ down[Len(down)].type = "session" /\ ~handler.waiting
                /\ Len(down) = 1 \/ (Len(down) = 2 /\ down[1].type = "open")
      <4>1. greeting > 0
        BY <1>5, <2>1
      <4> QED BY <1>0, <1>7, <4>1 DEF OpeningInv
    <3>2. n # 1
      BY <1>4, <2>1, <3>1
    <3> QED BY <1>4, <3>1, <3>2
  <2>3. Len(down') = greeting' /\ down'[Len(down')] = down[n]
    BY <1>4, <2>1, <2>2
  <2>4. e.type = "open" => status' = "online" /\ ~busy'
    BY <1>2 DEF Unlocks
  <2> QED BY <1>4, <2>2, <2>3, <2>4
<1>11. TurnInv'
  <2> SUFFICES ASSUME ~early, greeting' = 0
               PROVE  LET last == down'[Len(down')] IN
                      /\ handler.at = "receive" /\ ~busy' =>
                           up = <<>> /\ down' = <<>> /\ (status' = "question" <=> handler.waiting)
                      /\ handler.at = "turn" =>
                           busy' /\ up = <<>> /\ \A i \in DOMAIN down' : ~Unlocks(down'[i])
                      /\ handler.at = "receive" /\ busy' =>
                           /\ up = <<>> /\ down' # <<>>
                           /\ \A i \in DOMAIN down' : Unlocks(down'[i]) => i = Len(down')
                           /\ Unlocks(last)
                           /\ last.type = IF handler.waiting THEN "item" ELSE "done"
    BY <1>4 DEF TurnInv
  <2>1. CASE greeting = 1
    <3>1. /\ handler.at = "receive" /\ up = <<>> /\ n = 1
          /\ \/ e.type = IF handler.waiting THEN "awaiting" ELSE "done"
             \/ e.type = "session" /\ ~handler.waiting /\ status = "online" /\ ~busy
      BY <1>0, <1>4, <1>7, <2>1 DEF OpeningInv
    <3>2. down' = <<>>
      BY <1>4, <3>1
    <3>3. ~busy' /\ (status' = "question" <=> handler.waiting)
      BY <1>2, <3>1 DEF Unlocks
    <3> QED BY <3>1, <3>2, <3>3
  <2>2. CASE greeting = 0
    <3>1. down # <<>>
      BY <1>4
    <3>2. CASE handler.at = "turn"
      <4>1. busy /\ up = <<>> /\ \A i \in DOMAIN down : ~Unlocks(down[i])
        BY <1>0, <1>7, <2>2, <3>2 DEF TurnInv
      <4>2. \A i \in DOMAIN down' : ~Unlocks(down'[i])
        BY <1>6, <4>1
      <4>3. busy'
        <5>1. ~Unlocks(e)
          BY <1>head, <4>1
        <5> QED BY <1>2, <4>1, <5>1
      <4> QED BY <3>2, <4>1, <4>2, <4>3
    <3>3. CASE handler.at = "receive"
      <4>1. /\ busy /\ up = <<>>
            /\ \A i \in DOMAIN down : Unlocks(down[i]) => i = n
            /\ Unlocks(down[n])
            /\ down[n].type = IF handler.waiting THEN "item" ELSE "done"
        BY <1>0, <1>7, <2>2, <3>1, <3>3 DEF TurnInv
      <4>2. CASE n = 1
        <5>1. down' = <<>>
          BY <1>4, <4>2
        <5>2. ~busy' /\ (status' = "question" <=> handler.waiting)
          BY <1>2, <1>4, <4>1, <4>2
        <5> QED BY <3>3, <4>1, <5>1, <5>2
      <4>3. CASE n # 1
        <5>1. ~Unlocks(e) /\ busy'
          <6>1. ~Unlocks(e)
            BY <1>head, <4>1, <4>3
          <6> QED BY <1>2, <4>1, <6>1
        <5>2. Len(down') > 0 /\ down'[Len(down')] = down[n] /\ down' # <<>>
          BY <1>4, <4>3
        <5>3. \A i \in DOMAIN down' : Unlocks(down'[i]) => i = Len(down')
          <6> SUFFICES ASSUME NEW i \in DOMAIN down', Unlocks(down'[i]) PROVE i = Len(down')
            OBVIOUS
          <6>1. i + 1 = n
            BY <1>6, <4>1
          <6> QED BY <1>4, <6>1
        <5> QED BY <3>3, <4>1, <5>1, <5>2, <5>3
      <4> QED BY <4>2, <4>3
    <3>4. handler.at # "none"
      BY <1>7 DEF Live
    <3>5. handler.at \in {"none", "receive", "turn"}
      BY <1>0, HandlerFields
    <3> QED BY <3>2, <3>3, <3>4, <3>5
  <2> QED BY <1>5, <2>1, <2>2
<1>12. MessageInv' /\ StoreInv'
  BY <1>0, <1>4 DEF MessageInv, StoreInv
<1>13. FooterInv'
  <2>1. \A j \in MetricsAt' : j + 1 \in MetricsAt
    BY <1>6 DEF MetricsAt
  <2>2. Opening' => Opening
    BY <1>6 DEF Opening
  <2>3. ASSUME NEW i \in MetricsAt, down[i].totals = handler.totals, \A j \in MetricsAt : j <= i
        PROVE  FooterInv'
    <3>1. i \in DOMAIN down /\ down[i].type = "metrics" /\ i \in Nat
      BY <1>4 DEF MetricsAt
    <3>2. CASE i = 1
      <4>1. MetricsAt' = {}
        <5> SUFFICES ASSUME NEW j \in MetricsAt' PROVE FALSE
          OBVIOUS
        <5>1. j + 1 <= 1
          BY <2>1, <2>3, <3>2
        <5>2. j \in 1..n - 1
          BY <1>4 DEF MetricsAt
        <5> QED BY <1>4, <5>1, <5>2
      <4>2. ~Opening
        <5> SUFFICES ASSUME NEW j \in DOMAIN down, down[j].type = "session" PROVE FALSE
          BY DEF Opening
        <5>1. j <= greeting /\ 1 > greeting
          BY <1>0, <3>1, <3>2 DEF ConnInv
        <5> QED BY <1>4, <1>5, <5>1
      <4>3. footer'.live = handler.totals
        BY <1>3, <1>4, <2>3, <3>1, <3>2
      <4> QED BY <1>4, <2>2, <4>1, <4>2, <4>3 DEF FooterInv
    <3>3. CASE i # 1
      <4>1. i - 1 \in MetricsAt' /\ down'[i - 1].totals = handler'.totals
        BY <1>4, <1>6, <2>3, <3>1, <3>3 DEF MetricsAt
      <4>2. ASSUME NEW j \in MetricsAt' PROVE j <= i - 1
        <5>1. j + 1 <= i
          BY <2>1, <2>3
        <5>2. j \in 1..n - 1
          BY <1>4 DEF MetricsAt
        <5> QED BY <1>4, <3>1, <5>1, <5>2
      <4> QED BY <4>1, <4>2 DEF FooterInv
    <3> QED BY <3>2, <3>3
  <2>4. ASSUME MetricsAt = {}
        PROVE  MetricsAt' = {} /\ e.type # "metrics"
    <3>1. 1 \in DOMAIN down
      BY <1>4
    <3>2. e.type # "metrics"
      BY <1>4, <2>4, <3>1 DEF MetricsAt
    <3> QED BY <2>1, <2>4, <3>2
  <2>5. CASE MetricsAt = {} /\ ~Opening /\ footer.live = handler.totals
    <3>1. 1 \in DOMAIN down
      BY <1>4
    <3>2. e.type # "session"
      BY <1>4, <2>5, <3>1 DEF Opening
    <3> QED BY <1>3, <1>4, <2>2, <2>4, <2>5, <3>2 DEF FooterInv
  <2>6. CASE MetricsAt = {} /\ Opening /\ handler.totals = 0
    <3>1. CASE e.type = "session"
      BY <1>3, <1>4, <2>4, <2>6, <3>1 DEF FooterInv
    <3>2. CASE e.type # "session"
      <4>1. Opening'
        BY <1>4, <1>6, <2>6, <3>2 DEF Opening
      <4> QED BY <1>4, <2>4, <2>6, <4>1 DEF FooterInv
    <3> QED BY <3>1, <3>2
  <2> QED BY <1>0, <1>7, <2>3, <2>5, <2>6 DEF FooterInv
<1> QED BY <1>1, <1>8, <1>9, <1>10, <1>11, <1>12, <1>13 DEF ClientInv

-----------------------------------------------------------------------------
(* The user writes.                                                        *)

LEMMA SendKeeps ==
  ASSUME ClientInv, Send
  PROVE  ClientInv'
<1>0. TypeOK /\ ConnInv /\ SessionInv /\ OpeningInv /\ TurnInv /\ MessageInv /\ StoreInv /\ FooterInv
  BY DEF ClientInv
<1>1. TypeOK'
  BY <1>0, SendTyped
<1>2. /\ ~busy /\ socket = "open" /\ busy' = TRUE
      /\ early' = (early \/ greeting > 0)
      /\ up' = Append(up, [item |-> NewItem("user"), answer |-> status = "question", early |-> early'])
      /\ UNCHANGED <<threadId, socket, status, footer, down, handler, stored, greeting>>
  BY DEF Send, server
<1>3. up \in Seq(Message) /\ greeting \in Nat
  <2>1. up \in Seq(Message) /\ down \in Seq(Event) /\ greeting \in 0..Len(down)
    BY <1>0 DEF TypeOK
  <2>2. Len(down) \in Nat
    BY <2>1
  <2> QED BY <2>1, <2>2
<1>4. Live /\ Live'
  BY <1>0, <1>2 DEF ConnInv, Live
<1>5. ConnInv' /\ SessionInv' /\ FooterInv' /\ StoreInv'
  <2>1. ConnInv'
    BY <1>0, <1>2, <1>4 DEF ConnInv, Live
  <2>2. SessionInv'
    BY <1>0, <1>2, <1>4 DEF SessionInv
  <2>3. FooterInv'
    BY <1>0, <1>2, <1>4 DEF FooterInv, MetricsAt, Opening
  <2>4. StoreInv'
    BY <1>0, <1>2 DEF StoreInv
  <2> QED BY <2>1, <2>2, <2>3, <2>4
<1> PICK m : m = [item |-> NewItem("user"), answer |-> status = "question", early |-> early']
  OBVIOUS
<1>6. m.answer = (status = "question") /\ m.early = early'
  OBVIOUS
<1>7. /\ Len(up') = Len(up) + 1 /\ DOMAIN up' = 1..Len(up) + 1 /\ DOMAIN up = 1..Len(up) /\ Len(up) \in Nat
      /\ up'[Len(up) + 1] = m
      /\ \A i \in DOMAIN up : up'[i] = up[i]
  BY <1>2, <1>3
<1>8. CASE ~early'
  <2>1. ~early /\ greeting = 0
    <3>1. ~early /\ ~(greeting > 0)
      BY <1>2, <1>8, Zenon
    <3> QED BY <1>3, <3>1
  <2>2. handler.at = "receive"
    <3>1. handler.at # "turn" /\ handler.at # "none"
      BY <1>0, <1>2, <1>4, <2>1 DEF TurnInv, Live
    <3> QED BY <1>0, <3>1, HandlerFields
  <2>3. up = <<>> /\ down = <<>> /\ (status = "question" <=> handler.waiting)
    BY <1>0, <1>2, <1>4, <2>1, <2>2 DEF TurnInv
  <2>4. Len(up') = 1 /\ \A i \in DOMAIN up' : up'[i] = m
    BY <1>7, <2>3
  <2>5. MessageInv'
    BY <1>2, <1>6, <1>8, <2>2, <2>3, <2>4 DEF MessageInv
  <2>6. OpeningInv' /\ TurnInv'
    BY <1>2, <2>1, <2>2, <2>3, <2>4 DEF OpeningInv, TurnInv
  <2> QED BY <1>1, <1>5, <2>5, <2>6 DEF ClientInv
<1>9. CASE early'
  <2>1. OpeningInv' /\ TurnInv'
    BY <1>9 DEF OpeningInv, TurnInv
  <2>2. \A i \in DOMAIN up : up[i].early
    <3>1. CASE early
      BY <1>0, <3>1 DEF MessageInv
    <3>2. CASE ~early
      <4>1. up = <<>>
        BY <1>0, <1>2, <1>3, <1>4, <1>9, <3>2 DEF OpeningInv
      <4> QED BY <4>1
    <3> QED BY <3>1, <3>2
  <2>3. \A i \in DOMAIN up' : up'[i].early
    <3> SUFFICES ASSUME NEW i \in DOMAIN up' PROVE up'[i].early
      OBVIOUS
    <3>1. i \in DOMAIN up \/ i = Len(up) + 1
      BY <1>7
    <3> QED BY <1>6, <1>7, <1>9, <2>2, <3>1
  <2>4. MessageInv'
    BY <2>3 DEF MessageInv
  <2> QED BY <1>1, <1>5, <2>1, <2>4 DEF ClientInv
<1> QED BY <1>8, <1>9

LEMMA NextKeeps ==
  ASSUME ClientInv, [Next]_vars
  PROVE  ClientInv'
<1>1. CASE Connect
  BY <1>1, ConnectKeeps
<1>2. CASE Interrupted
  BY <1>2, InterruptedKeeps
<1>3. CASE Serves
  BY <1>3, OpenKeeps, ReceiveKeeps, WorkKeeps, AskKeeps, FinishKeeps, LeaveKeeps DEF Serves
<1>4. CASE HandleEvent
  BY <1>4, HandleEventKeeps
<1>5. CASE Send
  BY <1>5, SendKeeps
<1>6. CASE UNCHANGED vars
  <2>1. /\ UNCHANGED <<threadId, socket, busy, replaying, status, panes, footer, down, up>>
        /\ UNCHANGED <<handler, stored, items, greeting, early>>
    BY <1>6 DEF vars, page, server, observed
  <2>2. TypeOK' /\ ConnInv' /\ SessionInv'
    BY <2>1 DEF ClientInv, TypeOK, ConnInv, SessionInv, Live
  <2>3. OpeningInv' /\ TurnInv' /\ MessageInv'
    BY <2>1 DEF ClientInv, OpeningInv, TurnInv, MessageInv, Live
  <2>4. StoreInv' /\ FooterInv'
    BY <2>1 DEF ClientInv, StoreInv, FooterInv, MetricsAt, Opening, Live
  <2> QED BY <2>2, <2>3, <2>4 DEF ClientInv
<1> QED BY <1>1, <1>2, <1>3, <1>4, <1>5, <1>6 DEF Next

LEMMA ClientInvHolds == Spec => []ClientInv
<1>1. Init => ClientInv
  BY InitClientInv
<1>2. ClientInv /\ [Next]_vars => ClientInv'
  BY NextKeeps
<1> QED BY <1>1, <1>2, PTL DEF Spec

-----------------------------------------------------------------------------
(* The page, the queues and the handler keep to their types.               *)
THEOREM ClientTypeCorrect == Spec => []TypeOK
<1>1. ClientInv => TypeOK
  BY DEF ClientInv
<1> QED BY <1>1, ClientInvHolds, PTL

(* The input of a connected page is open only while the server waits for   *)
(* input of this very session, whatever the connection did before, unless  *)
(* the user wrote into the replay (setBusy of index.html).                 *)
THEOREM InputIsLocked == Spec => []InputLockedInTurns
<1>1. ClientInv => InputLockedInTurns
  <2> SUFFICES ASSUME ClientInv, socket = "open", ~busy, ~early
               PROVE  /\ handler.at = "receive" /\ up = <<>>
                      /\ greeting = 0 => threadId = handler.session
    BY DEF InputLockedInTurns
  <2>1. Live
    BY DEF ClientInv, ConnInv
  <2>2. greeting \in 0..Len(down) /\ down \in Seq(Event) /\ handler.at \in {"receive", "turn"}
    BY <2>1, HandlerFields DEF ClientInv, TypeOK, Live
  <2>3. Len(down) \in Nat
    BY <2>2
  <2>4. CASE greeting > 0
    BY <2>1, <2>4 DEF ClientInv, OpeningInv
  <2>5. CASE greeting = 0
    <3>1. handler.at = "receive" /\ up = <<>> /\ down = <<>>
      BY <2>1, <2>2, <2>5 DEF ClientInv, TurnInv
    <3>2. threadId = handler.session
      BY <2>1, <3>1 DEF ClientInv, SessionInv
    <3> QED BY <3>1, <3>2
  <2> QED BY <2>2, <2>3, <2>4, <2>5
<1> QED BY <1>1, ClientInvHolds, PTL

(* A message is taken for an answer exactly when the page had asked for    *)
(* one (server.py:205-207), whatever broke in between.                     *)
THEOREM AnswersStayAnswers == Spec => []AnswersAreAnswers
<1>1. ClientInv => AnswersAreAnswers
  <2> SUFFICES ASSUME ClientInv, up # <<>>, ~Head(up).early
               PROVE  Head(up).answer <=> handler.waiting
    BY DEF AnswersAreAnswers
  <2>1. up \in Seq(Message)
    BY DEF ClientInv, TypeOK
  <2>2. 1 \in DOMAIN up /\ Head(up) = up[1]
    BY <2>1
  <2> QED BY <2>2 DEF ClientInv, MessageInv
<1> QED BY <1>1, ClientInvHolds, PTL

(* The footer of a page that is ready for a request shows the cost that    *)
(* is stored for its session (metricsBase and liveTotals of index.html).   *)
THEOREM FooterStaysStored == Spec => []FooterIsStored
<1>1. ClientInv => FooterIsStored
  <2> SUFFICES ASSUME ClientInv, socket = "open", down = <<>>, handler.at = "receive", ~handler.waiting
               PROVE  footer.base + footer.live = stored[threadId].cost
    BY DEF FooterIsStored
  <2>1. Live /\ DOMAIN down = {}
    BY DEF ClientInv, ConnInv
  <2>2. threadId = handler.session /\ footer.base = handler.base
    BY <2>1 DEF ClientInv, SessionInv
  <2>3. footer.live = handler.totals
    BY <2>1 DEF ClientInv, FooterInv, MetricsAt, Opening
  <2> QED BY <2>2, <2>3 DEF ClientInv, StoreInv
<1> QED BY <1>1, ClientInvHolds, PTL
-----------------------------------------------------------------------------
(* The items among some events.  The events are gone through one after the *)
(* other; what holds of the items so far is shown by the least             *)
(* counterexample among the positions.                                     *)
Below == {ss \in Nat \X Nat : ss[1] < ss[2]}

LEMMA LeastNat ==
  ASSUME NEW T \in SUBSET Nat, T # {}
  PROVE  \E x \in T : \A y \in T : x <= y
<1>1. IsWellFoundedOn(Below, Nat)
  BY NatLessThanWellFounded DEF OpToRel, Below
<1>2. PICK x \in T : \A y \in T : ~ (<<y, x>> \in Below)
  BY <1>1, WFMin
<1>3. \A y \in Nat : y < x => <<y, x>> \in Below
  <2> TAKE y \in Nat
  <2> HAVE y < x
  <2>1. <<y, x>> \in Nat \X Nat /\ <<y, x>>[1] = y /\ <<y, x>>[2] = x
    OBVIOUS
  <2> QED BY <2>1 DEF Below
<1>4. \A y \in T : ~ (y < x)
  BY <1>2, <1>3, Zenon
<1> QED BY <1>4

LEMMA UpTo ==
  ASSUME NEW n \in Nat, NEW S, 0 \in S, \A i \in 1..n : i - 1 \in S => i \in S
  PROVE  \A i \in 0..n : i \in S
<1> DEFINE T == {i \in 0..n : i \notin S}
<1> SUFFICES ASSUME T # {} PROVE FALSE
  OBVIOUS
<1>1. PICK i \in T : \A j \in T : i <= j
  <2>1. T \in SUBSET Nat
    OBVIOUS
  <2> QED BY <2>1, LeastNat
<1>2. i \in 1..n /\ i - 1 \in 0..n /\ i - 1 \notin T
  BY <1>1
<1> QED BY <1>1, <1>2

(* What an event adds to the items so far.                                 *)
With(so, e) == IF e.type = "item" THEN Append(so, e.item) ELSE so

Walk(es, n, w) ==
  w = [i \in 0..n |-> IF i = 0 THEN <<>>
                      ELSE IF es[i].type = "item" THEN Append(w[i - 1], es[i].item)
                      ELSE w[i - 1]]

LEMMA WalkExists ==
  ASSUME NEW es, NEW N \in Nat
  PROVE  \E w : Walk(es, N, w)
<1> DEFINE T == {n \in Nat : ~ \E w : Walk(es, n, w)}
<1> SUFFICES ASSUME T # {} PROVE FALSE
  OBVIOUS
<1>1. PICK n \in T : \A m \in T : n <= m
  <2>1. T \in SUBSET Nat
    OBVIOUS
  <2> QED BY <2>1, LeastNat
<1>2. n \in Nat /\ ~ \E w : Walk(es, n, w)
  BY <1>1
<1>3. n # 0
  <2> PICK w : w = [i \in 0..0 |-> <<>>]
    OBVIOUS
  <2>1. Walk(es, 0, w)
    BY DEF Walk
  <2> QED BY <1>2, <2>1
<1>4. n - 1 \in Nat /\ n - 1 \notin T
  BY <1>1, <1>2, <1>3
<1>5. PICK v : Walk(es, n - 1, v)
  BY <1>4
<1> PICK w : w = [i \in 0..n |-> IF i = n THEN With(v[n - 1], es[n]) ELSE v[i]]
  OBVIOUS
<1>6. \A i \in 0..n - 1 : v[i] = IF i = 0 THEN <<>> ELSE With(v[i - 1], es[i])
  BY <1>5 DEF Walk, With
<1>7. \A i \in 0..n : w[i] = IF i = 0 THEN <<>> ELSE With(w[i - 1], es[i])
  <2> TAKE i \in 0..n
  <2>1. CASE i = n
    <3>1. w[n] = With(v[n - 1], es[n]) /\ w[n - 1] = v[n - 1]
      BY <1>2, <1>4
    <3> QED BY <1>3, <2>1, <3>1
  <2>2. CASE i # n
    <3>1. i \in 0..n - 1 /\ w[i] = v[i] /\ (i # 0 => w[i - 1] = v[i - 1])
      BY <1>2, <2>2
    <3> QED BY <1>6, <3>1
  <2> QED BY <2>1, <2>2
<1>8. Walk(es, n, w)
  BY <1>7 DEF Walk, With
<1> QED BY <1>2, <1>8

(* w[i] holds the items among the first i events.                          *)
Collects(w, es, n) ==
  w[0] = <<>> /\ \A i \in 1..n : w[i] = With(w[i - 1], es[i])

LEMMA ItemsWalk ==
  ASSUME NEW es, NEW n \in Nat, n = Len(es)
  PROVE  \E w : Collects(w, es, n) /\ ItemsIn(es) = w[n]
<1>1. PICK v : Walk(es, n, v)
  BY WalkExists
<1>2. PICK w : Walk(es, n, w) /\ ItemsIn(es) = w[n]
  BY <1>1, Zenon DEF ItemsIn, Walk
<1>3. Collects(w, es, n)
  <2>1. \A i \in 0..n : w[i] = IF i = 0 THEN <<>> ELSE With(w[i - 1], es[i])
    BY <1>2 DEF Walk, With
  <2> QED BY <2>1 DEF Collects
<1> QED BY <1>2, <1>3

(* Equal beginnings have the same items.                                   *)
LEMMA WalksAgree ==
  ASSUME NEW n \in Nat, NEW es, NEW fs, NEW v, NEW w, Collects(v, es, n), Collects(w, fs, n),
         \A i \in 1..n : es[i] = fs[i]
  PROVE  v[n] = w[n]
<1> DEFINE S == {i \in 0..n : v[i] = w[i]}
<1>1. 0 \in S
  BY DEF Collects
<1>2. \A i \in 1..n : i - 1 \in S => i \in S
  BY DEF Collects
<1>3. \A i \in 0..n : i \in S
  BY <1>1, <1>2, UpTo
<1> QED BY <1>3

LEMMA WithTyped ==
  ASSUME NEW so \in Seq(Item), NEW e \in Event
  PROVE  With(so, e) \in Seq(Item)
<1>1. e.type = "item" => e.item \in Item
  BY EventFields
<1> QED BY <1>1 DEF With

LEMMA WalkTyped ==
  ASSUME NEW n \in Nat, NEW es, NEW w, Collects(w, es, n), \A i \in 1..n : es[i] \in Event
  PROVE  \A i \in 0..n : w[i] \in Seq(Item)
<1> DEFINE S == {i \in 0..n : w[i] \in Seq(Item)}
<1>1. 0 \in S
  <2>1. w[0] \in Seq(Item)
    BY DEF Collects
  <2> QED BY <2>1
<1>2. \A i \in 1..n : i - 1 \in S => i \in S
  <2> SUFFICES ASSUME NEW i \in 1..n, i - 1 \in S
               PROVE  i \in S
    OBVIOUS
  <2>1. w[i - 1] \in Seq(Item) /\ es[i] \in Event
    OBVIOUS
  <2>2. w[i] = With(w[i - 1], es[i])
    BY DEF Collects
  <2>3. w[i] \in Seq(Item)
    BY <2>1, <2>2, WithTyped
  <2> QED BY <2>3
<1>3. \A i \in 0..n : i \in S
  BY <1>1, <1>2, UpTo
<1> QED BY <1>3

LEMMA ItemsTyped ==
  ASSUME NEW es \in Seq(Event)
  PROVE  ItemsIn(es) \in Seq(Item)
<1> PICK n : n = Len(es)
  OBVIOUS
<1>1. n \in Nat /\ \A i \in 1..n : es[i] \in Event
  OBVIOUS
<1>2. PICK w : Collects(w, es, n) /\ ItemsIn(es) = w[n]
  BY <1>1, ItemsWalk
<1>3. \A i \in 0..n : w[i] \in Seq(Item)
  BY <1>1, <1>2, WalkTyped
<1> QED BY <1>1, <1>2, <1>3

LEMMA NoItems == ItemsIn(<<>>) = <<>>
<1> PICK es : es = <<>>
  OBVIOUS
<1>1. PICK w : Collects(w, es, 0) /\ ItemsIn(es) = w[0]
  <2>1. 0 \in Nat /\ 0 = Len(es)
    OBVIOUS
  <2> QED BY <2>1, ItemsWalk
<1> QED BY <1>1 DEF Collects

LEMMA ItemsExtended ==
  ASSUME NEW n \in Nat, NEW es, NEW fs, n = Len(es), n + 1 = Len(fs), \A i \in 1..n : fs[i] = es[i]
  PROVE  ItemsIn(fs) = With(ItemsIn(es), fs[n + 1])
<1> PICK k : k = n + 1
  OBVIOUS
<1>1. k \in Nat /\ k \in 1..k /\ k - 1 = n /\ k = Len(fs) /\ \A i \in 1..n : i \in 1..k
  OBVIOUS
<1>2. PICK v : Collects(v, es, n) /\ ItemsIn(es) = v[n]
  BY ItemsWalk
<1>3. PICK w : Collects(w, fs, k) /\ ItemsIn(fs) = w[k]
  BY <1>1, ItemsWalk
<1>4. Collects(w, fs, n) /\ w[k] = With(w[n], fs[k])
  BY <1>1, <1>3 DEF Collects
<1>5. v[n] = w[n]
  <2>1. \A i \in 1..n : es[i] = fs[i]
    OBVIOUS
  <2> QED BY <1>2, <1>4, <2>1, WalksAgree
<1> QED BY <1>2, <1>3, <1>4, <1>5

LEMMA ItemsAppend ==
  ASSUME NEW es \in Seq(Event), NEW e \in Event
  PROVE  ItemsIn(Append(es, e)) = With(ItemsIn(es), e)
<1>1. ASSUME NEW n \in Nat, n = Len(es), NEW fs, fs = Append(es, e)
      PROVE  ItemsIn(fs) = With(ItemsIn(es), e)
  <2>1. n + 1 = Len(fs) /\ fs[n + 1] = e /\ \A i \in 1..n : fs[i] = es[i]
    BY <1>1
  <2>2. ItemsIn(fs) = With(ItemsIn(es), fs[n + 1])
    BY <1>1, <2>1, ItemsExtended, Zenon
  <2> QED BY <2>1, <2>2, Zenon
<1>2. Len(es) \in Nat
  OBVIOUS
<1> QED BY <1>1, <1>2, Zenon

(* The first event gives the first item, if any.                           *)
First(e) == IF e.type = "item" THEN <<e.item>> ELSE <<>>

LEMMA FirstWith ==
  ASSUME NEW e \in Event, NEW so \in Seq(Item), NEW f \in Event
  PROVE  /\ First(e) \in Seq(Item) /\ With(<<>>, e) = First(e) /\ First(e) \o <<>> = First(e)
         /\ With(First(e) \o so, f) = First(e) \o With(so, f)
<1>1. First(e) \in Seq(Item)
  BY EventFields DEF First
<1>2. f.type = "item" => f.item \in Item
  BY EventFields
<1>3. ASSUME NEW a \in Seq(Item), NEW x \in Item
      PROVE  Append(a \o so, x) = a \o Append(so, x)
  OBVIOUS
<1>4. With(<<>>, e) = First(e)
  <2>1. Append(<<>>, e.item) = <<e.item>>
    OBVIOUS
  <2> QED BY <2>1 DEF With, First
<1>5. First(e) \o <<>> = First(e)
  BY <1>1
<1>6. With(First(e) \o so, f) = First(e) \o With(so, f)
  BY <1>1, <1>2, <1>3 DEF With
<1> QED BY <1>1, <1>4, <1>5, <1>6

LEMMA ItemsTail ==
  ASSUME NEW n \in Nat, NEW es, NEW fs, n = Len(fs), n + 1 = Len(es),
         \A i \in 1..n : fs[i] = es[i + 1], \A i \in 1..n + 1 : es[i] \in Event
  PROVE  ItemsIn(es) = First(es[1]) \o ItemsIn(fs)
<1> PICK k : k = n + 1
  OBVIOUS
<1>1. /\ k \in Nat /\ k = Len(es) /\ 1 \in 1..k /\ 1 - 1 = 0
      /\ \A i \in 1..n : i + 1 \in 1..k /\ (i + 1) - 1 = i
  OBVIOUS
<1>2. /\ \A i \in 1..k : es[i] \in Event
      /\ \A i \in 1..n : fs[i] \in Event
  BY <1>1
<1>3. PICK w : Collects(w, es, k) /\ ItemsIn(es) = w[k]
  BY <1>1, ItemsWalk, Zenon
<1>4. PICK v : Collects(v, fs, n) /\ ItemsIn(fs) = v[n]
  BY ItemsWalk, Zenon
<1>5. \A i \in 0..n : v[i] \in Seq(Item)
  BY <1>2, <1>4, WalkTyped
<1> PICK e : e = es[1]
  OBVIOUS
<1>6. e \in Event
  BY <1>1, <1>2
<1>7. w[1] = First(e) \o v[0]
  <2>1. w[1] = With(w[1 - 1], es[1])
    BY <1>1, <1>3 DEF Collects
  <2>2. w[1] = With(<<>>, e)
    BY <1>1, <1>3, <2>1 DEF Collects
  <2>3. With(<<>>, e) = First(e) /\ First(e) \o <<>> = First(e)
    <3>1. <<>> \in Seq(Item)
      OBVIOUS
    <3> QED BY <1>6, <3>1, FirstWith, Zenon
  <2> QED BY <1>4, <2>2, <2>3, Zenon DEF Collects
<1>8. ASSUME NEW i \in 1..n, w[i] = First(e) \o v[i - 1]
      PROVE  w[i + 1] = First(e) \o v[i]
  <2>1. w[i + 1] = With(w[i], es[i + 1]) /\ es[i + 1] = fs[i] /\ v[i] = With(v[i - 1], fs[i])
    BY <1>1, <1>3, <1>4 DEF Collects
  <2>2. v[i - 1] \in Seq(Item) /\ fs[i] \in Event
    BY <1>2, <1>5
  <2>3. With(First(e) \o v[i - 1], fs[i]) = First(e) \o With(v[i - 1], fs[i])
    BY <1>6, <2>2, FirstWith, Zenon
  <2> QED BY <1>8, <2>1, <2>3, Zenon
<1> DEFINE S == {i \in 0..n : w[i + 1] = First(e) \o v[i]}
<1>9. 0 \in S
  <2>1. 0 \in 0..n /\ 0 + 1 = 1
    OBVIOUS
  <2> QED BY <1>7, <2>1, Zenon
<1>10. ASSUME NEW i \in 1..n, i - 1 \in S
       PROVE  i \in S
  <2>1. i \in 0..n /\ (i - 1) + 1 = i
    OBVIOUS
  <2>2. w[i] = First(e) \o v[i - 1]
    BY <1>10, <2>1, Zenon
  <2> QED BY <1>8, <2>1, <2>2, Zenon
<1>11. \A i \in 0..n : i \in S
  BY <1>9, <1>10, UpTo, Zenon
<1>12. n \in 0..n
  OBVIOUS
<1> QED BY <1>3, <1>4, <1>11, <1>12, Zenon

LEMMA Prefixes ==
  ASSUME NEW log \in Seq(Item)
  PROVE  /\ SubSeq(log, 1, 0) = <<>> /\ SubSeq(log, 1, Len(log)) = log
         /\ \A i \in 1..Len(log) : SubSeq(log, 1, i) = Append(SubSeq(log, 1, i - 1), log[i])
<1>1. SubSeq(log, 1, 0) = <<>> /\ SubSeq(log, 1, Len(log)) = log
  OBVIOUS
<1>2. ASSUME NEW k \in 0..Len(log) - 1
      PROVE  Append(SubSeq(log, 1, k), log[k + 1]) = SubSeq(log, 1, k + 1)
  OBVIOUS
<1>3. \A i \in 1..Len(log) : i - 1 \in 0..Len(log) - 1 /\ (i - 1) + 1 = i
  OBVIOUS
<1> QED BY <1>1, <1>2, <1>3

(* A replay shows the log.                                                 *)
LEMMA ReplayedItems ==
  ASSUME NEW n \in Nat, NEW log \in Seq(Item), n = Len(log), NEW g, n + 5 = Len(g),
         \A i \in 1..n + 5 : IF i \in 4..n + 3 THEN g[i] = Shown(log[i - 3]) ELSE g[i].type # "item"
  PROVE  ItemsIn(g) = log
<1> PICK k : k = n + 5
  OBVIOUS
<1>1. k \in Nat /\ k = Len(g) /\ 1..n + 5 = 1..k
  OBVIOUS
<1>2. PICK w : Collects(w, g, k) /\ ItemsIn(g) = w[k]
  BY <1>1, ItemsWalk
<1>3. \A i \in 1..n + 5 : w[i] = With(w[i - 1], g[i])
  BY <1>1, <1>2 DEF Collects
<1>4. \A i \in 1..n + 5 : i \notin 4..n + 3 => w[i] = w[i - 1]
  BY <1>3 DEF With
<1>5. \A i \in 4..n + 3 : w[i] = Append(w[i - 1], log[i - 3])
  <2> TAKE i \in 4..n + 3
  <2>1. i \in 1..n + 5
    OBVIOUS
  <2>2. g[i] = Shown(log[i - 3])
    BY <2>1
  <2>3. g[i].type = "item" /\ g[i].item = log[i - 3]
    BY <2>2 DEF Shown
  <2> QED BY <1>3, <2>1, <2>3 DEF With
<1>6. w[3] = <<>>
  <2>1. w[0] = <<>>
    BY <1>2 DEF Collects
  <2>2. /\ 1 \in 1..n + 5 /\ 1 \notin 4..n + 3 /\ 1 - 1 = 0
        /\ 2 \in 1..n + 5 /\ 2 \notin 4..n + 3 /\ 2 - 1 = 1
        /\ 3 \in 1..n + 5 /\ 3 \notin 4..n + 3 /\ 3 - 1 = 2
    OBVIOUS
  <2>3. w[1] = w[0] /\ w[2] = w[1] /\ w[3] = w[2]
    BY <1>4, <2>2
  <2> QED BY <2>1, <2>3
<1>7. w[k] = w[n + 3]
  <2>1. /\ n + 4 \in 1..n + 5 /\ n + 4 \notin 4..n + 3 /\ (n + 4) - 1 = n + 3
        /\ n + 5 \in 1..n + 5 /\ n + 5 \notin 4..n + 3 /\ (n + 5) - 1 = n + 4
    OBVIOUS
  <2>2. w[n + 4] = w[n + 3] /\ w[n + 5] = w[n + 4]
    BY <1>4, <2>1
  <2> QED BY <2>2
<1> DEFINE S == {i \in 0..n : w[i + 3] = SubSeq(log, 1, i)}
<1>8. 0 \in S
  <2>1. 0 \in 0..n /\ 0 + 3 = 3
    OBVIOUS
  <2> QED BY <1>6, <2>1, Prefixes, Zenon
<1>9. ASSUME NEW i \in 1..n, i - 1 \in S
      PROVE  i \in S
  <2>1. i \in 0..n /\ i + 3 \in 4..n + 3 /\ (i + 3) - 3 = i /\ (i + 3) - 1 = (i - 1) + 3 /\ i \in 1..Len(log)
    OBVIOUS
  <2>2. w[(i - 1) + 3] = SubSeq(log, 1, i - 1)
    BY <1>9, Zenon
  <2>3. w[i + 3] = Append(w[(i - 1) + 3], log[i])
    BY <1>5, <2>1
  <2>4. SubSeq(log, 1, i) = Append(SubSeq(log, 1, i - 1), log[i])
    BY <2>1, Prefixes, Zenon
  <2> QED BY <2>1, <2>2, <2>3, <2>4, Zenon
<1>10. \A i \in 0..n : i \in S
  BY <1>8, <1>9, UpTo, Zenon
<1>11. n \in 0..n
  OBVIOUS
<1>12. w[n + 3] = log
  BY <1>10, <1>11, Prefixes, Zenon
<1> QED BY <1>2, <1>7, <1>12, Zenon
LEMMA NothingShown ==
  ASSUME NEW n \in Nat, NEW es, n = Len(es), \A i \in 1..n : es[i].type # "item"
  PROVE  ItemsIn(es) = <<>>
<1>1. PICK w : Collects(w, es, n) /\ ItemsIn(es) = w[n]
  BY ItemsWalk
<1> DEFINE S == {i \in 0..n : w[i] = <<>>}
<1>2. 0 \in S
  BY <1>1 DEF Collects
<1>3. \A i \in 1..n : i - 1 \in S => i \in S
  BY <1>1 DEF Collects, With
<1>4. \A i \in 0..n : i \in S
  BY <1>2, <1>3, UpTo
<1> QED BY <1>1, <1>4

LEMMA Concats ==
  ASSUME NEW a \in Seq(Item), NEW b \in Seq(Item), NEW x \in Item
  PROVE  /\ Append(a \o b, x) = a \o Append(b, x)
         /\ Append(a, x) \o b = a \o (<<x>> \o b)
         /\ a \o <<x>> = Append(a, x)
         /\ a \o <<>> = a /\ <<>> \o a = a
<1>1. Append(a \o b, x) = a \o Append(b, x)
  OBVIOUS
<1>2. Append(a, x) \o b = a \o (<<x>> \o b)
  OBVIOUS
<1>3. a \o <<x>> = Append(a, x)
  OBVIOUS
<1>4. a \o <<>> = a
  OBVIOUS
<1>5. <<>> \o a = a
  OBVIOUS
<1> QED BY <1>1, <1>2, <1>3, <1>4, <1>5

(* Sending one event, or two.                                              *)
LEMMA ItemsSent ==
  ASSUME NEW es \in Seq(Event), NEW e \in Event, NEW f \in Event
  PROVE  /\ ItemsIn(es \o <<e>>) = With(ItemsIn(es), e)
         /\ ItemsIn(es \o <<e, f>>) = With(With(ItemsIn(es), e), f)
<1>1. es \o <<e>> = Append(es, e)
  OBVIOUS
<1>2. es \o <<e, f>> = Append(Append(es, e), f) /\ Append(es, e) \in Seq(Event)
  OBVIOUS
<1> QED BY <1>1, <1>2, ItemsAppend, Zenon

-----------------------------------------------------------------------------
(* The panes and the log.                                                  *)

Log == stored[handler.session].log

(* Once the page has handled the session event, its panes and what is to   *)
(* come are the log and what the user has still to deliver; before that,   *)
(* what is to come is the log, after nothing but the session event.        *)
LogInv ==
  /\ \A s \in Sessions : ~stored[s].exists => stored[s].log = <<>>
  /\ Live /\ ~early =>
       /\ \A i, j \in DOMAIN down : down[j].type = "session" /\ i < j => down[i].type = "open"
       /\ IF Opening THEN ItemsIn(down) = Log ELSE panes \o ItemsIn(down) = Log \o Unsent

LEMMA LogTyped ==
  ASSUME ClientInv, Live
  PROVE  Log \in Seq(Item) /\ panes \in Seq(Item) /\ down \in Seq(Event) /\ ItemsIn(down) \in Seq(Item)
<1>1. handler.session \in Sessions
  BY DEF ClientInv, ConnInv, Live
<1>2. Log \in Seq(Item)
  BY <1>1, StoredFields DEF ClientInv, Log
<1>3. panes \in Seq(Item) /\ down \in Seq(Event)
  BY DEF ClientInv, TypeOK
<1> QED BY <1>2, <1>3, ItemsTyped

LEMMA UnsentAre ==
  ASSUME TypeOK
  PROVE  /\ up = <<>> => Unsent = <<>>
         /\ Len(up) = 1 => up[1].item \in Item /\ Unsent = <<up[1].item>>
<1>1. up \in Seq(Message)
  BY DEF TypeOK
<1>2. CASE up = <<>>
  <2>1. DOMAIN up = {} /\ Len(up) = 0
    BY <1>2
  <2> QED BY <1>2, <2>1 DEF Unsent
<1>3. CASE Len(up) = 1
  <2>1. DOMAIN up = 1..1 /\ up[1] \in Message
    BY <1>1, <1>3
  <2>2. up[1].item \in Item
    BY <2>1 DEF Message
  <2> PICK x : x = up[1].item
    OBVIOUS
  <2>3. Unsent = [i \in 1..1 |-> up[i].item]
    BY <2>1 DEF Unsent
  <2>4. [i \in 1..1 |-> up[i].item] = [i \in 1..1 |-> x]
    OBVIOUS
  <2>5. [i \in 1..1 |-> x] = <<x>>
    OBVIOUS
  <2> QED BY <1>3, <2>2, <2>3, <2>4, <2>5
<1> QED BY <1>2, <1>3

(* Outside the greeting there is no session event.                         *)
LEMMA Opened ==
  ASSUME ClientInv, greeting = 0
  PROVE  ~Opening
<1>1. down \in Seq(Event)
  BY DEF ClientInv, TypeOK
<1>2. \A i \in DOMAIN down : ~(i <= 0)
  BY <1>1
<1> QED BY <1>2 DEF ClientInv, ConnInv, Opening

LEMMA NoGreeting ==
  ASSUME ClientInv, ~(greeting > 0)
  PROVE  greeting = 0
<1>1. greeting \in 0..Len(down) /\ down \in Seq(Event)
  BY DEF ClientInv, TypeOK
<1>2. Len(down) \in Nat
  BY <1>1
<1> QED BY <1>1, <1>2

LEMMA SessionSecond ==
  ASSUME NEW n \in Nat, NEW g, DOMAIN g = 1..n, g[1].type = "open",
         \A i \in 1..n : i > 2 => g[i].type # "session"
  PROVE  \A i, j \in DOMAIN g : g[j].type = "session" /\ i < j => g[i].type = "open"
<1> SUFFICES ASSUME NEW i \in 1..n, NEW j \in 1..n, g[j].type = "session", i < j
             PROVE  g[i].type = "open"
  OBVIOUS
<1>1. ~(j > 2)
  OBVIOUS
<1>2. i = 1
  BY <1>1
<1> QED BY <1>2

LEMMA GreetingItems ==
  ASSUME TypeOK, NEW s \in Sessions, threadId # NoSession
  PROVE  ItemsIn(Greetings(s)) = stored[s].log
<1> DEFINE h == Greetings(s)
           m == Len(stored[s].log)
<1>1. stored[s].log \in Seq(Item) /\ m \in Nat
  BY StoredFields
<1>2. /\ m + 5 = Len(h)
      /\ \A i \in 1..m + 5 : IF i \in 4..m + 3 THEN h[i] = Shown(stored[s].log[i - 3])
                                               ELSE h[i].type # "item"
  BY GreetingsAre
<1> HIDE DEF h, m
<1> QED BY <1>1, <1>2, ReplayedItems DEF h, m

LEMMA OpenLog ==
  ASSUME ClientInv, LogInv, Open
  PROVE  LogInv'
<1> PICK s \in Sessions :
      /\ IF threadId # NoSession THEN s = threadId ELSE ~stored[s].exists
      /\ stored' = [stored EXCEPT ![s].exists = TRUE]
      /\ handler' = [ at |-> "receive", session |-> s, alone |-> FALSE,
                      waiting |-> stored[s].pending, base |-> stored[s].cost, totals |-> 0 ]
      /\ down' = Greetings(s)
  BY DEF Open, Greetings
<1> PICK g : g = Greetings(s)
  OBVIOUS
<1>1. TypeOK
  BY DEF ClientInv
<1>2. /\ g \in Seq(Event) /\ Len(g) >= 2 /\ Len(g) \in Nat /\ DOMAIN g = 1..Len(g)
      /\ g[1].type = "open" /\ g[2].type = "session"
      /\ \A i \in DOMAIN g : i > 2 => g[i].type # "session"
      /\ threadId = NoSession => Len(g) = 2
  <2>1. LET h == Greetings(s) IN
        /\ h \in Seq(Event) /\ Len(h) >= 2
        /\ h[1] = [type |-> "open"]
        /\ h[2] = [type |-> "session", session |-> s, cost |-> stored[s].cost]
        /\ \A i \in DOMAIN h : i > 2 => h[i].type \notin {"open", "session", "metrics"}
        /\ threadId = NoSession => Len(h) = 2
    BY <1>1, GreetingsAre
  <2> QED BY <2>1
<1>3. /\ \A r \in Sessions : stored'[r].log = stored[r].log /\ (stored[r].exists => stored'[r].exists)
      /\ handler'.session = s
  BY DEF ClientInv, TypeOK, Stored
<1>4. \A r \in Sessions : ~stored'[r].exists => stored'[r].log = <<>>
  BY <1>3 DEF LogInv
<1>5. \A i, j \in DOMAIN g : g[j].type = "session" /\ i < j => g[i].type = "open"
  <2>1. \A i \in 1..Len(g) : i > 2 => g[i].type # "session"
    BY <1>2
  <2> QED BY <1>2, <2>1, SessionSecond, Zenon
<1>6. \E i \in DOMAIN g : g[i].type = "session"
  BY <1>2
<1>7. ItemsIn(g) = stored[s].log
  <2>1. CASE threadId # NoSession
    BY <1>1, <2>1, GreetingItems, Zenon
  <2>2. CASE threadId = NoSession
    <3>1. stored[s].log = <<>>
      BY <2>2 DEF LogInv
    <3>2. 2 \in Nat /\ 2 = Len(g) /\ \A i \in 1..2 : g[i].type # "item"
      <4>1. \A i \in 1..2 : i = 1 \/ i = 2
        OBVIOUS
      <4> QED BY <1>2, <2>2, <4>1
    <3>3. ItemsIn(g) = <<>>
      BY <3>2, NothingShown, Zenon
    <3> QED BY <3>1, <3>3
  <2> QED BY <2>1, <2>2
<1>8. Opening' /\ Log' = stored[s].log /\ ItemsIn(down)' = ItemsIn(g)
  BY <1>3, <1>6 DEF Opening, Log
<1>9. (\A i, j \in DOMAIN down : down[j].type = "session" /\ i < j => down[i].type = "open")'
  BY <1>5
<1> QED BY <1>4, <1>7, <1>8, <1>9 DEF LogInv
(* A turn shows an item and logs it.                                       *)
LEMMA ShowsAndLogs ==
  ASSUME ClientInv, LogInv, handler.at = "turn", NEW x \in Item, NEW m \in Event, m.type = "metrics",
         Sends(<<Shown(x)>>) \/ Sends(<<m, Shown(x)>>),
         stored'[handler.session].log = Append(Log, x),
         \A s \in Sessions : /\ stored'[s].exists = stored[s].exists
                             /\ s # handler.session => stored'[s].log = stored[s].log,
         handler'.session = handler.session, handler'.alone = handler.alone,
         UNCHANGED <<panes, up, greeting, early>>, ClientInv'
  PROVE  LogInv'
<1>1. \A s \in Sessions : ~stored'[s].exists => stored'[s].log = <<>>
  <2>1. stored[handler.session].exists
    BY DEF ClientInv, StoreInv
  <2> QED BY <2>1 DEF LogInv
<1>2. ASSUME Live', ~early'
      PROVE  ~Opening' /\ panes' \o ItemsIn(down)' = Log' \o Unsent'
  <2>1. Live /\ ~early
    BY <1>2 DEF Live
  <2>2. greeting = 0 /\ up = <<>> /\ greeting' = 0
    BY <2>1, InTurn
  <2>3. ~Opening /\ ~Opening'
    <3>1. ~Opening
      BY <2>2, Opened
    <3>2. down' \in Seq(Event)
      BY DEF ClientInv, TypeOK
    <3>3. \A i \in DOMAIN down' : ~(i <= 0)
      BY <3>2
    <3> QED BY <2>2, <3>1, <3>3 DEF ClientInv, ConnInv, Opening
  <2>4. Log \in Seq(Item) /\ panes \in Seq(Item) /\ down \in Seq(Event) /\ ItemsIn(down) \in Seq(Item)
    BY <2>1, LogTyped
  <2>5. Unsent = <<>> /\ Unsent' = <<>>
    <3>1. DOMAIN up = {}
      BY <2>2
    <3>2. Unsent = <<>>
      BY <2>2, UnsentAre DEF ClientInv
    <3> QED BY <3>2 DEF Unsent
  <2>6. panes \o ItemsIn(down) = Log
    <3>1. Log \o <<>> = Log
      BY <2>4
    <3> QED BY <2>1, <2>3, <2>5, <3>1 DEF LogInv
  <2>7. ItemsIn(down)' = Append(ItemsIn(down), x)
    <3>1. Shown(x) \in Event /\ Shown(x).type = "item" /\ Shown(x).item = x
      BY EventsTyped DEF Shown
    <3>2. ItemsIn(down \o <<Shown(x)>>) = Append(ItemsIn(down), x)
      BY <2>4, <3>1, ItemsSent DEF With
    <3>3. ItemsIn(down \o <<m, Shown(x)>>) = Append(ItemsIn(down), x)
      BY <2>4, <3>1, ItemsSent DEF With
    <3>4. down' = down \o <<Shown(x)>> \/ down' = down \o <<m, Shown(x)>>
      BY <2>1 DEF Live, Sends
    <3> QED BY <3>2, <3>3, <3>4, Zenon
  <2>8. panes \o Append(ItemsIn(down), x) = Append(panes \o ItemsIn(down), x)
    BY <2>4, Concats
  <2>9. Log' = Append(Log, x) /\ Append(Log, x) \o <<>> = Append(Log, x)
    BY <2>4 DEF Log
  <2> QED BY <2>3, <2>5, <2>6, <2>7, <2>8, <2>9
<1>3. ~Opening' =>
        (\A i, j \in DOMAIN down : down[j].type = "session" /\ i < j => down[i].type = "open")'
  BY DEF Opening
<1> QED BY <1>1, <1>2, <1>3 DEF LogInv

LEMMA WorkLog ==
  ASSUME ClientInv, LogInv, NEW kind \in {"msg", "note"}, Work(kind), ClientInv'
  PROVE  LogInv'
<1>1. /\ handler.at = "turn" /\ items < MaxItems /\ UNCHANGED <<panes, up, greeting, early>>
      /\ stored' = [stored EXCEPT ![handler.session].log = Logged(NewItem(kind))]
      /\ handler' = handler \/ handler' = [handler EXCEPT !.totals = @ + 1]
  BY DEF Work, page
<1> PICK x, m : x = NewItem(kind) /\ m = [type |-> "metrics", totals |-> handler.totals + 1]
  OBVIOUS
<1>2. x \in Item /\ x.kind = kind
  BY <1>1, ItemTyped DEF ClientInv
<1>3. m \in Event /\ m.type = "metrics"
  <2>1. handler.totals + 1 \in Nat
    BY HandlerFields DEF ClientInv
  <2> QED BY <2>1, EventsTyped
<1>4. Sends(<<Shown(x)>>) \/ Sends(<<m, Shown(x)>>)
  BY DEF Work
<1>5. handler'.session = handler.session /\ handler'.alone = handler.alone
  BY <1>1 DEF ClientInv, TypeOK, Handler
<1>6. /\ stored'[handler.session].log = Append(Log, x)
      /\ \A s \in Sessions : /\ stored'[s].exists = stored[s].exists
                             /\ s # handler.session => stored'[s].log = stored[s].log
  <2>1. Logged(x) = Append(Log, x)
    BY <1>2 DEF Logged, Persisted, Log
  <2>2. handler.session \in Sessions /\ stored \in [Sessions -> Stored]
    BY <1>1, InTurn DEF ClientInv, TypeOK
  <2> QED BY <1>1, <2>1, <2>2 DEF Stored
<1> QED BY <1>1, <1>2, <1>3, <1>4, <1>5, <1>6, ShowsAndLogs

LEMMA AskLog ==
  ASSUME ClientInv, LogInv, Ask, ClientInv'
  PROVE  LogInv'
<1>1. /\ handler.at = "turn" /\ items < MaxItems /\ UNCHANGED <<panes, up, greeting, early>>
      /\ stored' = [stored EXCEPT ![handler.session].log = Logged(NewItem("question")),
                                  ![handler.session].pending = TRUE]
      /\ handler' = [handler EXCEPT !.at = "receive", !.waiting = TRUE]
  BY DEF Ask, page
<1> PICK x, m : x = NewItem("question") /\ m = [type |-> "metrics", totals |-> 0]
  OBVIOUS
<1>2. x \in Item /\ x.kind = "question"
  BY <1>1, ItemTyped DEF ClientInv
<1>3. m \in Event /\ m.type = "metrics"
  BY EventsTyped
<1>4. Sends(<<Shown(x)>>)
  BY DEF Ask
<1>5. handler'.session = handler.session /\ handler'.alone = handler.alone
  BY <1>1 DEF ClientInv, TypeOK, Handler
<1>6. /\ stored'[handler.session].log = Append(Log, x)
      /\ \A s \in Sessions : /\ stored'[s].exists = stored[s].exists
                             /\ s # handler.session => stored'[s].log = stored[s].log
  <2>1. Logged(x) = Append(Log, x)
    BY <1>2 DEF Logged, Persisted, Log
  <2>2. handler.session \in Sessions /\ stored \in [Sessions -> Stored]
    BY <1>1, InTurn DEF ClientInv, TypeOK
  <2> QED BY <1>1, <2>1, <2>2 DEF Stored
<1> QED BY <1>1, <1>2, <1>3, <1>4, <1>5, <1>6, ShowsAndLogs
LEMMA FinishLog ==
  ASSUME ClientInv, LogInv, Finish
  PROVE  LogInv'
<1>1. /\ handler.at = "turn" /\ UNCHANGED <<panes, up, greeting, early>>
      /\ stored' = [stored EXCEPT ![handler.session].cost = handler.base + handler.totals]
      /\ handler' = [handler EXCEPT !.at = "receive"]
  BY DEF Finish, page, observed
<1> PICK m, d : m = [type |-> "metrics", totals |-> handler.totals] /\ d = [type |-> "done"]
  OBVIOUS
<1>2. m \in Event /\ m.type = "metrics" /\ d \in Event /\ d.type = "done"
  <2>1. handler.totals \in Nat
    BY HandlerFields DEF ClientInv
  <2> QED BY <2>1, EventsTyped
<1>3. handler'.session = handler.session /\ handler'.alone = handler.alone
  BY <1>1 DEF ClientInv, TypeOK, Handler
<1>4. /\ handler.session \in Sessions
      /\ \A s \in Sessions : stored'[s].exists = stored[s].exists /\ stored'[s].log = stored[s].log
  <2>1. handler.session \in Sessions /\ stored \in [Sessions -> Stored]
    BY <1>1, InTurn DEF ClientInv, TypeOK
  <2> QED BY <1>1, <2>1 DEF Stored
<1>5. \A s \in Sessions : ~stored'[s].exists => stored'[s].log = <<>>
  BY <1>4 DEF LogInv
<1>6. ASSUME Live', ~early'
      PROVE  /\ ItemsIn(down)' = ItemsIn(down) /\ ~Opening /\ ~Opening'
             /\ Log' = Log /\ Unsent' = Unsent /\ Live /\ ~early
  <2>1. Live /\ ~early
    BY <1>1, <1>3, <1>6 DEF Live
  <2>2. greeting = 0
    BY <1>1, <2>1, InTurn
  <2>3. ~Opening
    BY <2>2, Opened
  <2>4. down' = down \o <<m, d>> /\ down \in Seq(Event)
    BY <2>1 DEF Finish, Sends, Live, ClientInv, TypeOK
  <2>5. ItemsIn(down)' = ItemsIn(down)
    BY <1>2, <2>4, ItemsSent DEF With
  <2>6. ~Opening'
    <3> SUFFICES ASSUME NEW i \in DOMAIN down' PROVE down'[i].type # "session"
      BY DEF Opening
    <3>1. (i \in DOMAIN down /\ down'[i] = down[i]) \/ down'[i] = m \/ down'[i] = d
      BY <1>2, <2>4
    <3> QED BY <1>2, <2>3, <3>1 DEF Opening
  <2>7. Log' = Log /\ Unsent' = Unsent
    BY <1>1, <1>3, <1>4 DEF Log, Unsent
  <2> QED BY <2>1, <2>3, <2>5, <2>6, <2>7
<1>7. ~Opening' =>
        (\A i, j \in DOMAIN down : down[j].type = "session" /\ i < j => down[i].type = "open")'
  BY DEF Opening
<1> QED BY <1>1, <1>5, <1>6, <1>7 DEF LogInv

LEMMA ReceiveLog ==
  ASSUME ClientInv, LogInv, Receive
  PROVE  LogInv'
<1>1. /\ handler.at = "receive" /\ up # <<>> /\ up' = Tail(up)
      /\ Sends(<<[type |-> "working"]>>)
      /\ stored' = [stored EXCEPT ![handler.session].log = Logged(Head(up).item),
                                  ![handler.session].pending = FALSE]
      /\ handler' = [handler EXCEPT !.at = "turn", !.waiting = FALSE]
      /\ UNCHANGED <<panes, greeting, early>>
  BY DEF Receive, page, observed
<1>2. handler'.session = handler.session /\ handler'.alone = handler.alone
  BY <1>1 DEF ClientInv, TypeOK, Handler
<1>3. handler.session \in Sessions /\ stored[handler.session].exists
  BY <1>1 DEF ClientInv, ConnInv, StoreInv
<1>4. /\ stored'[handler.session].log = Logged(Head(up).item)
      /\ \A s \in Sessions : /\ stored'[s].exists = stored[s].exists
                             /\ s # handler.session => stored'[s].log = stored[s].log
  BY <1>1, <1>3 DEF ClientInv, TypeOK, Stored
<1>5. \A s \in Sessions : ~stored'[s].exists => stored'[s].log = <<>>
  BY <1>3, <1>4 DEF LogInv
<1>6. ASSUME Live', ~early'
      PROVE  ~Opening' /\ panes' \o ItemsIn(down)' = Log' \o Unsent'
  <2>1. Live /\ ~early
    BY <1>1, <1>2, <1>6 DEF Live
  <2>2. greeting = 0
    <3>1. ~(greeting > 0)
      BY <1>1, <2>1 DEF ClientInv, OpeningInv
    <3> QED BY <3>1, NoGreeting
  <2>3. Len(up) = 1 /\ down = <<>> /\ ~Opening
    <3>1. Len(up) = 1 /\ down = <<>>
      BY <1>1, <2>1, <2>2 DEF ClientInv, TurnInv
    <3> QED BY <2>2, <3>1, Opened
  <2>4. Log \in Seq(Item) /\ panes \in Seq(Item)
    BY <2>1, LogTyped
  <2> PICK x : x = up[1].item
    OBVIOUS
  <2>5. x \in Item /\ Unsent = <<x>> /\ Head(up).item = x
    <3>1. x \in Item /\ Unsent = <<x>>
      BY <2>3, UnsentAre DEF ClientInv
    <3>2. Head(up) = up[1]
      OBVIOUS
    <3> QED BY <3>1, <3>2
  <2>6. up' = <<>> /\ Unsent' = <<>>
    <3>1. up \in Seq(Message)
      BY DEF ClientInv, TypeOK
    <3>2. up' = <<>>
      BY <1>1, <2>3, <3>1
    <3>3. DOMAIN up' = {} /\ Len(up') = 0
      BY <3>2
    <3> QED BY <3>2, <3>3 DEF Unsent
  <2>7. panes = Append(Log, x)
    <3>1. panes \o <<>> = Log \o <<x>>
      BY <2>1, <2>3, <2>5, NoItems DEF LogInv
    <3>2. panes \o <<>> = panes
      BY <2>4
    <3>3. Log \o <<x>> = Append(Log, x)
      BY <2>4, <2>5, Concats
    <3> QED BY <3>1, <3>2, <3>3
  <2>8. Log' = Append(Log, x)
    <3>1. x.kind \in Persisted
      BY <2>5 DEF Item, Persisted
    <3> QED BY <1>2, <1>4, <2>5, <3>1 DEF Logged, Log
  <2>9. ItemsIn(down)' = <<>> /\ ~Opening'
    <3> PICK e : e = [type |-> "working"]
      OBVIOUS
    <3>1. e.type = "working"
      OBVIOUS
    <3>2. down' = <<e>>
      <4>1. down' = <<>> \o <<e>>
        BY <1>1, <2>1, <2>3 DEF Live, Sends
      <4> QED BY <4>1
    <3>3. 1 \in Nat /\ 1 = Len(down') /\ \A i \in 1..1 : down'[i].type # "item"
      BY <3>1, <3>2
    <3>4. ItemsIn(down') = <<>>
      BY <3>3, NothingShown, Zenon
    <3>5. ~Opening'
      BY <3>1, <3>2 DEF Opening
    <3> QED BY <3>4, <3>5
  <2>10. Append(Log, x) \o <<>> = Append(Log, x)
    BY <2>4, <2>5
  <2>11. panes' \o ItemsIn(down)' = panes
    BY <1>1, <2>4, <2>9
  <2> QED BY <2>6, <2>7, <2>8, <2>9, <2>10, <2>11
<1>7. ~Opening' =>
        (\A i, j \in DOMAIN down : down[j].type = "session" /\ i < j => down[i].type = "open")'
  BY DEF Opening
<1> QED BY <1>5, <1>6, <1>7 DEF LogInv

LEMMA SendLog ==
  ASSUME ClientInv, LogInv, Send
  PROVE  LogInv'
<1> PICK x, a : x = NewItem("user") /\ a = (status = "question")
  OBVIOUS
<1>1. /\ ~busy /\ socket = "open" /\ items < MaxItems
      /\ early' = (early \/ greeting > 0)
      /\ panes' = Append(panes, x)
      /\ up' = Append(up, [item |-> x, answer |-> a, early |-> early'])
      /\ UNCHANGED <<down, handler, stored, greeting>>
  BY DEF Send, server
<1>2. x \in Item
  BY <1>1, ItemTyped DEF ClientInv
<1>3. \A s \in Sessions : ~stored'[s].exists => stored'[s].log = <<>>
  BY <1>1 DEF LogInv
<1>4. ASSUME ~early'
      PROVE  ~Opening' /\ panes' \o ItemsIn(down)' = Log' \o Unsent'
  <2>1. Live /\ ~early /\ ~(greeting > 0)
    BY <1>1, <1>4 DEF ClientInv, ConnInv
  <2>2. greeting = 0
    BY <2>1, NoGreeting
  <2>3. up = <<>> /\ down = <<>>
    <3>1. handler.at = "receive"
      <4>1. handler.at # "turn" /\ handler.at # "none"
        BY <1>1, <2>1, InTurn DEF Live
      <4> QED BY <4>1, HandlerFields DEF ClientInv
    <3> QED BY <1>1, <2>1, <2>2, <3>1 DEF ClientInv, TurnInv
  <2>4. Log \in Seq(Item) /\ panes \in Seq(Item)
    BY <2>1, LogTyped
  <2>5. ~Opening /\ Unsent = <<>>
    BY <2>2, <2>3, Opened, UnsentAre DEF ClientInv
  <2>6. panes = Log
    <3>1. panes \o <<>> = Log \o <<>>
      BY <2>1, <2>3, <2>5, NoItems DEF LogInv
    <3>2. panes \o <<>> = panes /\ Log \o <<>> = Log
      BY <2>4
    <3> QED BY <3>1, <3>2
  <2>7. Unsent' = <<x>>
    <3> PICK m : m = [item |-> x, answer |-> a, early |-> early']
      OBVIOUS
    <3>1. m.item = x
      OBVIOUS
    <3>2. up' = <<m>>
      BY <1>1, <2>3
    <3>3. Unsent' = [i \in 1..1 |-> x]
      BY <3>1, <3>2 DEF Unsent
    <3>4. [i \in 1..1 |-> x] = <<x>>
      OBVIOUS
    <3> QED BY <3>3, <3>4
  <2>8. ItemsIn(down)' = <<>> /\ Log' = Log /\ ~Opening'
    BY <1>1, <2>3, <2>5, NoItems DEF Log, Opening
  <2>9. panes' \o ItemsIn(down)' = panes'
    <3>1. panes' \in Seq(Item)
      BY <1>1, <1>2, <2>4
    <3> QED BY <2>8, <3>1
  <2>10. Log \o <<x>> = Append(Log, x)
    BY <1>2, <2>4, Concats
  <2> QED BY <1>1, <2>6, <2>7, <2>8, <2>9, <2>10
<1>5. ~Opening' =>
        (\A i, j \in DOMAIN down : down[j].type = "session" /\ i < j => down[i].type = "open")'
  BY DEF Opening
<1> QED BY <1>3, <1>4, <1>5 DEF LogInv
LEMMA Shows ==
  ASSUME HandleEvent
  PROVE  LET e == Head(down) IN
         /\ Handles(e.type)
         /\ e.type = "session" => panes' = <<>>
         /\ e.type = "item" => panes' = Append(panes, e.item)
         /\ e.type \notin {"session", "item"} => panes' = panes
<1> PICK e : e = Head(down)
  OBVIOUS
<1>1. CASE OnItem
  BY <1>1 DEF OnItem, Handles
<1>2. CASE OnSession
  BY <1>2 DEF OnSession, Handles
<1>3. CASE OnOpen \/ OnAwaiting \/ OnDone
  BY <1>3 DEF OnOpen, OnAwaiting, OnDone, Handles
<1>4. CASE OnReplayStart \/ OnReplayEnd \/ OnWorking \/ OnMetrics
  BY <1>4 DEF OnReplayStart, OnReplayEnd, OnWorking, OnMetrics, Handles
<1> QED BY <1>1, <1>2, <1>3, <1>4 DEF HandleEvent

LEMMA HandleEventLog ==
  ASSUME ClientInv, LogInv, HandleEvent
  PROVE  LogInv'
<1>1. TypeOK
  BY DEF ClientInv
<1> PICK e, n : e = Head(down) /\ n = Len(down) - 1
  OBVIOUS
<1>2. /\ Handles(e.type)
      /\ e.type = "session" => panes' = <<>>
      /\ e.type = "item" => panes' = Append(panes, e.item)
      /\ e.type \notin {"session", "item"} => panes' = panes
  BY Shows
<1>3. /\ n \in Nat /\ n + 1 = Len(down) /\ n = Len(down') /\ down[1] = e /\ e \in Event
      /\ DOMAIN down = 1..n + 1 /\ DOMAIN down' = 1..n
      /\ \A i \in 1..n : down'[i] = down[i + 1]
      /\ down' \in Seq(Event)
      /\ UNCHANGED <<up, handler, stored, early>>
  BY <1>1, <1>2, HandlesFacts
<1>4. /\ \A i \in DOMAIN down' : i + 1 \in DOMAIN down /\ down'[i] = down[i + 1]
      /\ \A i \in DOMAIN down : i # 1 => i - 1 \in DOMAIN down' /\ down'[i - 1] = down[i]
      /\ 1 \in DOMAIN down
  BY <1>3
<1>5. \A s \in Sessions : ~stored'[s].exists => stored'[s].log = <<>>
  BY <1>3 DEF LogInv
<1>6. ASSUME Live', ~early'
      PROVE  /\ (\A i, j \in DOMAIN down : down[j].type = "session" /\ i < j => down[i].type = "open")'
             /\ IF Opening' THEN ItemsIn(down)' = Log' ELSE panes' \o ItemsIn(down)' = Log' \o Unsent'
  <2>1. Live /\ ~early
    BY <1>3, <1>6 DEF Live
  <2>2. /\ \A i, j \in DOMAIN down : down[j].type = "session" /\ i < j => down[i].type = "open"
        /\ IF Opening THEN ItemsIn(down) = Log ELSE panes \o ItemsIn(down) = Log \o Unsent
    BY <2>1 DEF LogInv
  <2>3. ASSUME NEW i \in DOMAIN down', NEW j \in DOMAIN down', down'[j].type = "session", i < j
        PROVE  down'[i].type = "open"
    <3>1. i + 1 < j + 1
      BY <1>3, <2>3
    <3> QED BY <1>4, <2>2, <2>3, <3>1
  <2>4. \A j \in DOMAIN down : down[j].type = "session" /\ j # 1 => e.type = "open"
    <3>1. \A j \in DOMAIN down : j # 1 => 1 < j
      BY <1>3
    <3> QED BY <1>3, <1>4, <2>2, <3>1
  <2>5. Log' = Log /\ Unsent' = Unsent
    BY <1>3 DEF Log, Unsent
  <2>6. Log \in Seq(Item) /\ panes \in Seq(Item) /\ ItemsIn(down') \in Seq(Item)
    BY <1>3, <2>1, LogTyped, ItemsTyped
  <2>7. ItemsIn(down) = First(e) \o ItemsIn(down')
    <3>1. down \in Seq(Event)
      BY <1>1 DEF TypeOK
    <3>2. \A i \in 1..n + 1 : down[i] \in Event
      BY <1>3, <3>1
    <3>3. \A i \in 1..n : down'[i] = down[i + 1]
      BY <1>3
    <3>4. n \in Nat /\ n = Len(down') /\ n + 1 = Len(down)
      BY <1>3
    <3>5. ItemsIn(down) = First(down[1]) \o ItemsIn(down')
      BY <3>2, <3>3, <3>4, ItemsTail, Zenon
    <3> QED BY <1>3, <3>5
  <2>8. e.type # "item" => ItemsIn(down) = ItemsIn(down')
    <3>1. <<>> \o ItemsIn(down') = ItemsIn(down')
      BY <2>6
    <3> QED BY <2>7, <3>1 DEF First
  <2>9. CASE e.type = "session"
    <3>1. Opening
      BY <1>3, <1>4, <2>9 DEF Opening
    <3>2. ~Opening'
      <4> SUFFICES ASSUME NEW i \in DOMAIN down', down'[i].type = "session" PROVE FALSE
        BY DEF Opening
      <4>1. i + 1 # 1
        BY <1>3
      <4> QED BY <1>4, <2>4, <2>9, <4>1
    <3>3. up = <<>>
      <4>1. greeting > 0
        <5>1. 1 <= greeting
          BY <1>3, <1>4, <2>9 DEF ClientInv, ConnInv
        <5>2. greeting \in 0..Len(down)
          BY <1>1 DEF TypeOK
        <5> QED BY <1>3, <5>1, <5>2
      <4> QED BY <2>1, <4>1 DEF ClientInv, OpeningInv
    <3>4. Unsent = <<>>
      BY <1>1, <3>3, UnsentAre
    <3>5. ItemsIn(down') = Log
      BY <2>2, <2>8, <2>9, <3>1
    <3>6. <<>> \o Log = Log /\ Log \o <<>> = Log
      BY <2>6
    <3>7. panes' \o ItemsIn(down') = Log \o Unsent
      BY <1>2, <2>9, <3>4, <3>5, <3>6
    <3> QED BY <2>3, <2>5, <3>2, <3>7
  <2>10. CASE e.type = "item"
    <3>1. ~Opening
      BY <1>3, <2>4, <2>10 DEF Opening
    <3>2. ~Opening'
      BY <1>4, <3>1 DEF Opening
    <3>3. e.item \in Item
      BY <1>3, <2>10, EventFields
    <3>4. panes \o ItemsIn(down) = Log \o Unsent
      BY <2>2, <3>1
    <3>5. ItemsIn(down) = <<e.item>> \o ItemsIn(down')
      BY <2>7, <2>10 DEF First
    <3>6. Append(panes, e.item) \o ItemsIn(down') = panes \o (<<e.item>> \o ItemsIn(down'))
      BY <2>6, <3>3, Concats, Zenon
    <3>7. panes' \o ItemsIn(down') = Log \o Unsent
      BY <1>2, <2>10, <3>4, <3>5, <3>6, Zenon
    <3> QED BY <2>3, <2>5, <3>2, <3>7
  <2>11. CASE e.type \notin {"session", "item"}
    <3>1. Opening' <=> Opening
      <4>1. ASSUME Opening' PROVE Opening
        BY <1>4, <4>1 DEF Opening
      <4>2. ASSUME Opening PROVE Opening'
        <5>1. PICK i \in DOMAIN down : down[i].type = "session"
          BY <4>2 DEF Opening
        <5>2. i # 1
          BY <1>3, <2>11, <5>1
        <5> QED BY <1>4, <5>1, <5>2 DEF Opening
      <4> QED BY <4>1, <4>2
    <3>2. ItemsIn(down)' = ItemsIn(down) /\ panes' = panes
      BY <1>2, <2>8, <2>11
    <3>3. IF Opening' THEN ItemsIn(down)' = Log' ELSE panes' \o ItemsIn(down)' = Log' \o Unsent'
      BY <2>2, <2>5, <3>1, <3>2
    <3> QED BY <2>3, <3>3
  <2> QED BY <2>9, <2>10, <2>11
<1> QED BY <1>5, <1>6 DEF LogInv

LEMMA NextLog ==
  ASSUME ClientInv, LogInv, [Next]_vars, ClientInv'
  PROVE  LogInv'
<1>1. CASE Connect
  BY <1>1 DEF Connect, server, observed, LogInv, Live, Opening, Log, Unsent
<1>2. CASE Interrupted
  <2>1. Disconnected
    BY <1>2 DEF Interrupted, Break, Reload, SwitchSession
  <2>2. handler'.at = handler.at /\ handler'.alone = (handler.at # "none") /\ UNCHANGED stored
    BY <2>1, DisconnectedTyped DEF ClientInv
  <2> QED BY <2>2 DEF LogInv, Live
<1>3. CASE Leave
  BY <1>3 DEF Leave, NoHandler, LogInv, Live
<1>4. CASE UNCHANGED vars
  BY <1>4 DEF vars, page, server, observed, LogInv, Live, Opening, Log, Unsent
<1>5. CASE Open
  BY <1>5, OpenLog
<1>6. CASE Receive
  BY <1>6, ReceiveLog
<1>7. CASE \E kind \in {"msg", "note"} : Work(kind)
  BY <1>7, WorkLog
<1>8. CASE Ask
  BY <1>8, AskLog
<1>9. CASE Finish
  BY <1>9, FinishLog
<1>10. CASE HandleEvent
  BY <1>10, HandleEventLog
<1>11. CASE Send
  BY <1>11, SendLog
<1> QED
  BY <1>1, <1>2, <1>3, <1>4, <1>5, <1>6, <1>7, <1>8, <1>9, <1>10, <1>11 DEF Next, Serves

(* While a connection stands, the panes and what is still to be shown are  *)
(* events.jsonl and what the user has still to deliver, in the same order  *)
(* (session_store.py:10), after any breaks, reloads and switches, unless   *)
(* the user wrote into the replay.                                         *)
THEOREM PanesStayTheLog == Spec => []PanesAreTheLog
<1>1. Init => LogInv
  <2> SUFFICES ASSUME Init PROVE LogInv
    OBVIOUS
  <2>1. ~Live
    BY DEF Init, NoHandler, Live
  <2> PICK new : new = [exists |-> FALSE, log |-> <<>>, pending |-> FALSE, cost |-> 0]
    OBVIOUS
  <2>2. new.log = <<>>
    OBVIOUS
  <2>3. \A s \in Sessions : stored[s].log = <<>>
    <3>1. stored = [s \in Sessions |-> new]
      BY DEF Init
    <3> QED BY <2>2, <3>1
  <2> QED BY <2>1, <2>3 DEF LogInv
<1>2. Init => ClientInv
  BY InitClientInv
<1>3. ClientInv /\ LogInv /\ [Next]_vars => ClientInv' /\ LogInv'
  BY NextKeeps, NextLog
<1>4. ClientInv /\ LogInv => PanesAreTheLog
  BY DEF ClientInv, ConnInv, LogInv, PanesAreTheLog, Opening, Log
<1> QED BY <1>1, <1>2, <1>3, <1>4, PTL DEF Spec
==============================================================================
