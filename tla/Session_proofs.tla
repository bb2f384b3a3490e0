--------------------------- MODULE Session_proofs ---------------------------
(***************************************************************************)
(* Theorems about Session: type correctness for any number of connections, *)
(* and what a session opened by one connection at a time never loses or    *)
(* invents, wherever the connection or the process breaks, for any         *)
(* languages, specialists, limits and number of messages.                  *)
(***************************************************************************)
EXTENDS Session, TLAPS

USE DEF Detections

LEMMA HandlerFields ==
  ASSUME TypeOK, NEW c \in Conns
  PROVE  /\ conn[c] \in Handler
         /\ conn[c].waiting \in BOOLEAN
         /\ conn[c].lang \in Languages
         /\ conn[c].titled \in BOOLEAN
         /\ conn[c].base \in Nat
         /\ meta.lang \in Languages \cup {None}
         /\ meta.cost \in Nat
         /\ meta.titled \in BOOLEAN /\ meta.pinned \in BOOLEAN /\ meta.pending \in BOOLEAN
         /\ RestoredLanguage \in Languages
BY SessionAssumption DEF TypeOK, Handler, Meta, RestoredLanguage

(* One handler's record is replaced.                                       *)
LEMMA HandlerReplaced ==
  ASSUME TypeOK, NEW c \in Conns, NEW h \in Handler, conn' = [conn EXCEPT ![c] = h]
  PROVE  conn' \in [Conns -> Handler] /\ conn'[c] = h
BY DEF TypeOK

LEMMA ConnectTyped ==
  ASSUME TypeOK, NEW c \in Conns, Connect(c)
  PROVE  TypeOK'
<1>1. conn' \in [Conns -> Handler]
  <2> DEFINE h == [at |-> "opening", waiting |-> meta.pending, lang |-> RestoredLanguage,
                   titled |-> meta.titled, base |-> meta.cost]
  <2>1. h \in Handler
    BY HandlerFields DEF Handler, Awaits
  <2>2. conn' = [conn EXCEPT ![c] = h]
    BY DEF Connect
  <2> HIDE DEF h
  <2> QED BY <2>1, <2>2, HandlerReplaced
<1>2. pin' \in Languages \cup {None}
  BY HandlerFields DEF Connect, RestoredPin, TypeOK
<1>3. hist' \in [Specialists -> SUBSET Work]
  BY DEF Connect, Imported, TypeOK
<1> QED BY <1>1, <1>2, <1>3 DEF Connect, TypeOK, durable, observed

(* StartTurn, on a handler and a meta.json of the right types.             *)
LEMMA StartTurnTyped ==
  ASSUME TypeOK, NEW c \in Conns, NEW h \in Handler, NEW m \in Meta, StartTurn(c, h, m)
  PROVE  /\ conn' \in [Conns -> Handler]
         /\ meta' \in Meta
         /\ budget' \in 0..MaxAssignTasks
         /\ started' \in Nat
<1>1. PICK at \in {"resuming", "starting"} :
        conn' = [conn EXCEPT ![c] = [h EXCEPT !.at = at, !.waiting = FALSE]]
  BY DEF StartTurn
<1>2. [h EXCEPT !.at = at, !.waiting = FALSE] \in Handler
  BY DEF Handler, Awaits
<1>3. conn' \in [Conns -> Handler]
  BY <1>1, <1>2, HandlerReplaced
<1>4. meta' \in Meta
  BY DEF StartTurn, Meta
<1>5. budget' \in 0..MaxAssignTasks /\ started' \in Nat
  BY SessionAssumption DEF StartTurn, TypeOK
<1> QED BY <1>3, <1>4, <1>5

LEMMA ReceiveTyped ==
  ASSUME TypeOK, NEW c \in Conns, NEW d \in Detections, Receive(c, d)
  PROVE  TypeOK'
<1> DEFINE h == [conn[c] EXCEPT !.titled = TRUE, !.lang = Resolved(c, d)]
           m == Titled(c)
<1>1. Resolved(c, d) \in Languages
  BY HandlerFields DEF Resolved, IsPinned, TypeOK
<1>2. h \in Handler /\ [h EXCEPT !.at = "switching"] \in Handler
  BY <1>1, HandlerFields DEF Handler, Awaits
<1>3. m \in Meta
  BY HandlerFields DEF Titled, Meta, TypeOK, IsPinned
<1>4. /\ \/ StartTurn(c, h, m)
         \/ /\ conn' = [conn EXCEPT ![c] = [h EXCEPT !.at = "switching"]]
            /\ meta' = m
            /\ UNCHANGED <<budget, started>>
      /\ UNCHANGED <<saved, log, ckpt, hist, pin, totals, spent, wanted, broken>>
      /\ messages < MaxMessages /\ messages' = messages + 1
  BY DEF Receive
<1>5. messages' \in 0..MaxMessages
  BY <1>4, SessionAssumption DEF TypeOK
<1> HIDE DEF h, m
<1>6. /\ conn' \in [Conns -> Handler]
      /\ meta' \in Meta
      /\ budget' \in 0..MaxAssignTasks
      /\ started' \in Nat
  <2>1. CASE StartTurn(c, h, m)
    BY <1>2, <1>3, <2>1, StartTurnTyped
  <2>2. CASE /\ conn' = [conn EXCEPT ![c] = [h EXCEPT !.at = "switching"]]
             /\ meta' = m
             /\ UNCHANGED <<budget, started>>
    BY <1>2, <1>3, <2>2, HandlerReplaced DEF TypeOK
  <2> QED BY <1>4, <2>1, <2>2
<1> QED BY <1>4, <1>5, <1>6 DEF TypeOK

LEMMA SwitchTyped ==
  ASSUME TypeOK, NEW c \in Conns, SwitchLanguage(c)
  PROVE  TypeOK'
<1> DEFINE m == [meta EXCEPT !.lang = conn[c].lang, !.pinned = IsPinned]
<1>1. m \in Meta /\ conn[c] \in Handler
  BY HandlerFields DEF Meta, TypeOK, IsPinned
<1>2. /\ StartTurn(c, conn[c], m)
      /\ UNCHANGED <<saved, log, ckpt, hist, pin, totals, spent, wanted, broken, messages>>
  BY DEF SwitchLanguage
<1> HIDE DEF m
<1>3. /\ conn' \in [Conns -> Handler]
      /\ meta' \in Meta
      /\ budget' \in 0..MaxAssignTasks
      /\ started' \in Nat
  BY <1>1, <1>2, StartTurnTyped
<1> QED BY <1>2, <1>3 DEF TypeOK

LEMMA AssignTyped ==
  ASSUME TypeOK, NEW c \in Conns, NEW a \in Specialists, Assign(c, a)
  PROVE  TypeOK'
<1>1. /\ spent' \in Work /\ spent' \in 0..MaxWork
      /\ budget' \in 0..MaxAssignTasks
      /\ started' \in Nat /\ totals' \in Nat
  BY SessionAssumption DEF Assign, TypeOK, Work
<1>2. /\ hist' \in [Specialists -> SUBSET Work]
      /\ log' \in [Specialists -> SUBSET Work]
  BY <1>1 DEF Assign, TypeOK
<1> QED BY <1>1, <1>2 DEF Assign, TypeOK

(* The other steps of a turn.                                              *)
LEMMA TurnTyped ==
  ASSUME TypeOK, NEW c \in Conns,
         \/ Replayed(c) \/ RunGraph(c) \/ Ask(c) \/ Asked(c) \/ EndTurn(c)
         \/ \E l \in Pins : PinLanguage(c, l)
  PROVE  TypeOK'
<1> USE DEF durable, memory, observed
<1>1. CASE Replayed(c)
  BY <1>1 DEF Replayed, TypeOK, Handler, Awaits
<1>2. CASE RunGraph(c)
  BY <1>2 DEF RunGraph, TypeOK, Handler, Awaits
<1>3. CASE Ask(c)
  BY <1>3 DEF Ask, TypeOK, Handler, Awaits
<1>4. CASE Asked(c)
  <2>1. conn' \in [Conns -> Handler]
    BY <1>4 DEF Asked, TypeOK, Handler, Awaits
  <2>2. meta' \in Meta
    BY <1>4 DEF Asked, TypeOK, Meta
  <2> QED BY <1>4, <2>1, <2>2 DEF Asked, TypeOK
<1>5. CASE EndTurn(c)
  <2>1. conn' \in [Conns -> Handler]
    BY <1>5 DEF EndTurn, TypeOK, Handler, Awaits
  <2>2. Accounted(c) \in Meta
    <3>1. conn[c].base + totals \in Nat /\ IsPinned \in BOOLEAN
      BY HandlerFields DEF TypeOK, IsPinned
    <3> QED BY <3>1, HandlerFields DEF Accounted, TypeOK, Meta
  <2>3. meta' \in Meta
    BY <1>5, <2>2 DEF EndTurn, TypeOK
  <2> QED BY <1>5, <2>1, <2>3 DEF EndTurn, TypeOK
<1>6. CASE \E l \in Pins : PinLanguage(c, l)
  BY <1>6, SessionAssumption DEF PinLanguage, TypeOK
<1> QED BY <1>1, <1>2, <1>3, <1>4, <1>5, <1>6

LEMMA ReleasedTyped ==
  ASSUME Released
  PROVE  /\ hist' \in [Specialists -> SUBSET Work]
         /\ budget' \in 0..MaxAssignTasks
         /\ pin' \in Languages \cup {None}
         /\ totals' \in Nat
BY SessionAssumption DEF Released, Nothing

LEMMA BreakTyped ==
  ASSUME TypeOK, Crash \/ \E c \in Conns : Leave(c)
  PROVE  TypeOK'
<1>1. Closed \in Handler
  BY SessionAssumption DEF Closed, Handler
<1>2. conn' \in [Conns -> Handler]
  BY <1>1 DEF Crash, Leave, TypeOK
<1>3. UNCHANGED memory \/ Released
  BY DEF Crash, Leave, Cleanup
<1>4. UNCHANGED <<durable, spent, started, wanted, messages>>
  BY DEF Crash, Leave
<1>5. broken' \subseteq Delicate
  BY DEF Crash, Leave, BreakPoints, TypeOK
<1> QED BY <1>2, <1>3, <1>4, <1>5, ReleasedTyped DEF TypeOK, durable, memory

LEMMA NextTyped == TypeOK /\ [Next]_vars => TypeOK'
<1> SUFFICES ASSUME TypeOK, [Next]_vars PROVE TypeOK'
  OBVIOUS
<1>1. ASSUME NEW c \in Conns, Serve(c) PROVE TypeOK'
  BY <1>1, ConnectTyped, ReceiveTyped, SwitchTyped, AssignTyped, TurnTyped, BreakTyped DEF Serve
<1>2. CASE Crash
  BY <1>2, BreakTyped
<1>3. CASE UNCHANGED vars
  BY <1>3 DEF vars, durable, memory, observed, TypeOK
<1> QED BY <1>1, <1>2, <1>3 DEF Next

LEMMA InitTyped == Init => TypeOK
<1> SUFFICES ASSUME Init PROVE TypeOK
  OBVIOUS
<1>1. Closed \in Handler
  BY SessionAssumption DEF Closed, Handler
<1>2. meta \in Meta
  BY DEF Init, Meta
<1> QED BY <1>1, <1>2, SessionAssumption DEF Init, TypeOK, Nothing

(* Every variable of the session keeps its type, for any number of         *)
(* connections.                                                            *)
THEOREM SessionTypeCorrect == Spec => []TypeOK
BY InitTyped, NextTyped, PTL DEF Spec

-----------------------------------------------------------------------------
(* A session opened by one connection at a time: c stands for all of them. *)

(* The question: meta.json, the handler and the checkpoint.                *)
QuestionInv(c) ==
  /\ conn[c].at \in {"opening", "ready", "switching"} => (conn[c].waiting <=> meta.pending)
  /\ conn[c].at \in {"starting", "resuming", "asking"} => ~conn[c].waiting /\ ~meta.pending
  /\ conn[c].at = "turn" => (conn[c].waiting <=> meta.pending)
  /\ conn[c].at = "closed" => ~conn[c].waiting
  /\ meta.pending \/ conn[c].at = "asking" => ckpt = "paused"

(* The histories: outside a turn, those of specialists.json, or none.      *)
HistoryInv(c) ==
  /\ conn[c].at = "closed" => hist = saved \/ hist = Nothing
  /\ conn[c].at \in {"opening", "ready", "switching", "starting", "resuming"} => hist = saved
  /\ conn[c].at # "closed" => \A a \in Specialists : saved[a] \subseteq hist[a]

(* The cost: what is stored, plus what it will be added to.                *)
CostInv(c) ==
  /\ meta.cost <= spent
  /\ conn[c].at \in {"closed", "opening"} => totals = 0
  /\ conn[c].at # "closed" => /\ meta.cost <= conn[c].base + totals
                              /\ conn[c].base + totals <= spent

(* The language and its pin.                                               *)
LanguageInv(c) ==
  /\ meta.titled => meta.lang # None
  /\ conn[c].at = "closed" => ~conn[c].titled
  /\ conn[c].at # "closed" => (conn[c].titled <=> meta.titled)
  /\ conn[c].at # "switching" /\ conn[c].titled => meta.lang = conn[c].lang
  /\ conn[c].at # "closed" /\ meta.pinned => IsPinned

(* What holds until a break at a delicate await.                           *)

(* The graph waits for an answer when the handler, or meta.json, says so.  *)
PauseInv(c) ==
  broken \cap {"asking", "resuming"} = {} =>
    /\ conn[c].at = "closed" => (meta.pending <=> ckpt = "paused")
    /\ conn[c].at \in {"opening", "ready", "switching", "turn"} =>
         (conn[c].waiting <=> ckpt = "paused")
    /\ conn[c].at = "starting" => ckpt = "ready"
    /\ conn[c].at = "resuming" => ckpt = "paused"

(* What was shown is in the histories, and outside a turn on disk.         *)
ShownInv(c) ==
  broken \cap {"turn", "asking"} = {} =>
    \A a \in Specialists :
      IF conn[c].at \in {"turn", "asking"} THEN log[a] \subseteq hist[a]
                                          ELSE log[a] \subseteq saved[a]

(* Without a connection, the process keeps nothing.                        *)
ResidueInv(c) ==
  "opening" \notin broken /\ conn[c].at = "closed" =>
    hist = Nothing /\ budget = 0 /\ pin = None /\ totals = 0

(* The budget counts the work of the request it was reset for.             *)
ChargeInv(c) ==
  "waiting" \notin broken =>
    /\ started <= MaxAssignTasks
    /\ conn[c].at = "closed" => ~meta.pending
    /\ conn[c].waiting \/ conn[c].at \in {"starting", "resuming", "turn", "asking"} =>
         started <= budget

(* The live total and the stored one are all that was spent.               *)
FinishedInv(c) ==
  broken \cap {"turn", "asking", "waiting", "resuming"} = {} =>
    /\ conn[c].at # "closed" => conn[c].base + totals = spent
    /\ conn[c].at \notin {"turn", "asking", "resuming"} /\ ~conn[c].waiting =>
         meta.cost = spent

(* The steps of the only connection.                                       *)
LEMMA OneNext ==
  ASSUME NEW c, Conns = {c}, Next
  PROVE  \/ Connect(c) \/ Replayed(c)
         \/ \E d \in Detections : Receive(c, d)
         \/ SwitchLanguage(c) \/ RunGraph(c)
         \/ \E a \in Specialists : Assign(c, a)
         \/ \E l \in Pins : PinLanguage(c, l)
         \/ Ask(c) \/ Asked(c) \/ EndTurn(c)
         \/ Leave(c) \/ Crash
BY DEF Next, Serve

(* What each of them does to the handler, as far as the invariants see.    *)
LEMMA ConnectEffect ==
  ASSUME TypeOK, NEW c \in Conns, Connect(c)
  PROVE  /\ conn[c].at = "closed"
         /\ conn'[c].at = "opening"
         /\ conn'[c].waiting = meta.pending
         /\ conn'[c].lang = RestoredLanguage
         /\ conn'[c].titled = meta.titled
         /\ conn'[c].base = meta.cost
BY DEF Connect, TypeOK

LEMMA ReceiveEffect ==
  ASSUME TypeOK, NEW c \in Conns,
         SwitchLanguage(c) \/ \E d \in Detections : Receive(c, d)
  PROVE  /\ conn[c].at \in {"ready", "switching"}
         /\ conn[c].at = "switching" => conn'[c].at # "switching"
         /\ \/ /\ conn'[c].at = "switching"
               /\ conn'[c].waiting = conn[c].waiting
               /\ meta'.pending = meta.pending
               /\ UNCHANGED <<budget, started>>
            \/ /\ conn'[c].at = IF conn[c].waiting THEN "resuming" ELSE "starting"
               /\ conn'[c].waiting = FALSE
               /\ meta'.pending = IF conn[c].waiting THEN FALSE ELSE meta.pending
               /\ IF conn[c].waiting THEN UNCHANGED <<budget, started>>
                  ELSE budget' = 0 /\ started' = 0
               /\ conn[c].at = "ready" => conn'[c].lang = conn[c].lang
         /\ conn'[c].base = conn[c].base
         /\ meta'.cost = meta.cost
         /\ IF conn[c].at = "switching" 
            THEN /\ meta'.lang = conn[c].lang /\ conn'[c].lang = conn[c].lang
                 /\ meta'.pinned = IsPinned
                 /\ conn'[c].titled = conn[c].titled /\ meta'.titled = meta.titled
            ELSE /\ conn'[c].titled /\ meta'.titled = (meta.titled \/ ~conn[c].titled)
                 /\ meta'.lang = IF conn[c].titled THEN meta.lang ELSE conn[c].lang
                 /\ meta'.pinned = IF conn[c].titled THEN meta.pinned ELSE IsPinned
         /\ UNCHANGED <<saved, log, ckpt, hist, pin, totals, spent, wanted, broken>>
<1> USE HandlerFields
<1>1. CASE SwitchLanguage(c)
  <2> DEFINE m == [meta EXCEPT !.lang = conn[c].lang, !.pinned = IsPinned]
  <2>1. /\ m.pending = meta.pending /\ m.cost = meta.cost /\ m.titled = meta.titled
        /\ m.lang = conn[c].lang /\ m.pinned = IsPinned
        /\ m \in Meta
    BY DEF TypeOK, Meta, IsPinned
  <2>2. /\ conn[c].at = "switching" /\ StartTurn(c, conn[c], m)
        /\ UNCHANGED <<saved, log, ckpt, hist, pin, totals, spent, wanted, broken>>
    BY <1>1 DEF SwitchLanguage
  <2> HIDE DEF m
  <2>3. /\ conn'[c].at = IF conn[c].waiting THEN "resuming" ELSE "starting"
        /\ conn'[c].waiting = FALSE
        /\ IF conn[c].waiting THEN UNCHANGED <<budget, started>>
           ELSE budget' = 0 /\ started' = 0
        /\ conn'[c].lang = conn[c].lang
        /\ conn'[c].titled = conn[c].titled
        /\ conn'[c].base = conn[c].base
    BY <2>2 DEF StartTurn, TypeOK, Handler
  <2>4. /\ meta'.pending = IF conn[c].waiting THEN FALSE ELSE m.pending
        /\ meta'.cost = m.cost /\ meta'.titled = m.titled
        /\ meta'.lang = m.lang /\ meta'.pinned = m.pinned
    BY <2>1, <2>2 DEF StartTurn, Meta
  <2> QED BY <2>1, <2>2, <2>3, <2>4
<1>2. ASSUME NEW d \in Detections, Receive(c, d)
      PROVE  /\ conn[c].at = "ready"
             /\ \/ /\ conn'[c].at = "switching"
                   /\ conn'[c].waiting = conn[c].waiting
                   /\ meta'.pending = meta.pending
                   /\ UNCHANGED <<budget, started>>
                \/ /\ conn'[c].at = IF conn[c].waiting THEN "resuming" ELSE "starting"
                   /\ conn'[c].waiting = FALSE
                   /\ meta'.pending = IF conn[c].waiting THEN FALSE ELSE meta.pending
                   /\ IF conn[c].waiting THEN UNCHANGED <<budget, started>>
                      ELSE budget' = 0 /\ started' = 0
                   /\ conn'[c].lang = conn[c].lang
             /\ conn'[c].base = conn[c].base
             /\ meta'.cost = meta.cost
             /\ conn'[c].titled /\ meta'.titled = (meta.titled \/ ~conn[c].titled)
             /\ meta'.lang = IF conn[c].titled THEN meta.lang ELSE conn[c].lang
             /\ meta'.pinned = IF conn[c].titled THEN meta.pinned ELSE IsPinned
             /\ UNCHANGED <<saved, log, ckpt, hist, pin, totals, spent, wanted, broken>>
  <2> DEFINE h == [conn[c] EXCEPT !.titled = TRUE, !.lang = Resolved(c, d)]
             m == Titled(c)
  <2>1. /\ h.titled = TRUE /\ h.base = conn[c].base /\ h.waiting = conn[c].waiting
        /\ h.at = conn[c].at
        /\ DOMAIN h = DOMAIN conn[c]
    BY DEF Handler
  <2>2. /\ m.pending = meta.pending /\ m.cost = meta.cost
        /\ m.titled = (meta.titled \/ ~conn[c].titled)
        /\ m.lang = IF conn[c].titled THEN meta.lang ELSE conn[c].lang
        /\ m.pinned = IF conn[c].titled THEN meta.pinned ELSE IsPinned
        /\ m \in Meta
    BY DEF Titled, TypeOK, Meta, IsPinned
  <2>3. /\ conn[c].at = "ready"
        /\ \/ h.lang = conn[c].lang /\ StartTurn(c, h, m)
           \/ /\ conn' = [conn EXCEPT ![c] = [h EXCEPT !.at = "switching"]]
              /\ meta' = m /\ UNCHANGED <<budget, started>>
        /\ UNCHANGED <<saved, log, ckpt, hist, pin, totals, spent, wanted, broken>>
    BY <1>2 DEF Receive
  <2>4. h \in Handler
    <3>1. Resolved(c, d) \in Languages
      BY DEF Resolved, IsPinned, TypeOK
    <3> QED BY <3>1 DEF Handler
  <2> HIDE DEF h, m
  <2>5. CASE h.lang = conn[c].lang /\ StartTurn(c, h, m)
    <3>1. /\ conn'[c].at = IF h.waiting THEN "resuming" ELSE "starting"
          /\ IF h.waiting THEN UNCHANGED <<budget, started>>
             ELSE budget' = 0 /\ started' = 0
          /\ conn'[c].waiting = FALSE
          /\ conn'[c].lang = h.lang
          /\ conn'[c].titled = h.titled
          /\ conn'[c].base = h.base
      BY <2>4, <2>5 DEF StartTurn, TypeOK, Handler
    <3>2. /\ meta'.pending = IF h.waiting THEN FALSE ELSE m.pending
          /\ meta'.cost = m.cost /\ meta'.titled = m.titled
          /\ meta'.lang = m.lang /\ meta'.pinned = m.pinned
      BY <2>2, <2>5 DEF StartTurn, Meta
    <3> QED BY <2>1, <2>2, <2>3, <2>5, <3>1, <3>2
  <2>6. CASE /\ conn' = [conn EXCEPT ![c] = [h EXCEPT !.at = "switching"]]
             /\ meta' = m /\ UNCHANGED <<budget, started>>
    <3>1. /\ conn'[c].at = "switching"
          /\ conn'[c].waiting = h.waiting
          /\ conn'[c].titled = h.titled
          /\ conn'[c].base = h.base
      BY <2>4, <2>6 DEF TypeOK, Handler
    <3> QED BY <2>1, <2>2, <2>3, <2>6, <3>1
  <2> QED BY <2>3, <2>5, <2>6
<1> QED BY <1>1, <1>2

LEMMA TurnEffect ==
  ASSUME TypeOK, NEW c \in Conns,
         \/ Replayed(c) \/ RunGraph(c) \/ Ask(c) \/ Asked(c) \/ EndTurn(c)
  PROVE  /\ conn'[c].lang = conn[c].lang
         /\ conn'[c].titled = conn[c].titled
         /\ conn'[c].base = conn[c].base
         /\ Replayed(c) \/ EndTurn(c) => conn'[c].at = "ready"
         /\ RunGraph(c) \/ Asked(c) => conn'[c].at = "turn"
         /\ Ask(c) => conn'[c].at = "asking"
         /\ conn'[c].waiting = (conn[c].waiting \/ Asked(c))
BY HandlerFields DEF Replayed, RunGraph, Ask, Asked, EndTurn, InGraph, TypeOK, Handler

LEMMA BreakEffect ==
  ASSUME NEW c, Conns = {c}, TypeOK, Leave(c) \/ Crash
  PROVE  /\ conn'[c] = Closed
         /\ UNCHANGED <<durable, spent, started, wanted, messages>>
         /\ broken \subseteq broken'
         /\ conn[c].at \in {"resuming", "turn", "asking"} => conn[c].at \in broken'
         /\ conn[c].waiting => "waiting" \in broken'
         /\ \/ Released
            \/ (conn[c].at = "opening" /\ UNCHANGED memory /\ "opening" \in broken')
<1>1. /\ conn'[c] = Closed
      /\ UNCHANGED <<durable, spent, started, wanted, messages>>
  BY DEF Leave, Crash, TypeOK
<1>2. BreakPoints(c) \ {"opening"} \subseteq broken' /\ broken \subseteq broken'
  <2>1. CASE Leave(c)
    BY <2>1 DEF Leave
  <2>2. CASE Crash
    <3>1. UNION {BreakPoints(d) : d \in Conns} = BreakPoints(c)
      OBVIOUS
    <3> QED BY <2>2, <3>1 DEF Crash
  <2> QED BY <2>1, <2>2
<1>3. Released \/ (conn[c].at = "opening" /\ UNCHANGED memory /\ Leave(c))
  BY DEF Leave, Crash, Cleanup
<1>4. conn[c].at = "opening" /\ Leave(c) => "opening" \in broken'
  BY DEF Leave, BreakPoints, Delicate
<1>5. /\ conn[c].at \in {"resuming", "turn", "asking"} => conn[c].at \in BreakPoints(c) \ {"opening"}
      /\ conn[c].waiting => "waiting" \in BreakPoints(c) \ {"opening"}
  BY DEF BreakPoints, Delicate
<1> QED BY <1>1, <1>2, <1>3, <1>4, <1>5

-----------------------------------------------------------------------------
(* The four parts of the invariant, step by step.                          *)

LEMMA QuestionStep ==
  ASSUME NEW c, Conns = {c}, TypeOK, QuestionInv(c), [Next]_vars
  PROVE  QuestionInv(c)'
<1> USE HandlerFields DEF QuestionInv
<1>1. CASE Connect(c)
  BY <1>1, ConnectEffect DEF Connect, durable
<1>2. CASE SwitchLanguage(c) \/ \E d \in Detections : Receive(c, d)
  BY <1>2, ReceiveEffect
<1>3. CASE Replayed(c)
  BY <1>3, TurnEffect DEF Replayed, durable, Asked
<1>4. CASE RunGraph(c)
  BY <1>4, TurnEffect DEF RunGraph, Asked
<1>5. CASE Ask(c)
  BY <1>5, TurnEffect DEF Ask, InGraph, Asked
<1>6. CASE Asked(c)
  <2>1. meta'.pending = TRUE
    BY <1>6 DEF Asked, TypeOK, Meta
  <2>2. conn'[c].at = "turn" /\ conn'[c].waiting
    BY <1>6, TurnEffect
  <2>3. conn[c].at = "asking" /\ ckpt' = ckpt
    BY <1>6 DEF Asked
  <2> QED BY <2>1, <2>2, <2>3
<1>7. CASE EndTurn(c)
  <2>1. meta'.pending = meta.pending
    BY <1>7 DEF EndTurn, Accounted, TypeOK, Meta
  <2> QED BY <1>7, <2>1, TurnEffect DEF EndTurn, Asked
<1>8. CASE \/ \E a \in Specialists : Assign(c, a)
           \/ \E l \in Pins : PinLanguage(c, l)
           \/ UNCHANGED vars
  BY <1>8 DEF Assign, PinLanguage, vars, durable
<1>9. CASE Leave(c) \/ Crash
  BY <1>9, BreakEffect DEF Closed, durable
<1> QED BY <1>1, <1>2, <1>3, <1>4, <1>5, <1>6, <1>7, <1>8, <1>9, OneNext

LEMMA HistoryStep ==
  ASSUME NEW c, Conns = {c}, TypeOK, HistoryInv(c), [Next]_vars
  PROVE  HistoryInv(c)' /\ \A a \in Specialists : saved[a] \subseteq saved'[a]
<1> USE HandlerFields DEF HistoryInv
<1>1. CASE Connect(c)
  <2>1. hist' = saved /\ saved' = saved
    BY <1>1, ConnectEffect DEF Connect, Imported, Nothing, TypeOK, durable
  <2> QED BY <1>1, <2>1, ConnectEffect
<1>2. CASE SwitchLanguage(c) \/ \E d \in Detections : Receive(c, d)
  BY <1>2, ReceiveEffect
<1>3. CASE Replayed(c)
  BY <1>3, TurnEffect DEF Replayed, durable, memory
<1>4. CASE RunGraph(c)
  BY <1>4, TurnEffect DEF RunGraph, memory
<1>5. CASE Ask(c)
  BY <1>5, TurnEffect DEF Ask, InGraph, memory
<1>6. CASE Asked(c)
  BY <1>6, TurnEffect DEF Asked, memory
<1>7. CASE EndTurn(c)
  BY <1>7, TurnEffect DEF EndTurn, memory
<1>8. CASE \E a \in Specialists : Assign(c, a)
  <2>1. conn'[c].at = "turn" /\ saved' = saved
    BY <1>8 DEF Assign, InGraph
  <2>2. \A a \in Specialists : hist[a] \subseteq hist'[a]
    BY <1>8 DEF Assign, TypeOK
  <2>3. \A a \in Specialists : saved[a] \subseteq hist[a]
    BY <1>8 DEF Assign, InGraph
  <2> QED BY <2>1, <2>2, <2>3
<1>9. CASE (\E l \in Pins : PinLanguage(c, l)) \/ UNCHANGED vars
  BY <1>9 DEF PinLanguage, vars, durable, memory
<1>10. CASE Leave(c) \/ Crash
  BY <1>10, BreakEffect DEF Closed, durable, memory, Released
<1> QED BY <1>1, <1>2, <1>3, <1>4, <1>5, <1>6, <1>7, <1>8, <1>9, <1>10, OneNext

LEMMA CostStep ==
  ASSUME NEW c, Conns = {c}, TypeOK, CostInv(c), [Next]_vars
  PROVE  CostInv(c)' /\ meta'.cost >= meta.cost
<1> USE HandlerFields DEF CostInv
<1>0. spent \in Nat /\ totals \in Nat
  BY SessionAssumption DEF TypeOK
<1>1. CASE Connect(c)
  BY <1>0, <1>1, ConnectEffect DEF Connect, durable, observed
<1>2. CASE SwitchLanguage(c) \/ \E d \in Detections : Receive(c, d)
  <2>1. /\ conn[c].at \in {"ready", "switching"}
        /\ conn'[c].at \in {"switching", "starting", "resuming"}
        /\ conn'[c].base = conn[c].base
        /\ meta'.cost = meta.cost
        /\ totals' = totals /\ spent' = spent
    BY <1>2, ReceiveEffect
  <2> QED BY <1>0, <2>1
<1>3. CASE Replayed(c)
  BY <1>0, <1>3, TurnEffect DEF Replayed, durable, memory, observed
<1>4. CASE RunGraph(c)
  BY <1>0, <1>4, TurnEffect DEF RunGraph, memory, observed
<1>5. CASE Ask(c)
  BY <1>0, <1>5, TurnEffect DEF Ask, InGraph, memory, observed
<1>6. CASE Asked(c)
  <2>1. meta'.cost = meta.cost
    BY <1>6 DEF Asked, TypeOK, Meta
  <2>2. conn'[c].at = "turn" /\ conn'[c].base = conn[c].base
    BY <1>6, TurnEffect
  <2>3. conn[c].at = "asking" /\ totals' = totals /\ spent' = spent
    BY <1>6 DEF Asked, memory, observed
  <2> QED BY <1>0, <2>1, <2>2, <2>3
<1>7. CASE EndTurn(c)
  <2>1. meta'.cost \in {meta.cost, conn[c].base + totals}
    BY <1>7 DEF EndTurn, Accounted, TypeOK, Meta
  <2> QED BY <1>0, <1>7, <2>1, TurnEffect DEF EndTurn, memory, observed
<1>8. CASE \E a \in Specialists : Assign(c, a)
  BY <1>0, <1>8 DEF Assign, InGraph
<1>9. CASE (\E l \in Pins : PinLanguage(c, l)) \/ UNCHANGED vars
  BY <1>0, <1>9 DEF PinLanguage, vars, durable, memory, observed
<1>10. CASE Leave(c) \/ Crash
  BY <1>0, <1>10, BreakEffect DEF Closed, durable, memory, observed, Released
<1> QED BY <1>1, <1>2, <1>3, <1>4, <1>5, <1>6, <1>7, <1>8, <1>9, <1>10, OneNext

LEMMA LanguageStep ==
  ASSUME NEW c, Conns = {c}, TypeOK, LanguageInv(c), [Next]_vars
  PROVE  LanguageInv(c)' /\ (meta.pinned => meta'.pinned)
<1> USE HandlerFields, SessionAssumption DEF LanguageInv, IsPinned
<1>1. CASE Connect(c)
  BY <1>1, ConnectEffect DEF Connect, durable, RestoredPin, RestoredLanguage
<1>2. CASE SwitchLanguage(c) \/ \E d \in Detections : Receive(c, d)
  <2>1. /\ conn[c].at \in {"ready", "switching"}
        /\ conn[c].at = "switching" => conn'[c].at # "switching"
        /\ conn'[c].at \in {"switching", "starting", "resuming"}
        /\ conn[c].at = "ready" /\ conn'[c].at # "switching" => conn'[c].lang = conn[c].lang
        /\ pin' = pin
    BY <1>2, ReceiveEffect
  <2>2. CASE conn[c].at = "switching"
    <3>1. /\ meta'.lang = conn[c].lang /\ conn'[c].lang = conn[c].lang
          /\ meta'.pinned = IsPinned
          /\ conn'[c].titled = conn[c].titled /\ meta'.titled = meta.titled
      BY <1>2, <2>2, ReceiveEffect
    <3> QED BY <2>1, <2>2, <3>1
  <2>3. CASE conn[c].at = "ready"
    <3>1. /\ conn'[c].titled /\ meta'.titled = (meta.titled \/ ~conn[c].titled)
          /\ meta'.lang = IF conn[c].titled THEN meta.lang ELSE conn[c].lang
          /\ meta'.pinned = IF conn[c].titled THEN meta.pinned ELSE IsPinned
      BY <1>2, <2>3, ReceiveEffect
    <3> QED BY <2>1, <2>3, <3>1
  <2> QED BY <2>1, <2>2, <2>3
<1>3. CASE Replayed(c)
  BY <1>3, TurnEffect DEF Replayed, durable, memory
<1>4. CASE RunGraph(c)
  BY <1>4, TurnEffect DEF RunGraph, memory
<1>5. CASE Ask(c)
  BY <1>5, TurnEffect DEF Ask, InGraph, memory
<1>6. CASE Asked(c)
  <2>1. meta'.lang = meta.lang /\ meta'.pinned = meta.pinned /\ meta'.titled = meta.titled
    BY <1>6 DEF Asked, TypeOK, Meta
  <2> QED BY <1>6, <2>1, TurnEffect DEF Asked, memory
<1>7. CASE EndTurn(c)
  <2>1. /\ meta'.titled = meta.titled
        /\ \/ meta' = meta
           \/ meta'.lang = conn[c].lang /\ meta'.pinned = IsPinned
    BY <1>7 DEF EndTurn, Accounted, TypeOK, Meta
  <2> QED BY <1>7, <2>1, TurnEffect DEF EndTurn, memory
<1>8. CASE \E a \in Specialists : Assign(c, a)
  BY <1>8 DEF Assign, InGraph
<1>9. CASE \E l \in Pins : PinLanguage(c, l)
  BY <1>9 DEF PinLanguage, durable
<1>10. CASE UNCHANGED vars
  BY <1>10 DEF vars, durable, memory
<1>11. CASE Leave(c) \/ Crash
  BY <1>11, BreakEffect DEF Closed, durable
<1> QED BY <1>1, <1>2, <1>3, <1>4, <1>5, <1>6, <1>7, <1>8, <1>9, <1>10, <1>11, OneNext

(* The parts that a break at a delicate await ends.                        *)

LEMMA PauseStep ==
  ASSUME NEW c, Conns = {c}, TypeOK, QuestionInv(c), PauseInv(c), [Next]_vars
  PROVE  PauseInv(c)'
<1> USE HandlerFields DEF QuestionInv, PauseInv
<1>1. CASE Connect(c)
  BY <1>1, ConnectEffect DEF Connect, durable, observed
<1>2. CASE SwitchLanguage(c) \/ \E d \in Detections : Receive(c, d)
  <2>1. /\ conn[c].at \in {"ready", "switching"}
        /\ \/ conn'[c].at = "switching" /\ conn'[c].waiting = conn[c].waiting
           \/ /\ conn'[c].at = IF conn[c].waiting THEN "resuming" ELSE "starting"
              /\ conn'[c].waiting = FALSE
        /\ ckpt' = ckpt /\ broken' = broken
    BY <1>2, ReceiveEffect
  <2>2. ckpt \in {"ready", "paused"}
    BY DEF TypeOK
  <2> QED BY <2>1, <2>2
<1>3. CASE Replayed(c)
  BY <1>3, TurnEffect DEF Replayed, durable, observed, Asked
<1>4. CASE RunGraph(c)
  BY <1>4, TurnEffect DEF RunGraph, observed, Asked
<1>5. CASE Ask(c)
  BY <1>5, TurnEffect DEF Ask, InGraph, observed, Asked
<1>6. CASE Asked(c)
  <2>1. conn'[c].at = "turn" /\ conn'[c].waiting
    BY <1>6, TurnEffect
  <2>2. conn[c].at = "asking" /\ ckpt' = ckpt
    BY <1>6 DEF Asked
  <2> QED BY <2>1, <2>2
<1>7. CASE EndTurn(c)
  BY <1>7, TurnEffect DEF EndTurn, observed, Asked
<1>8. CASE \/ \E a \in Specialists : Assign(c, a)
           \/ \E l \in Pins : PinLanguage(c, l)
           \/ UNCHANGED vars
  BY <1>8 DEF Assign, PinLanguage, vars, durable, observed
<1>9. CASE Leave(c) \/ Crash
  <2>1. conn[c].at \in {"closed"} \cup Awaits
    BY DEF Handler
  <2>2. /\ broken \subseteq broken'
        /\ conn[c].at \in {"resuming", "asking"} => conn[c].at \in broken'
        /\ conn'[c].at = "closed"
        /\ meta' = meta /\ ckpt' = ckpt
    BY <1>9, BreakEffect DEF Closed, durable
  <2> QED BY <2>1, <2>2 DEF Awaits
<1> QED BY <1>1, <1>2, <1>3, <1>4, <1>5, <1>6, <1>7, <1>8, <1>9, OneNext

LEMMA ShownStep ==
  ASSUME NEW c, Conns = {c}, TypeOK, HistoryInv(c), ShownInv(c), [Next]_vars
  PROVE  ShownInv(c)'
<1> USE HandlerFields DEF HistoryInv, ShownInv
<1>1. CASE Connect(c)
  BY <1>1, ConnectEffect DEF Connect, durable, observed
<1>2. CASE SwitchLanguage(c) \/ \E d \in Detections : Receive(c, d)
  <2>1. /\ conn[c].at \in {"ready", "switching"}
        /\ conn'[c].at \in {"switching", "starting", "resuming"}
        /\ log' = log /\ saved' = saved /\ broken' = broken
    BY <1>2, ReceiveEffect
  <2> QED BY <2>1
<1>3. CASE Replayed(c)
  BY <1>3, TurnEffect DEF Replayed, durable, observed
<1>4. CASE RunGraph(c)
  BY <1>4, TurnEffect DEF RunGraph, memory, observed
<1>5. CASE Ask(c)
  BY <1>5, TurnEffect DEF Ask, InGraph, memory, observed
<1>6. CASE Asked(c)
  BY <1>6, TurnEffect DEF Asked, memory, observed
<1>7. CASE EndTurn(c)
  BY <1>7, TurnEffect DEF EndTurn, memory, observed
<1>8. CASE \E a \in Specialists : Assign(c, a)
  <2> PICK a \in Specialists : Assign(c, a)
    BY <1>8
  <2>1. conn[c].at = "turn" /\ conn' = conn /\ broken' = broken
    BY DEF Assign, InGraph
  <2>2. ASSUME NEW b \in Specialists, log[b] \subseteq hist[b]
        PROVE  log'[b] \subseteq hist'[b]
    BY <2>2 DEF Assign, TypeOK
  <2> QED BY <2>1, <2>2
<1>9. CASE (\E l \in Pins : PinLanguage(c, l)) \/ UNCHANGED vars
  BY <1>9 DEF PinLanguage, vars, durable, memory, observed
<1>10. CASE Leave(c) \/ Crash
  <2>1. /\ broken \subseteq broken'
        /\ conn[c].at \in {"turn", "asking"} => conn[c].at \in broken'
        /\ conn'[c].at = "closed"
        /\ log' = log /\ saved' = saved
    BY <1>10, BreakEffect DEF Closed, durable
  <2> QED BY <2>1
<1> QED BY <1>1, <1>2, <1>3, <1>4, <1>5, <1>6, <1>7, <1>8, <1>9, <1>10, OneNext

LEMMA ResidueStep ==
  ASSUME NEW c, Conns = {c}, TypeOK, ResidueInv(c), [Next]_vars
  PROVE  ResidueInv(c)'
<1> USE HandlerFields DEF ResidueInv
<1>1. CASE Leave(c) \/ Crash
  <2>1. broken \subseteq broken' /\ (Released \/ "opening" \in broken')
    BY <1>1, BreakEffect
  <2> QED BY <2>1 DEF Released
<1>2. CASE UNCHANGED vars
  BY <1>2 DEF vars, memory, observed
<1>3. CASE \/ Connect(c) \/ Replayed(c) \/ RunGraph(c) \/ Ask(c) \/ Asked(c) \/ EndTurn(c)
           \/ SwitchLanguage(c) \/ \E d \in Detections : Receive(c, d)
  <2>1. conn'[c].at # "closed"
    BY <1>3, ConnectEffect, ReceiveEffect, TurnEffect
  <2> QED BY <2>1
<1>4. CASE (\E a \in Specialists : Assign(c, a)) \/ \E l \in Pins : PinLanguage(c, l)
  BY <1>4 DEF Assign, PinLanguage, InGraph
<1> QED BY <1>1, <1>2, <1>3, <1>4, OneNext

LEMMA ChargeStep ==
  ASSUME NEW c, Conns = {c}, TypeOK, QuestionInv(c), ChargeInv(c), [Next]_vars
  PROVE  ChargeInv(c)'
<1> USE HandlerFields, SessionAssumption DEF QuestionInv, ChargeInv
<1>0. started \in Nat /\ budget \in Nat /\ budget <= MaxAssignTasks /\ MaxAssignTasks \in Nat
  BY DEF TypeOK
<1>1. CASE Connect(c)
  BY <1>1, ConnectEffect DEF Connect, durable, observed
<1>2. CASE SwitchLanguage(c) \/ \E d \in Detections : Receive(c, d)
  <2>1. /\ conn[c].at \in {"ready", "switching"}
        /\ \/ /\ conn'[c].at = "switching" /\ conn'[c].waiting = conn[c].waiting
              /\ budget' = budget /\ started' = started
           \/ /\ conn'[c].at \in {"starting", "resuming"}
              /\ conn'[c].waiting = FALSE
              /\ \/ conn[c].waiting /\ budget' = budget /\ started' = started
                 \/ budget' = 0 /\ started' = 0
        /\ broken' = broken
    BY <1>2, ReceiveEffect
  <2> QED BY <1>0, <2>1
<1>3. CASE Replayed(c)
  BY <1>3, TurnEffect DEF Replayed, durable, memory, observed, Asked
<1>4. CASE RunGraph(c)
  BY <1>4, TurnEffect DEF RunGraph, memory, observed, Asked
<1>5. CASE Ask(c)
  BY <1>5, TurnEffect DEF Ask, InGraph, memory, observed, Asked
<1>6. CASE Asked(c)
  BY <1>6, TurnEffect DEF Asked, memory, observed
<1>7. CASE EndTurn(c)
  BY <1>7, TurnEffect DEF EndTurn, memory, observed, Asked
<1>8. CASE \E a \in Specialists : Assign(c, a)
  <2>1. /\ conn[c].at = "turn" /\ conn' = conn /\ broken' = broken
        /\ budget < MaxAssignTasks
        /\ budget' = budget + 1 /\ started' = started + 1
    BY <1>8 DEF Assign, InGraph
  <2> QED BY <1>0, <2>1
<1>9. CASE (\E l \in Pins : PinLanguage(c, l)) \/ UNCHANGED vars
  BY <1>9 DEF PinLanguage, vars, durable, memory, observed
<1>10. CASE Leave(c) \/ Crash
  <2>1. conn[c].at \in {"closed"} \cup Awaits
    BY DEF Handler
  <2>2. /\ broken \subseteq broken'
        /\ conn[c].waiting => "waiting" \in broken'
        /\ conn'[c].at = "closed" /\ ~conn'[c].waiting
        /\ meta' = meta /\ started' = started
    BY <1>10, BreakEffect DEF Closed, durable
  <2> QED BY <1>0, <2>1, <2>2 DEF Awaits
<1> QED BY <1>1, <1>2, <1>3, <1>4, <1>5, <1>6, <1>7, <1>8, <1>9, <1>10, OneNext

LEMMA FinishedStep ==
  ASSUME NEW c, Conns = {c}, TypeOK, QuestionInv(c), CostInv(c), FinishedInv(c), [Next]_vars
  PROVE  FinishedInv(c)'
<1> USE HandlerFields DEF FinishedInv
<1>0. spent \in Nat /\ totals \in Nat /\ conn[c].at \in {"closed"} \cup Awaits
  BY SessionAssumption DEF TypeOK, Handler
<1>1. CASE Connect(c)
  <2>1. totals = 0 /\ conn[c].at = "closed" /\ ~conn[c].waiting
    BY <1>1 DEF Connect, CostInv, QuestionInv
  <2>2. /\ conn'[c].at = "opening" /\ conn'[c].base = meta.cost
        /\ meta' = meta /\ totals' = totals /\ spent' = spent /\ broken' = broken
    BY <1>1, ConnectEffect DEF Connect, durable, observed
  <2> QED BY <1>0, <2>1, <2>2
<1>2. CASE SwitchLanguage(c) \/ \E d \in Detections : Receive(c, d)
  <2>1. /\ conn[c].at \in {"ready", "switching"}
        /\ \/ conn'[c].at = "switching" /\ conn'[c].waiting = conn[c].waiting
           \/ conn'[c].at = IF conn[c].waiting THEN "resuming" ELSE "starting"
        /\ conn'[c].base = conn[c].base
        /\ meta'.cost = meta.cost /\ totals' = totals /\ spent' = spent /\ broken' = broken
    BY <1>2, ReceiveEffect
  <2> QED BY <1>0, <2>1
<1>3. CASE Replayed(c)
  BY <1>0, <1>3, TurnEffect DEF Replayed, durable, memory, observed, Asked
<1>4. CASE RunGraph(c)
  BY <1>0, <1>4, TurnEffect DEF RunGraph, memory, observed
<1>5. CASE Ask(c)
  BY <1>0, <1>5, TurnEffect DEF Ask, InGraph, memory, observed
<1>6. CASE Asked(c)
  <2>1. conn'[c].at = "turn" /\ conn'[c].base = conn[c].base
    BY <1>6, TurnEffect
  <2>2. conn[c].at = "asking" /\ totals' = totals /\ spent' = spent /\ broken' = broken
    BY <1>6 DEF Asked, memory, observed
  <2> QED BY <1>0, <2>1, <2>2
<1>7. CASE EndTurn(c)
  <2>1. ~conn[c].waiting => meta'.cost = conn[c].base + totals
    BY <1>7 DEF EndTurn, Accounted, TypeOK, Meta
  <2> QED BY <1>0, <1>7, <2>1, TurnEffect DEF EndTurn, memory, observed, Asked
<1>8. CASE \E a \in Specialists : Assign(c, a)
  <2>1. /\ conn[c].at = "turn" /\ conn' = conn /\ broken' = broken
        /\ totals' = totals + 1 /\ spent' = spent + 1
    BY <1>8 DEF Assign, InGraph
  <2> QED BY <1>0, <2>1
<1>9. CASE (\E l \in Pins : PinLanguage(c, l)) \/ UNCHANGED vars
  BY <1>0, <1>9 DEF PinLanguage, vars, durable, memory, observed
<1>10. CASE Leave(c) \/ Crash
  <2>1. /\ broken \subseteq broken'
        /\ conn[c].waiting => "waiting" \in broken'
        /\ conn[c].at \in {"resuming", "turn", "asking"} => conn[c].at \in broken'
        /\ conn'[c].at = "closed"
        /\ meta' = meta /\ spent' = spent
    BY <1>10, BreakEffect DEF Closed, durable
  <2> QED BY <2>1
<1> QED BY <1>1, <1>2, <1>3, <1>4, <1>5, <1>6, <1>7, <1>8, <1>9, <1>10, OneNext

(* All of it.                                                              *)
OneInv(c) ==
  /\ TypeOK
  /\ QuestionInv(c) /\ HistoryInv(c) /\ CostInv(c) /\ LanguageInv(c)
  /\ PauseInv(c) /\ ShownInv(c) /\ ResidueInv(c) /\ ChargeInv(c) /\ FinishedInv(c)

LEMMA OneInit ==
  ASSUME NEW c, Conns = {c}, Init
  PROVE  /\ QuestionInv(c) /\ HistoryInv(c) /\ CostInv(c) /\ LanguageInv(c)
         /\ PauseInv(c) /\ ShownInv(c) /\ ResidueInv(c) /\ ChargeInv(c) /\ FinishedInv(c)
<1> USE SessionAssumption DEF Init, Closed
<1>1. QuestionInv(c) /\ HistoryInv(c) /\ CostInv(c) /\ LanguageInv(c)
  BY DEF QuestionInv, HistoryInv, CostInv, LanguageInv
<1>2. PauseInv(c) /\ ShownInv(c) /\ ResidueInv(c)
  BY DEF PauseInv, ShownInv, ResidueInv, Nothing
<1>3. ChargeInv(c) /\ FinishedInv(c)
  BY DEF ChargeInv, FinishedInv
<1> QED BY <1>1, <1>2, <1>3

LEMMA OneStep ==
  ASSUME NEW c, Conns = {c}, OneInv(c), [Next]_vars
  PROVE  OneInv(c)'
<1>1. /\ TypeOK
      /\ QuestionInv(c) /\ HistoryInv(c) /\ CostInv(c) /\ LanguageInv(c)
      /\ PauseInv(c) /\ ShownInv(c) /\ ResidueInv(c) /\ ChargeInv(c) /\ FinishedInv(c)
  BY DEF OneInv
<1>2. TypeOK'
  BY <1>1, NextTyped
<1>3. QuestionInv(c)' /\ HistoryInv(c)' /\ CostInv(c)' /\ LanguageInv(c)'
  BY <1>1, QuestionStep, HistoryStep, CostStep, LanguageStep
<1>4. PauseInv(c)' /\ ShownInv(c)' /\ ResidueInv(c)'
  BY <1>1, PauseStep, ShownStep, ResidueStep
<1>5. ChargeInv(c)' /\ FinishedInv(c)'
  BY <1>1, ChargeStep, FinishedStep
<1> QED BY <1>2, <1>3, <1>4, <1>5 DEF OneInv

LEMMA OneAlways ==
  ASSUME NEW c, Conns = {c}
  PROVE  Spec => []OneInv(c)
<1>1. Init => QuestionInv(c) /\ HistoryInv(c) /\ CostInv(c) /\ LanguageInv(c)
              /\ PauseInv(c) /\ ShownInv(c) /\ ResidueInv(c) /\ ChargeInv(c) /\ FinishedInv(c)
  BY OneInit
<1>2. Init => OneInv(c)
  BY <1>1, InitTyped DEF OneInv
<1>3. OneInv(c) /\ [Next]_vars => OneInv(c)'
  BY OneStep
<1> QED BY <1>2, <1>3, PTL DEF Spec

-----------------------------------------------------------------------------
(* An answer never resumes a graph that asked nothing: a stored question,  *)
(* and an input armed for an answer, belong to a paused graph.             *)
THEOREM QuestionsAreReal ==
  ASSUME NEW c, Conns = {c} PROVE Spec => []NoPhantomQuestion
<1>1. OneInv(c) => NoPhantomQuestion
  <2> SUFFICES ASSUME OneInv(c) PROVE NoPhantomQuestion
    OBVIOUS
  <2>1. conn[c].at \in {"closed"} \cup Awaits
    BY DEF OneInv, TypeOK, Handler
  <2> QED BY <2>1 DEF OneInv, NoPhantomQuestion, QuestionInv, Awaits
<1> QED BY <1>1, OneAlways, PTL

(* Between turns, the histories in the process are those on disk.          *)
THEOREM MemoryIsOnDisk ==
  ASSUME NEW c, Conns = {c} PROVE Spec => []MemoryOnDisk
<1>1. OneInv(c) => MemoryOnDisk
  BY DEF OneInv, HistoryInv, MemoryOnDisk
<1> QED BY <1>1, OneAlways, PTL

(* specialists.json never forgets a piece of work.                         *)
THEOREM WorkIsNotForgotten ==
  ASSUME NEW c, Conns = {c} PROVE Spec => SavedNeverShrinks
<1>1. OneInv(c) /\ [Next]_vars => [\A a \in Specialists : saved[a] \subseteq saved'[a]]_vars
  BY HistoryStep DEF OneInv
<1> QED BY <1>1, OneAlways, PTL DEF Spec, SavedNeverShrinks

(* The cumulative cost in meta.json never decreases.                       *)
THEOREM CostIsMonotone ==
  ASSUME NEW c, Conns = {c} PROVE Spec => CostNeverDecreases
<1>1. OneInv(c) /\ [Next]_vars => [meta'.cost >= meta.cost]_vars
  BY CostStep DEF OneInv
<1> QED BY <1>1, OneAlways, PTL DEF Spec, CostNeverDecreases

(* It never exceeds what the session spent.                                *)
THEOREM CostIsReal ==
  ASSUME NEW c, Conns = {c} PROVE Spec => []CostNotInvented
<1>1. OneInv(c) => CostNotInvented
  BY DEF OneInv, CostInv, CostNotInvented
<1> QED BY <1>1, OneAlways, PTL

(* A stored pin is never withdrawn.                                        *)
THEOREM PinIsKept ==
  ASSUME NEW c, Conns = {c} PROVE Spec => PinNeverForgotten
<1>1. OneInv(c) /\ [Next]_vars => [meta.pinned => meta'.pinned]_vars
  BY LanguageStep DEF OneInv
<1> QED BY <1>1, OneAlways, PTL DEF Spec, PinNeverForgotten

(* Nothing that is stored of work, cost or language is ever taken back.    *)
THEOREM NothingIsTakenBack ==
  ASSUME NEW c, Conns = {c} PROVE Spec => NothingTakenBack
BY WorkIsNotForgotten, CostIsMonotone, PinIsKept DEF NothingTakenBack

(* A reconnect restores the language that the handler writes in.           *)
THEOREM LanguageIsKept ==
  ASSUME NEW c, Conns = {c} PROVE Spec => []LanguageKept
<1>1. OneInv(c) => LanguageKept
  BY DEF OneInv, LanguageInv, LanguageKept
<1> QED BY <1>1, OneAlways, PTL

(* The input is armed exactly when the graph waits, until a question or an *)
(* answer is cut off.                                                      *)
THEOREM QuestionIsFound ==
  ASSUME NEW c, Conns = {c} PROVE Spec => []QuestionLostOnlyInTransit
<1>1. OneInv(c) => QuestionLostOnlyInTransit
  BY DEF OneInv, QuestionLostOnlyInTransit, QuestionFound, PauseInv
<1> QED BY <1>1, OneAlways, PTL

(* The team remembers what it was seen doing, until a turn is cut off.     *)
THEOREM TeamIsRemembering ==
  ASSUME NEW c, Conns = {c} PROVE Spec => []WorkLostOnlyInTurns
<1>1. OneInv(c) => WorkLostOnlyInTurns
  BY DEF OneInv, WorkLostOnlyInTurns, TeamRemembers, ShownInv, HistoryInv
<1> QED BY <1>1, OneAlways, PTL

(* A closed session leaves nothing behind in the process, until a client   *)
(* leaves during its replay.                                               *)
THEOREM NothingIsLeft ==
  ASSUME NEW c, Conns = {c} PROVE Spec => []LeftOnlyByReplay
<1>1. OneInv(c) => LeftOnlyByReplay
  BY DEF OneInv, LeftOnlyByReplay, ReleasedWhenClosed, ResidueInv
<1> QED BY <1>1, OneAlways, PTL

(* One request never delegates more than the limit, until the connection   *)
(* is lost with a question open.                                           *)
THEOREM BudgetIsHard ==
  ASSUME NEW c, Conns = {c} PROVE Spec => []BudgetLostOnlyWaiting
<1>1. OneInv(c) => BudgetLostOnlyWaiting
  BY DEF OneInv, BudgetLostOnlyWaiting, BudgetPerRequest, ChargeInv
<1> QED BY <1>1, OneAlways, PTL

(* All that was spent is stored, until a request is cut off.               *)
THEOREM CostIsComplete ==
  ASSUME NEW c, Conns = {c} PROVE Spec => []CostLostOnlyUnfinished
<1>1. OneInv(c) => CostLostOnlyUnfinished
  BY DEF OneInv, CostLostOnlyUnfinished, CostComplete, FinishedInv, QuestionInv
<1> QED BY <1>1, OneAlways, PTL
=============================================================================
