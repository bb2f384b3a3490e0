--------------------------- MODULE RunMetrics_proofs ---------------------------
(***************************************************************************)
(* Theorems about RunMetrics, for any workers, attempts and bounds: types, *)
(* which record counts which call, and what a closed session leaves.       *)
(***************************************************************************)
EXTENDS RunMetrics, TLAPS

InCallOf(w) == worker[w].pc \in {"llm", "sleep"}

(* A worker that is no stray works for the request of the running turn.    *)
WorkerInv ==
  \A w \in Workers :
    /\ worker[w].pc # "none" => worker[w].of \in 1..requests
    /\ worker[w].pc # "none" /\ ~worker[w].stray => at = "turn" /\ worker[w].of = requests
    /\ InCallOf(w) => worker[w].call \in 1..calls /\ worker[w].attempt \in 1..Attempts
    /\ worker[w].pc = "sleep" => worker[w].attempt < Attempts

(* No two workers are in one call, and what has landed of a call are its   *)
(* earlier attempts: a worker always adds something new.                   *)
CallInv ==
  /\ \A v, w \in Workers :
       InCallOf(v) /\ InCallOf(w) /\ worker[v].call = worker[w].call => v = w
  /\ \A e \in landed : e.call <= calls /\ e.of <= requests
  /\ \A w \in Workers : \A e \in landed :
       InCallOf(w) /\ e.call = worker[w].call =>
         \/ e.attempt < worker[w].attempt
         \/ e.attempt = worker[w].attempt /\ worker[w].pc = "sleep"

(* The request goes on; it may go on when the session is opened again.     *)
Running == at \in {"turn", "ending"} \/ waiting

Unfinished == Running \/ (driver = "server" /\ paused)

RequestInv ==
  /\ Unfinished => requests > 0
  /\ Unfinished /\ ~Running => requests \in cut
  /\ at = "closed" => ~waiting
  /\ driver = "server" /\ at # "closed" => (paused <=> waiting)
  /\ \A i \in DOMAIN records :
       /\ records[i].of \in 1..requests
       /\ Unfinished => records[i].of # requests

(* The request scope, while it counts, has nothing that is in a record,    *)
(* and all that its own workers have recorded unless it was cut off.       *)
ScopeInv ==
  /\ request \subseteq landed
  /\ \A e \in request : e.stray \/ e.of = requests
  /\ Running /\ requests \notin cut => Own(requests) \subseteq request
  /\ \A i \in DOMAIN records :
       /\ records[i].entries \subseteq landed
       /\ Unfinished => records[i].entries \cap request = {}

Books == RequestInv /\ ScopeInv /\ CountedOnce /\ RecordsWhole /\ LeftOnlyByStrays

IInv == TypeOK /\ WorkerInv /\ CallInv /\ Books

LEMMA NobodyTyped == Nobody \in Worker
BY MetricsAssumption DEF Nobody, Worker

LEMMA InitIInv == Init => IInv
<1> SUFFICES ASSUME Init PROVE IInv
  OBVIOUS
<1> USE MetricsAssumption DEF Init
<1>1. TypeOK
  <2>1. worker \in [Workers -> Worker]
    BY NobodyTyped
  <2>2. records \in Seq([of : 1..MaxRequests, entries : SUBSET Entry])
    OBVIOUS
  <2>3. 0 \in 0..MaxResumes /\ 0 \in 0..MaxRequests /\ 0 \in 0..MaxCalls
    OBVIOUS
  <2>4. session \subseteq Entry /\ request \subseteq Entry /\ landed \subseteq Entry
        /\ cut \subseteq 1..MaxRequests
    OBVIOUS
  <2> QED BY <2>1, <2>2, <2>3, <2>4 DEF TypeOK
<1>2. WorkerInv /\ CallInv
  BY DEF WorkerInv, CallInv, InCallOf, Nobody
<1>3. RequestInv /\ ScopeInv
  BY DEF RequestInv, ScopeInv, Unfinished, Running, Own
<1>4. CountedOnce /\ RecordsWhole /\ LeftOnlyByStrays
  BY DEF CountedOnce, RecordsWhole, LeftOnlyByStrays, Over, Own
<1> QED BY <1>1, <1>2, <1>3, <1>4 DEF IInv, Books


-----------------------------------------------------------------------------
(* The workers.                                                            *)

(* What the records and scopes say is nothing about who calls.             *)
LEMMA BooksKept ==
  ASSUME IInv, UNCHANGED <<scopes, records, program, requests, landed, cut>>
  PROVE  Books'
<1> USE DEF IInv, Books, scopes, program
<1>1. RequestInv' /\ ScopeInv'
  BY DEF RequestInv, ScopeInv, Unfinished, Running, Own
<1>2. CountedOnce' /\ RecordsWhole' /\ LeftOnlyByStrays'
  BY DEF CountedOnce, RecordsWhole, LeftOnlyByStrays, Over, Own, Strays
<1> QED BY <1>1, <1>2

(* Workers may leave, or become strays; any other works for a turn that    *)
(* goes on.                                                                *)
LEMMA WorkersKept ==
  ASSUME TypeOK, WorkerInv, CallInv,
         worker' \in [Workers -> Worker], requests' \in Nat, requests <= requests',
         UNCHANGED <<calls, landed>>,
         \A v \in Workers :
           \/ worker'[v].pc = "none"
           \/ /\ worker'[v].pc = worker[v].pc
              /\ worker'[v].call = worker[v].call
              /\ worker'[v].attempt = worker[v].attempt
              /\ worker'[v].of = worker[v].of
              /\ ~worker'[v].stray => ~worker[v].stray /\ at' = "turn" /\ requests' = requests
  PROVE  WorkerInv' /\ CallInv'
<1> USE MetricsAssumption
<1>1. \A v \in Workers : InCallOf(v)' =>
        InCallOf(v) /\ worker'[v].pc = worker[v].pc
        /\ worker'[v].call = worker[v].call /\ worker'[v].attempt = worker[v].attempt
  BY DEF InCallOf
<1>2. requests \in Nat /\ \A e \in landed : e.of \in Nat
  BY DEF TypeOK, Entry
<1>3. WorkerInv'
  BY <1>1, <1>2 DEF WorkerInv, InCallOf
<1>4. CallInv'
  <2>1. \A v, u \in Workers :
          InCallOf(v)' /\ InCallOf(u)' /\ worker'[v].call = worker'[u].call => v = u
    BY <1>1 DEF CallInv
  <2>2. \A e \in landed' : e.call <= calls' /\ e.of <= requests'
    BY <1>2 DEF CallInv
  <2>3. \A u \in Workers : \A e \in landed' :
          InCallOf(u)' /\ e.call = worker'[u].call =>
            \/ e.attempt < worker'[u].attempt
            \/ e.attempt = worker'[u].attempt /\ worker'[u].pc = "sleep"
    BY <1>1 DEF CallInv
  <2> QED BY <2>1, <2>2, <2>3 DEF CallInv
<1> QED BY <1>3, <1>4

(* A new call has a number of its own.                                     *)
LEMMA CallsKeep ==
  ASSUME IInv, NEW w \in Workers, NEW of \in 1..requests, NEW stray \in BOOLEAN,
         Calls(w, of, stray), stray \/ (at = "turn" /\ of = requests)
  PROVE  IInv'
<1> USE MetricsAssumption DEF IInv, Calls, scopes, program
<1>1. worker'[w] = [pc |-> "llm", call |-> calls + 1, attempt |-> 1, of |-> of, stray |-> stray]
      /\ \A v \in Workers \ {w} : worker'[v] = worker[v]
  BY DEF TypeOK
<1>2. calls \in Nat /\ requests \in Nat /\ calls' = calls + 1 /\ UNCHANGED <<requests, landed, at>>
  BY DEF TypeOK
<1>3. TypeOK'
  <2>1. [pc |-> "llm", call |-> calls + 1, attempt |-> 1, of |-> of, stray |-> stray] \in Worker
    BY DEF TypeOK, Worker
  <2>2. worker' \in [Workers -> Worker]
    BY <2>1 DEF TypeOK
  <2> QED BY <2>2 DEF TypeOK
<1>4. WorkerInv'
  BY <1>1, <1>2 DEF WorkerInv, InCallOf, TypeOK, Worker
<1>5. CallInv'
  <2>1. \A v \in Workers \ {w} : InCallOf(v)' => InCallOf(v) /\ worker[v].call \in 1..calls
    BY <1>1 DEF InCallOf, WorkerInv
  <2>2. \A v, u \in Workers :
          InCallOf(v)' /\ InCallOf(u)' /\ worker'[v].call = worker'[u].call => v = u
    BY <1>1, <1>2, <2>1 DEF CallInv
  <2>3. \A e \in landed : e.call \in Nat /\ e.call <= calls /\ e.of <= requests
    BY DEF CallInv, TypeOK, Entry
  <2>4. \A u \in Workers : \A e \in landed' :
          InCallOf(u)' /\ e.call = worker'[u].call =>
            \/ e.attempt < worker'[u].attempt
            \/ e.attempt = worker'[u].attempt /\ worker'[u].pc = "sleep"
    <3> SUFFICES ASSUME NEW u \in Workers, NEW e \in landed,
                        InCallOf(u)', e.call = worker'[u].call
                 PROVE  \/ e.attempt < worker'[u].attempt
                        \/ e.attempt = worker'[u].attempt /\ worker'[u].pc = "sleep"
      BY <1>2
    <3>1. u # w
      BY <1>1, <1>2, <2>3
    <3> QED BY <1>1, <2>1, <3>1 DEF CallInv
  <2> QED BY <1>2, <2>2, <2>3, <2>4 DEF CallInv
<1> QED BY <1>3, <1>4, <1>5, BooksKept

LEMMA BeginKeeps ==
  ASSUME IInv, NEW w \in Workers, Begin(w)
  PROVE  IInv'
<1>1. requests \in 1..requests
  BY MetricsAssumption DEF Begin, IInv, Books, TypeOK, RequestInv, Unfinished, Running
<1> QED BY <1>1, CallsKeep DEF Begin

LEMMA CallAgainKeeps ==
  ASSUME IInv, NEW w \in Workers, CallAgain(w)
  PROVE  IInv'
<1>1. worker[w].of \in 1..requests /\ worker[w].stray \in BOOLEAN
      /\ (worker[w].stray \/ (at = "turn" /\ worker[w].of = requests))
  BY DEF CallAgain, IInv, TypeOK, WorkerInv, Worker
<1> QED BY <1>1, CallsKeep DEF CallAgain

LEMMA EndKeeps ==
  ASSUME IInv, NEW w \in Workers, End(w)
  PROVE  IInv'
<1> USE DEF IInv, End, scopes, program, observed
<1>1. worker'[w] = Nobody /\ \A v \in Workers \ {w} : worker'[v] = worker[v]
  BY DEF TypeOK
<1>2. worker' \in [Workers -> Worker]
  BY NobodyTyped DEF TypeOK
<1>3. TypeOK'
  BY <1>2 DEF TypeOK
<1>4. \A v \in Workers \ {w} :
        worker[v].pc = "none" \/ worker[v].stray \/ at = "turn"
  BY DEF WorkerInv
<1>5. requests \in Nat
  BY MetricsAssumption DEF TypeOK
<1>6. WorkerInv' /\ CallInv'
  BY <1>1, <1>2, <1>4, <1>5, WorkersKept DEF Nobody
<1> QED BY <1>3, <1>6, BooksKept

(* What an attempt records is in nothing yet, and is of the running turn   *)
(* or a stray's.                                                           *)
LEMMA EntryIsNew ==
  ASSUME IInv, NEW w \in Workers, worker[w].pc = "llm"
  PROVE  /\ EntryOf(w) \in Entry
         /\ EntryOf(w) \notin landed
         /\ EntryOf(w).call <= calls
         /\ EntryOf(w).of <= requests
         /\ EntryOf(w).stray \/ (at = "turn" /\ EntryOf(w).of = requests)
<1> USE MetricsAssumption DEF IInv, TypeOK, WorkerInv, CallInv, InCallOf
<1>1. EntryOf(w) \in Entry
  BY DEF EntryOf, Entry, Worker
<1>2. EntryOf(w) \notin landed
  BY DEF EntryOf, Entry, Worker
<1>3. EntryOf(w).call <= calls /\ EntryOf(w).of <= requests
  BY DEF EntryOf
<1>4. EntryOf(w).stray \/ (at = "turn" /\ EntryOf(w).of = requests)
  BY DEF EntryOf
<1> QED BY <1>1, <1>2, <1>3, <1>4

LEMMA LandingKeepsBooks ==
  ASSUME IInv, NEW w \in Workers, worker[w].pc = "llm", Record(EntryOf(w)),
         UNCHANGED <<records, program, requests, calls, cut>>
  PROVE  Books' /\ session' \subseteq Entry /\ request' \subseteq Entry /\ landed' \subseteq Entry
<1> PICK e : e = EntryOf(w)
  OBVIOUS
<1>1. e \in Entry /\ e \notin landed /\ (e.stray \/ (at = "turn" /\ e.of = requests))
  BY EntryIsNew
<1>2. session' = session \cup {e} /\ request' = request \cup {e} /\ landed' = landed \cup {e}
  BY DEF Record
<1> USE DEF IInv, Books, program
<1>3. session' \subseteq Entry /\ request' \subseteq Entry /\ landed' \subseteq Entry
  BY <1>1, <1>2 DEF TypeOK
<1>4. RequestInv'
  BY DEF RequestInv, Unfinished, Running
<1>5. e.stray \/ \A i \in DOMAIN records : records[i].of # requests
  BY <1>1 DEF RequestInv, Unfinished, Running
<1>6. \A r : (r # requests \/ e.stray) => Own(r)' = Own(r)
  BY <1>1, <1>2 DEF Own
<1>7. ScopeInv'
  <2>1. request' \subseteq landed' /\ \A x \in request' : x.stray \/ x.of = requests'
    BY <1>1, <1>2 DEF ScopeInv
  <2>2. Own(requests)' \subseteq Own(requests) \cup {e}
    BY <1>2 DEF Own
  <2>3. \A i \in DOMAIN records : records[i].entries \subseteq landed /\ e \notin records[i].entries
    BY <1>1 DEF ScopeInv
  <2> QED BY <1>2, <2>1, <2>2, <2>3 DEF ScopeInv, Unfinished, Running
<1>8. CountedOnce'
  <2>1. \A r \in (1..requests) \ cut : Over(r) /\ Own(r)' # {} => Own(r)' = Own(r)
    BY <1>1, <1>6 DEF Over, TypeOK
  <2>2. \A r : Over(r)' = Over(r)
    BY DEF Over
  <2> QED BY <2>1, <2>2 DEF CountedOnce
<1>9. RecordsWhole'
  <2>1. \A i \in DOMAIN records : Own(records[i].of)' = Own(records[i].of)
    BY <1>5, <1>6
  <2> QED BY <2>1 DEF RecordsWhole, Strays
<1>10. LeftOnlyByStrays'
  BY <1>1, <1>2 DEF LeftOnlyByStrays
<1> QED BY <1>3, <1>4, <1>7, <1>8, <1>9, <1>10

(* One worker moves on in its call, or out of it.                          *)
LEMMA OneMovesOn ==
  ASSUME CallInv, NEW w \in Workers, InCallOf(w),
         \A v \in Workers \ {w} : worker'[v] = worker[v],
         InCallOf(w)' => worker'[w].call = worker[w].call,
         UNCHANGED <<calls, requests>>,
         \A e \in landed' \ landed :
           e.call = worker[w].call /\ e.call <= calls /\ e.of <= requests,
         \A e \in landed' : InCallOf(w)' /\ e.call = worker[w].call =>
           \/ e.attempt < worker'[w].attempt
           \/ e.attempt = worker'[w].attempt /\ worker'[w].pc = "sleep"
  PROVE  CallInv'
<1>1. \A v \in Workers : InCallOf(v)' => InCallOf(v) /\ worker'[v].call = worker[v].call
  BY DEF InCallOf
<1>2. \A v, u \in Workers :
        InCallOf(v)' /\ InCallOf(u)' /\ worker'[v].call = worker'[u].call => v = u
  BY <1>1 DEF CallInv
<1>3. \A e \in landed' : e.call <= calls' /\ e.of <= requests'
  BY DEF CallInv
<1>4. \A u \in Workers : \A e \in landed' :
        InCallOf(u)' /\ e.call = worker'[u].call =>
          \/ e.attempt < worker'[u].attempt
          \/ e.attempt = worker'[u].attempt /\ worker'[u].pc = "sleep"
  <2> SUFFICES ASSUME NEW u \in Workers \ {w}, NEW e \in landed',
                      InCallOf(u)', e.call = worker'[u].call
               PROVE  \/ e.attempt < worker'[u].attempt
                      \/ e.attempt = worker'[u].attempt /\ worker'[u].pc = "sleep"
    BY <1>1
  <2>1. e \in landed
    BY <1>1 DEF CallInv
  <2> QED BY <1>1, <2>1 DEF CallInv
<1> QED BY <1>2, <1>3, <1>4 DEF CallInv

LEMMA SucceedKeeps ==
  ASSUME IInv, NEW w \in Workers, Succeed(w)
  PROVE  IInv'
<1> USE MetricsAssumption DEF IInv
<1>1. /\ Record(EntryOf(w)) /\ worker[w].pc = "llm"
      /\ UNCHANGED <<records, program, requests, calls, cut>>
  BY DEF Succeed
<1>2. Books' /\ session' \subseteq Entry /\ request' \subseteq Entry /\ landed' \subseteq Entry
  BY <1>1, LandingKeepsBooks
<1>3. /\ worker'[w] = [worker[w] EXCEPT !.pc = "work", !.call = 0, !.attempt = 0]
      /\ \A v \in Workers \ {w} : worker'[v] = worker[v]
  BY DEF Succeed, TypeOK
<1>4. worker[w] \in Worker
  BY DEF TypeOK
<1>5. worker'[w] \in Worker
  <2>1. worker'[w] =
          [pc |-> "work", call |-> 0, attempt |-> 0,
           of |-> worker[w].of, stray |-> worker[w].stray]
    BY <1>3, <1>4 DEF Worker
  <2>2. worker[w].of \in 0..MaxRequests /\ worker[w].stray \in BOOLEAN
    BY <1>4 DEF Worker
  <2> QED BY <2>1, <2>2 DEF Worker
<1>6. worker' \in [Workers -> Worker]
  BY <1>5 DEF Succeed, TypeOK
<1>7. TypeOK'
  BY <1>1, <1>2, <1>6 DEF TypeOK, program
<1>8. worker'[w].pc = "work" /\ worker'[w].of = worker[w].of /\ worker'[w].stray = worker[w].stray
  BY <1>3, <1>4 DEF Worker
<1>9. WorkerInv'
  BY <1>1, <1>3, <1>8 DEF WorkerInv, InCallOf, program
<1>10. ~InCallOf(w)' /\ InCallOf(w)
  BY <1>1, <1>8 DEF InCallOf
<1>11. \A e \in landed' \ landed :
         e.call = worker[w].call /\ e.call <= calls /\ e.of <= requests
  BY <1>1, EntryIsNew DEF Record, EntryOf
<1>12. CallInv'
  BY <1>1, <1>3, <1>10, <1>11, OneMovesOn
<1> QED BY <1>2, <1>7, <1>9, <1>12

LEMMA FailAttemptKeeps ==
  ASSUME IInv, NEW w \in Workers, FailAttempt(w)
  PROVE  IInv'
<1> USE MetricsAssumption DEF IInv
<1>1. /\ Record(EntryOf(w)) /\ worker[w].pc = "llm" /\ worker[w].attempt < Attempts
      /\ UNCHANGED <<records, program, requests, calls, cut>>
  BY DEF FailAttempt
<1>2. Books' /\ session' \subseteq Entry /\ request' \subseteq Entry /\ landed' \subseteq Entry
  BY <1>1, LandingKeepsBooks
<1>3. /\ worker'[w] = [worker[w] EXCEPT !.pc = "sleep"]
      /\ \A v \in Workers \ {w} : worker'[v] = worker[v]
  BY DEF FailAttempt, TypeOK
<1>4. worker[w] \in Worker
  BY DEF TypeOK
<1>5. worker'[w] \in Worker
  <2>1. worker'[w] =
          [pc |-> "sleep", call |-> worker[w].call, attempt |-> worker[w].attempt,
           of |-> worker[w].of, stray |-> worker[w].stray]
    BY <1>3, <1>4 DEF Worker
  <2>2. /\ worker[w].call \in 0..MaxCalls /\ worker[w].attempt \in 0..Attempts
        /\ worker[w].of \in 0..MaxRequests /\ worker[w].stray \in BOOLEAN
    BY <1>4 DEF Worker
  <2> QED BY <2>1, <2>2 DEF Worker
<1>6. worker' \in [Workers -> Worker]
  BY <1>5 DEF FailAttempt, TypeOK
<1>7. TypeOK'
  BY <1>1, <1>2, <1>6 DEF TypeOK, program
<1>8. /\ worker'[w].pc = "sleep" /\ worker'[w].of = worker[w].of
      /\ worker'[w].stray = worker[w].stray
      /\ worker'[w].call = worker[w].call /\ worker'[w].attempt = worker[w].attempt
  BY <1>3, <1>4 DEF Worker
<1>9. WorkerInv'
  BY <1>1, <1>3, <1>8 DEF WorkerInv, InCallOf, program
<1>10. InCallOf(w)' /\ InCallOf(w)
  BY <1>1, <1>8 DEF InCallOf
<1>11. \A e \in landed' \ landed :
         /\ e.call = worker[w].call /\ e.attempt = worker[w].attempt
         /\ e.call <= calls /\ e.of <= requests
  BY <1>1, EntryIsNew DEF Record, EntryOf
<1>12. \A e \in landed : e.call = worker[w].call => e.attempt < worker[w].attempt
  BY <1>1, <1>10 DEF CallInv
<1>13. CallInv'
  BY <1>1, <1>3, <1>8, <1>10, <1>11, <1>12, OneMovesOn
<1> QED BY <1>2, <1>7, <1>9, <1>13

LEMMA RetryKeeps ==
  ASSUME IInv, NEW w \in Workers, Retry(w)
  PROVE  IInv'
<1> USE MetricsAssumption DEF IInv
<1>1. worker[w].pc = "sleep" /\ UNCHANGED <<scopes, records, program, observed>>
  BY DEF Retry
<1>2. worker[w] \in Worker /\ worker[w].attempt \in 1..Attempts /\ worker[w].attempt < Attempts
  BY <1>1 DEF TypeOK, WorkerInv, InCallOf
<1>3. /\ worker'[w] = [worker[w] EXCEPT !.pc = "llm", !.attempt = worker[w].attempt + 1]
      /\ \A v \in Workers \ {w} : worker'[v] = worker[v]
  BY <1>2 DEF Retry, TypeOK, Worker
<1>4. worker[w].attempt + 1 \in 0..Attempts
  BY <1>2
<1>5. worker'[w] \in Worker
  BY <1>2, <1>3, <1>4 DEF Worker
<1>6. worker' \in [Workers -> Worker]
  BY <1>5 DEF Retry, TypeOK
<1>7. TypeOK'
  BY <1>1, <1>6 DEF TypeOK, scopes, program, observed
<1>8. /\ worker'[w].pc = "llm" /\ worker'[w].of = worker[w].of
      /\ worker'[w].stray = worker[w].stray
      /\ worker'[w].call = worker[w].call /\ worker'[w].attempt = worker[w].attempt + 1
  BY <1>2, <1>3 DEF Worker
<1>9. WorkerInv'
  <2>1. /\ worker[w].call \in 1..calls /\ worker[w].of \in 1..requests
        /\ ~worker[w].stray => at = "turn" /\ worker[w].of = requests
    BY <1>1 DEF WorkerInv, InCallOf
  <2>2. worker[w].attempt + 1 \in 1..Attempts
    BY <1>2
  <2> QED BY <1>1, <1>3, <1>8, <2>1, <2>2 DEF WorkerInv, InCallOf, program, observed
<1>10. InCallOf(w)' /\ InCallOf(w)
  BY <1>1, <1>8 DEF InCallOf
<1>11. \A e \in landed : e.attempt \in Nat
  BY DEF TypeOK, Entry
<1>12. \A e \in landed : e.call = worker[w].call => e.attempt < worker[w].attempt + 1
  BY <1>2, <1>10, <1>11 DEF CallInv
<1>13. CallInv'
  BY <1>1, <1>3, <1>8, <1>10, <1>12, OneMovesOn DEF observed
<1>14. Books'
  BY <1>1, BooksKept DEF observed
<1> QED BY <1>7, <1>9, <1>13, <1>14

(* The workers that a graph run leaves behind.                             *)
LEMMA Detached ==
  ASSUME NEW ws \in [Workers -> Worker]
  PROVE  /\ Detach(ws) \in [Workers -> Worker]
         /\ \A v \in Workers :
              /\ Detach(ws)[v].pc = ws[v].pc
              /\ Detach(ws)[v].call = ws[v].call
              /\ Detach(ws)[v].attempt = ws[v].attempt
              /\ Detach(ws)[v].of = ws[v].of
              /\ Detach(ws)[v].pc = "none" \/ Detach(ws)[v].stray
BY DEF Detach, Worker

-----------------------------------------------------------------------------
(* The graph run and the two programs.                                     *)

(* A turn ends, with a question or not; its record is still to be written. *)
LEMMA EndingKeepsBooks ==
  ASSUME IInv, at = "turn", at' = "ending", driver = "server" => (paused' <=> waiting'),
         UNCHANGED <<scopes, records, driver, requests, landed, cut>>
  PROVE  Books'
<1> USE MetricsAssumption DEF IInv, Books, scopes, TypeOK
<1>1. RequestInv' /\ ScopeInv'
  BY DEF RequestInv, ScopeInv, Unfinished, Running, Own
<1>2. CountedOnce'
  BY DEF CountedOnce, Over, Own
<1>3. RecordsWhole' /\ LeftOnlyByStrays'
  BY DEF RecordsWhole, LeftOnlyByStrays, Own, Strays
<1> QED BY <1>1, <1>2, <1>3

LEMMA GiveUpKeeps ==
  ASSUME IInv, NEW w \in Workers, GiveUp(w)
  PROVE  IInv'
<1> DEFINE others == [worker EXCEPT ![w] = Nobody]
<1> USE DEF IInv
<1>1. UNCHANGED <<scopes, records, driver, waiting, paused, resumes, observed>>
  BY DEF GiveUp
<1>2. others \in [Workers -> Worker]
  BY NobodyTyped DEF TypeOK
<1>3. others[w].pc = "none" /\ \A v \in Workers \ {w} : others[v] = worker[v]
  BY DEF TypeOK, Nobody
<1>4. requests \in Nat /\ requests' = requests
  BY <1>1, MetricsAssumption DEF TypeOK, observed
<1>5. CASE worker[w].stray
  <2>1. worker' = others /\ at' = at
    BY <1>5 DEF GiveUp
  <2>2. TypeOK'
    BY <1>1, <1>2, <2>1 DEF TypeOK, scopes, observed
  <2>3. \A v \in Workers \ {w} : worker[v].pc = "none" \/ worker[v].stray \/ at = "turn"
    BY DEF WorkerInv
  <2> HIDE DEF others
  <2>4. WorkerInv' /\ CallInv'
    BY <1>1, <1>2, <1>3, <1>4, <2>1, <2>3, WorkersKept DEF observed
  <2>5. Books'
    BY <1>1, <2>1, BooksKept DEF program, observed
  <2> QED BY <2>2, <2>4, <2>5
<1>6. CASE ~worker[w].stray
  <2>1. worker' = Detach(others) /\ at' = "ending" /\ worker[w].pc = "llm"
    BY <1>6 DEF GiveUp
  <2>2. at = "turn"
    BY <1>6, <2>1 DEF WorkerInv
  <2> HIDE DEF others
  <2>3. worker' \in [Workers -> Worker]
    BY <1>2, <2>1, Detached
  <2>4. TypeOK'
    BY <1>1, <2>1, <2>3 DEF TypeOK, scopes, observed
  <2>5. WorkerInv' /\ CallInv'
    BY <1>1, <1>2, <1>3, <1>4, <2>1, <2>3, Detached, WorkersKept DEF observed
  <2>6. driver = "server" => (paused' <=> waiting')
    BY <1>1, <2>2 DEF Books, RequestInv
  <2>7. Books'
    BY <1>1, <2>1, <2>2, <2>6, EndingKeepsBooks DEF observed
  <2> QED BY <2>4, <2>5, <2>7
<1> QED BY <1>5, <1>6

LEMMA AskKeeps ==
  ASSUME IInv, Ask
  PROVE  IInv'
<1> USE DEF IInv
<1>1. /\ at = "turn" /\ at' = "ending" /\ waiting' = TRUE /\ paused' = TRUE
      /\ worker' = Detach(worker)
      /\ UNCHANGED <<scopes, records, driver, resumes, observed>>
  BY DEF Ask
<1>2. worker \in [Workers -> Worker] /\ requests \in Nat
  BY MetricsAssumption DEF TypeOK
<1>3. worker' \in [Workers -> Worker]
  BY <1>1, <1>2, Detached
<1>4. TypeOK'
  BY <1>1, <1>3 DEF TypeOK, scopes, observed
<1>5. WorkerInv' /\ CallInv'
  BY <1>1, <1>2, <1>3, Detached, WorkersKept DEF observed
<1>6. Books'
  BY <1>1, EndingKeepsBooks DEF observed
<1> QED BY <1>4, <1>5, <1>6

LEMMA AnswerKeeps ==
  ASSUME IInv, Answer
  PROVE  IInv'
<1> USE DEF IInv
<1>1. /\ at = "turn" /\ at' = "ending"
      /\ UNCHANGED <<scopes, records, worker, driver, waiting, paused, resumes, observed>>
  BY DEF Answer
<1>2. worker \in [Workers -> Worker] /\ requests \in Nat
  BY MetricsAssumption DEF TypeOK
<1>3. TypeOK'
  BY <1>1 DEF TypeOK, scopes, observed
<1>4. \A v \in Workers : worker[v].pc = "none" \/ worker[v].stray
  BY DEF Answer, Attached
<1>5. WorkerInv' /\ CallInv'
  BY <1>1, <1>2, <1>4, WorkersKept DEF observed
<1>6. driver = "server" => (paused' <=> waiting')
  BY <1>1 DEF Books, RequestInv
<1>7. Books'
  BY <1>1, <1>6, EndingKeepsBooks DEF observed
<1> QED BY <1>3, <1>5, <1>7

(* Between turns there are only strays, and they stay as they are.         *)
LEMMA OnlyStraysBetween ==
  ASSUME IInv, at # "turn", worker' \in [Workers -> Worker],
         requests' \in Nat, requests <= requests', UNCHANGED <<calls, landed>>,
         \A v \in Workers : worker'[v].pc = "none" \/ worker'[v] = worker[v]
  PROVE  WorkerInv' /\ CallInv'
<1>1. \A v \in Workers : worker[v].pc = "none" \/ worker[v].stray
  BY DEF IInv, WorkerInv
<1> QED BY <1>1, WorkersKept DEF IInv

LEMMA ConnectKeeps ==
  ASSUME IInv, Connect
  PROVE  IInv'
<1> USE MetricsAssumption DEF IInv, Books, Connect, scopes, observed
<1>1. TypeOK'
  BY DEF TypeOK
<1>2. WorkerInv' /\ CallInv'
  <2>1. worker' \in [Workers -> Worker] /\ requests' \in Nat /\ requests <= requests'
    BY DEF TypeOK
  <2> QED BY <2>1, OnlyStraysBetween
<1>3. RequestInv'
  BY DEF RequestInv, Unfinished, Running
<1>4. ScopeInv'
  BY DEF ScopeInv, Unfinished, Running, Own, RequestInv
<1>5. CountedOnce'
  <2>1. \A r : Over(r)' => Over(r)
    BY DEF Over, RequestInv
  <2> QED BY <2>1 DEF CountedOnce, Own
<1>6. RecordsWhole' /\ LeftOnlyByStrays'
  BY DEF RecordsWhole, LeftOnlyByStrays, Own, Strays
<1> QED BY <1>1, <1>2, <1>3, <1>4, <1>5, <1>6

(* A new request finds every earlier one over, and has recorded nothing.   *)
LEMMA NewRequestKeepsBooks ==
  ASSUME IInv, ~Unfinished, NewRequest, at \in {"ready", "closed"}, ~waiting,
         at' = "turn", ~waiting', driver = "server" => ~paused',
         UNCHANGED <<session, records, driver, landed, cut>>
  PROVE  Books'
<1> USE MetricsAssumption DEF IInv, Books, NewRequest, TypeOK
<1>1. requests' = requests + 1 /\ requests \in Nat /\ request' = {}
  OBVIOUS
<1>2. Own(requests + 1) = {}
  BY <1>1 DEF Own, CallInv, Entry
<1>3. RequestInv'
  BY <1>1 DEF RequestInv, Unfinished, Running
<1>4. ScopeInv'
  BY <1>1, <1>2 DEF ScopeInv, Unfinished, Running, Own
<1>5. CountedOnce'
  <2>1. \A r \in (1..requests') \ cut' : Over(r)' => r \in (1..requests) \ cut /\ Over(r)
    BY <1>1 DEF Over
  <2> QED BY <2>1 DEF CountedOnce, Own
<1>6. RecordsWhole' /\ LeftOnlyByStrays'
  BY DEF RecordsWhole, LeftOnlyByStrays, Own, Strays
<1> QED BY <1>3, <1>4, <1>5, <1>6

LEMMA ReceiveKeeps ==
  ASSUME IInv, Receive
  PROVE  IInv'
<1> USE MetricsAssumption DEF IInv
<1>1. /\ driver = "server" /\ at = "ready" /\ at' = "turn"
      /\ waiting' = FALSE /\ paused' = FALSE
      /\ UNCHANGED <<session, records, worker, driver, resumes, calls, landed, cut>>
  BY DEF Receive
<1>2. requests \in Nat /\ requests' \in 0..MaxRequests /\ requests <= requests' /\ request' \subseteq Entry
  BY DEF Receive, NewRequest, TypeOK
<1>3. TypeOK'
  BY <1>1, <1>2 DEF TypeOK
<1>4. WorkerInv' /\ CallInv'
  <2>1. worker' \in [Workers -> Worker] /\ requests' \in Nat
    BY <1>1, <1>2 DEF TypeOK
  <2> QED BY <1>1, <1>2, <2>1, OnlyStraysBetween
<1>5. paused <=> waiting
  BY <1>1 DEF Books, RequestInv
<1>6. CASE ~waiting
  <2>1. NewRequest /\ ~Unfinished
    BY <1>1, <1>5, <1>6 DEF Receive, Unfinished, Running
  <2> QED BY <1>1, <1>3, <1>4, <1>6, <2>1, NewRequestKeepsBooks
<1>7. CASE waiting
  <2>1. UNCHANGED <<request, requests>>
    BY <1>7 DEF Receive
  <2> USE DEF Books
  <2>2. RequestInv' /\ ScopeInv'
    BY <1>1, <1>7, <2>1 DEF RequestInv, ScopeInv, Unfinished, Running, Own
  <2>3. CountedOnce'
    BY <1>1, <1>7, <2>1 DEF CountedOnce, Over, Own
  <2>4. RecordsWhole' /\ LeftOnlyByStrays'
    BY <1>1, <2>1 DEF RecordsWhole, LeftOnlyByStrays, Own, Strays
  <2> QED BY <1>3, <1>4, <2>2, <2>3, <2>4
<1> QED BY <1>6, <1>7

LEMMA StartRunKeeps ==
  ASSUME IInv, StartRun
  PROVE  IInv'
<1> USE MetricsAssumption DEF IInv
<1>1. /\ driver = "benchmark" /\ at = "closed" /\ at' = "turn" /\ NewRequest
      /\ UNCHANGED <<session, records, worker, driver, waiting, paused, resumes, calls, landed, cut>>
  BY DEF StartRun
<1>2. requests \in Nat /\ requests' \in 0..MaxRequests /\ requests <= requests' /\ request' = {}
  BY <1>1 DEF NewRequest, TypeOK
<1>3. TypeOK'
  BY <1>1, <1>2 DEF TypeOK
<1>4. WorkerInv' /\ CallInv'
  <2>1. worker' \in [Workers -> Worker] /\ requests' \in Nat
    BY <1>1, <1>2 DEF TypeOK
  <2> QED BY <1>1, <1>2, <2>1, OnlyStraysBetween
<1>5. ~waiting /\ ~Unfinished
  BY <1>1 DEF Books, RequestInv, Unfinished, Running
<1>6. Books'
  BY <1>1, <1>5, NewRequestKeepsBooks
<1> QED BY <1>3, <1>4, <1>6

LEMMA ResumeRunKeeps ==
  ASSUME IInv, ResumeRun
  PROVE  IInv'
<1> USE MetricsAssumption DEF IInv, Books, scopes, observed
<1>1. /\ driver = "benchmark" /\ at = "ending" /\ waiting /\ at' = "turn" /\ waiting' = FALSE
      /\ resumes' = resumes + 1 /\ resumes < MaxResumes
      /\ UNCHANGED <<scopes, records, worker, driver, paused, observed>>
  BY DEF ResumeRun
<1>2. TypeOK'
  <2>1. resumes' \in 0..MaxResumes
    BY <1>1 DEF TypeOK
  <2> QED BY <1>1, <2>1 DEF TypeOK
<1>3. WorkerInv' /\ CallInv'
  <2>1. worker' \in [Workers -> Worker] /\ requests' \in Nat /\ requests <= requests'
    BY <1>1 DEF TypeOK
  <2> QED BY <1>1, <2>1, OnlyStraysBetween
<1>4. RequestInv' /\ ScopeInv'
  BY <1>1 DEF RequestInv, ScopeInv, Unfinished, Running, Own
<1>5. CountedOnce'
  BY <1>1 DEF CountedOnce, Over, Own
<1>6. RecordsWhole' /\ LeftOnlyByStrays'
  BY <1>1 DEF RecordsWhole, LeftOnlyByStrays, Own, Strays
<1> QED BY <1>2, <1>3, <1>4, <1>5, <1>6

(* The record of a request that ends.                                      *)
LEMMA FinishKeepsBooks ==
  ASSUME IInv, FinishRequest, at \in {"turn", "ending"}, at' \in {"ready", "closed"},
         ~waiting', driver = "server" => ~paused', request' \subseteq request,
         at' = "closed" => session' = {} /\ request' = {},
         UNCHANGED <<driver, requests, landed, cut>>
  PROVE  Books' /\ records' \in Seq([of : 1..MaxRequests, entries : SUBSET Entry])
<1> DEFINE Kept == [of : 1..MaxRequests, entries : SUBSET Entry]
<1>1. requests \in 1..MaxRequests /\ records \in Seq(Kept) /\ request \subseteq Entry
  BY MetricsAssumption DEF IInv, Books, TypeOK, RequestInv, Unfinished, Running
<1>2. \A i \in DOMAIN records :
        /\ records[i].of \in 1..requests /\ records[i].of # requests
        /\ records[i].entries \subseteq landed /\ records[i].entries \cap request = {}
  BY DEF IInv, Books, RequestInv, ScopeInv, Unfinished, Running
<1>3. /\ request \subseteq landed /\ \A e \in request : e.stray \/ e.of = requests
      /\ requests \notin cut => Own(requests) \subseteq request
  BY DEF IInv, Books, ScopeInv, Running
<1>4. ~Unfinished' /\ ~Running'
  BY DEF Unfinished, Running
<1>5. \A r : Own(r)' = Own(r)
  BY DEF Own
<1>6. \A r \in 1..requests : r = requests \/ Over(r)
  BY <1>1 DEF Over
<1>7. CountedOnce /\ RecordsWhole
  BY DEF IInv, Books
<1>8. LeftOnlyByStrays'
  BY DEF LeftOnlyByStrays
<1>9. (at' = "closed" => ~waiting') /\ (driver' = "server" /\ at' # "closed" => (paused' <=> waiting'))
  OBVIOUS
<1>10. CASE request = {}
  <2>1. records' = records
    BY <1>10 DEF FinishRequest
  <2>2. RequestInv' /\ ScopeInv'
    BY <1>1, <1>2, <1>3, <1>4, <1>9, <1>10, <2>1 DEF RequestInv, ScopeInv
  <2>3. CountedOnce'
    BY <1>3, <1>5, <1>6, <1>7, <1>10, <2>1 DEF CountedOnce
  <2>4. RecordsWhole'
    BY <1>5, <1>7, <2>1 DEF RecordsWhole, Strays
  <2> QED BY <1>1, <1>8, <2>1, <2>2, <2>3, <2>4 DEF Books
<1>11. CASE request # {}
  <2> PICK r : r = [of |-> requests, entries |-> request]
    OBVIOUS
  <2>1. r \in Kept /\ r.of = requests /\ r.entries = request
    BY <1>1
  <2>2. records' = Append(records, r)
    BY <1>11 DEF FinishRequest
  <2> PICK n : n = Len(records) + 1
    OBVIOUS
  <2> HIDE DEF Kept
  <2>3. /\ records' \in Seq(Kept)
        /\ DOMAIN records' = DOMAIN records \cup {n} /\ n \notin DOMAIN records
        /\ records'[n] = r
        /\ \A i \in DOMAIN records : records'[i] = records[i]
    BY <1>1, <2>1, <2>2
  <2>4. RequestInv'
    BY <1>1, <1>2, <1>4, <1>9, <2>1, <2>3 DEF RequestInv
  <2>5. ScopeInv'
    BY <1>2, <1>3, <1>4, <2>1, <2>3 DEF ScopeInv
  <2>6. CountedOnce'
    <3>1. \A q \in (1..requests') \ cut' : Over(q)' /\ Own(q)' # {} => \E i \in DOMAIN records' : records'[i].of = q
      BY <1>5, <1>6, <1>7, <2>1, <2>3 DEF CountedOnce
    <3>2. \A i, k \in DOMAIN records' : i # k =>
            /\ records'[i].of # records'[k].of
            /\ records'[i].entries \cap records'[k].entries = {}
      BY <1>2, <1>7, <2>1, <2>3 DEF CountedOnce
    <3> QED BY <3>1, <3>2 DEF CountedOnce
  <2>7. RecordsWhole'
    <3>1. request \ Strays(request) \subseteq Own(requests)
      BY <1>3 DEF Strays, Own
    <3>2. \A i \in DOMAIN records' :
            /\ records'[i].entries \ Strays(records'[i].entries) \subseteq Own(records'[i].of)
            /\ records'[i].of \notin cut => Own(records'[i].of) \subseteq records'[i].entries
      BY <1>3, <1>7, <2>1, <2>3, <3>1 DEF RecordsWhole
    <3> QED BY <1>5, <3>2 DEF RecordsWhole, Strays
  <2> USE DEF Kept
  <2> QED BY <1>8, <2>3, <2>4, <2>5, <2>6, <2>7 DEF Books
<1> QED BY <1>10, <1>11

LEMMA EndTurnKeeps ==
  ASSUME IInv, EndTurn
  PROVE  IInv'
<1> USE MetricsAssumption DEF IInv
<1>1. /\ driver = "server" /\ at = "ending" /\ at' = "ready"
      /\ UNCHANGED <<scopes, worker, driver, waiting, paused, resumes, observed>>
  BY DEF EndTurn
<1>2. paused <=> waiting
  BY <1>1 DEF Books, RequestInv
<1>3. WorkerInv' /\ CallInv'
  <2>1. worker' \in [Workers -> Worker] /\ requests' \in Nat /\ requests <= requests'
    BY <1>1 DEF TypeOK, observed
  <2> QED BY <1>1, <2>1, OnlyStraysBetween DEF observed
<1>4. CASE waiting
  <2>1. records' = records
    BY <1>4 DEF EndTurn
  <2>2. TypeOK'
    BY <1>1, <2>1 DEF TypeOK, scopes, observed
  <2> USE DEF Books, scopes, observed
  <2>3. RequestInv' /\ ScopeInv'
    BY <1>1, <1>2, <1>4, <2>1 DEF RequestInv, ScopeInv, Unfinished, Running, Own
  <2>4. CountedOnce'
    BY <1>1, <1>4, <2>1 DEF CountedOnce, Over, Own
  <2>5. RecordsWhole' /\ LeftOnlyByStrays'
    BY <1>1, <2>1 DEF RecordsWhole, LeftOnlyByStrays, Own, Strays
  <2> QED BY <1>3, <2>2, <2>3, <2>4, <2>5
<1>5. CASE ~waiting
  <2>1. FinishRequest
    BY <1>5 DEF EndTurn
  <2>2. Books' /\ records' \in Seq([of : 1..MaxRequests, entries : SUBSET Entry])
    BY <1>1, <1>2, <1>5, <2>1, FinishKeepsBooks DEF scopes, observed
  <2>3. TypeOK'
    BY <1>1, <2>2 DEF TypeOK, scopes, observed
  <2> QED BY <1>3, <2>2, <2>3
<1> QED BY <1>4, <1>5

LEMMA EndRunKeeps ==
  ASSUME IInv, EndRun
  PROVE  IInv'
<1> USE MetricsAssumption DEF IInv
<1>1. /\ driver = "benchmark" /\ at \in {"turn", "ending"} /\ at' = "closed" /\ waiting' = FALSE
      /\ FinishRequest /\ session' = {} /\ request' = {}
      /\ worker' = [w \in Workers |-> IF worker[w].stray THEN worker[w] ELSE Nobody]
      /\ UNCHANGED <<driver, paused, resumes, observed>>
  BY DEF EndRun, Drop
<1>2. worker' \in [Workers -> Worker]
  BY <1>1, NobodyTyped DEF TypeOK
<1>3. Books' /\ records' \in Seq([of : 1..MaxRequests, entries : SUBSET Entry])
  BY <1>1, FinishKeepsBooks DEF observed
<1>4. TypeOK'
  BY <1>1, <1>2, <1>3 DEF TypeOK, observed
<1>5. WorkerInv' /\ CallInv'
  <2>1. \A v \in Workers : worker'[v].pc = "none" \/ (worker'[v] = worker[v] /\ worker[v].stray)
    BY <1>1 DEF Nobody
  <2>2. requests' \in Nat /\ requests <= requests'
    BY <1>1 DEF TypeOK, observed
  <2> QED BY <1>1, <1>2, <2>1, <2>2, WorkersKept DEF observed
<1> QED BY <1>3, <1>4, <1>5

LEMMA LeaveKeeps ==
  ASSUME IInv, NEW crash \in BOOLEAN, Leave(crash)
  PROVE  IInv'
<1> USE MetricsAssumption DEF IInv
<1>1. /\ driver = "server" /\ at' = "closed" /\ waiting' = FALSE /\ session' = {} /\ request' = {}
      /\ worker' = [w \in Workers |-> IF crash \/ ~worker[w].stray THEN Nobody ELSE worker[w]]
      /\ UNCHANGED <<records, driver, paused, resumes, requests, calls, landed>>
      /\ cut' = IF Running THEN cut \cup {requests} ELSE cut
  BY DEF Leave, Drop, Running
<1>2. worker' \in [Workers -> Worker]
  BY <1>1, NobodyTyped DEF TypeOK
<1>3. Running => requests \in 1..MaxRequests
  BY DEF Books, TypeOK, RequestInv, Unfinished
<1>4. cut' \subseteq 1..MaxRequests /\ cut \subseteq cut'
  BY <1>1, <1>3 DEF TypeOK
<1>5. TypeOK'
  BY <1>1, <1>2, <1>4 DEF TypeOK
<1>6. WorkerInv' /\ CallInv'
  <2>1. \A v \in Workers : worker'[v].pc = "none" \/ (worker'[v] = worker[v] /\ worker[v].stray)
    BY <1>1 DEF Nobody
  <2>2. requests' \in Nat /\ requests <= requests'
    BY <1>1 DEF TypeOK
  <2> QED BY <1>1, <1>2, <2>1, <2>2, WorkersKept
<1> USE DEF Books
<1>7. RequestInv'
  BY <1>1 DEF RequestInv, Unfinished, Running
<1>8. ScopeInv'
  BY <1>1, <1>4 DEF ScopeInv, Unfinished, Running, Own
<1>9. CountedOnce'
  <2>1. \A r \in (1..requests') \ cut' : Over(r)' => r \in (1..requests) \ cut /\ Over(r)
    BY <1>1, <1>4 DEF Over, Running, TypeOK
  <2> QED BY <1>1, <2>1 DEF CountedOnce, Own
<1>10. RecordsWhole' /\ LeftOnlyByStrays'
  BY <1>1, <1>4 DEF RecordsWhole, LeftOnlyByStrays, Own, Strays
<1> QED BY <1>5, <1>6, <1>7, <1>8, <1>9, <1>10

-----------------------------------------------------------------------------
(* Theorems.                                                               *)

LEMMA StutterKeeps ==
  ASSUME IInv, UNCHANGED vars
  PROVE  IInv'
<1>1. Books'
  BY BooksKept DEF vars, observed
<1>2. TypeOK' /\ WorkerInv' /\ CallInv'
  BY DEF IInv, vars, scopes, program, observed, TypeOK, WorkerInv, CallInv, InCallOf
<1> QED BY <1>1, <1>2 DEF IInv

LEMMA NextKeeps == IInv /\ [Next]_vars => IInv'
<1> SUFFICES ASSUME IInv, [Next]_vars PROVE IInv'
  OBVIOUS
<1>1. ASSUME NEW w \in Workers, Begin(w) \/ CallAgain(w) \/ InCall(w) \/ End(w) PROVE IInv'
  BY <1>1, BeginKeeps, CallAgainKeeps, SucceedKeeps, FailAttemptKeeps, RetryKeeps, GiveUpKeeps, EndKeeps
  DEF InCall
<1>2. CASE Answer \/ Ask
  BY <1>2, AnswerKeeps, AskKeeps
<1>3. CASE Connect \/ Receive \/ EndTurn
  BY <1>3, ConnectKeeps, ReceiveKeeps, EndTurnKeeps
<1>4. ASSUME NEW crash \in BOOLEAN, Leave(crash) PROVE IInv'
  BY <1>4, LeaveKeeps
<1>5. CASE StartRun \/ ResumeRun \/ EndRun
  BY <1>5, StartRunKeeps, ResumeRunKeeps, EndRunKeeps
<1>6. CASE UNCHANGED vars
  BY <1>6, StutterKeeps
<1> QED BY <1>1, <1>2, <1>3, <1>4, <1>5, <1>6 DEF Next

LEMMA IInvHolds == Spec => []IInv
<1>1. Init => IInv
  BY InitIInv
<1>2. IInv /\ [Next]_vars => IInv'
  BY NextKeeps
<1> QED BY <1>1, <1>2, PTL DEF Spec

(* Every variable of METRICS, of its files, of the workers and of the two  *)
(* programs (app/metrics.py, _invoke_with_retry) keeps its type.           *)
THEOREM MetricsTypeCorrect == Spec => []TypeOK
<1>1. IInv => TypeOK
  BY DEF IInv
<1> QED BY <1>1, IInvHolds, PTL

(* A completed request that made a call has exactly one record, and no     *)
(* call is in two (finish_request, over pauses, retries and reconnects).   *)
THEOREM CallsAreCountedOnce == Spec => []CountedOnce
<1>1. IInv => CountedOnce
  BY DEF IInv, Books
<1> QED BY <1>1, IInvHolds, PTL

(* A record has all its request's workers recorded, unless a connection    *)
(* was lost in it, and beside that only what strays recorded.              *)
THEOREM RecordsAreWhole == Spec => []RecordsWhole
<1>1. IInv => RecordsWhole
  BY DEF IInv, Books
<1> QED BY <1>1, IInvHolds, PTL

(* What a closed session leaves in METRICS is of its strays                *)
(* (cleanup_session).                                                      *)
THEOREM OnlyStraysAreLeft == Spec => []LeftOnlyByStrays
<1>1. IInv => LeftOnlyByStrays
  BY DEF IInv, Books
<1> QED BY <1>1, IInvHolds, PTL

=============================================================================
