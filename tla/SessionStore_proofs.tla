------------------------- MODULE SessionStore_proofs -------------------------
(***************************************************************************)
(* Theorems about SessionStore, for any number of events: types, that the  *)
(* three files agree, and that it implements DurableStore.                 *)
(***************************************************************************)
EXTENDS SessionStore, WellFoundedInduction, TLAPS

-----------------------------------------------------------------------------
(* Replays.                                                                *)

Below == {ss \in Nat \X Nat : ss[1] < ss[2]}

LEMMA LeastNat ==
  ASSUME NEW T \in SUBSET Nat, T # {}
  PROVE  \E x \in T : \A y \in T : x <= y
<1>1. PICK x \in T : \A y \in T : ~ (<<y, x>> \in Below)
  <2>1. IsWellFoundedOn(Below, Nat)
    BY NatLessThanWellFounded DEF OpToRel, Below
  <2> QED BY <2>1, WFMin
<1>2. ASSUME NEW y \in T, y < x PROVE FALSE
  <2>1. <<y, x>> \in Nat \X Nat /\ <<y, x>>[1] = y /\ <<y, x>>[2] = x
    OBVIOUS
  <2>2. <<y, x>> \in Below
    BY <1>2, <2>1 DEF Below
  <2> QED BY <1>1, <2>2
<1> QED BY <1>2

(* A replay has an end.                                                    *)
LEMMA LastIs ==
  ASSUME NEW log \in Seq(Piece)
  PROVE  Last(log) \in Readable(log) /\ \A m \in Readable(log) : m <= Last(log)
<1> DEFINE Bounds == {k \in Nat : \A m \in Readable(log) : m <= k}
<1>1. Readable(log) \subseteq 0..Len(log) /\ 0 \in Readable(log) /\ Len(log) \in Nat
  BY DEF Readable
<1>2. PICK k \in Bounds : \A l \in Bounds : k <= l
  <2>1. Len(log) \in Bounds /\ Bounds \in SUBSET Nat
    BY <1>1
  <2> HIDE DEF Bounds
  <2> QED BY <2>1, LeastNat
<1>3. k \in Readable(log)
  <2>1. CASE k = 0
    BY <1>1, <2>1
  <2>2. CASE k # 0 /\ k \notin Readable(log)
    <3>1. k - 1 \in Bounds
      BY <1>1, <2>2
    <3> QED BY <1>2, <3>1
  <2> QED BY <2>1, <2>2
<1>4. \E n \in Readable(log) : \A m \in Readable(log) : m <= n
  BY <1>3
<1> QED BY <1>4 DEF Last

Whole(log) == \A i \in DOMAIN log : log[i].cut = "no"

(* What one more piece does to the end of the replay.                      *)
LEMMA LastAfterAppend ==
  ASSUME NEW log \in Seq(Piece), NEW p \in Piece
  PROVE  /\ \/ Whole(log) /\ Last(log) = Len(log) /\ Last(Append(log, p)) = Len(log) + 1
            \/ Last(Append(log, p)) <= Last(log)
         /\ Whole(log) /\ p.cut = "no" => Last(Append(log, p)) = Len(log) + 1
<1> PICK more : more = Append(log, p)
  OBVIOUS
<1>1. /\ more \in Seq(Piece) /\ Len(more) = Len(log) + 1 /\ Len(log) \in Nat
      /\ \A i \in 1..Len(log) : more[i] = log[i]
      /\ more[Len(log) + 1] = p
  OBVIOUS
<1>2. \A n \in Readable(more) : n # Len(log) + 1 => n \in Readable(log)
  <2> SUFFICES ASSUME NEW n \in Readable(more), n # Len(log) + 1, NEW i \in 1..n
               PROVE  n \in 0..Len(log) /\ Parses(log, i) /\ Decodes(log, i)
    BY DEF Readable
  <2>1. n \in 0..Len(log) /\ Parses(more, i) /\ Decodes(more, i)
    BY <1>1 DEF Readable
  <2>2. Parses(log, i)
    BY <1>1, <2>1 DEF Parses, OwnLine
  <2>3. Decodes(log, i)
    BY <1>1, <2>1 DEF Decodes
  <2> QED BY <2>1, <2>2, <2>3
<1>3. Len(log) + 1 \in Readable(more) => Len(log) \in Readable(more) /\ Whole(log)
  <2> HAVE Len(log) + 1 \in Readable(more)
  <2>1. \A i \in 1..Len(log) + 1 : Parses(more, i) /\ Decodes(more, i)
    BY DEF Readable
  <2>2. Len(log) \in Readable(more)
    BY <1>1, <2>1 DEF Readable
  <2>3. ASSUME NEW i \in DOMAIN log PROVE log[i].cut = "no"
    <3>1. i + 1 \in 1..Len(log) + 1 /\ i + 1 # 1 /\ (i + 1) - 1 = i
      BY <1>1
    <3>2. OwnLine(more, i + 1)
      BY <2>1, <3>1 DEF Parses
    <3> QED BY <1>1, <3>1, <3>2 DEF OwnLine
  <2> QED BY <2>2, <2>3 DEF Whole
<1>4. Last(more) \in Readable(more) /\ \A m \in Readable(more) : m <= Last(more)
  BY <1>1, LastIs
<1>5. Last(log) \in Readable(log) /\ \A m \in Readable(log) : m <= Last(log)
  BY LastIs
<1>6. Readable(log) \subseteq 0..Len(log) /\ Readable(more) \subseteq 0..Len(log) + 1
  BY <1>1 DEF Readable
<1>7. \/ Whole(log) /\ Last(log) = Len(log) /\ Last(more) = Len(log) + 1
      \/ Last(more) <= Last(log)
  <2>1. CASE Last(more) = Len(log) + 1
    <3>1. Whole(log) /\ Len(log) \in Readable(log)
      BY <1>1, <1>2, <1>3, <1>4, <2>1
    <3> QED BY <1>1, <1>5, <1>6, <2>1, <3>1
  <2>2. CASE Last(more) # Len(log) + 1
    BY <1>2, <1>4, <1>5, <2>2
  <2> QED BY <2>1, <2>2
<1>8. ASSUME Whole(log), p.cut = "no" PROVE Last(more) = Len(log) + 1
  <2>1. \A i \in 1..Len(log) + 1 : more[i].cut = "no"
    BY <1>1, <1>8 DEF Whole
  <2>2. Len(log) + 1 \in Readable(more)
    BY <1>1, <2>1 DEF Readable, Parses, OwnLine, Decodes
  <2> QED BY <1>1, <1>4, <1>6, <2>2
<1> QED BY <1>7, <1>8

LEMMA ReplayIs ==
  ASSUME NEW log \in Seq(Piece)
  PROVE  /\ Last(log) \in 0..Len(log)
         /\ Replay(log) \in Seq(Events)
         /\ Len(Replay(log)) = Last(log)
         /\ \A i \in 1..Last(log) : Replay(log)[i] = log[i].event
<1>1. Last(log) \in 0..Len(log)
  BY LastIs DEF Readable
<1>2. ASSUME NEW i \in 1..Last(log) PROVE log[i].event \in Events
  <2>1. log[i] \in Piece
    BY <1>1
  <2> QED BY <2>1 DEF Piece
<1> QED BY <1>1, <1>2 DEF Replay

(* A replay grows by the new event, or loses events at its end if          *)
(* something is torn.                                                      *)
LEMMA ReplayAfterAppend ==
  ASSUME NEW log \in Seq(Piece), NEW p \in Piece
  PROVE  \/ /\ Whole(log)
            /\ Replay(Append(log, p)) = Append(Replay(log), p.event)
         \/ /\ ~Whole(log) \/ p.cut # "no"
            /\ \/ Replay(Append(log, p)) = Replay(log)
               \/ Store!IsStrictPrefix(Replay(Append(log, p)), Replay(log))
<1> PICK more : more = Append(log, p)
  OBVIOUS
<1>1. /\ more \in Seq(Piece) /\ Len(more) = Len(log) + 1 /\ Len(log) \in Nat
      /\ \A i \in 1..Len(log) : more[i] = log[i]
      /\ more[Len(log) + 1] = p
  OBVIOUS
<1> PICK old, new : old = Last(log) /\ new = Last(more)
  OBVIOUS
<1>2. /\ old \in 0..Len(log) /\ Replay(log) \in Seq(Events) /\ Len(Replay(log)) = old
      /\ \A i \in 1..old : Replay(log)[i] = log[i].event
  BY ReplayIs
<1>3. /\ new \in 0..Len(log) + 1 /\ Replay(more) \in Seq(Events) /\ Len(Replay(more)) = new
      /\ \A i \in 1..new : Replay(more)[i] = more[i].event
  BY <1>1, ReplayIs
<1>4. /\ \/ Whole(log) /\ old = Len(log) /\ new = Len(log) + 1
         \/ new <= old
      /\ Whole(log) /\ p.cut = "no" => new = Len(log) + 1
  BY LastAfterAppend
<1>5. CASE new = Len(log) + 1
  <2>1. Whole(log) /\ old = Len(log)
    BY <1>1, <1>2, <1>4, <1>5
  <2>2. p.event \in Events
    BY DEF Piece
  <2>3. Append(Replay(log), p.event) \in Seq(Events) /\ Len(Append(Replay(log), p.event)) = new
        /\ \A i \in 1..new : Append(Replay(log), p.event)[i] = Replay(more)[i]
    BY <1>1, <1>2, <1>3, <1>5, <2>1, <2>2
  <2>4. Replay(more) = Append(Replay(log), p.event)
    BY <1>3, <2>3
  <2> QED BY <2>1, <2>4
<1>6. CASE new # Len(log) + 1
  <2>1. new <= old /\ (~Whole(log) \/ p.cut # "no")
    BY <1>4, <1>6
  <2>2. \A i \in 1..new : Replay(more)[i] = Replay(log)[i]
    BY <1>1, <1>2, <1>3, <2>1
  <2>3. CASE new = old
    <3>1. Replay(more) = Replay(log)
      BY <1>2, <1>3, <2>2, <2>3
    <3> QED BY <2>1, <3>1
  <2>4. CASE new < old
    <3>1. SubSeq(Replay(more), 1, new) = SubSeq(Replay(log), 1, new)
      BY <1>2, <1>3, <2>2, <2>4
    <3>2. Replay(more) # Replay(log)
      BY <1>2, <1>3, <2>4
    <3> QED BY <1>2, <1>3, <2>1, <3>1, <3>2 DEF Store!IsStrictPrefix, Store!IsPrefix
  <2> QED BY <1>2, <1>3, <2>1, <2>3, <2>4
<1> QED BY <1>5, <1>6

-----------------------------------------------------------------------------
(* The invariant.                                                          *)

(* The log tells whether anything was torn, and has all that was shown     *)
(* unless something was lost.                                              *)
LogInv ==
  /\ Len(events) <= shown
  /\ Whole(events) <=> "torn" \notin faults
  /\ faults = {} => \A e \in 1..shown : \E i \in DOMAIN events : events[i].event = e

Team == Load("team", TRUE)
Meta == Load("meta", TRUE)

(* No file is half written; what the process knows, and is about to write, *)
(* goes on from what is in the files, unless a file could not be read.     *)
FileInv ==
  /\ \A n \in Names : json[n].state # "half"
  /\ hist \cup Team.work \subseteq 1..shown
  /\ pc = "team" => tmp.doc.work = hist
  /\ pc # "down" /\ "unread" \notin faults => Team.work \subseteq hist
  /\ pc = "meta" /\ "unread" \notin faults =>
       \/ tmp.doc = [Meta EXCEPT !.pending = tmp.doc.pending]
       \/ tmp.doc = [Meta EXCEPT !.work = tmp.doc.work]

(* Without faults, the accounts are behind the histories.                  *)
OrderInv ==
  faults = {} =>
    /\ Meta.work \subseteq Team.work
    /\ pc = "account" => hist \subseteq Team.work
    /\ pc = "meta" => tmp.doc.work \subseteq Team.work

StoreInv == TypeOK /\ LogInv /\ FileInv /\ OrderInv

LEMMA LoadTyped ==
  ASSUME TypeOK, NEW n \in Names, NEW readable \in BOOLEAN
  PROVE  Load(n, readable) \in Doc
BY DEF TypeOK, Load, File, Doc, Empty

LEMMA InitStoreInv == Init => StoreInv
<1> SUFFICES ASSUME Init PROVE StoreInv
  OBVIOUS
<1>1. Missing \in File /\ Missing.doc = Empty /\ Missing.state = "none"
  BY DEF Missing, File, Doc, Empty
<1>2. json \in [Names -> File] /\ \A n \in Names : json[n] = Missing
  BY <1>1 DEF Init
<1>3. TypeOK
  <2>1. events \in Seq(Piece) /\ shown \in 0..MaxEvents
    BY StoreAssumption DEF Init
  <2> QED BY <1>1, <1>2, <2>1 DEF Init, TypeOK
<1>4. Team = Empty /\ Meta = Empty
  BY <1>1, <1>2 DEF Team, Meta, Load, Names
<1>5. LogInv
  BY DEF Init, LogInv, Whole
<1>6. FileInv /\ OrderInv
  BY <1>1, <1>2, <1>4 DEF Init, FileInv, OrderInv, Empty
<1> QED BY <1>3, <1>5, <1>6 DEF StoreInv

(* Steps that leave the log alone.                                         *)
LEMMA LogKept ==
  ASSUME LogInv, UNCHANGED <<events, shown>>, faults \subseteq faults',
         "torn" \in faults' => "torn" \in faults
  PROVE  LogInv'
BY DEF LogInv, Whole

LEMMA OpenKeeps ==
  ASSUME StoreInv, NEW readable \in BOOLEAN, Open(readable)
  PROVE  StoreInv'
<1> USE DEF StoreInv, Open, ReadFault
<1>1. Load("team", readable) \in Doc
  BY LoadTyped DEF Names
<1>2. TypeOK'
  BY <1>1 DEF TypeOK, Doc
<1>3. LogInv'
  BY LogKept
<1>4. Team' = Team /\ Meta' = Meta
  BY DEF Team, Meta, Load
<1>5. Load("team", readable).work \subseteq Team.work /\ (readable => hist' = Team.work)
  BY DEF Load, Team, Empty
<1>6. FileInv'
  BY <1>4, <1>5 DEF FileInv
<1>7. OrderInv'
  BY <1>4 DEF OrderInv
<1> QED BY <1>2, <1>3, <1>6, <1>7

(* What append_event has done: a piece is there, or nothing.               *)
LEMMA PieceShown ==
  ASSUME StoreInv, Show
  PROVE  \/ events' = events /\ faults' = faults \cup {"lost"}
         \/ \E p \in Piece : /\ p.event = shown' /\ events' = Append(events, p)
                             /\ faults' = IF p.cut = "no" THEN faults ELSE faults \cup {"torn"}
<1> USE DEF StoreInv, Show, WriteFault
<1>1. shown \in Nat /\ shown' = shown + 1 /\ shown' \in Events
  BY StoreAssumption DEF TypeOK, Events
<1>2. Len(events) \in 0..MaxEvents
  BY <1>1, StoreAssumption DEF TypeOK, LogInv
<1>3. ASSUME NEW c \in {"no", "newline", "json", "char"}, NEW b \in 0..MaxEvents,
             events' = Append(events, [event |-> shown', cut |-> c, before |-> b]),
             faults' = IF c = "no" THEN faults ELSE faults \cup {"torn"}
      PROVE  \E p \in Piece : /\ p.event = shown' /\ events' = Append(events, p)
                              /\ faults' = IF p.cut = "no" THEN faults ELSE faults \cup {"torn"}
  <2> PICK p : p = [event |-> shown', cut |-> c, before |-> b]
    OBVIOUS
  <2>1. p \in Piece /\ p.event = shown' /\ p.cut = c
    BY <1>1 DEF Piece
  <2> QED BY <1>3, <2>1
<1>4. CASE events' = Append(events, [event |-> shown', cut |-> "no", before |-> 0]) /\ UNCHANGED faults
  <2>1. 0 \in 0..MaxEvents
    BY StoreAssumption
  <2> QED BY <1>3, <1>4, <2>1
<1>5. ASSUME NEW c \in {"newline", "json", "char"}, NEW b \in 0..Len(events),
             events' = Append(events, [event |-> shown', cut |-> c, before |-> b]),
             faults' = faults \cup {"torn"}
      PROVE  \E p \in Piece : /\ p.event = shown' /\ events' = Append(events, p)
                              /\ faults' = IF p.cut = "no" THEN faults ELSE faults \cup {"torn"}
  <2>1. b \in 0..MaxEvents
    BY <1>2, StoreAssumption
  <2> QED BY <1>3, <1>5, <2>1
<1> QED BY <1>4, <1>5

LEMMA ShowKeeps ==
  ASSUME StoreInv, Show
  PROVE  StoreInv'
<1> USE DEF StoreInv, Show, WriteFault
<1>1. shown \in Nat /\ shown' = shown + 1 /\ shown' \in Events
  BY StoreAssumption DEF TypeOK, Events
<1>2. \/ events' = events /\ faults' = faults \cup {"lost"}
      \/ \E p \in Piece : /\ p.event = shown' /\ events' = Append(events, p)
                          /\ faults' = IF p.cut = "no" THEN faults ELSE faults \cup {"torn"}
  BY PieceShown
<1>3. TypeOK'
  <2>1. events' \in Seq(Piece)
    BY <1>2 DEF TypeOK
  <2>2. faults' \subseteq {"lost", "torn", "unread"}
    BY <1>2 DEF TypeOK
  <2>3. shown' \in 0..MaxEvents /\ hist' \subseteq Events
    BY <1>1 DEF TypeOK, Events
  <2> QED BY <2>1, <2>2, <2>3 DEF TypeOK
<1>4. LogInv'
  <2>1. CASE events' = events /\ faults' = faults \cup {"lost"}
    BY <1>1, <2>1 DEF LogInv, Whole, TypeOK
  <2>2. ASSUME NEW p \in Piece, p.event = shown', events' = Append(events, p),
               faults' = IF p.cut = "no" THEN faults ELSE faults \cup {"torn"}
        PROVE  LogInv'
    <3> PICK n : n = Len(events) + 1
      OBVIOUS
    <3>1. /\ DOMAIN events' = DOMAIN events \cup {n} /\ Len(events') = n /\ events'[n] = p
          /\ \A i \in DOMAIN events : events'[i] = events[i]
          /\ Len(events) \in Nat
      BY <2>2 DEF TypeOK
    <3>2. Whole(events)' <=> Whole(events) /\ p.cut = "no"
      BY <3>1 DEF Whole
    <3>3. faults' = {} => \A e \in 1..shown' : \E i \in DOMAIN events' : events'[i].event = e
      <4> SUFFICES ASSUME faults' = {}, NEW e \in 1..shown'
                   PROVE  \E i \in DOMAIN events' : events'[i].event = e
        OBVIOUS
      <4>1. CASE e = shown'
        BY <2>2, <3>1, <4>1
      <4>2. CASE e # shown'
        <5>1. faults = {} /\ e \in 1..shown
          BY <1>1, <2>2, <4>2
        <5>2. PICK i \in DOMAIN events : events[i].event = e
          BY <5>1 DEF LogInv
        <5> QED BY <3>1, <5>2
      <4> QED BY <4>1, <4>2
    <3>4. "torn" \notin faults' <=> "torn" \notin faults /\ p.cut = "no"
      BY <2>2
    <3> QED BY <1>1, <3>1, <3>2, <3>3, <3>4 DEF LogInv
  <2> QED BY <1>2, <2>1, <2>2
<1>5. Team' = Team /\ Meta' = Meta
  BY DEF Team, Meta, Load
<1>6. FileInv'
  <2>1. 1..shown \subseteq 1..shown' /\ shown' \in 1..shown'
    BY <1>1
  <2>2. hist' \cup (Team.work)' \subseteq 1..shown' /\ hist \subseteq hist'
    BY <1>5, <2>1 DEF FileInv
  <2>3. pc' = "up" /\ faults \subseteq faults' /\ json' = json
    BY <1>2
  <2> QED BY <1>5, <2>2, <2>3 DEF FileInv
<1>7. OrderInv'
  BY <1>5 DEF OrderInv
<1> QED BY <1>3, <1>4, <1>6, <1>7

(* _atomic_write is called with new contents.                              *)
LEMMA SaveSpecialistsKeeps ==
  ASSUME StoreInv, SaveSpecialists
  PROVE  StoreInv'
<1> USE DEF StoreInv, SaveSpecialists, AtomicWrite
<1>1. tmp'.doc = [pending |-> FALSE, work |-> hist] /\ tmp'.state = "none" /\ tmp' \in File
  BY DEF Empty, TypeOK, File, Doc
<1>2. TypeOK'
  BY <1>1 DEF TypeOK, Names
<1>3. LogInv'
  BY LogKept
<1>4. Team' = Team /\ Meta' = Meta
  BY DEF Team, Meta, Load
<1>5. FileInv'
  BY <1>1, <1>4 DEF FileInv
<1>6. OrderInv'
  BY <1>4 DEF OrderInv
<1> QED BY <1>2, <1>3, <1>5, <1>6

LEMMA QuestionKeeps ==
  ASSUME StoreInv, NEW readable \in BOOLEAN, NEW asked \in BOOLEAN, Question(readable, asked)
  PROVE  StoreInv'
<1> USE DEF StoreInv, Question, AtomicWrite, ReadFault
<1> PICK doc : doc = Load("meta", readable)
  OBVIOUS
<1>1. doc \in Doc /\ tmp'.doc = [doc EXCEPT !.pending = asked] /\ tmp'.state = "none"
  BY LoadTyped DEF Names
<1>2. tmp' \in File /\ tmp'.doc.work = doc.work /\ tmp'.doc.pending = asked
  BY <1>1 DEF File, Doc
<1>3. TypeOK'
  BY <1>2 DEF TypeOK, Names
<1>4. LogInv'
  BY LogKept
<1>5. Team' = Team /\ Meta' = Meta
  BY DEF Team, Meta, Load
<1>6. readable => doc = Meta
  BY DEF Meta
<1>7. FileInv'
  BY <1>1, <1>2, <1>5, <1>6 DEF FileInv
<1>8. OrderInv'
  BY <1>2, <1>5, <1>6 DEF OrderInv
<1> QED BY <1>3, <1>4, <1>7, <1>8

LEMMA AccountKeeps ==
  ASSUME StoreInv, NEW readable \in BOOLEAN, Account(readable)
  PROVE  StoreInv'
<1> USE DEF StoreInv, Account, AtomicWrite, ReadFault
<1> PICK doc : doc = Load("meta", readable)
  OBVIOUS
<1>1. doc \in Doc /\ tmp'.doc = [doc EXCEPT !.work = hist] /\ tmp'.state = "none"
  BY LoadTyped DEF Names
<1>2. tmp' \in File /\ tmp'.doc.work = hist /\ tmp'.doc.pending = doc.pending
  BY <1>1 DEF File, Doc, TypeOK
<1>3. TypeOK'
  BY <1>2 DEF TypeOK, Names
<1>4. LogInv'
  BY LogKept
<1>5. Team' = Team /\ Meta' = Meta
  BY DEF Team, Meta, Load
<1>6. readable => doc = Meta
  BY DEF Meta
<1>7. FileInv'
  BY <1>1, <1>2, <1>5, <1>6 DEF FileInv
<1>8. OrderInv'
  BY <1>2, <1>5 DEF OrderInv
<1> QED BY <1>3, <1>4, <1>7, <1>8

(* The temporary file is opened, or is written.                            *)
LEMMA TmpKeeps ==
  ASSUME StoreInv, NEW n \in Names, OpenTmp(n) \/ WriteTmp(n)
  PROVE  StoreInv'
<1> USE DEF StoreInv
<1>1. UNCHANGED <<events, json, pc, hist, shown, faults>>
  BY DEF OpenTmp, WriteTmp
<1>2. tmp' \in File /\ tmp'.doc = tmp.doc
  BY DEF OpenTmp, WriteTmp, TypeOK, File
<1>3. TypeOK'
  BY <1>1, <1>2 DEF TypeOK
<1>4. LogInv'
  BY <1>1, LogKept
<1>5. Team' = Team /\ Meta' = Meta
  BY <1>1 DEF Team, Meta, Load
<1>6. FileInv' /\ OrderInv'
  BY <1>1, <1>2, <1>5 DEF FileInv, OrderInv
<1> QED BY <1>3, <1>4, <1>6

LEMMA MissingTyped == Missing \in File /\ Missing.doc = Empty /\ Empty.work = {}
BY DEF Missing, File, Doc, Empty

LEMMA ReplaceKeeps ==
  ASSUME StoreInv, NEW n \in Names, Replace(n)
  PROVE  StoreInv'
<1> USE DEF StoreInv, Replace, Done
<1>1. /\ pc = n /\ tmp.state = "whole" /\ json'[n] = tmp
      /\ \A m \in Names \ {n} : json'[m] = json[m]
      /\ json' \in [Names -> File]
  BY DEF TypeOK
<1>2. TypeOK'
  BY <1>1, MissingTyped DEF TypeOK, Names
<1>3. LogInv'
  BY LogKept
<1>4. CASE n = "team"
  <2>1. Team' = tmp.doc /\ Meta' = Meta /\ tmp.doc.work = hist
    BY <1>1, <1>4 DEF Team, Meta, Load, Names, FileInv
  <2>2. FileInv'
    BY <1>1, <1>4, <2>1, MissingTyped DEF FileInv
  <2>3. OrderInv'
    BY <1>1, <1>4, <2>1 DEF OrderInv, FileInv
  <2> QED BY <1>2, <1>3, <2>2, <2>3
<1>5. CASE n = "meta"
  <2>1. Team' = Team /\ Meta' = tmp.doc
    BY <1>1, <1>5 DEF Team, Meta, Load, Names
  <2>2. FileInv'
    BY <1>1, <1>5, <2>1, MissingTyped DEF FileInv
  <2>3. OrderInv'
    BY <1>1, <1>5, <2>1 DEF OrderInv
  <2> QED BY <1>2, <1>3, <2>2, <2>3
<1> QED BY <1>4, <1>5 DEF Names

LEMMA WriteFailsKeeps ==
  ASSUME StoreInv, NEW n \in Names, WriteFails(n)
  PROVE  StoreInv'
<1> USE DEF StoreInv, WriteFails, Done, WriteFault
<1>1. TypeOK'
  BY MissingTyped DEF TypeOK, Names
<1>2. LogInv'
  BY LogKept
<1>3. Team' = Team /\ Meta' = Meta
  BY DEF Team, Meta, Load
<1>4. FileInv' /\ OrderInv'
  BY <1>3, MissingTyped DEF FileInv, OrderInv, Names
<1> QED BY <1>1, <1>2, <1>4

LEMMA DieKeeps ==
  ASSUME StoreInv, Die
  PROVE  StoreInv'
<1> USE DEF StoreInv, Die
<1>1. TypeOK'
  BY MissingTyped DEF TypeOK
<1>2. LogInv'
  BY LogKept
<1>3. Team' = Team /\ Meta' = Meta
  BY DEF Team, Meta, Load
<1>4. FileInv' /\ OrderInv'
  BY <1>3, MissingTyped DEF FileInv, OrderInv
<1> QED BY <1>1, <1>2, <1>4

LEMMA NextKeeps == StoreInv /\ [Next]_vars => StoreInv'
<1> SUFFICES ASSUME StoreInv, [Next]_vars PROVE StoreInv'
  OBVIOUS
<1>1. CASE Show \/ SaveSpecialists \/ Die
  BY <1>1, ShowKeeps, SaveSpecialistsKeeps, DieKeeps
<1>2. ASSUME NEW readable \in BOOLEAN,
             \/ Open(readable) \/ Account(readable)
             \/ \E asked \in BOOLEAN : Question(readable, asked)
      PROVE  StoreInv'
  BY <1>2, OpenKeeps, AccountKeeps, QuestionKeeps
<1>3. ASSUME NEW n \in Names, OpenTmp(n) \/ WriteTmp(n) \/ Replace(n) \/ WriteFails(n)
      PROVE  StoreInv'
  BY <1>3, TmpKeeps, ReplaceKeeps, WriteFailsKeeps
<1>4. CASE UNCHANGED vars
  BY <1>4 DEF vars, StoreInv, TypeOK, LogInv, Whole, FileInv, OrderInv, Team, Meta, Load
<1> QED BY <1>1, <1>2, <1>3, <1>4 DEF Next

LEMMA StoreInvHolds == Spec => []StoreInv
BY InitStoreInv, NextKeeps, PTL DEF Spec

-----------------------------------------------------------------------------
(* Theorems.                                                               *)

(* The files, the temporary file and the process keep their types          *)
(* (app/session_store.py).                                                 *)
THEOREM StoreTypeCorrect == Spec => []TypeOK
<1>1. StoreInv => TypeOK
  BY DEF StoreInv
<1> QED BY <1>1, StoreInvHolds, PTL

(* Wherever the process dies between the writes of events.jsonl,           *)
(* specialists.json and meta.json: if none failed, the accounts cover only *)
(* work the team remembers, and that only work the replay shows.           *)
THEOREM StoresStayInOrder == Spec => []StoresInOrder
<1>1. StoreInv => StoresInOrder
  <2> SUFFICES ASSUME StoreInv, faults = {}
               PROVE  /\ Meta.work \subseteq Team.work
                      /\ \A e \in Team.work : \E i \in DOMAIN Replayed : Replayed[i] = e
    BY DEF StoresInOrder, Meta, Team
  <2>1. Meta.work \subseteq Team.work /\ Team.work \subseteq 1..shown /\ Whole(events)
    BY DEF StoreInv, OrderInv, FileInv, LogInv
  <2>2. events \in Seq(Piece)
    BY DEF StoreInv, TypeOK
  <2>3. Last(events) = Len(events)
    <3>1. Len(events) \in Readable(events)
      BY <2>1, <2>2 DEF Readable, Parses, OwnLine, Decodes, Whole
    <3> QED BY <2>2, <3>1, LastIs DEF Readable
  <2>4. DOMAIN Replayed = DOMAIN events /\ \A i \in DOMAIN events : Replayed[i] = events[i].event
    BY <2>2, <2>3 DEF Replayed, Replay
  <2> QED BY <2>1, <2>4 DEF StoreInv, LogInv
<1> QED BY <1>1, StoreInvHolds, PTL

(* What a reader finds in the files keeps the promise of DurableStore: the *)
(* log only grows, JSON files change in one piece, and every fault costs   *)
(* at most what the promise says.                                          *)
LEMMA InitRefines == Init => Store!StoreInit
<1> SUFFICES ASSUME Init PROVE Store!StoreInit
  OBVIOUS
<1>1. Load("team", TRUE) = Empty /\ Load("meta", TRUE) = Empty
  BY DEF Init, Load, Missing, Names
<1>2. Replayed = <<>>
  <2>1. events \in Seq(Piece) /\ Len(events) = 0
    BY DEF Init
  <2>2. Last(events) \in 0..Len(events) /\ Replay(events) \in Seq(Events)
        /\ Len(Replay(events)) = Last(events)
    BY <2>1, ReplayIs
  <2>3. Len(Replay(events)) = 0
    BY <2>1, <2>2
  <2> QED BY <2>2, <2>3 DEF Replayed
<1>3. Load("team", TRUE).work = {} /\ Load("meta", TRUE) = [pending |-> FALSE, work |-> {}]
  <2>1. Load("team", TRUE).work = {}
    BY <1>1, MissingTyped
  <2>2. Load("meta", TRUE) = [pending |-> FALSE, work |-> {}]
    BY <1>1 DEF Empty
  <2> QED BY <2>1, <2>2
<1>4. shown = 0 /\ faults = {}
  BY DEF Init
<1> QED BY <1>2, <1>3, <1>4 DEF Store!StoreInit

LEMMA StepRefines == StoreInv /\ [Next]_vars => [Store!StoreNext]_(Store!storeVars)
<1> SUFFICES ASSUME StoreInv, [Next]_vars PROVE Store!StoreNext \/ UNCHANGED Store!storeVars
  OBVIOUS
<1> USE DEF Store!StoreNext, Store!storeVars
<1>1. ASSUME UNCHANGED events PROVE Replayed' = Replayed
  BY <1>1 DEF Replayed
<1>2. ASSUME UNCHANGED json PROVE Load("team", TRUE)' = Load("team", TRUE) /\ Load("meta", TRUE)' = Load("meta", TRUE)
  BY <1>2 DEF Load
<1>3. CASE Show
  <2>1. /\ shown' = shown + 1 /\ faults \subseteq faults' /\ UNCHANGED json
    BY <1>3 DEF Show, WriteFault
  <2>2. \/ Replayed' = Append(Replayed, shown') /\ "torn" \notin faults
        \/ Replayed' = Replayed /\ faults' \cap {"lost", "torn"} # {}
        \/ Store!IsStrictPrefix(Replayed', Replayed) /\ "torn" \in faults'
    <3>1. CASE events' = events /\ faults' = faults \cup {"lost"}
      BY <1>1, <3>1
    <3>2. ASSUME NEW p \in Piece, p.event = shown', events' = Append(events, p),
                 faults' = IF p.cut = "no" THEN faults ELSE faults \cup {"torn"}
          PROVE  \/ Replayed' = Append(Replayed, shown') /\ "torn" \notin faults
                 \/ Replayed' = Replayed /\ faults' \cap {"lost", "torn"} # {}
                 \/ Store!IsStrictPrefix(Replayed', Replayed) /\ "torn" \in faults'
      <4>1. events \in Seq(Piece) /\ (Whole(events) <=> "torn" \notin faults)
        BY DEF StoreInv, TypeOK, LogInv
      <4>2. ~Whole(events) \/ p.cut # "no" => "torn" \in faults'
        BY <3>2, <4>1
      <4>3. Replayed' = Replay(Append(events, p))
        BY <3>2 DEF Replayed
      <4>4. \/ Whole(events) /\ Replayed' = Append(Replayed, p.event)
            \/ /\ ~Whole(events) \/ p.cut # "no"
               /\ Replayed' = Replayed \/ Store!IsStrictPrefix(Replayed', Replayed)
        BY <4>1, <4>3, ReplayAfterAppend DEF Replayed
      <4> QED BY <3>2, <4>1, <4>2, <4>4
    <3> QED BY <1>3, <3>1, <3>2, PieceShown
  <2> QED BY <1>2, <2>1, <2>2 DEF Store!Show
<1>4. ASSUME NEW n \in Names, Replace(n) PROVE Store!StoreNext
  <2>1. UNCHANGED <<events, shown, faults>> /\ pc = n /\ tmp.state = "whole"
        /\ json'[n] = tmp /\ \A m \in Names \ {n} : json'[m] = json[m]
    BY <1>4 DEF Replace, StoreInv, TypeOK
  <2>2. CASE n = "team"
    <3>1. Load("meta", TRUE)' = Load("meta", TRUE) /\ Load("team", TRUE)' = tmp.doc
      BY <2>1, <2>2 DEF Load, Names
    <3>2. tmp.doc.work = hist /\ ("unread" \notin faults => Load("team", TRUE).work \subseteq hist)
      BY <2>1, <2>2 DEF StoreInv, FileInv, Team
    <3> QED BY <1>1, <2>1, <3>1, <3>2 DEF Store!Save
  <2>3. CASE n = "meta"
    <3>1. Load("team", TRUE)' = Load("team", TRUE) /\ Load("meta", TRUE)' = tmp.doc
      BY <2>1, <2>3 DEF Load, Names
    <3>2. "unread" \notin faults =>
            \/ tmp.doc = [Load("meta", TRUE) EXCEPT !.pending = tmp.doc.pending]
            \/ tmp.doc = [Load("meta", TRUE) EXCEPT !.work = tmp.doc.work]
      BY <2>1, <2>3 DEF StoreInv, FileInv, Meta
    <3> QED BY <1>1, <2>1, <3>1, <3>2 DEF Store!Update
  <2> QED BY <2>2, <2>3 DEF Names
<1>5. ASSUME UNCHANGED <<events, json, shown>>, faults \subseteq faults' PROVE Store!StoreNext
  BY <1>1, <1>2, <1>5 DEF Store!Fail
<1>6. CASE SaveSpecialists \/ Die
  BY <1>5, <1>6 DEF SaveSpecialists, Die
<1>7. ASSUME NEW readable \in BOOLEAN,
             \/ Open(readable) \/ Account(readable)
             \/ \E asked \in BOOLEAN : Question(readable, asked)
      PROVE  Store!StoreNext
  BY <1>5, <1>7 DEF Open, Account, Question, ReadFault
<1>8. ASSUME NEW n \in Names, OpenTmp(n) \/ WriteTmp(n) \/ WriteFails(n) PROVE Store!StoreNext
  BY <1>5, <1>8 DEF OpenTmp, WriteTmp, WriteFails, WriteFault
<1>9. CASE UNCHANGED vars
  BY <1>1, <1>2, <1>9 DEF vars
<1> QED BY <1>3, <1>4, <1>6, <1>7, <1>8, <1>9 DEF Next

(* SessionStore implements DurableStore (session_store.py:10-11, 164).     *)
THEOREM KeepsItsPromise == Spec => ImplementsStore
<1>1. Init => Store!StoreInit
  BY InitRefines
<1>2. StoreInv /\ [Next]_vars => [Store!StoreNext]_(Store!storeVars)
  BY StepRefines
<1> QED BY <1>1, <1>2, StoreInvHolds, PTL DEF Spec, ImplementsStore, Store!StoreSpec

==============================================================================
