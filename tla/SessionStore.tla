---------------------------- MODULE SessionStore ----------------------------
(***************************************************************************)
(* The files of one saved session (app/session_store.py) under failing     *)
(* reads, failing and torn writes, and a process that may die between any  *)
(* two system calls; and the order in which a WebSocket handler            *)
(* (app/server.py) writes them.                                            *)
(*                                                                         *)
(* Errors are swallowed: a read that fails gives an empty value, and a     *)
(* write that fails is not repeated.  Everything here runs without an      *)
(* await, so only the death of the process separates two steps.            *)
(***************************************************************************)
EXTENDS Integers, Sequences

CONSTANT MaxEvents    \* bound of the model: events in one behaviour

ASSUME StoreAssumption == MaxEvents \in Nat

Events == 1..MaxEvents

(* One append_event, as it is found in events.jsonl: a whole line, or one  *)
(* that was cut before its newline, inside its JSON text, or inside a      *)
(* multi-byte character.  Text is decoded by the chunk: `before' counts    *)
(* the lines that are in chunks before the one with that character.        *)
Piece == [event : Events, cut : {"no", "newline", "json", "char"}, before : 0..MaxEvents]

(* The contents of meta.json: pending_question, which stands for the title *)
(* and the language too, and the work that its metrics account for; and of *)
(* specialists.json: the work.  A piece of work is named by the event that *)
(* showed it.                                                              *)
Doc == [pending : BOOLEAN, work : SUBSET Events]

Empty == [pending |-> FALSE, work |-> {}]

Missing == [state |-> "none", doc |-> Empty]

Names == {"meta", "team"}

VARIABLES
  events,    \* events.jsonl
  json,      \* meta.json and specialists.json
  tmp,       \* the temporary file that is being written
  pc,        \* where the process is; a name: in _atomic_write of that file
  hist,      \* the team's work in the process
  shown,     \* history variable: events shown so far
  faults     \* history variable: kinds of failures so far

vars == <<events, json, tmp, pc, hist, shown, faults>>

File == [state : {"none", "half", "whole"}, doc : Doc]

TypeOK ==
  /\ events \in Seq(Piece)
  /\ json \in [Names -> File]
  /\ tmp \in File
  /\ pc \in {"down", "up", "account"} \cup Names
  /\ hist \subseteq Events
  /\ shown \in 0..MaxEvents
  /\ faults \subseteq {"lost", "torn", "unread"}

Init ==
  /\ events = <<>>
  /\ json = [n \in Names |-> Missing]
  /\ tmp = Missing
  /\ pc = "down"
  /\ hist = {}
  /\ shown = 0
  /\ faults = {}

-----------------------------------------------------------------------------
(* Reading.                                                                *)

(* read_events stops at the first line that is not one JSON text, or with  *)
(* the first chunk that is not text; an incomplete character at the very   *)
(* end is just an incomplete line.                                         *)
OwnLine(log, i) == i = 1 \/ log[i - 1].cut = "no"

Parses(log, i) ==
  /\ OwnLine(log, i)
  /\ log[i].cut = "no" \/ (log[i].cut = "newline" /\ i = Len(log))

Decodes(log, i) ==
  \A j \in 1..Len(log) - 1 : log[j].cut = "char" => i <= log[j].before

Readable(log) ==
  {n \in 0..Len(log) : \A i \in 1..n : Parses(log, i) /\ Decodes(log, i)}

Last(log) ==
  LET good == Readable(log) IN CHOOSE n \in good : \A m \in good : m <= n

Replay(log) == [i \in 1..Last(log) |-> log[i].event]

Replayed == Replay(events)

(* load_meta, load_specialists: no file, a file that does not parse, or an *)
(* error: nothing.                                                         *)
Load(n, readable) == IF readable /\ json[n].state = "whole" THEN json[n].doc ELSE Empty

ReadFault(readable) == faults' = IF readable THEN faults ELSE faults \cup {"unread"}

(* A connection is opened.                                                 *)
Open(readable) ==
  /\ pc = "down"
  /\ pc' = "up"
  /\ hist' = Load("team", readable).work
  /\ ReadFault(readable)
  /\ UNCHANGED <<events, json, tmp, shown>>

-----------------------------------------------------------------------------
(* Writing.                                                                *)

WriteFault(kind) == faults' = faults \cup {kind}

(* An event of the team is shown, and then appended.  The write may fail,  *)
(* or be torn: the disk is full, or the process dies between two blocks.   *)
Show ==
  /\ pc = "up"
  /\ shown < MaxEvents
  /\ shown' = shown + 1
  /\ hist' = hist \cup {shown'}
  /\ \/ events' = Append(events, [event |-> shown', cut |-> "no", before |-> 0])
        /\ UNCHANGED faults
     \/ UNCHANGED events /\ WriteFault("lost")
     \/ \E c \in {"newline", "json", "char"}, b \in 0..Len(events) :
          /\ c # "char" => b = 0
          /\ events' = Append(events, [event |-> shown', cut |-> c, before |-> b])
          /\ WriteFault("torn")
  /\ UNCHANGED <<json, tmp, pc>>

(* _atomic_write is called; its temporary file is not open yet.            *)
AtomicWrite(n, content) == pc' = n /\ tmp' = [state |-> "none", doc |-> content]

(* The end of a turn: save_specialists.                                    *)
SaveSpecialists ==
  /\ pc = "up"
  /\ AtomicWrite("team", [Empty EXCEPT !.work = hist])
  /\ UNCHANGED <<events, json, hist, shown, faults>>

(* update_meta: load, merge, write.                                        *)
Question(readable, asked) ==
  /\ pc = "up"
  /\ AtomicWrite("meta", [Load("meta", readable) EXCEPT !.pending = asked])
  /\ ReadFault(readable)
  /\ UNCHANGED <<events, json, hist, shown>>

(* Mutants: the rest of meta.json is not written back; the accounts are    *)
(* updated before the histories are saved.                                 *)
AccountAlone(readable) ==
  /\ pc = "account"
  /\ AtomicWrite("meta", [Empty EXCEPT !.work = hist])
  /\ ReadFault(readable)
  /\ UNCHANGED <<events, json, hist, shown>>

AccountFirst(readable) ==
  /\ pc = "up"
  /\ AtomicWrite("meta", [Load("meta", readable) EXCEPT !.work = hist])
  /\ ReadFault(readable)
  /\ UNCHANGED <<events, json, hist, shown>>

(* The same, after save_specialists, when no question is open.             *)
Account(readable) ==
  /\ pc = "account"
  /\ AtomicWrite("meta", [Load("meta", readable) EXCEPT !.work = hist])
  /\ ReadFault(readable)
  /\ UNCHANGED <<events, json, hist, shown>>

(* Mutant: the file itself is opened.                                      *)
OpenInPlace(n) ==
  /\ pc = n
  /\ tmp.state = "none"
  /\ tmp' = [tmp EXCEPT !.state = "half"]
  /\ json' = [json EXCEPT ![n] = tmp']
  /\ UNCHANGED <<events, pc, hist, shown, faults>>

(* The steps of _atomic_write.                                             *)
OpenTmp(n) ==
  /\ pc = n
  /\ tmp.state = "none"
  /\ tmp' = [tmp EXCEPT !.state = "half"]
  /\ UNCHANGED <<events, json, pc, hist, shown, faults>>

WriteTmp(n) ==
  /\ pc = n
  /\ tmp.state = "half"
  /\ tmp' = [tmp EXCEPT !.state = "whole"]
  /\ UNCHANGED <<events, json, pc, hist, shown, faults>>

(* What the handler does next; a temporary file that is left is never read.*)
Done(n) ==
  /\ pc' \in {"up"} \cup IF n = "team" THEN {"account"} ELSE {}
  /\ tmp' = Missing

Replace(n) ==
  /\ pc = n
  /\ tmp.state = "whole"
  /\ json' = [json EXCEPT ![n] = tmp]
  /\ Done(n)
  /\ UNCHANGED <<events, hist, shown, faults>>

(* Any of the three fails; the exception is swallowed.                     *)
WriteFails(n) ==
  /\ pc = n
  /\ Done(n)
  /\ WriteFault("lost")
  /\ UNCHANGED <<events, json, hist, shown>>

(* The process dies, or the connection ends.                               *)
Die ==
  /\ pc # "down"
  /\ pc' = "down"
  /\ hist' = {}
  /\ tmp' = Missing
  /\ UNCHANGED <<events, json, shown, faults>>

-----------------------------------------------------------------------------
Next ==
  \/ Show \/ SaveSpecialists \/ Die
  \/ \E readable \in BOOLEAN :
       \/ Open(readable) \/ Account(readable)
       \/ \E asked \in BOOLEAN : Question(readable, asked)
  \/ \E n \in Names : OpenTmp(n) \/ WriteTmp(n) \/ Replace(n) \/ WriteFails(n)

Spec == Init /\ [][Next]_vars

-----------------------------------------------------------------------------
(* meta.json, specialists.json and events.jsonl are three writes.  Where   *)
(* no read or write failed, the process may die between any two of them    *)
(* and the accounts still cover only work that the team remembers, and the *)
(* team remembers only work that the log shows.                            *)
StoresInOrder ==
  faults = {} =>
    /\ Load("meta", TRUE).work \subseteq Load("team", TRUE).work
    /\ \A e \in Load("team", TRUE).work : \E i \in DOMAIN Replayed : Replayed[i] = e

(* What a reader finds in the files keeps the promise of DurableStore; "a  *)
(* crash never leaves a half-written JSON file" (session_store.py:164).    *)
Store == INSTANCE DurableStore WITH
  log <- Replayed, team <- Load("team", TRUE).work, meta <- Load("meta", TRUE)

ImplementsStore == Store!StoreSpec

(* "no chat from the PM or the team is ever lost" (session_store.py:10-11):*)
(* what was written to the log in full is replayed.                        *)
WrittenIsReplayed ==
  \A i \in DOMAIN events : events[i].cut = "no" =>
    \E j \in DOMAIN Replayed : Replayed[j] = events[i].event
=============================================================================
