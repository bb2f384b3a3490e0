---------------------------- MODULE DurableStore ----------------------------
(***************************************************************************)
(* What app/session_store.py promises of one saved session, whatever it    *)
(* takes to keep it: the replay is what was shown, in order, and the team  *)
(* and the meta data change in one piece.  `faults' are the kinds of       *)
(* failures so far; each may cost what its action says, and nothing else.  *)
(***************************************************************************)
EXTENDS Integers, Sequences, SequencesExt

VARIABLES
  shown,    \* events shown to the browser: 1..shown
  log,      \* what a replay would show
  team,     \* the team's work in specialists.json
  meta,     \* meta.json: pending question, and the work accounted for
  faults    \* \subseteq {"lost", "torn", "unread"}

storeVars == <<shown, log, team, meta, faults>>

StoreInit ==
  /\ shown = 0
  /\ log = <<>>
  /\ team = {}
  /\ meta = [pending |-> FALSE, work |-> {}]
  /\ faults = {}

(* An event is appended, or lost in a failed write.  A torn write may cost *)
(* the events at the end of the replay, and those that come after it.      *)
Show ==
  /\ shown' = shown + 1
  /\ \/ log' = Append(log, shown') /\ "torn" \notin faults
     \/ log' = log /\ faults' \cap {"lost", "torn"} # {}
     \/ IsStrictPrefix(log', log) /\ "torn" \in faults'
  /\ UNCHANGED <<team, meta>>

(* The team's memory grows, unless it once could not be read.              *)
Save ==
  /\ team \subseteq team' \/ "unread" \in faults
  /\ UNCHANGED <<shown, log, meta>>

(* One entry changes, and the rest stays, unless it could not be read.     *)
Update ==
  /\ \/ meta' = [meta EXCEPT !.pending = meta'.pending]
     \/ meta' = [meta EXCEPT !.work = meta'.work]
     \/ "unread" \in faults
  /\ UNCHANGED <<shown, log, team>>

Fail == UNCHANGED <<shown, log, team, meta>>

StoreNext == faults \subseteq faults' /\ (Show \/ Save \/ Update \/ Fail)

StoreSpec == StoreInit /\ [][StoreNext]_storeVars
=============================================================================
