------------------------------ MODULE FileTools ------------------------------
(***************************************************************************)
(* The file tools of the specialists (app/agent.py) on the workspace of    *)
(* one session: the ownership check in the tool loop, the resolution of a  *)
(* path, and the system calls of write_code_file.  The other tools only    *)
(* read.                                                                   *)
(*                                                                         *)
(* LangChain runs a tool on a thread of its own.  The specialists of one   *)
(* PM message work at the same time, so the calls of their tools on one    *)
(* file can be interleaved between any two system calls.                   *)
(***************************************************************************)
EXTENDS Integers, Sequences, SequencesExt

CONSTANTS
  Threads,      \* tool calls at one time
  FilePaths,    \* the paths that LLMs write
  \* bound of the model
  MaxWrites     \* write_code_file calls in one behaviour

(* A path: its segments after backslashes have become slashes and empty    *)
(* segments are gone; and whether it starts with a drive or with `//'.     *)
FilePath == [segments : Seq(STRING), drive : BOOLEAN]

ASSUME FilesAssumption ==
  /\ MaxWrites \in Nat
  /\ \A p \in FilePaths : p \in FilePath

(* _WRITE_ZONES: folders, and single files.                                *)
Folders ==
  [ba |-> {"docs"}, frontend |-> {"frontend"}, backend |-> {"backend"}, qa |-> {}]

Common == {<<"README.md">>, <<".env.example">>}

Contract == <<"docs", "API_CONTRACT.md">>

Files ==
  [ba |-> {}, frontend |-> Common, backend |-> Common \cup {Contract}, qa |-> {}]

Agents == DOMAIN Folders

VARIABLES
  disk,       \* path -> the writes whose text is in the file, {} if it is empty
  thread,     \* what each thread is doing
  reply,      \* the last result of each thread
  author,     \* write -> the agent and the path it was called with
  \* history variables
  last,       \* path -> the last write of it that returned OK
  disturbed   \* files of which two writes overlapped, or the last one failed

vars == <<disk, thread, reply, author, last, disturbed>>

Writes == 1..Len(author)

Idle == [pc |-> "idle", path |-> <<>>, write |-> 0]

Init ==
  /\ disk = <<>>
  /\ thread = [t \in Threads |-> Idle]
  /\ reply = [t \in Threads |-> "none"]
  /\ author = <<>>
  /\ last = <<>>
  /\ disturbed = {}

-----------------------------------------------------------------------------
(* The checks.                                                             *)

(* Mutant: a zone matches what begins like it, the app folder or not.      *)
InSomeZone(a, segments) ==
  \E i \in DOMAIN segments : segments[i] \in Folders[a]

(* _zone_error: the first segment is the app folder; what follows lies in  *)
(* a folder of the agent's, or is one of its files.                        *)
InZone(a, segments) ==
  /\ Len(segments) >= 2
  /\ \/ Len(segments) > 2 /\ segments[2] \in Folders[a]
     \/ Tail(segments) \in Files[a]

(* os.path.abspath of the segments under the session's root.               *)
Root == <<"workspace", "session">>

Enter(dir, s) == CASE s = "."  -> dir
                   [] s = ".." -> IF dir = <<>> THEN dir ELSE Front(dir)
                   [] OTHER    -> Append(dir, s)

Resolved(p) ==
  LET walk[i \in 0..Len(p.segments)] ==
        IF i = 0 THEN Root ELSE Enter(walk[i - 1], p.segments[i])
  IN walk[Len(p.segments)]

(* Where the calls lead; a thread that is idle has no path.                *)
Targets == {Resolved(p) : p \in FilePaths} \cup {<<>>}

TypeOK ==
  /\ author \in Seq([agent : Agents, path : FilePaths])
  /\ thread \in [Threads -> [pc : {"idle", "open", "write"}, path : Targets, write : Nat]]
  /\ reply \in [Threads -> {"none", "OK", "FAILED"}]
  /\ disk \in [DOMAIN disk -> SUBSET Nat]
  /\ last \in [DOMAIN last -> Nat]
  /\ DOMAIN last \subseteq DOMAIN disk
  /\ DOMAIN disk \subseteq Targets

(* _safe_path.                                                             *)
Inside(p) == ~p.drive /\ IsPrefix(Root, Resolved(p))

-----------------------------------------------------------------------------
(* write_code_file.                                                        *)

Reply(t, r) == reply' = [reply EXCEPT ![t] = r]

Return(t, r) == thread' = [thread EXCEPT ![t] = Idle] /\ Reply(t, r)

(* The tool loop asks _zone_error, the tool _safe_path.                    *)
Refuse(t, a, p) ==
  /\ thread[t].pc = "idle"
  /\ ~(InZone(a, p.segments) /\ Inside(p))
  /\ Reply(t, "FAILED")
  /\ UNCHANGED <<disk, thread, author, last, disturbed>>

CallWrite(t, a, p) ==
  /\ thread[t].pc = "idle"
  /\ InZone(a, p.segments)
  /\ Inside(p)
  /\ Len(author) < MaxWrites
  /\ author' = Append(author, [agent |-> a, path |-> p])
  /\ thread' = [thread EXCEPT ![t] =
       [pc |-> "open", path |-> Resolved(p), write |-> Len(author')]]
  /\ Reply(t, "none")
  /\ UNCHANGED <<disk, last, disturbed>>

Set(f, k, v) == [x \in DOMAIN f \cup {k} |-> IF x = k THEN v ELSE f[x]]

IsFolder(path) == path = Root \/ \E f \in DOMAIN disk : IsStrictPrefix(path, f)
BelowFile(path) == \E f \in DOMAIN disk : IsStrictPrefix(f, path)

Others(t) ==
  {thread[u].path : u \in {v \in Threads \ {t} : thread[v].pc = "write"}}

(* makedirs and open: the file is there, and empty.                        *)
OpenFile(t) ==
  LET path == thread[t].path IN
  /\ thread[t].pc = "open"
  /\ ~IsFolder(path) /\ ~BelowFile(path)
  /\ disk' = Set(disk, path, {})
  /\ thread' = [thread EXCEPT ![t].pc = "write"]
  /\ disturbed' = (disturbed \ {path}) \cup (Others(t) \cap {path})
  /\ UNCHANGED <<reply, author, last>>

(* A folder has that name, a file is in the way, or the system refuses.    *)
OpenFails(t) ==
  /\ thread[t].pc = "open"
  /\ Return(t, "FAILED")
  /\ UNCHANGED <<disk, author, last, disturbed>>

(* Mutant: the file is opened for appending.                               *)
AppendText(t) ==
  LET path == thread[t].path IN
  /\ thread[t].pc = "write"
  /\ disk' = [disk EXCEPT ![path] = @ \cup {thread[t].write} \cup
                IF path \in DOMAIN last THEN {last[path]} ELSE {}]
  /\ last' = Set(last, path, thread[t].write)
  /\ Return(t, "OK")
  /\ UNCHANGED <<author, disturbed>>

(* The text is written from the start of the file: over what another       *)
(* thread has written since it was opened, whose end may stay behind it.   *)
WriteText(t) ==
  LET path == thread[t].path
      text == {thread[t].write}
  IN
  /\ thread[t].pc = "write"
  /\ \E rest \in {{}, disk[path]} : disk' = [disk EXCEPT ![path] = text \cup rest]
  /\ last' = Set(last, path, thread[t].write)
  /\ Return(t, "OK")
  /\ UNCHANGED <<author, disturbed>>

(* The text cannot be encoded, or the disk is full.                        *)
WriteFails(t) ==
  /\ thread[t].pc = "write"
  /\ Return(t, "FAILED")
  /\ disturbed' = disturbed \cup {thread[t].path}
  /\ UNCHANGED <<disk, author, last>>

Next ==
  \E t \in Threads :
    \/ \E a \in Agents, p \in FilePaths : Refuse(t, a, p) \/ CallWrite(t, a, p)
    \/ OpenFile(t) \/ OpenFails(t) \/ WriteText(t) \/ WriteFails(t)

Spec == Init /\ [][Next]_vars

-----------------------------------------------------------------------------
(* "Agents overwrite each other's files" (README.md:40): the paths of two  *)
(* agents meet in the files that both zones name, and nowhere else.  The   *)
(* zone is judged by the path as it was given, so this is about paths      *)
(* without a parent segment, whose first segment names the app folder.     *)
Straight(w) ==
  LET s == author[w].path.segments
  IN s[1] # "." /\ \A i \in DOMAIN s : s[i] # ".."

InApp(f) == SubSeq(f, Len(Root) + 2, Len(f))

OnlySharedFilesMeet ==
  \A v, w \in Writes :
    /\ Straight(v) /\ Straight(w)
    /\ Resolved(author[v].path) = Resolved(author[w].path)
    /\ author[v].agent # author[w].agent
    => InApp(Resolved(author[v].path)) \in Common \cup {Contract}

BeingWritten(f) == \E t \in Threads : thread[t].pc = "write" /\ thread[t].path = f

(* A file that no thread is writing has the text of the last write that    *)
(* was reported OK, and no other, unless that write overlapped another, or *)
(* a later one failed when it had opened the file.                         *)
LastWriteStands ==
  \A f \in DOMAIN disk \ disturbed :
    ~BeingWritten(f) => f \in DOMAIN last /\ disk[f] = {last[f]}
=============================================================================
