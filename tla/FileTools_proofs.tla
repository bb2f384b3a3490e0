--------------------------- MODULE FileTools_proofs ---------------------------
(***************************************************************************)
(* Theorems about FileTools, for any number of threads, any paths and any  *)
(* number of writes: the last write stands, and only the shared files are  *)
(* reached by two agents.  Where a path leads matters to the second only.  *)
(***************************************************************************)
EXTENDS FileTools, WellFoundedInduction, SequenceTheorems, TLAPS

Writing(t, f) == thread[t].pc = "write" /\ thread[t].path = f

(* A file that is open is there.  If it is undisturbed, a single thread    *)
(* has it open and it is empty, or it has the last text.                   *)
FileInv ==
  /\ \A t \in Threads : thread[t].pc = "write" => thread[t].path \in DOMAIN disk
  /\ \A f \in DOMAIN disk \ disturbed :
       /\ \A t, u \in Threads : Writing(t, f) /\ Writing(u, f) => t = u
       /\ \A t \in Threads : Writing(t, f) => disk[f] = {}
       /\ (\A t \in Threads : ~Writing(t, f)) => f \in DOMAIN last /\ disk[f] = {last[f]}

IInv == TypeOK /\ FileInv

LEMMA IdleTyped ==
  Idle \in [pc : {"idle", "open", "write"}, path : Targets, write : Nat]
BY DEF Idle, Targets

LEMMA InitIInv == Init => IInv
BY DEF Init, IInv, TypeOK, FileInv, Writing, Idle, Targets

LEMMA RefuseKeeps ==
  ASSUME IInv, NEW t \in Threads, NEW a \in Agents, NEW p \in FilePaths, Refuse(t, a, p)
  PROVE  IInv'
BY DEF IInv, TypeOK, FileInv, Writing, Refuse, Reply

LEMMA CallKeeps ==
  ASSUME IInv, NEW t \in Threads, NEW a \in Agents, NEW p \in FilePaths, CallWrite(t, a, p)
  PROVE  IInv'
<1>1. author' \in Seq([agent : Agents, path : FilePaths])
  BY DEF IInv, TypeOK, CallWrite
<1>2. TypeOK'
  BY <1>1 DEF IInv, TypeOK, CallWrite, Targets, Reply
<1>3. \A u \in Threads : thread'[u].pc = "write" => u # t /\ thread'[u] = thread[u]
  BY DEF IInv, TypeOK, CallWrite
<1>4. \A u \in Threads : thread[u].pc = "write" => thread'[u] = thread[u]
  BY DEF IInv, TypeOK, CallWrite
<1>5. FileInv'
  BY <1>3, <1>4 DEF IInv, FileInv, Writing, CallWrite
<1> QED BY <1>2, <1>5 DEF IInv

LEMMA OpenKeeps ==
  ASSUME IInv, NEW t \in Threads, OpenFile(t)
  PROVE  IInv'
<1> PICK path : path = thread[t].path
  OBVIOUS
<1>1. /\ thread[t].pc = "open"
      /\ disk' = Set(disk, path, {})
      /\ thread' = [thread EXCEPT ![t].pc = "write"]
      /\ disturbed' = (disturbed \ {path}) \cup (Others(t) \cap {path})
      /\ UNCHANGED <<reply, author, last>>
  BY DEF OpenFile
<1>2. /\ DOMAIN disk' = DOMAIN disk \cup {path}
      /\ disk'[path] = {}
      /\ \A x \in DOMAIN disk : x # path => disk'[x] = disk[x]
      /\ disk' = [x \in DOMAIN disk' |-> disk'[x]]
  BY <1>1 DEF Set
<1>3. TypeOK'
  <2>1. path \in Targets
    BY DEF IInv, TypeOK
  <2>2. disk' \in [DOMAIN disk' -> SUBSET Nat] /\ DOMAIN disk' \subseteq Targets
    BY <1>2, <2>1 DEF IInv, TypeOK
  <2>3. thread' \in [Threads -> [pc : {"idle", "open", "write"}, path : Targets, write : Nat]]
    BY <1>1 DEF IInv, TypeOK
  <2> QED BY <1>1, <1>2, <2>2, <2>3 DEF IInv, TypeOK, Targets
<1>4. /\ thread'[t].pc = "write" /\ thread'[t].path = path
      /\ \A u \in Threads \ {t} : thread'[u] = thread[u]
  BY <1>1 DEF IInv, TypeOK
<1>5. ASSUME NEW u \in Threads, thread'[u].pc = "write"
      PROVE  thread'[u].path \in DOMAIN disk'
  BY <1>2, <1>4, <1>5 DEF IInv, FileInv
<1>6. ASSUME NEW f \in DOMAIN disk' \ disturbed', f # path
      PROVE  /\ \A u, v \in Threads : Writing(u, f)' /\ Writing(v, f)' => u = v
             /\ \A u \in Threads : Writing(u, f)' => disk'[f] = {}
             /\ (\A u \in Threads : ~Writing(u, f)') => f \in DOMAIN last' /\ disk'[f] = {last'[f]}
  <2>1. f \in DOMAIN disk \ disturbed /\ disk'[f] = disk[f]
    BY <1>1, <1>2, <1>6
  <2>2. \A u \in Threads : Writing(u, f)' <=> Writing(u, f)
    BY <1>1, <1>4, <1>6 DEF Writing
  <2> QED BY <1>1, <2>1, <2>2 DEF IInv, FileInv
<1>7. ASSUME path \notin disturbed'
      PROVE  /\ \A u, v \in Threads : Writing(u, path)' /\ Writing(v, path)' => u = v
             /\ \A u \in Threads : Writing(u, path)' => disk'[path] = {}
             /\ \E u \in Threads : Writing(u, path)'
  <2>1. \A u \in Threads \ {t} : ~(thread[u].pc = "write" /\ thread[u].path = path)
    BY <1>1, <1>7 DEF Others
  <2>2. \A u \in Threads : Writing(u, path)' => u = t
    BY <1>4, <2>1 DEF Writing
  <2>3. Writing(t, path)'
    BY <1>4 DEF Writing
  <2> QED BY <1>2, <2>2, <2>3
<1>8. ASSUME NEW f \in DOMAIN disk' \ disturbed'
      PROVE  /\ \A u, v \in Threads : Writing(u, f)' /\ Writing(v, f)' => u = v
             /\ \A u \in Threads : Writing(u, f)' => disk'[f] = {}
             /\ (\A u \in Threads : ~Writing(u, f)') => f \in DOMAIN last' /\ disk'[f] = {last'[f]}
  <2>1. CASE f = path
    BY <1>7, <2>1
  <2>2. CASE f # path
    BY <1>6, <2>2
  <2> QED BY <2>1, <2>2
<1>9. FileInv'
  BY <1>5, <1>8 DEF FileInv
<1> QED BY <1>3, <1>9 DEF IInv

LEMMA OpenFailsKeeps ==
  ASSUME IInv, NEW t \in Threads, OpenFails(t)
  PROVE  IInv'
<1>1. TypeOK'
  BY IdleTyped DEF IInv, TypeOK, OpenFails, Return, Reply, Targets
<1>2. \A u \in Threads : \A f : Writing(u, f)' <=> Writing(u, f)
  BY DEF IInv, TypeOK, OpenFails, Return, Idle, Writing
<1>3. \A u \in Threads : thread'[u].pc = "write" => thread'[u] = thread[u]
  BY DEF IInv, TypeOK, OpenFails, Return, Idle
<1>4. FileInv'
  BY <1>2, <1>3 DEF IInv, FileInv, OpenFails, Return
<1> QED BY <1>1, <1>4 DEF IInv

LEMMA WriteKeeps ==
  ASSUME IInv, NEW t \in Threads, WriteText(t)
  PROVE  IInv'
<1> PICK path : path = thread[t].path
  OBVIOUS
<1>1. PICK rest \in {{}, disk[path]} :
        disk' = [disk EXCEPT ![path] = {thread[t].write} \cup rest]
  BY DEF WriteText
<1>2. /\ thread[t].pc = "write" /\ path \in DOMAIN disk
      /\ last' = Set(last, path, thread[t].write)
      /\ thread' = [thread EXCEPT ![t] = Idle]
      /\ reply' = [reply EXCEPT ![t] = "OK"]
      /\ UNCHANGED <<author, disturbed>>
  BY DEF WriteText, Return, Reply, IInv, FileInv
<1>3. /\ DOMAIN disk' = DOMAIN disk
      /\ disk'[path] = {thread[t].write} \cup rest
      /\ \A x \in DOMAIN disk : x # path => disk'[x] = disk[x]
      /\ disk' = [x \in DOMAIN disk' |-> disk'[x]]
  BY <1>1, <1>2 DEF IInv, TypeOK
<1>4. /\ DOMAIN last' = DOMAIN last \cup {path}
      /\ last'[path] = thread[t].write
      /\ \A x \in DOMAIN last : x # path => last'[x] = last[x]
      /\ last' = [x \in DOMAIN last' |-> last'[x]]
  BY <1>2 DEF Set
<1>5. TypeOK'
  <2>1. thread[t].write \in Nat
    BY DEF IInv, TypeOK
  <2>2. disk' \in [DOMAIN disk' -> SUBSET Nat]
    <3>1. rest \subseteq Nat
      BY <1>2 DEF IInv, TypeOK
    <3>2. disk'[path] \in SUBSET Nat
      BY <1>3, <2>1, <3>1
    <3>3. \A x \in DOMAIN disk' : disk'[x] \in SUBSET Nat
      BY <1>3, <3>2 DEF IInv, TypeOK
    <3> QED BY <1>3, <3>3
  <2>3. last' \in [DOMAIN last' -> Nat] /\ DOMAIN last' \subseteq DOMAIN disk'
    BY <1>2, <1>3, <1>4, <2>1 DEF IInv, TypeOK
  <2>4. thread' \in [Threads -> [pc : {"idle", "open", "write"}, path : Targets, write : Nat]]
    BY <1>2, IdleTyped DEF IInv, TypeOK
  <2> QED BY <1>2, <1>3, <2>2, <2>3, <2>4 DEF IInv, TypeOK, Targets
<1>6. /\ thread'[t].pc = "idle"
      /\ \A u \in Threads \ {t} : thread'[u] = thread[u]
  BY <1>2 DEF IInv, TypeOK, Idle
<1>7. ASSUME NEW f \in DOMAIN disk \ disturbed, f # path
      PROVE  /\ \A u, v \in Threads : Writing(u, f)' /\ Writing(v, f)' => u = v
             /\ \A u \in Threads : Writing(u, f)' => disk'[f] = {}
             /\ (\A u \in Threads : ~Writing(u, f)') => f \in DOMAIN last' /\ disk'[f] = {last'[f]}
  <2>1. \A u \in Threads : Writing(u, f)' <=> Writing(u, f)
    BY <1>2, <1>6, <1>7 DEF Writing
  <2> QED BY <1>3, <1>4, <1>7, <2>1 DEF IInv, FileInv
<1>8. ASSUME path \notin disturbed
      PROVE  /\ \A u \in Threads : ~Writing(u, path)'
             /\ path \in DOMAIN last' /\ disk'[path] = {last'[path]}
  <2>1. disk[path] = {} /\ \A u \in Threads : Writing(u, path) => u = t
    BY <1>2, <1>8 DEF IInv, FileInv, Writing
  <2>2. \A u \in Threads : ~Writing(u, path)'
    BY <1>6, <2>1 DEF Writing
  <2> QED BY <1>3, <1>4, <2>1, <2>2
<1>9. FileInv'
  BY <1>2, <1>3, <1>6, <1>7, <1>8 DEF IInv, FileInv
<1> QED BY <1>5, <1>9 DEF IInv

LEMMA WriteFailsKeeps ==
  ASSUME IInv, NEW t \in Threads, WriteFails(t)
  PROVE  IInv'
<1> PICK path : path = thread[t].path
  OBVIOUS
<1>1. /\ thread' = [thread EXCEPT ![t] = Idle]
      /\ reply' = [reply EXCEPT ![t] = "FAILED"]
      /\ disturbed' = disturbed \cup {path}
      /\ UNCHANGED <<disk, author, last>>
  BY DEF WriteFails, Return, Reply
<1>2. TypeOK'
  BY <1>1, IdleTyped DEF IInv, TypeOK, Targets
<1>3. /\ thread'[t].pc = "idle"
      /\ \A u \in Threads \ {t} : thread'[u] = thread[u]
  BY <1>1 DEF IInv, TypeOK, Idle
<1>4. ASSUME NEW f, f # path
      PROVE  \A u \in Threads : Writing(u, f)' <=> Writing(u, f)
  BY <1>1, <1>3, <1>4 DEF Writing, IInv, TypeOK
<1>5. FileInv'
  BY <1>1, <1>3, <1>4 DEF IInv, FileInv
<1> QED BY <1>2, <1>5 DEF IInv

LEMMA NextIInv == IInv /\ [Next]_vars => IInv'
<1> SUFFICES ASSUME IInv, [Next]_vars PROVE IInv'
  OBVIOUS
<1>1. CASE UNCHANGED vars
  BY <1>1 DEF vars, IInv, TypeOK, FileInv, Writing
<1>2. CASE Next
  BY <1>2, RefuseKeeps, CallKeeps, OpenKeeps, OpenFailsKeeps, WriteKeeps, WriteFailsKeeps DEF Next
<1> QED BY <1>1, <1>2

(* Every variable keeps its type.                                          *)
THEOREM FilesTypeCorrect == Spec => []TypeOK
<1>1. IInv => TypeOK
  BY DEF IInv
<1> QED BY InitIInv, NextIInv, <1>1, PTL DEF Spec

(* A file that nobody is writing has the text of the last write that was   *)
(* reported OK, whatever the threads do, unless that write overlapped      *)
(* another one or a later one failed halfway.                              *)
THEOREM TheLastWriteStands == Spec => []LastWriteStands
<1>1. IInv => LastWriteStands
  BY DEF IInv, FileInv, LastWriteStands, BeingWritten, Writing
<1> QED BY InitIInv, NextIInv, <1>1, PTL DEF Spec

-----------------------------------------------------------------------------
(* Where a path leads.  Its segments are entered one after the other; what *)
(* holds of each directory on the way is shown by the least counterexample *)
(* among the positions in the path.                                        *)
Below == {ss \in Nat \X Nat : ss[1] < ss[2]}

LEMMA LeastNat ==
  ASSUME NEW T \in SUBSET Nat, T # {}
  PROVE  \E x \in T : \A y \in T : x <= y
<1>1. IsWellFoundedOn(Below, Nat)
  BY NatLessThanWellFounded DEF OpToRel, Below
<1>2. PICK x \in T : \A y \in T : ~ (<<y, x>> \in Below)
  BY <1>1, WFMin
<1>3. \A y \in Nat : y < x => <<y, x>> \in Below
  <2> TAKE y \in Nat
  <2> HAVE y < x
  <2>1. <<y, x>> \in Nat \X Nat /\ <<y, x>>[1] = y /\ <<y, x>>[2] = x
    OBVIOUS
  <2> QED BY <2>1 DEF Below
<1>4. \A y \in T : ~ (y < x)
  BY <1>2, <1>3, Zenon
<1> QED BY <1>4

Walk(s, n, w) == w = [i \in 0..n |-> IF i = 0 THEN Root ELSE Enter(w[i - 1], s[i])]

LEMMA WalkExists ==
  ASSUME NEW s, NEW N \in Nat
  PROVE  \E w : Walk(s, N, w)
<1> DEFINE T == {n \in Nat : ~ \E w : Walk(s, n, w)}
<1> SUFFICES ASSUME T # {} PROVE FALSE
  OBVIOUS
<1>1. PICK n \in T : \A m \in T : n <= m
  <2>1. T \in SUBSET Nat
    OBVIOUS
  <2> QED BY <2>1, LeastNat
<1>2. n \in Nat /\ ~ \E w : Walk(s, n, w)
  BY <1>1
<1>3. n # 0
  <2> PICK w : w = [i \in 0..0 |-> Root]
    OBVIOUS
  <2>1. Walk(s, 0, w)
    BY DEF Walk
  <2> QED BY <1>2, <2>1
<1>4. n - 1 \in Nat /\ n - 1 \notin T
  BY <1>1, <1>2, <1>3
<1>5. PICK v : Walk(s, n - 1, v)
  BY <1>4
<1> PICK w : w = [i \in 0..n |-> IF i = n THEN Enter(v[n - 1], s[n]) ELSE v[i]]
  OBVIOUS
<1>6. \A i \in 0..n - 1 : v[i] = IF i = 0 THEN Root ELSE Enter(v[i - 1], s[i])
  BY <1>5 DEF Walk
<1>7. \A i \in 0..n : w[i] = IF i = 0 THEN Root ELSE Enter(w[i - 1], s[i])
  <2> TAKE i \in 0..n
  <2>1. CASE i = n
    <3>1. w[n] = Enter(v[n - 1], s[n]) /\ w[n - 1] = v[n - 1]
      BY <1>2, <1>4
    <3> QED BY <1>3, <2>1, <3>1
  <2>2. CASE i # n
    <3>1. i \in 0..n - 1 /\ w[i] = v[i] /\ (i # 0 => w[i - 1] = v[i - 1])
      BY <1>2, <2>2
    <3> QED BY <1>6, <3>1
  <2> QED BY <2>1, <2>2
<1>8. Walk(s, n, w)
  BY <1>7 DEF Walk
<1> QED BY <1>2, <1>8

LEMMA ResolvedWalk ==
  ASSUME NEW p, NEW n \in Nat, n = Len(p.segments)
  PROVE  \E w : /\ w[0] = Root
                /\ \A i \in 1..n : w[i] = Enter(w[i - 1], p.segments[i])
                /\ Resolved(p) = w[n]
<1>1. PICK v : Walk(p.segments, n, v)
  BY WalkExists
<1>2. PICK w : Walk(p.segments, n, w) /\ Resolved(p) = w[n]
  BY <1>1, Zenon DEF Resolved, Walk
<1>3. w[0] = Root /\ \A i \in 1..n : w[i] = Enter(w[i - 1], p.segments[i])
  <2>1. \A i \in 0..n : w[i] = IF i = 0 THEN Root ELSE Enter(w[i - 1], p.segments[i])
    BY <1>2 DEF Walk
  <2> QED BY <2>1
<1> QED BY <1>2, <1>3

LEMMA Pair ==
  ASSUME NEW S, NEW a \in S, NEW b \in S
  PROVE  <<a, b>> \in Seq(S) /\ Len(<<a, b>>) = 2
OBVIOUS

Names == STRING \cup {"workspace", "session"}

LEMMA RootPath == Root \in Seq(Names) /\ Len(Root) = 2
<1>1. "workspace" \in Names /\ "session" \in Names
  BY DEF Names
<1> QED BY <1>1, Pair DEF Root

LEMMA Deeper ==
  ASSUME NEW S, NEW dir \in Seq(S), NEW x \in S, NEW d, d = Append(dir, x)
  PROVE  /\ d \in Seq(S)
         /\ Len(d) = Len(dir) + 1 /\ d[Len(dir) + 1] = x
         /\ \A i \in 1..Len(dir) : d[i] = dir[i]
OBVIOUS

(* Behind the app folder and the zone a path only goes down.               *)
Under(dir, a, b) ==
  dir \in Seq(Names) /\ Len(dir) >= 4 /\ dir[3] = a /\ dir[4] = b

LEMMA StraightPath ==
  ASSUME NEW p \in FilePath, NEW s, s = p.segments, NEW n \in Nat, n = Len(s), n >= 2,
         s[1] # ".", s[2] # ".", \A i \in DOMAIN s : s[i] # ".."
  PROVE  /\ Under(Resolved(p), s[1], s[2])
         /\ n = 2 => Len(Resolved(p)) = 4
         /\ n = 3 /\ s[3] # "." => Len(Resolved(p)) = 5 /\ Resolved(p)[5] = s[3]
<1>1. DOMAIN s = 1..n /\ \A i \in 1..n : s[i] \in Names
  BY DEF FilePath, Names
<1>2. PICK w : /\ w[0] = Root
               /\ \A i \in 1..n : w[i] = Enter(w[i - 1], s[i])
               /\ Resolved(p) = w[n]
  <2>1. n = Len(p.segments)
    OBVIOUS
  <2>2. \E w : /\ w[0] = Root
               /\ \A i \in 1..n : w[i] = Enter(w[i - 1], p.segments[i])
               /\ Resolved(p) = w[n]
    BY <2>1, ResolvedWalk
  <2> QED BY <2>2
<1>3. ASSUME NEW i \in 1..n, s[i] # "."
      PROVE  w[i] = Append(w[i - 1], s[i])
  <2>1. w[i] = Enter(w[i - 1], s[i]) /\ s[i] # ".."
    BY <1>1, <1>2
  <2> QED BY <1>3, <2>1 DEF Enter
<1>4. w[1] \in Seq(Names) /\ Len(w[1]) = 3 /\ w[1][3] = s[1]
  <2>1. 1 \in 1..n /\ 1 - 1 = 0
    OBVIOUS
  <2>2. w[1] = Append(Root, s[1]) /\ s[1] \in Names
    BY <1>1, <1>2, <1>3, <2>1
  <2> QED BY <2>2, RootPath, Deeper
<1>5. Under(w[2], s[1], s[2]) /\ Len(w[2]) = 4
  <2>1. 2 \in 1..n /\ 2 - 1 = 1
    OBVIOUS
  <2>2. w[2] = Append(w[1], s[2]) /\ s[2] \in Names
    BY <1>1, <1>3, <2>1
  <2>3. /\ w[2] \in Seq(Names) /\ Len(w[2]) = 4 /\ w[2][4] = s[2]
        /\ \A i \in 1..3 : w[2][i] = w[1][i]
    BY <1>4, <2>2, Deeper
  <2>4. w[2][3] = w[1][3]
    BY <2>3
  <2> QED BY <1>4, <2>3, <2>4 DEF Under
<1>6. ASSUME NEW dir, Under(dir, s[1], s[2]), NEW i \in 1..n
      PROVE  Under(Enter(dir, s[i]), s[1], s[2])
  <2>1. Enter(dir, s[i]) = dir \/ Enter(dir, s[i]) = Append(dir, s[i])
    BY <1>1 DEF Enter
  <2>2. Under(Append(dir, s[i]), s[1], s[2])
    BY <1>1, <1>6 DEF Under
  <2> QED BY <1>6, <2>1, <2>2
<1>7. Under(w[n], s[1], s[2])
  <2> DEFINE T == {i \in 2..n : ~Under(w[i], s[1], s[2])}
  <2> SUFFICES ASSUME T # {} PROVE FALSE
    OBVIOUS
  <2>1. PICK i \in T : \A j \in T : i <= j
    <3>1. T \in SUBSET Nat
      OBVIOUS
    <3> QED BY <3>1, LeastNat
  <2>2. i \in 3..n /\ i - 1 \in 2..n /\ i - 1 \notin T
    BY <1>5, <2>1
  <2>3. Under(w[i - 1], s[1], s[2]) /\ w[i] = Enter(w[i - 1], s[i])
    BY <1>2, <2>2
  <2> QED BY <1>6, <2>1, <2>2, <2>3
<1>8. n = 3 /\ s[3] # "." => Len(w[3]) = 5 /\ w[3][5] = s[3]
  <2> SUFFICES ASSUME n = 3, s[3] # "." PROVE Len(w[3]) = 5 /\ w[3][5] = s[3]
    OBVIOUS
  <2>1. 3 \in 1..n /\ 3 - 1 = 2
    OBVIOUS
  <2>2. w[3] = Append(w[2], s[3]) /\ s[3] \in Names
    BY <1>1, <1>3, <2>1
  <2>3. w[2] \in Seq(Names) /\ Len(w[2]) = 4
    BY <1>5 DEF Under
  <2> QED BY <2>2, <2>3, Deeper
<1> QED BY <1>2, <1>5, <1>7, <1>8

-----------------------------------------------------------------------------
(* Whose paths meet.                                                       *)

(* Every write was let through by the ownership check.                     *)
AuthorInv ==
  /\ author \in Seq([agent : Agents, path : FilePaths])
  /\ \A w \in Writes : InZone(author[w].agent, author[w].path.segments)

LEMMA AuthorInit == Init => AuthorInv
BY DEF Init, AuthorInv, Writes

LEMMA AuthorStep == AuthorInv /\ [Next]_vars => AuthorInv'
<1> SUFFICES ASSUME AuthorInv, [Next]_vars PROVE AuthorInv'
  OBVIOUS
<1>1. ASSUME NEW t \in Threads, NEW a \in Agents, NEW p \in FilePaths, CallWrite(t, a, p)
      PROVE  AuthorInv'
  <2> PICK call : call = [agent |-> a, path |-> p]
    OBVIOUS
  <2>1. author' = Append(author, call) /\ InZone(a, p.segments)
    BY <1>1 DEF CallWrite
  <2>2. call \in [agent : Agents, path : FilePaths] /\ call.agent = a /\ call.path = p
    OBVIOUS
  <2>3. /\ author' \in Seq([agent : Agents, path : FilePaths])
        /\ \A w \in Writes' : (w \in Writes /\ author'[w] = author[w]) \/ author'[w] = call
    BY <2>1, <2>2 DEF AuthorInv, Writes
  <2> QED BY <2>1, <2>2, <2>3 DEF AuthorInv, InZone
<1>2. CASE UNCHANGED author
  BY <1>2 DEF AuthorInv, Writes
<1> QED BY <1>1, <1>2
     DEF Next, vars, Refuse, OpenFile, OpenFails, WriteText, WriteFails

(* A folder belongs to one agent.                                          *)
LEMMA FoldersApart ==
  ASSUME NEW a \in Agents, NEW b \in Agents, NEW s, s \in Folders[a], s \in Folders[b]
  PROVE  a = b
BY DEF Agents, Folders

LEMMA InFolder ==
  ASSUME NEW a \in Agents, NEW s, s \in Folders[a]
  PROVE  s # "." /\ s # ".."
BY DEF Agents, Folders

Shared == Common \cup {Contract}

LEMMA FilesShared ==
  ASSUME NEW a \in Agents
  PROVE  Files[a] \subseteq Shared
BY DEF Agents, Folders, Files, Shared

LEMMA TailFacts ==
  ASSUME NEW S, NEW s \in Seq(S), NEW n \in Nat, n = Len(s), n >= 2
  PROVE  /\ Tail(s) \in Seq(S) /\ Len(Tail(s)) = n - 1
         /\ \A i \in 1..n - 1 : Tail(s)[i] = s[i + 1]
         /\ Tail(s)[1] = s[2] /\ (n = 3 => Tail(s)[2] = s[3])
<1>1. Len(Tail(s)) = n - 1 /\ \A i \in 1..n - 1 : Tail(s)[i] = s[i + 1]
  OBVIOUS
<1>2. 1 \in 1..n - 1 /\ (n = 3 => 2 \in 1..n - 1)
  OBVIOUS
<1> QED BY <1>1, <1>2

LEMMA SharedFiles ==
  \A f \in Shared : \/ Len(f) = 1 /\ f[1] # "."
                    \/ Len(f) = 2 /\ f[1] # "." /\ f[2] # "."
<1>1. \A f \in Common : Len(f) = 1 /\ f[1] # "."
  BY DEF Common
<1>2. Len(Contract) = 2 /\ Contract[1] # "." /\ Contract[2] # "."
  BY DEF Contract
<1> QED BY <1>1, <1>2 DEF Shared

(* The part of a path of four or five segments that is behind the third.   *)
LEMMA AppPart ==
  ASSUME NEW S, NEW dir \in Seq(S), NEW R, NEW file \in Seq(R), NEW n \in {2, 3},
         Len(dir) = n + 2, Len(file) = n - 1,
         file[1] = dir[4], n = 3 => file[2] = dir[5]
  PROVE  SubSeq(dir, 4, n + 2) = file
<1> PICK sub : sub = SubSeq(dir, 4, n + 2)
  OBVIOUS
<1>1. \A i \in 4..n + 2 : dir[i] \in S \cup R
  OBVIOUS
<1>2. /\ sub \in Seq(S \cup R)
      /\ Len(sub) = n - 1
      /\ \A i \in 1..n + 2 - 4 + 1 : sub[i] = dir[4 + i - 1]
  <2>1. 4 \in Int /\ n + 2 \in Int /\ 4 <= n + 2 /\ n + 2 - 4 + 1 = n - 1
    OBVIOUS
  <2> QED BY <1>1, <2>1, SubSeqProperties
<1>3. file \in Seq(S \cup R)
  OBVIOUS
<1>4. sub[1] = dir[4] /\ (n = 3 => sub[2] = dir[5])
  BY <1>2
<1>5. \A i \in 1..Len(sub) : sub[i] = file[i]
  BY <1>2, <1>4
<1> QED BY <1>2, <1>3, <1>5, SeqEqual

(* A path that is one of an agent's files leads to a shared one; any other *)
(* leads into a folder of the agent's.                                     *)
LEMMA ZonePath ==
  ASSUME NEW a \in Agents, NEW p \in FilePath, InZone(a, p.segments),
         p.segments[1] # ".", \A i \in DOMAIN p.segments : p.segments[i] # ".."
  PROVE  \/ Resolved(p)[4] \in Folders[a]
         \/ InApp(Resolved(p)) \in Shared
<1> PICK s, n : s = p.segments /\ n = Len(s)
  OBVIOUS
<1>1. s \in Seq(STRING) /\ n \in Nat /\ n >= 2 /\ DOMAIN s = 1..n
  BY DEF FilePath, InZone
<1>2. CASE n > 2 /\ s[2] \in Folders[a]
  <2>1. s[2] # "."
    BY <1>2, InFolder
  <2>2. Under(Resolved(p), s[1], s[2])
    BY <1>1, <2>1, StraightPath
  <2> QED BY <1>2, <2>2 DEF Under
<1>3. CASE Tail(s) \in Files[a]
  <2> PICK file : file = Tail(s)
    OBVIOUS
  <2>1. file \in Shared
    BY <1>3, FilesShared
  <2>2. /\ file \in Seq(STRING) /\ Len(file) = n - 1
        /\ file[1] = s[2] /\ (n = 3 => file[2] = s[3])
    BY <1>1, TailFacts
  <2>3. /\ n = 2 \/ n = 3
        /\ s[2] # "."
        /\ n = 3 => s[3] # "."
    <3>1. CASE Len(file) = 1 /\ file[1] # "."
      BY <1>1, <2>2, <3>1
    <3>2. CASE Len(file) = 2 /\ file[1] # "." /\ file[2] # "."
      BY <1>1, <2>2, <3>2
    <3> QED BY <2>1, <3>1, <3>2, SharedFiles
  <2> PICK dir : dir = Resolved(p)
    OBVIOUS
  <2>4. /\ Under(dir, s[1], s[2])
        /\ n = 2 => Len(dir) = 4
        /\ n = 3 => Len(dir) = 5 /\ dir[5] = s[3]
    BY <1>1, <2>3, StraightPath
  <2>5. dir \in Seq(Names) /\ Len(dir) = n + 2 /\ dir[4] = s[2] /\ (n = 3 => dir[5] = s[3])
    <3>1. dir \in Seq(Names) /\ dir[4] = s[2]
      BY <2>4 DEF Under
    <3>2. CASE n = 2
      BY <2>4, <3>1, <3>2
    <3>3. CASE n = 3
      <4>1. n + 2 = 5
        BY <3>3
      <4> QED BY <2>4, <3>1, <3>3, <4>1
    <3> QED BY <2>3, <3>2, <3>3
  <2>6. InApp(dir) = SubSeq(dir, 4, n + 2)
    BY <2>5, RootPath DEF InApp
  <2>7. SubSeq(dir, 4, n + 2) = file
    BY <2>2, <2>3, <2>5, AppPart
  <2> QED BY <2>1, <2>6, <2>7
<1> QED BY <1>1, <1>2, <1>3 DEF InZone

(* The ownership check keeps the agents apart, whatever paths they write   *)
(* (without a parent segment, and with the app folder's name in front):    *)
(* two agents' paths lead to one file only if the zones share it.          *)
THEOREM OnlySharedMeet == Spec => []OnlySharedFilesMeet
<1>1. AuthorInv => OnlySharedFilesMeet
  <2> SUFFICES ASSUME AuthorInv, NEW v \in Writes, NEW w \in Writes,
                      Straight(v), Straight(w),
                      Resolved(author[v].path) = Resolved(author[w].path),
                      author[v].agent # author[w].agent
               PROVE  InApp(Resolved(author[v].path)) \in Shared
    BY DEF OnlySharedFilesMeet, Shared
  <2>1. ASSUME NEW x \in Writes, Straight(x)
        PROVE  /\ author[x].agent \in Agents
               /\ \/ Resolved(author[x].path)[4] \in Folders[author[x].agent]
                  \/ InApp(Resolved(author[x].path)) \in Shared
    <3>1. author[x] \in [agent : Agents, path : FilePaths]
      <4>1. author \in Seq([agent : Agents, path : FilePaths]) /\ x \in 1..Len(author)
        BY <2>1 DEF AuthorInv, Writes
      <4> QED BY <4>1, ElementOfSeq
    <3>2. author[x].agent \in Agents /\ author[x].path \in FilePath
      BY <3>1, FilesAssumption
    <3>3. InZone(author[x].agent, author[x].path.segments)
      BY <2>1 DEF AuthorInv
    <3>4. /\ author[x].path.segments[1] # "."
          /\ \A i \in DOMAIN author[x].path.segments : author[x].path.segments[i] # ".."
      BY <2>1 DEF Straight
    <3> QED BY <3>2, <3>3, <3>4, ZonePath
  <2>2. author[v].agent \in Agents /\ author[w].agent \in Agents
    BY <2>1
  <2> QED BY <2>1, <2>2, FoldersApart
<1> QED BY <1>1, AuthorInit, AuthorStep, PTL DEF Spec
=============================================================================
