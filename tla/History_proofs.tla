--------------------------- MODULE History_proofs ---------------------------
(* What _trim_history does to every history, whatever its length and the   *)
(* limit.                                                                  *)
EXTENDS History, WellFoundedInduction, SequenceTheorems, TLAPS

Below == {ss \in Nat \X Nat : ss[1] < ss[2]}

LEMMA LeastNat ==
  ASSUME NEW T \in SUBSET Nat, T # {}
  PROVE  \E x \in T : \A y \in T : x <= y
<1>0. IsWellFoundedOn(Below, Nat)
  BY NatLessThanWellFounded DEF OpToRel, Below
<1>1. PICK x \in T : \A y \in T : ~ (<<y, x>> \in Below)
  BY <1>0, WFMin
<1>2. \A y \in Nat : y < x => <<y, x>> \in Below
  <2> TAKE y \in Nat
  <2> HAVE y < x
  <2>1. <<y, x>> \in Nat \X Nat /\ <<y, x>>[1] = y /\ <<y, x>>[2] = x
    OBVIOUS
  <2> QED BY <2>1 DEF Below
<1>3. \A y \in T : ~ (y < x)
  BY <1>1, <1>2, Zenon
<1> QED BY <1>3
-----------------------------------------------------------------------------
(* The while loop of _trim_history stops: there is a first clean position, *)
(* it is at or after the cut, and only ToolMessages are skipped.           *)
LEMMA TrimStartProperties ==
  ASSUME NEW M, NEW h \in Seq(M), Len(h) > MaxHistory
  PROVE  /\ TrimStart(h) \in Len(h) - MaxHistory + 1 .. Len(h) + 1
         /\ TrimStart(h) <= Len(h) => ~IsTool(h[TrimStart(h)])
         /\ \A i \in Len(h) - MaxHistory + 1 .. Len(h) : ~IsTool(h[i]) => TrimStart(h) <= i
<1> DEFINE cut   == Len(h) - MaxHistory + 1
           clean == {i \in cut .. Len(h) + 1 : i = Len(h) + 1 \/ ~IsTool(h[i])}
<1>1. MaxHistory \in Nat \ {0} /\ Len(h) \in Nat
  BY MaxHistoryAssumption
<1>2. clean \in SUBSET Nat /\ Len(h) + 1 \in clean
  BY <1>1
<1>3. \E i \in clean : \A j \in clean : i <= j
  <2> HIDE DEF clean
  <2> QED BY <1>2, LeastNat
<1>4. TrimStart(h) = CHOOSE i \in clean : \A j \in clean : i <= j
  BY DEF TrimStart
<1>5. TrimStart(h) \in clean /\ \A j \in clean : TrimStart(h) <= j
  <2> HIDE DEF clean
  <2> QED BY <1>3, <1>4
<1> QED BY <1>1, <1>5

(* Trimming returns a suffix of the history.                               *)
LEMMA TrimIsSuffix ==
  ASSUME NEW M, NEW h \in Seq(M), Len(h) > MaxHistory
  PROVE  /\ Trim(h) \in Seq(M)
         /\ Len(Trim(h)) = Len(h) - TrimStart(h) + 1
         /\ \A i \in 1 .. Len(Trim(h)) : Trim(h)[i] = h[TrimStart(h) + i - 1]
<1> DEFINE s == TrimStart(h)
<1>1. s \in Len(h) - MaxHistory + 1 .. Len(h) + 1
  BY TrimStartProperties
<1>2. MaxHistory \in Nat \ {0} /\ Len(h) \in Nat
  BY MaxHistoryAssumption
<1>3. Trim(h) = SubSeq(h, s, Len(h))
  <2>1. ~ (Len(h) <= MaxHistory)
    BY <1>2
  <2> QED BY <2>1, Zenon DEF Trim
<1> HIDE DEF s
<1>4. s \in Int /\ s >= 1 /\ s <= Len(h) + 1
  BY <1>1, <1>2
<1>5. \A i \in s .. Len(h) : h[i] \in M
  BY <1>2, <1>4
<1>6. /\ SubSeq(h, s, Len(h)) \in Seq(M)
      /\ Len(SubSeq(h, s, Len(h))) = IF s <= Len(h) THEN Len(h) - s + 1 ELSE 0
      /\ \A i \in 1 .. Len(h) - s + 1 : SubSeq(h, s, Len(h))[i] = h[s + i - 1]
  BY <1>2, <1>4, <1>5, SubSeqProperties
<1>7. Len(Trim(h)) = Len(h) - s + 1
  BY <1>2, <1>3, <1>4, <1>6
<1> QED BY <1>3, <1>6, <1>7 DEF s

(* The window is bounded and is a sequence of the same messages.           *)
THEOREM TrimBounds ==
  ASSUME NEW M, NEW h \in Seq(M)
  PROVE  Trim(h) \in Seq(M) /\ Len(Trim(h)) <= MaxHistory
<1>1. CASE Len(h) <= MaxHistory
  BY <1>1 DEF Trim
<1>2. CASE Len(h) > MaxHistory
  BY <1>2, MaxHistoryAssumption, TrimStartProperties, TrimIsSuffix
<1> QED BY <1>1, <1>2, MaxHistoryAssumption

(* "The result therefore never begins with a ToolMessage" (agent.py:483),  *)
(* unless the whole history did.                                           *)
THEOREM TrimHead ==
  ASSUME NEW M, NEW h \in Seq(M), Trim(h) # <<>>, IsTool(Trim(h)[1])
  PROVE  Trim(h) = h
<1>1. CASE Len(h) <= MaxHistory
  BY <1>1 DEF Trim
<1>2. CASE Len(h) > MaxHistory
  <2>1. Trim(h) \in Seq(M) /\ Len(Trim(h)) \in Nat /\ Len(Trim(h)) # 0
    BY <1>2, TrimIsSuffix
  <2>2. TrimStart(h) \in Int /\ Len(Trim(h)) = Len(h) - TrimStart(h) + 1
    BY <1>2, TrimIsSuffix, TrimStartProperties, MaxHistoryAssumption
  <2>3. 1 \in 1 .. Len(Trim(h)) /\ TrimStart(h) <= Len(h)
    BY <2>1, <2>2
  <2>4. Trim(h)[1] = h[TrimStart(h) + 1 - 1]
    BY <1>2, <2>3, TrimIsSuffix
  <2>5. TrimStart(h) + 1 - 1 = TrimStart(h)
    BY <2>2
  <2> QED BY <1>2, <2>3, <2>4, <2>5, TrimStartProperties
<1> QED BY <1>1, <1>2, MaxHistoryAssumption

(* "... and never contains an AIMessage whose tool_calls lost their        *)
(* replies" (agent.py:483-484): trimming a paired history leaves it        *)
(* paired.                                                                 *)
THEOREM TrimKeepsPairs ==
  ASSUME NEW F, NEW C \in Nat, NEW h \in Seq(Message(F, C)), Paired(h)
  PROVE  Paired(Trim(h))
<1>1. CASE Len(h) <= MaxHistory
  BY <1>1 DEF Trim
<1>2. CASE Len(h) > MaxHistory
  <2> DEFINE s == TrimStart(h)
             t == Trim(h)
  <2>1. /\ s \in Nat /\ s >= 1 /\ s <= Len(h) + 1
        /\ s <= Len(h) => ~IsTool(h[s])
    BY <1>2, TrimStartProperties, MaxHistoryAssumption
  <2>2. /\ t \in Seq(Message(F, C))
        /\ Len(t) = Len(h) - s + 1
        /\ \A i \in 1 .. Len(t) : t[i] = h[s + i - 1]
    BY <1>2, TrimIsSuffix
  <2>3. Len(h) \in Nat /\ DOMAIN h = 1 .. Len(h) /\ DOMAIN t = 1 .. Len(t)
    BY <2>2
  <2>4. \A i \in 1 .. Len(h) : h[i].calls \in Nat
    <3> TAKE i \in 1 .. Len(h)
    <3>1. h[i] \in Message(F, C)
      OBVIOUS
    <3> QED BY <3>1 DEF Message
  <2> HIDE DEF s, t
  <2>5. ASSUME NEW i \in 1 .. Len(t)
        PROVE  /\ s + i - 1 \in 1 .. Len(h)
               /\ t[i] = h[s + i - 1]
               /\ s <= Len(h)
    BY <2>1, <2>2, <2>3
  <2>6. ASSUME NEW i \in 1 .. Len(t), NEW k \in 1 .. t[i].calls
        PROVE  i + k \in 1 .. Len(t) /\ t[i + k] = Tool(t[i].from)
    <3> DEFINE x == s + i - 1
    <3>1. x \in 1 .. Len(h) /\ t[i] = h[x]
      BY <2>5
    <3>2. x + k \in 1 .. Len(h) /\ h[x + k] = Tool(h[x].from)
      BY <2>3, <3>1 DEF Paired, Answered, RepliesHaveCalls
    <3>3. k \in Nat /\ k >= 1
      BY <2>4, <3>1
    <3>4. i + k \in 1 .. Len(t) /\ s + (i + k) - 1 = x + k
      BY <2>1, <2>2, <2>3, <3>2, <3>3
    <3>5. t[i + k] = h[x + k]
      BY <2>2, <3>4
    <3> QED BY <3>1, <3>2, <3>4, <3>5
  <2>7. ASSUME NEW i \in 1 .. Len(t), IsTool(t[i])
        PROVE  \E j \in 1 .. i - 1 : i - j <= t[j].calls
    <3> DEFINE x == s + i - 1
    <3>1. x \in 1 .. Len(h) /\ t[i] = h[x] /\ s <= Len(h)
      BY <2>5
    <3>2. PICK j \in 1 .. x - 1 : x - j <= h[j].calls
      BY <2>3, <2>7, <3>1 DEF Paired, Answered, RepliesHaveCalls
    <3>3. j \in 1 .. Len(h) /\ j \in Nat /\ h[j].calls \in Nat
      BY <2>3, <2>4, <3>1, <3>2
    <3>4. j >= s
      <4> SUFFICES ASSUME j < s PROVE FALSE
        BY <2>1, <3>3
      <4>1. s - j \in 1 .. h[j].calls /\ j + (s - j) = s
        BY <2>1, <3>1, <3>2, <3>3
      <4>2. h[s] = Tool(h[j].from)
        BY <2>3, <3>3, <4>1 DEF Paired, Answered, RepliesHaveCalls
      <4>3. IsTool(h[s])
        BY <4>2 DEF Tool, IsTool
      <4> QED BY <2>1, <3>1, <4>3
    <3> DEFINE y == j - s + 1
    <3>5. y \in 1 .. i - 1 /\ y \in 1 .. Len(t) /\ s + y - 1 = j
      BY <2>1, <2>2, <2>3, <3>2, <3>3, <3>4
    <3>6. t[y] = h[j]
      BY <2>2, <3>5
    <3>7. i - y <= t[y].calls
      BY <2>1, <3>2, <3>3, <3>6
    <3> QED BY <3>5, <3>7
  <2>8. Paired(t)
    BY <2>3, <2>6, <2>7 DEF Paired, Answered, RepliesHaveCalls
  <2> QED BY <2>8 DEF t
<1> QED BY <1>1, <1>2, MaxHistoryAssumption
-----------------------------------------------------------------------------
(* Histories that an activation is still writing.                          *)

(* Every call has its replies; or, if cuts, the next task was begun in     *)
(* their place.                                                            *)
Complete(h, cuts, i) == Answered(h, i) \/ (cuts /\ CutOff(h, i))

Closed(h, cuts) == \A i \in DOMAIN h : Complete(h, cuts, i)

(* The last call is one of activation f that waits for n more replies.     *)
Open(h, cuts, f, n) ==
  \E j \in DOMAIN h :
    /\ h[j].type = "ai" /\ h[j].from = f
    /\ j + h[j].calls = Len(h) + n
    /\ \A k \in j + 1 .. Len(h) : h[k] = Tool(f)
    /\ \A i \in DOMAIN h \ {j} : Complete(h, cuts, i)

(* Every reply stands in the run of replies after its call.                *)
RepliesFollow(h) ==
  \A i \in DOMAIN h : IsTool(h[i]) =>
    \E j \in 1 .. i - 1 :
      /\ i - j <= h[j].calls
      /\ \A k \in j + 1 .. i : IsTool(h[k])

(* At most n ToolMessages end the history.                                 *)
TailWithin(h, n) == \E j \in DOMAIN h : ~IsTool(h[j]) /\ Len(h) - j <= n

LEMMA EmptyHistory ==
  ASSUME NEW M, NEW cuts \in BOOLEAN
  PROVE  <<>> \in Seq(M) /\ RepliesFollow(<<>>) /\ Closed(<<>>, cuts)
<1> PICK e : e = <<>>
  OBVIOUS
<1>1. e \in Seq(M) /\ DOMAIN e = {}
  OBVIOUS
<1>2. RepliesFollow(e) /\ Closed(e, cuts)
  BY <1>1 DEF RepliesFollow, Closed
<1> QED BY <1>1, <1>2

LEMMA MessageFields ==
  ASSUME NEW F, NEW C \in Nat, NEW h \in Seq(Message(F, C)), NEW i \in DOMAIN h
  PROVE  h[i].calls \in Nat /\ h[i].calls <= C /\ i \in 1 .. Len(h) /\ Len(h) \in Nat
<1>1. h[i] \in Message(F, C)
  OBVIOUS
<1>2. h[i].calls \in 0 .. C
  BY <1>1 DEF Message
<1> QED BY <1>2

LEMMA AppendFacts ==
  ASSUME NEW M, NEW h \in Seq(M), NEW m \in M
  PROVE  /\ Append(h, m) \in Seq(M)
         /\ Len(h) \in Nat /\ Len(Append(h, m)) = Len(h) + 1
         /\ DOMAIN h = 1 .. Len(h) /\ DOMAIN Append(h, m) = 1 .. Len(h) + 1
         /\ \A i \in DOMAIN h : Append(h, m)[i] = h[i]
         /\ Append(h, m)[Len(h) + 1] = m
OBVIOUS

LEMMA StaysComplete ==
  ASSUME NEW F, NEW C \in Nat, NEW h \in Seq(Message(F, C)), NEW m \in Message(F, C),
         NEW cuts \in BOOLEAN, NEW i \in DOMAIN h, Complete(h, cuts, i)
  PROVE  Complete(Append(h, m), cuts, i)
<1> PICK t : t = Append(h, m)
  OBVIOUS
<1>1. /\ Len(h) \in Nat
      /\ DOMAIN h = 1 .. Len(h) /\ DOMAIN t = 1 .. Len(h) + 1 /\ Len(t) = Len(h) + 1
      /\ \A k \in DOMAIN h : t[k] = h[k]
  BY AppendFacts
<1>2. Answered(h, i) => Answered(t, i)
  BY <1>1 DEF Answered
<1>3. CutOff(h, i) => CutOff(t, i)
  <2> SUFFICES ASSUME CutOff(h, i) PROVE CutOff(t, i)
    OBVIOUS
  <2>1. PICK j \in i + 1 .. Len(h) :
          /\ h[j].type = "human"
          /\ \A k \in i + 1 .. j - 1 : h[k] = Tool(h[i].from)
    BY DEF CutOff
  <2>2. j \in i + 1 .. Len(t) /\ j \in DOMAIN h /\ \A k \in i + 1 .. j - 1 : k \in DOMAIN h
    BY <1>1
  <2>3. t[j].type = "human" /\ \A k \in i + 1 .. j - 1 : t[k] = Tool(t[i].from)
    BY <1>1, <2>1, <2>2
  <2> QED BY <2>2, <2>3 DEF CutOff
<1> QED BY <1>2, <1>3 DEF Complete

(* A new task closes what an earlier one left, also a call without all its *)
(* replies.                                                                *)
LEMMA HumanCloses ==
  ASSUME NEW F, NEW C \in Nat, NEW h \in Seq(Message(F, C)), NEW f \in F, NEW cuts \in BOOLEAN,
         \/ Closed(h, cuts)
         \/ cuts /\ \E g, n : Open(h, cuts, g, n)
  PROVE  Closed(Append(h, Human(f)), cuts)
<1>0. Human(f) \in Message(F, C)
  BY DEF Human, Message
<1> PICK t : t = Append(h, Human(f))
  OBVIOUS
<1>1. /\ Len(h) \in Nat
      /\ DOMAIN h = 1 .. Len(h) /\ DOMAIN t = 1 .. Len(h) + 1 /\ Len(t) = Len(h) + 1
      /\ \A k \in DOMAIN h : t[k] = h[k]
      /\ t[Len(h) + 1] = Human(f)
  BY <1>0, AppendFacts
<1>2. ASSUME NEW i \in DOMAIN h, Complete(h, cuts, i)
      PROVE  Complete(t, cuts, i)
  BY <1>0, <1>2, StaysComplete
<1>3. Complete(t, cuts, Len(h) + 1)
  BY <1>1 DEF Complete, Answered, Human
<1>4. CASE Closed(h, cuts)
  BY <1>1, <1>2, <1>3, <1>4 DEF Closed
<1>5. ASSUME cuts, NEW g, NEW n, Open(h, cuts, g, n)
      PROVE  Closed(t, cuts)
  <2>1. PICK j \in DOMAIN h :
          /\ h[j].from = g
          /\ \A k \in j + 1 .. Len(h) : h[k] = Tool(g)
          /\ \A i \in DOMAIN h \ {j} : Complete(h, cuts, i)
    BY <1>5 DEF Open
  <2>2. /\ Len(h) + 1 \in j + 1 .. Len(t)
        /\ t[Len(h) + 1].type = "human"
        /\ \A k \in j + 1 .. Len(h) + 1 - 1 : t[k] = Tool(t[j].from)
    BY <1>1, <2>1 DEF Human
  <2>4. CutOff(t, j)
    BY <2>2 DEF CutOff
  <2>3. Complete(t, cuts, j)
    BY <1>5, <2>4 DEF Complete
  <2> QED BY <1>1, <1>2, <1>3, <2>1, <2>3 DEF Closed
<1> QED BY <1>4, <1>5

(* An answer with calls opens the history.                                 *)
LEMMA AnswerOpens ==
  ASSUME NEW F, NEW C \in Nat, NEW h \in Seq(Message(F, C)), NEW f \in F, NEW n \in 0 .. C,
         NEW cuts \in BOOLEAN, Closed(h, cuts)
  PROVE  /\ n = 0 => Closed(Append(h, AI(f, n)), cuts)
         /\ Open(Append(h, AI(f, n)), cuts, f, n)
<1>0. AI(f, n) \in Message(F, C)
  BY DEF AI, Message
<1> PICK t : t = Append(h, AI(f, n))
  OBVIOUS
<1>1. /\ Len(h) \in Nat
      /\ DOMAIN h = 1 .. Len(h) /\ DOMAIN t = 1 .. Len(h) + 1 /\ Len(t) = Len(h) + 1
      /\ \A k \in DOMAIN h : t[k] = h[k]
      /\ t[Len(h) + 1] = AI(f, n)
  BY <1>0, AppendFacts
<1>2. \A i \in DOMAIN h : Complete(t, cuts, i)
  BY <1>0, StaysComplete DEF Closed
<1>3. t[Len(h) + 1].type = "ai" /\ t[Len(h) + 1].from = f /\ t[Len(h) + 1].calls = n
  BY <1>1 DEF AI
<1>4. n = 0 => Complete(t, cuts, Len(h) + 1)
  BY <1>3 DEF Complete, Answered
<1>5. n = 0 => Closed(t, cuts)
  BY <1>1, <1>2, <1>4 DEF Closed
<1>6. Open(t, cuts, f, n)
  BY <1>1, <1>2, <1>3 DEF Open
<1> QED BY <1>5, <1>6

(* Each reply brings it nearer to being closed.                            *)
LEMMA ReplyCloses ==
  ASSUME NEW F, NEW C \in Nat, NEW h \in Seq(Message(F, C)), NEW f \in F, NEW n \in Nat,
         NEW cuts \in BOOLEAN, n > 0, Open(h, cuts, f, n), RepliesFollow(h)
  PROVE  /\ n = 1 => Closed(Append(h, Tool(f)), cuts)
         /\ n > 1 => Open(Append(h, Tool(f)), cuts, f, n - 1)
         /\ RepliesFollow(Append(h, Tool(f)))
<1>0. Tool(f) \in Message(F, C)
  BY DEF Tool, Message
<1> PICK t : t = Append(h, Tool(f))
  OBVIOUS
<1>1. /\ Len(h) \in Nat
      /\ DOMAIN h = 1 .. Len(h) /\ DOMAIN t = 1 .. Len(h) + 1 /\ Len(t) = Len(h) + 1
      /\ \A k \in DOMAIN h : t[k] = h[k]
      /\ t[Len(h) + 1] = Tool(f)
  BY <1>0, AppendFacts
<1>2. PICK j \in DOMAIN h :
        /\ h[j].type = "ai" /\ h[j].from = f
        /\ j + h[j].calls = Len(h) + n
        /\ \A k \in j + 1 .. Len(h) : h[k] = Tool(f)
        /\ \A i \in DOMAIN h \ {j} : Complete(h, cuts, i)
  BY DEF Open
<1>3. h[j].calls \in Nat
  BY MessageFields
<1>4. t[j] = h[j] /\ j \in DOMAIN t
  BY <1>1
<1>5. \A k \in j + 1 .. Len(t) : t[k] = Tool(f)
  BY <1>1, <1>2
<1>6. \A i \in DOMAIN h \ {j} : Complete(t, cuts, i)
  BY <1>0, <1>2, StaysComplete
<1>7. Complete(t, cuts, Len(h) + 1)
  BY <1>1 DEF Complete, Answered, Tool
<1>8. \A i \in DOMAIN t \ {j} : Complete(t, cuts, i)
  BY <1>1, <1>6, <1>7
<1>9. n = 1 => Complete(t, cuts, j)
  <2> SUFFICES ASSUME n = 1, NEW k \in 1 .. t[j].calls
               PROVE  j + k \in DOMAIN t /\ t[j + k] = Tool(t[j].from)
    BY DEF Complete, Answered
  <2>1. j + k \in j + 1 .. Len(t) /\ j + k \in DOMAIN t
    BY <1>1, <1>2, <1>3, <1>4
  <2> QED BY <1>2, <1>4, <1>5, <2>1
<1>10. n = 1 => Closed(t, cuts)
  BY <1>8, <1>9 DEF Closed
<1>11. n > 1 => Open(t, cuts, f, n - 1)
  BY <1>1, <1>2, <1>3, <1>4, <1>5, <1>8 DEF Open
<1>12. RepliesFollow(t)
  <2> SUFFICES ASSUME NEW i \in DOMAIN t, IsTool(t[i])
               PROVE  \E x \in 1 .. i - 1 :
                        /\ i - x <= t[x].calls
                        /\ \A k \in x + 1 .. i : IsTool(t[k])
    BY DEF RepliesFollow
  <2>1. CASE i \in DOMAIN h
    <3>1. PICK x \in 1 .. i - 1 :
            /\ i - x <= h[x].calls
            /\ \A k \in x + 1 .. i : IsTool(h[k])
      BY <1>1, <2>1 DEF RepliesFollow
    <3>2. x \in DOMAIN h /\ \A k \in x + 1 .. i : k \in DOMAIN h
      BY <1>1, <2>1
    <3>3. t[x] = h[x] /\ \A k \in x + 1 .. i : t[k] = h[k]
      BY <1>1, <3>2
    <3> QED BY <3>1, <3>3
  <2>2. CASE i = Len(h) + 1
    <3>1. j \in 1 .. i - 1 /\ i - j <= t[j].calls
      BY <1>1, <1>2, <1>3, <1>4, <2>2
    <3>2. \A k \in j + 1 .. i : IsTool(t[k])
      BY <1>1, <1>5, <2>2 DEF IsTool, Tool
    <3> QED BY <3>1, <3>2
  <2>3. i \in DOMAIN h \/ i = Len(h) + 1
    BY <1>1
  <2> QED BY <2>1, <2>2, <2>3
<1> QED BY <1>10, <1>11, <1>12

(* A message that is no reply leaves the replies where they follow.        *)
LEMMA OtherFollows ==
  ASSUME NEW F, NEW C \in Nat, NEW h \in Seq(Message(F, C)), NEW m \in Message(F, C),
         ~IsTool(m), RepliesFollow(h)
  PROVE  RepliesFollow(Append(h, m))
<1> PICK t : t = Append(h, m)
  OBVIOUS
<1>1. /\ Len(h) \in Nat
      /\ DOMAIN h = 1 .. Len(h) /\ DOMAIN t = 1 .. Len(h) + 1
      /\ \A k \in DOMAIN h : t[k] = h[k]
      /\ t[Len(h) + 1] = m
  BY AppendFacts
<1>2. ASSUME NEW i \in DOMAIN t, IsTool(t[i])
      PROVE  \E x \in 1 .. i - 1 :
               /\ i - x <= t[x].calls
               /\ \A k \in x + 1 .. i : IsTool(t[k])
  <2>1. i \in DOMAIN h
    BY <1>1, <1>2
  <2>2. PICK x \in 1 .. i - 1 :
          /\ i - x <= h[x].calls
          /\ \A k \in x + 1 .. i : IsTool(h[k])
    BY <1>1, <1>2, <2>1 DEF RepliesFollow
  <2>3. x \in DOMAIN h /\ \A k \in x + 1 .. i : k \in DOMAIN h
    BY <1>1, <2>1
  <2>4. t[x] = h[x] /\ \A k \in x + 1 .. i : t[k] = h[k]
    BY <1>1, <2>3
  <2> QED BY <2>2, <2>4
<1> QED BY <1>2 DEF RepliesFollow

(* The number of ToolMessages at the end.                                  *)
LEMMA TailGrows ==
  ASSUME NEW F, NEW C \in Nat, NEW h \in Seq(Message(F, C)), NEW m \in Message(F, C), NEW n \in Int
  PROVE  /\ TailWithin(h, n) => TailWithin(Append(h, m), n + 1)
         /\ ~IsTool(m) /\ n >= 0 => TailWithin(Append(h, m), n)
<1> PICK t : t = Append(h, m)
  OBVIOUS
<1>1. /\ Len(h) \in Nat /\ Len(t) = Len(h) + 1
      /\ DOMAIN h = 1 .. Len(h) /\ DOMAIN t = 1 .. Len(h) + 1
      /\ \A k \in DOMAIN h : t[k] = h[k]
      /\ t[Len(h) + 1] = m
  BY AppendFacts
<1>2. TailWithin(h, n) => TailWithin(t, n + 1)
  BY <1>1 DEF TailWithin
<1>3. ~IsTool(m) /\ n >= 0 => TailWithin(t, n)
  BY <1>1 DEF TailWithin
<1> QED BY <1>2, <1>3
-----------------------------------------------------------------------------
(* What trimming does to them.                                             *)

LEMMA Between ==
  ASSUME NEW i \in Int, NEW z \in Int, NEW k \in i + 1 .. z - 1
  PROVE  k \in Int /\ k > i /\ k < z
OBVIOUS

LEMMA Shifted ==
  ASSUME NEW s \in Int, NEW i \in Int, NEW j \in Int, NEW k \in Int
  PROVE  /\ k > i /\ k < j - s + 1 => k + s - 1 \in s + i - 1 + 1 .. j - 1
         /\ k > j - s + 1 /\ k <= i => k + s - 1 \in j + 1 .. s + i - 1
OBVIOUS

(* Any suffix that does not begin with a reply keeps its calls' replies.   *)
LEMMA SuffixKeepsReplies ==
  ASSUME NEW F, NEW C \in Nat, NEW h \in Seq(Message(F, C)), NEW cuts \in BOOLEAN,
         Closed(h, cuts), RepliesFollow(h),
         NEW s \in 1 .. Len(h) + 1, s <= Len(h) => ~IsTool(h[s]),
         NEW t \in Seq(Message(F, C)),
         Len(t) = Len(h) - s + 1,
         \A i \in 1 .. Len(t) : t[i] = h[s + i - 1]
  PROVE  Closed(t, cuts) /\ RepliesFollow(t)
<1>3. /\ Len(h) \in Nat /\ DOMAIN h = 1 .. Len(h) /\ DOMAIN t = 1 .. Len(t)
      /\ Len(t) = Len(h) - s + 1
  OBVIOUS
<1>4. \A i \in 1 .. Len(h) : h[i].calls \in Nat
  BY <1>3, MessageFields
<1>5. ASSUME NEW x \in s .. Len(h)
      PROVE  /\ x \in 1 .. Len(h)
             /\ x - s + 1 \in 1 .. Len(t)
             /\ t[x - s + 1] = h[x]
  <2>1. x - s + 1 \in 1 .. Len(t) /\ s + (x - s + 1) - 1 = x /\ x \in 1 .. Len(h)
    BY <1>3
  <2>2. t[x - s + 1] = h[s + (x - s + 1) - 1]
    BY <2>1
  <2> QED BY <2>1, <2>2
<1>6. ASSUME NEW i \in 1 .. Len(t)
      PROVE  Complete(t, cuts, i)
  <2>0. s + i - 1 \in s .. Len(h)
    BY <1>3
  <2> PICK x \in s .. Len(h) : x = s + i - 1
    BY <2>0
  <2>1. x - s + 1 = i
    OBVIOUS
  <2>2. t[i] = h[x] /\ x \in DOMAIN h
    BY <1>3, <1>5, <2>1
  <2>3. Complete(h, cuts, x)
    BY <2>2 DEF Closed
  <2>4. Answered(h, x) => Answered(t, i)
    <3> SUFFICES ASSUME Answered(h, x), NEW k \in 1 .. t[i].calls
                 PROVE  i + k \in DOMAIN t /\ t[i + k] = Tool(t[i].from)
      BY DEF Answered
    <3>1. k \in Nat /\ k >= 1
      BY <1>3, <1>4, <2>2
    <3>2. x + k \in DOMAIN h /\ h[x + k] = Tool(h[x].from)
      BY <2>2 DEF Answered
    <3>0. x + k \in 1 .. Len(h)
      BY <1>3, <3>2
    <3>3. x + k \in s .. Len(h) /\ (x + k) - s + 1 = i + k
      BY <1>3, <2>1, <3>1, <3>0
    <3>4. i + k \in 1 .. Len(t) /\ t[i + k] = h[x + k]
      BY <1>5, <3>3
    <3> QED BY <1>3, <2>2, <3>2, <3>4
  <2>5. CutOff(h, x) => CutOff(t, i)
    <3> SUFFICES ASSUME CutOff(h, x) PROVE CutOff(t, i)
      OBVIOUS
    <3>1. PICK j \in x + 1 .. Len(h) :
            /\ h[j].type = "human"
            /\ \A k \in x + 1 .. j - 1 : h[k] = Tool(h[x].from)
      BY DEF CutOff
    <3>2. j \in s .. Len(h) /\ j - s + 1 \in i + 1 .. Len(t)
      BY <1>3, <2>1
    <3> PICK z \in i + 1 .. Len(t) : z = j - s + 1
      BY <3>2
    <3>3. t[z].type = "human"
      BY <1>5, <3>1, <3>2
    <3>4. ASSUME NEW k \in i + 1 .. z - 1
          PROVE  t[k] = Tool(t[i].from)
      <4>a. s \in Int /\ i \in Int /\ j \in Int /\ z \in Int
        OBVIOUS
      <4>b. k \in Int /\ k > i /\ k < z
        BY <4>a, Between, Zenon
      <4>0. k \in Int /\ k > i /\ k < j - s + 1 /\ s \in Int /\ i \in Int /\ j \in Int
        BY <4>a, <4>b
      <4>1. k + s - 1 \in x + 1 .. j - 1
        BY <4>0, Shifted
      <4>2. k + s - 1 \in s .. Len(h) /\ (k + s - 1) - s + 1 = k
        BY <4>1
      <4>3. t[k] = h[k + s - 1]
        BY <1>5, <4>2
      <4> QED BY <2>2, <3>1, <4>1, <4>3
    <3> QED BY <3>3, <3>4 DEF CutOff
  <2> QED BY <2>3, <2>4, <2>5 DEF Complete
<1>7. ASSUME NEW i \in 1 .. Len(t), IsTool(t[i])
      PROVE  \E y \in 1 .. i - 1 :
               /\ i - y <= t[y].calls
               /\ \A k \in y + 1 .. i : IsTool(t[k])
  <2>0. s + i - 1 \in s .. Len(h)
    BY <1>3
  <2> PICK x \in s .. Len(h) : x = s + i - 1
    BY <2>0
  <2>1. x - s + 1 = i
    OBVIOUS
  <2>2. t[i] = h[x] /\ x \in DOMAIN h
    BY <1>3, <1>5, <2>1
  <2>3. PICK j \in 1 .. x - 1 :
          /\ x - j <= h[j].calls
          /\ \A k \in j + 1 .. x : IsTool(h[k])
    BY <1>7, <2>2 DEF RepliesFollow
  <2>4. j \in s .. Len(h)
    <3>1. ~ (j < s)
      <4> SUFFICES ASSUME j < s PROVE FALSE
        OBVIOUS
      <4>1. s \in j + 1 .. x /\ s <= Len(h)
        BY <1>3, <2>1
      <4> QED BY <2>3, <4>1
    <3> QED BY <1>3, <2>1, <3>1
  <2>5. j - s + 1 \in 1 .. i - 1 /\ t[j - s + 1] = h[j]
    BY <1>5, <2>1, <2>4
  <2> PICK y \in 1 .. i - 1 : y = j - s + 1
    BY <2>5
  <2>7. i - y = x - j
    BY <2>1
  <2>6. ASSUME NEW k \in y + 1 .. i
        PROVE  IsTool(t[k])
    <3>0. k \in Int /\ k > j - s + 1 /\ k <= i /\ s \in Int /\ i \in Int /\ j \in Int
      OBVIOUS
    <3>1. k + s - 1 \in j + 1 .. x
      BY <3>0, Shifted
    <3>2. k + s - 1 \in s .. Len(h) /\ (k + s - 1) - s + 1 = k
      BY <2>4, <3>1
    <3>3. t[k] = h[k + s - 1]
      BY <1>5, <3>2
    <3> QED BY <2>3, <3>1, <3>3
  <2> QED BY <2>3, <2>5, <2>6, <2>7
<1> QED
  BY <1>3, <1>6, <1>7 DEF Closed, RepliesFollow

LEMMA TrimKeepsReplies ==
  ASSUME NEW F, NEW C \in Nat, NEW h \in Seq(Message(F, C)), NEW cuts \in BOOLEAN,
         Closed(h, cuts), RepliesFollow(h)
  PROVE  Closed(Trim(h), cuts) /\ RepliesFollow(Trim(h))
<1>1. CASE Len(h) <= MaxHistory
  BY <1>1 DEF Trim
<1>2. CASE Len(h) > MaxHistory
  <2>1. Len(h) \in Nat /\ TrimStart(h) \in 1 .. Len(h) + 1
    BY <1>2, TrimStartProperties, MaxHistoryAssumption
  <2>2. TrimStart(h) <= Len(h) => ~IsTool(h[TrimStart(h)])
    BY <1>2, TrimStartProperties
  <2>3. /\ Trim(h) \in Seq(Message(F, C))
        /\ Len(Trim(h)) = Len(h) - TrimStart(h) + 1
        /\ \A i \in 1 .. Len(Trim(h)) : Trim(h)[i] = h[TrimStart(h) + i - 1]
    BY <1>2, TrimIsSuffix
  <2> QED BY <2>1, <2>2, <2>3, SuffixKeepsReplies
<1> QED BY <1>1, <1>2, MaxHistoryAssumption

(* Nothing after the first clean position is skipped: a history that ends  *)
(* in fewer ToolMessages than the limit keeps what stands before them.     *)
LEMMA TrimKeepsTail ==
  ASSUME NEW F, NEW C \in Nat, NEW h \in Seq(Message(F, C)), NEW n \in Int,
         n < MaxHistory, TailWithin(h, n)
  PROVE  TailWithin(Trim(h), n)
<1>1. CASE Len(h) <= MaxHistory
  BY <1>1 DEF Trim
<1>2. CASE Len(h) > MaxHistory
  <2> PICK s, t : s = TrimStart(h) /\ t = Trim(h)
    OBVIOUS
  <2>0. MaxHistory \in Nat \ {0} /\ Len(h) \in Nat /\ DOMAIN h = 1 .. Len(h)
    BY MaxHistoryAssumption
  <2>1. PICK j \in DOMAIN h : ~IsTool(h[j]) /\ Len(h) - j <= n
    BY DEF TailWithin
  <2>2. j \in Len(h) - MaxHistory + 1 .. Len(h)
    BY <2>0, <2>1
  <2>3. s <= j /\ s \in Nat /\ s >= 1
    BY <1>2, <2>0, <2>1, <2>2, TrimStartProperties
  <2>4. /\ t \in Seq(Message(F, C))
        /\ Len(t) = Len(h) - s + 1
        /\ \A i \in 1 .. Len(t) : t[i] = h[s + i - 1]
    BY <1>2, TrimIsSuffix
  <2>5. j - s + 1 \in DOMAIN t /\ s + (j - s + 1) - 1 = j /\ Len(t) - (j - s + 1) <= n
    BY <2>0, <2>1, <2>3, <2>4
  <2>6. t[j - s + 1] = h[j]
    BY <2>4, <2>5
  <2> QED BY <2>1, <2>5, <2>6 DEF TailWithin
<1> QED BY <1>1, <1>2, MaxHistoryAssumption

(* A closed history is what an LLM may be sent.                            *)
LEMMA ClosedIsPaired ==
  ASSUME NEW h, NEW cuts \in BOOLEAN, Closed(h, cuts), RepliesFollow(h)
  PROVE  /\ PairedOrCutOff(h)
         /\ ~cuts => Paired(h)
<1>1. RepliesHaveCalls(h)
  BY DEF RepliesFollow, RepliesHaveCalls
<1>2. \A i \in DOMAIN h : Answered(h, i) \/ (cuts /\ CutOff(h, i))
  BY DEF Closed, Complete
<1> QED BY <1>1, <1>2 DEF PairedOrCutOff, Paired
=============================================================================
