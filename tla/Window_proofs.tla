---------------------------- MODULE Window_proofs ----------------------------
(***************************************************************************)
(* What holds of every window of the terminal client, for any commands,    *)
(* sizes and keys: its input tabs are line editors whose screen is the     *)
(* line, and its panes show the lines from topLineScroll on and, when they *)
(* are not scrolled, the newest.                                           *)
(***************************************************************************)
EXTENDS Window, WellFoundedInduction, TLAPS

-----------------------------------------------------------------------------
(* Sequences *)

\* The two parts of a sequence.
LEMMA Cut ==
  ASSUME NEW S, NEW s \in Seq(S), NEW k \in 0..Len(s)
  PROVE  /\ SubSeq(s, 1, k) \in Seq(S) /\ SubSeq(s, k + 1, Len(s)) \in Seq(S)
         /\ Len(SubSeq(s, 1, k)) = k /\ Len(SubSeq(s, k + 1, Len(s))) = Len(s) - k
OBVIOUS

LEMMA LengthJoined ==
  ASSUME NEW S, NEW s \in Seq(S), NEW t \in Seq(S)
  PROVE  s \o t \in Seq(S) /\ Len(s \o t) = Len(s) + Len(t)
OBVIOUS

LEMMA Removed ==
  ASSUME NEW S, NEW s \in Seq(S), NEW i \in 1..Len(s)
  PROVE  RemoveAt(s, i) \in Seq(S) /\ Len(RemoveAt(s, i)) = Len(s) - 1
<1> DEFINE a == SubSeq(s, 1, i - 1)
           b == SubSeq(s, i + 1, Len(s))
<1>1. Len(s) \in Nat /\ i \in Nat /\ i - 1 \in 0..Len(s) /\ i \in 0..Len(s)
  OBVIOUS
<1>2. a \in Seq(S) /\ Len(a) = i - 1
  BY <1>1, Cut
<1>3. b \in Seq(S) /\ Len(b) = Len(s) - i
  BY <1>1, Cut
<1>4. RemoveAt(s, i) = a \o b
  BY DEF RemoveAt
<1> HIDE DEF a, b
<1>5. a \o b \in Seq(S) /\ Len(a \o b) = Len(a) + Len(b)
  BY <1>2, <1>3
<1> QED BY <1>1, <1>2, <1>3, <1>4, <1>5

LEMMA Inserted ==
  ASSUME NEW S, NEW s \in Seq(S), NEW i \in 0..Len(s), NEW c \in S
  PROVE  InsertAt(s, i + 1, c) \in Seq(S) /\ Len(InsertAt(s, i + 1, c)) = Len(s) + 1
<1> DEFINE a == SubSeq(s, 1, i)
           b == SubSeq(s, i + 1, Len(s))
           m == <<c>>
<1>1. Len(s) \in Nat /\ i \in Nat
  OBVIOUS
<1>2. a \in Seq(S) /\ Len(a) = i /\ b \in Seq(S) /\ Len(b) = Len(s) - i
  BY <1>1, Cut
<1>3. m \in Seq(S) /\ Len(m) = 1
  OBVIOUS
<1>4. InsertAt(s, i + 1, c) = (a \o m) \o b
  <2>1. (i + 1) - 1 = i
    BY <1>1
  <2> QED BY <2>1 DEF InsertAt
<1> HIDE DEF a, b, m
<1> DEFINE y == a \o m
<1>5. y \in Seq(S) /\ Len(y) = i + 1
  BY <1>1, <1>2, <1>3, LengthJoined
<1> HIDE DEF y
<1>6. y \o b \in Seq(S) /\ Len(y \o b) = (i + 1) + (Len(s) - i)
  BY <1>2, <1>5, LengthJoined
<1>7. (i + 1) + (Len(s) - i) = Len(s) + 1
  BY <1>1
<1> QED BY <1>4, <1>6, <1>7 DEF y

-----------------------------------------------------------------------------
(* The input tabs *)

Char == DOMAIN Upper
Texts == {s \in Seq(Char) : Len(s) <= CMD_BUFFER_SIZE}

TabLines ==
  [commandBuffer : Texts, tmpCommandBuffer : Texts, x : 0..(Width - 1), drawn : Seq(Char),
   inputHistory : Seq(Texts), suggestedHintIndexes : SUBSET Nat,
   currentCommandIndex : Nat, currentSuggestedIndex : Nat, overrun : BOOLEAN, cut : BOOLEAN,
   odd : BOOLEAN]

HintsOf == {h \in Seq(Seq(Char)) : \A i \in DOMAIN h : Append(h[i], Space) \in Texts}

\* What the window of an input tab shows is its buffer and its cursor is in it,
\* odd characters aside, and what can be recalled and suggested is there.
LineOK(e, hints) ==
  /\ e \in TabLines
  /\ ~e.odd => e.x <= Len(e.commandBuffer)
  /\ e.currentCommandIndex <= Len(e.inputHistory)
  /\ e.suggestedHintIndexes \subseteq 1..Len(hints)
  /\ e.suggestedHintIndexes # {} =>
       e.currentSuggestedIndex \in e.suggestedHintIndexes \cup {0}
  /\ ~e.cut /\ ~e.odd => e.drawn = e.commandBuffer

\* What a line can be replaced by: a command suggested, or a line that was entered.
Memory(e, hints) ==
  {Append(hints[i], Space) : i \in DOMAIN hints} \cup Range(e.inputHistory)

\* LineEditor's Edit, of one tab.
LineStep(e, f, hints) ==
  /\ f.odd => e.odd \/ HasOdd(f.commandBuffer)
  /\ \/ /\ e.commandBuffer # <<>> /\ f.commandBuffer = <<>> /\ f.x = 0
        /\ Memory(f, hints) = Memory(e, hints) \cup {e.commandBuffer}
        /\ f.tmpCommandBuffer = e.tmpCommandBuffer
     \/ /\ Memory(f, hints) = Memory(e, hints)
        /\ \/ /\ f.tmpCommandBuffer = e.tmpCommandBuffer
              /\ \/ \E c \in Letters :
                      /\ e.x <= Len(e.commandBuffer)
                      /\ f.commandBuffer = InsertAt(e.commandBuffer, e.x + 1, c) /\ f.x = e.x + 1
                 \/ /\ e.x < Len(e.commandBuffer)
                    /\ f.commandBuffer = RemoveAt(e.commandBuffer, e.x + 1) /\ f.x = e.x
                 \/ /\ e.x \in DOMAIN e.commandBuffer
                    /\ f.commandBuffer = RemoveAt(e.commandBuffer, e.x) /\ f.x = e.x - 1
                 \/ f.commandBuffer = e.commandBuffer /\ f.x \in 0..Len(e.commandBuffer)
           \/ /\ f.commandBuffer \in Memory(e, hints) /\ f.x = Len(f.commandBuffer)
              /\ f.tmpCommandBuffer \in {e.tmpCommandBuffer, e.commandBuffer}
           \/ /\ f.commandBuffer = e.tmpCommandBuffer /\ f.x = Len(f.commandBuffer)
              /\ f.tmpCommandBuffer = <<>>
           \/ Len(e.commandBuffer) >= Width \/ Len(f.commandBuffer) >= Width
           \/ (e.odd \/ f.odd) /\ (f.odd \/ f.x <= Len(f.commandBuffer))

Keeps(e, f, hints) == LineOK(f, hints) /\ LineStep(e, f, hints)

LEMMA ColumnsAre ==
  ASSUME NEW b \in Texts
  PROVE  ColumnsOf(b) \in Nat /\ (~HasOdd(b) => ColumnsOf(b) = Len(b))
<1> DEFINE n == Len(b)
<1>1. n \in 0..CMD_BUFFER_SIZE /\ DOMAIN b = 1..n /\ b \in [1..n -> DOMAIN Upper]
  BY InputTabAssumption DEF Texts, Char, InputTabAssumption
<1> HIDE DEF n
<1>2. ColumnsOf(b) \in Nat /\ ((\A i \in 1..n : b[i] \notin Odd) => ColumnsOf(b) = n)
  BY <1>1, InputTabAssumption DEF InputTabAssumption
<1> QED BY <1>1, <1>2 DEF HasOdd, n

LEMMA Prompt ==
  ASSUME NEW e \in TabLines
  PROVE  /\ WritePromptLine(e) \in TabLines
         /\ LET w == WritePromptLine(e) IN
            /\ w.commandBuffer = e.commandBuffer /\ w.tmpCommandBuffer = e.tmpCommandBuffer
            /\ w.inputHistory = e.inputHistory
            /\ w.suggestedHintIndexes = e.suggestedHintIndexes
            /\ w.currentCommandIndex = e.currentCommandIndex
            /\ w.currentSuggestedIndex = e.currentSuggestedIndex
            /\ w.odd = HasOdd(e.commandBuffer)
            /\ ~w.odd => w.x <= Len(e.commandBuffer)
            /\ ~w.odd /\ Len(e.commandBuffer) < Width => w.x = Len(e.commandBuffer)
            /\ ~w.cut => w.drawn = e.commandBuffer
<1> DEFINE b == e.commandBuffer
           d == FirstN(b, Width)
           k == ColumnsOf(b)
           p == IF k < Width THEN k ELSE Width - 1
           c == Len(b) > Width
           o == HasOdd(b)
           w == [e EXCEPT !.drawn = d, !.cut = c, !.odd = o, !.x = p]
<1>1. b \in Texts /\ b \in Seq(Char) /\ Len(b) \in Nat /\ Width \in Nat \ {0}
  BY InputTabAssumption DEF TabLines, Texts, InputTabAssumption
<1>2. d \in Seq(Char) /\ (~c => d = b)
  <2>1. CASE c
    <3>1. d = SubSeq(b, 1, Width) /\ Width \in 0..Len(b)
      BY <1>1, <2>1 DEF FirstN
    <3> QED BY <1>1, <2>1, <3>1, Cut
  <2>2. CASE ~c
    <3>1. d = SubSeq(b, 1, Len(b))
      BY <1>1, <2>2 DEF FirstN
    <3> QED BY <1>1, <3>1
  <2> QED BY <2>1, <2>2
<1>3. k \in Nat /\ (~o => k = Len(b))
  BY <1>1, ColumnsAre
<1>4. c \in BOOLEAN /\ o \in BOOLEAN
  BY DEF HasOdd
<1>5. p \in 0..(Width - 1) /\ (~o => p <= Len(b)) /\ (~o /\ Len(b) < Width => p = Len(b))
  <2> HIDE DEF k, o, b
  <2> QED BY <1>1, <1>3
<1>6. WritePromptLine(e) = w
  BY DEF WritePromptLine, bufferSize
<1> HIDE DEF d, p, c, o
<1>7. w \in TabLines
  BY <1>2, <1>4, <1>5 DEF TabLines
<1>8. /\ w.x = p /\ w.drawn = d /\ w.cut = c /\ w.odd = o
      /\ w.commandBuffer = e.commandBuffer /\ w.tmpCommandBuffer = e.tmpCommandBuffer
      /\ w.inputHistory = e.inputHistory
      /\ w.suggestedHintIndexes = e.suggestedHintIndexes
      /\ w.currentCommandIndex = e.currentCommandIndex
      /\ w.currentSuggestedIndex = e.currentSuggestedIndex
  BY DEF TabLines
<1> HIDE DEF w, b
<1> QED BY <1>2, <1>5, <1>6, <1>7, <1>8 DEF b, o

\* The two lines differ in their hints at most.
SameText(e, f) ==
  /\ f.commandBuffer = e.commandBuffer /\ f.tmpCommandBuffer = e.tmpCommandBuffer
  /\ f.x = e.x /\ f.drawn = e.drawn /\ f.inputHistory = e.inputHistory /\ f.cut = e.cut
  /\ f.odd = e.odd

LEMMA TabAssumption ==
  /\ CMD_BUFFER_SIZE \in Nat \ {0} /\ Width \in Nat \ {0}
  /\ Letters \subseteq Char /\ Space \in Char
BY InputTabAssumption, WindowAssumption DEF InputTabAssumption, WindowAssumption, Char

LEMMA HintsType ==
  ASSUME NEW t \in TabIndexes
  PROVE  Hints[t] \in HintsOf
<1>1. Hints[t] \in Seq(Seq(Char)) /\ \A i \in DOMAIN Hints[t] : Len(Hints[t][i]) < CMD_BUFFER_SIZE
  BY WindowAssumption DEF WindowAssumption, TabIndexes, Char
<1>2. ASSUME NEW i \in DOMAIN Hints[t] PROVE Append(Hints[t][i], Space) \in Texts
  <2> DEFINE h == Hints[t][i]
  <2>1. h \in Seq(Char) /\ Len(h) < CMD_BUFFER_SIZE
    BY <1>1
  <2> HIDE DEF h
  <2>2. Append(h, Space) \in Seq(Char) /\ Len(Append(h, Space)) = Len(h) + 1 /\ Len(h) \in Nat
    BY <2>1, TabAssumption
  <2> QED BY <2>1, <2>2, TabAssumption DEF Texts, h
<1> QED BY <1>1, <1>2 DEF HintsOf

LEMMA TabLineIs ==
  ASSUME NEW e \in TabLines
  PROVE  /\ e.commandBuffer \in Seq(Char) /\ Len(e.commandBuffer) <= CMD_BUFFER_SIZE
         /\ e.commandBuffer \in Texts
         /\ Len(e.commandBuffer) \in Nat /\ e.tmpCommandBuffer \in Texts /\ e.x \in Nat
         /\ e.drawn \in Seq(Char) /\ Len(e.drawn) \in Nat /\ e.inputHistory \in Seq(Texts)
         /\ Len(e.inputHistory) \in Nat /\ e.suggestedHintIndexes \in SUBSET Nat
         /\ e.currentCommandIndex \in Nat /\ e.currentSuggestedIndex \in Nat
         /\ e.odd \in BOOLEAN
<1>1. e.commandBuffer \in Texts /\ e.tmpCommandBuffer \in Texts /\ e.x \in 0..(Width - 1)
      /\ e.drawn \in Seq(Char) /\ e.inputHistory \in Seq(Texts)
      /\ e.suggestedHintIndexes \in SUBSET Nat
      /\ e.currentCommandIndex \in Nat /\ e.currentSuggestedIndex \in Nat
      /\ e.odd \in BOOLEAN
  BY DEF TabLines
<1>2. e.commandBuffer \in Seq(Char) /\ Len(e.commandBuffer) <= CMD_BUFFER_SIZE
  BY <1>1 DEF Texts
<1>3. Len(e.commandBuffer) \in Nat /\ Len(e.drawn) \in Nat /\ Len(e.inputHistory) \in Nat
  BY <1>1, <1>2
<1>4. e.x \in Nat
  BY <1>1, TabAssumption
<1> QED BY <1>1, <1>2, <1>3, <1>4

LEMMA HintsChange ==
  ASSUME NEW e \in TabLines, NEW h \in HintsOf, NEW u \in {ClearHints(e), UpdateHints(e, h)}
  PROVE  /\ u \in TabLines /\ SameText(e, u) /\ u.currentCommandIndex \in {0, e.currentCommandIndex}
         /\ u.suggestedHintIndexes \subseteq 1..Len(h)
         /\ u.suggestedHintIndexes # {} => u.currentSuggestedIndex = 0
<1>1. CASE u = ClearHints(e)
  BY <1>1 DEF ClearHints, TabLines, SameText
<1>2. CASE u = UpdateHints(e, h)
  <2> DEFINE s == {i \in 1..Len(h) : Fits(h[i], e.commandBuffer)}
  <2>1. s \in SUBSET Nat /\ s \subseteq 1..Len(h)
    BY DEF HintsOf
  <2>2. u = [e EXCEPT !.suggestedHintIndexes = s, !.currentSuggestedIndex = 0]
    BY <1>2 DEF UpdateHints
  <2> HIDE DEF s
  <2> QED BY <2>1, <2>2 DEF TabLines, SameText
<1> QED BY <1>1, <1>2

LEMMA MemorySame ==
  ASSUME NEW e, NEW f, NEW h, f.inputHistory = e.inputHistory
  PROVE  Memory(f, h) = Memory(e, h)
BY DEF Memory

LEMMA NothingKeeps ==
  ASSUME NEW h, NEW e, LineOK(e, h)
  PROVE  Keeps(e, e, h)
<1>1. e.x \in Nat /\ Len(e.commandBuffer) \in Nat /\ e.odd \in BOOLEAN
      /\ (~e.odd => e.x <= Len(e.commandBuffer))
  BY TabLineIs DEF LineOK
<1>2. CASE e.odd
  BY <1>2 DEF Keeps, LineStep
<1>3. CASE ~e.odd
  <2>1. e.x \in 0..Len(e.commandBuffer)
    BY <1>1, <1>3
  <2> QED BY <1>3, <2>1 DEF Keeps, LineStep
<1> QED BY <1>2, <1>3

\* Written outside of the buffer: nothing else changes.
LEMMA OverrunKeeps ==
  ASSUME NEW h, NEW e, LineOK(e, h)
  PROVE  Keeps(e, [e EXCEPT !.overrun = TRUE], h)
<1> DEFINE u == [e EXCEPT !.overrun = TRUE]
<1>1. e \in TabLines
  BY DEF LineOK
<1>2. u \in TabLines
  BY <1>1 DEF TabLines
<1>3. /\ u.commandBuffer = e.commandBuffer /\ u.tmpCommandBuffer = e.tmpCommandBuffer
      /\ u.inputHistory = e.inputHistory /\ u.x = e.x
      /\ u.cut = e.cut /\ u.odd = e.odd /\ u.drawn = e.drawn
      /\ u.currentCommandIndex = e.currentCommandIndex
      /\ u.suggestedHintIndexes = e.suggestedHintIndexes
      /\ u.currentSuggestedIndex = e.currentSuggestedIndex
  BY <1>1 DEF TabLines
<1> HIDE DEF u
<1>4. LineOK(u, h)
  BY <1>2, <1>3 DEF LineOK
<1>5. LineStep(e, u, h)
  <2>1. Memory(u, h) = Memory(e, h)
    BY <1>3, MemorySame
  <2>2. LineStep(e, e, h)
    BY NothingKeeps DEF Keeps
  <2> QED BY <1>3, <2>1, <2>2 DEF LineStep
<1> QED BY <1>4, <1>5 DEF Keeps, u

LEMMA AfterDeleteIs ==
  ASSUME NEW h \in HintsOf, NEW d \in TabLines, ~d.odd => d.x <= Len(d.commandBuffer),
         d.currentCommandIndex <= Len(d.inputHistory),
         ~d.cut /\ ~d.odd => d.drawn = d.commandBuffer
  PROVE  LineOK(AfterDelete(d, h), h) /\ SameText(d, AfterDelete(d, h))
<1> DEFINE u == AfterDelete(d, h)
<1>1. u \in {ClearHints(d), UpdateHints(d, h)}
  BY DEF AfterDelete
<1> HIDE DEF u
<1>2. /\ u \in TabLines /\ SameText(d, u) /\ u.currentCommandIndex \in {0, d.currentCommandIndex}
      /\ u.suggestedHintIndexes \subseteq 1..Len(h)
      /\ u.suggestedHintIndexes # {} => u.currentSuggestedIndex = 0
  BY <1>1, HintsChange
<1>3. Len(d.inputHistory) \in Nat
  BY TabLineIs
<1>4. LineOK(u, h)
  BY <1>2, <1>3 DEF LineOK, SameText
<1> QED BY <1>2, <1>4 DEF u

LEMMA DeleteForwardKeeps ==
  ASSUME NEW h \in HintsOf, NEW e, LineOK(e, h)
  PROVE  Keeps(e, DeleteCharForward(e, h), h)
<1> DEFINE b == e.commandBuffer
           r == RemoveAt(b, e.x + 1)
           s == Erase(e.drawn, e.x + 1)
           d == [e EXCEPT !.commandBuffer = r, !.drawn = s]
           u == AfterDelete(d, h)
<1>1. e \in TabLines /\ e.currentCommandIndex <= Len(e.inputHistory)
      /\ (~e.cut /\ ~e.odd => e.drawn = b)
  BY DEF LineOK
<1>2. b \in Seq(Char) /\ Len(b) \in Nat /\ Len(b) <= CMD_BUFFER_SIZE /\ e.x \in Nat
      /\ e.drawn \in Seq(Char) /\ Len(e.drawn) \in Nat
  BY <1>1, TabLineIs
<1>3. CASE e.x = Len(b)
  BY <1>3, NothingKeeps DEF DeleteCharForward, bufferSize
<1>5. CASE e.x > Len(b)
  <2>1. DeleteCharForward(e, h) = [e EXCEPT !.overrun = TRUE]
    BY <1>2, <1>5 DEF DeleteCharForward, bufferSize
  <2> QED BY <2>1, OverrunKeeps
<1>4. CASE e.x < Len(b)
  <2>1. e.x + 1 \in 1..Len(b)
    BY <1>1, <1>2, <1>4
  <2>2. r \in Seq(Char) /\ Len(r) = Len(b) - 1
    BY <1>2, <2>1, Removed
  <2>3. r \in Texts
    BY <1>2, <2>2, TabAssumption DEF Texts
  <2>4. s \in Seq(Char)
    <3>1. CASE e.x + 1 <= Len(e.drawn)
      <4>1. e.x + 1 \in 1..Len(e.drawn)
        BY <1>2, <3>1
      <4> QED BY <1>2, <3>1, <4>1, Removed DEF Erase
    <3>2. CASE ~(e.x + 1 <= Len(e.drawn))
      BY <1>2, <3>2 DEF Erase
    <3> QED BY <3>1, <3>2
  <2>5. ~e.cut /\ ~e.odd => s = r
    BY <1>1, <1>2, <2>1 DEF Erase
  <2>6. DeleteCharForward(e, h) = u
    BY <1>2, <1>4 DEF DeleteCharForward, bufferSize
  <2> HIDE DEF r, s, u
  <2>7. /\ d \in TabLines /\ d.x = e.x /\ d.commandBuffer = r /\ d.cut = e.cut /\ d.drawn = s
        /\ d.odd = e.odd
        /\ d.currentCommandIndex = e.currentCommandIndex /\ d.inputHistory = e.inputHistory
        /\ d.tmpCommandBuffer = e.tmpCommandBuffer
    BY <1>1, <2>3, <2>4 DEF TabLines
  <2> HIDE DEF d
  <2>8. e.x <= Len(r)
    BY <1>1, <1>2, <1>4, <2>2
  <2>9. LineOK(u, h) /\ SameText(d, u)
    BY <1>1, <2>5, <2>7, <2>8, AfterDeleteIs DEF u
  <2>10. LineStep(e, u, h)
    <3>1. Memory(u, h) = Memory(e, h)
      BY <2>7, <2>9, MemorySame DEF SameText
    <3>2. e.x < Len(e.commandBuffer)
      BY <1>1, <1>2, <1>4
    <3>3. u.commandBuffer = RemoveAt(e.commandBuffer, e.x + 1) /\ u.x = e.x
      BY <2>7, <2>9 DEF SameText, r
    <3>4. u.odd = e.odd /\ u.tmpCommandBuffer = e.tmpCommandBuffer
      BY <2>7, <2>9 DEF SameText
    <3> QED BY <3>1, <3>2, <3>3, <3>4 DEF LineStep
  <2> QED BY <2>6, <2>9, <2>10 DEF Keeps
<1> QED BY <1>2, <1>3, <1>4, <1>5

LEMMA DeleteBackKeeps ==
  ASSUME NEW h \in HintsOf, NEW e, LineOK(e, h)
  PROVE  Keeps(e, DeleteCharBack(e, h), h)
<1> DEFINE b == e.commandBuffer
           r == RemoveAt(b, e.x)
           s == Erase(e.drawn, e.x)
           d == [e EXCEPT !.commandBuffer = r, !.drawn = s, !.x = e.x - 1]
           u == AfterDelete(d, h)
<1>1. e \in TabLines /\ e.currentCommandIndex <= Len(e.inputHistory)
      /\ (~e.cut /\ ~e.odd => e.drawn = b)
  BY DEF LineOK
<1>2. b \in Seq(Char) /\ Len(b) \in Nat /\ Len(b) <= CMD_BUFFER_SIZE /\ e.x \in Nat
      /\ e.drawn \in Seq(Char) /\ Len(e.drawn) \in Nat
  BY <1>1, TabLineIs
<1>3. CASE e.x = 0
  BY <1>3, NothingKeeps DEF DeleteCharBack
<1>5. CASE e.x > Len(b)
  <2>1. DeleteCharBack(e, h) = [e EXCEPT !.overrun = TRUE]
    BY <1>2, <1>5 DEF DeleteCharBack, bufferSize
  <2> QED BY <2>1, OverrunKeeps
<1>4. CASE e.x # 0 /\ e.x <= Len(b)
  <2>1. e.x \in 1..Len(b) /\ e.x > 0 /\ e.x \in DOMAIN b
    BY <1>1, <1>2, <1>4
  <2>2. r \in Seq(Char) /\ Len(r) = Len(b) - 1
    BY <1>2, <2>1, Removed
  <2>3. r \in Texts
    BY <1>2, <2>2, TabAssumption DEF Texts
  <2>4. s \in Seq(Char)
    <3>1. CASE e.x <= Len(e.drawn)
      <4>1. e.x \in 1..Len(e.drawn)
        BY <1>2, <2>1, <3>1
      <4> QED BY <1>2, <3>1, <4>1, Removed DEF Erase
    <3>2. CASE ~(e.x <= Len(e.drawn))
      BY <1>2, <3>2 DEF Erase
    <3> QED BY <3>1, <3>2
  <2>5. ~e.cut /\ ~e.odd => s = r
    BY <1>1, <1>2, <2>1 DEF Erase
  <2>6. DeleteCharBack(e, h) = u
    BY <1>2, <1>4 DEF DeleteCharBack, bufferSize
  <2>7. e.x - 1 \in 0..(Width - 1)
    <3>1. e.x \in 0..(Width - 1)
      BY <1>1 DEF TabLines
    <3> QED BY <1>4, <3>1, TabAssumption
  <2> HIDE DEF r, s, u
  <2>8. /\ d \in TabLines /\ d.x = e.x - 1 /\ d.commandBuffer = r /\ d.cut = e.cut /\ d.drawn = s
        /\ d.odd = e.odd
        /\ d.currentCommandIndex = e.currentCommandIndex /\ d.inputHistory = e.inputHistory
        /\ d.tmpCommandBuffer = e.tmpCommandBuffer
    BY <1>1, <2>3, <2>4, <2>7 DEF TabLines
  <2> HIDE DEF d
  <2>9. e.x - 1 <= Len(r)
    BY <1>1, <1>2, <2>1, <2>2
  <2>10. LineOK(u, h) /\ SameText(d, u)
    BY <1>1, <2>5, <2>8, <2>9, AfterDeleteIs DEF u
  <2>11. LineStep(e, u, h)
    <3>1. Memory(u, h) = Memory(e, h)
      BY <2>8, <2>10, MemorySame DEF SameText
    <3>2. u.commandBuffer = RemoveAt(e.commandBuffer, e.x) /\ u.x = e.x - 1
      BY <2>8, <2>10 DEF SameText, r
    <3>3. u.odd = e.odd /\ u.tmpCommandBuffer = e.tmpCommandBuffer
      BY <2>8, <2>10 DEF SameText
    <3> QED BY <2>1, <3>1, <3>2, <3>3 DEF LineStep
  <2> QED BY <2>6, <2>10, <2>11 DEF Keeps
<1> QED BY <1>2, <1>3, <1>4, <1>5

LEMMA WmoveKeeps ==
  ASSUME NEW h \in HintsOf, NEW e, LineOK(e, h), NEW p \in Nat, e.odd \/ p <= Len(e.commandBuffer)
  PROVE  Keeps(e, Wmove(e, p), h)
<1> DEFINE u == [e EXCEPT !.x = p]
<1>1. CASE p < Width
  <2>1. Wmove(e, p) = u
    BY <1>1 DEF Wmove
  <2>2. e \in TabLines /\ p \in 0..(Width - 1) /\ Len(e.commandBuffer) \in Nat
    <3>1. e \in TabLines
      BY DEF LineOK
    <3> QED BY <1>1, <3>1, TabLineIs, TabAssumption
  <2>3. u \in TabLines
    BY <2>2 DEF TabLines
  <2>4. /\ u.x = p /\ u.commandBuffer = e.commandBuffer
        /\ u.tmpCommandBuffer = e.tmpCommandBuffer /\ u.inputHistory = e.inputHistory
        /\ u.cut = e.cut /\ u.odd = e.odd /\ u.drawn = e.drawn
        /\ u.currentCommandIndex = e.currentCommandIndex
        /\ u.suggestedHintIndexes = e.suggestedHintIndexes
        /\ u.currentSuggestedIndex = e.currentSuggestedIndex
    BY <2>2 DEF TabLines
  <2> HIDE DEF u
  <2>5. LineOK(u, h)
    BY <2>2, <2>3, <2>4 DEF LineOK
  <2>6. LineStep(e, u, h)
    <3>1. Memory(u, h) = Memory(e, h)
      BY <2>4, MemorySame
    <3>2. CASE e.odd
      BY <2>4, <3>1, <3>2 DEF LineStep
    <3>3. CASE ~e.odd
      <4>1. u.x \in 0..Len(e.commandBuffer)
        BY <2>2, <2>4, <3>3
      <4> QED BY <2>4, <3>1, <3>3, <4>1 DEF LineStep
    <3> QED BY <3>2, <3>3
  <2> QED BY <2>1, <2>5, <2>6 DEF Keeps
<1>2. CASE ~(p < Width)
  BY <1>2, NothingKeeps DEF Wmove
<1> QED BY <1>1, <1>2

LEMMA MovesKeep ==
  ASSUME NEW h \in HintsOf, NEW e, LineOK(e, h)
  PROVE  /\ Keeps(e, MoveCursorLeft(e), h) /\ Keeps(e, MoveCursorRight(e), h)
         /\ Keeps(e, MoveStartLine(e), h) /\ Keeps(e, MoveEndLine(e), h)
<1> DEFINE n == Len(e.commandBuffer)
<1>1. n \in Nat /\ e.x \in Nat /\ (e.odd \/ e.x <= n)
  BY TabLineIs DEF LineOK
<1>2. Keeps(e, MoveCursorLeft(e), h)
  <2>1. CASE e.x > 0
    <3>1. e.x - 1 \in Nat /\ (e.odd \/ e.x - 1 <= n)
      BY <1>1, <2>1
    <3> QED BY <2>1, <3>1, WmoveKeeps DEF MoveCursorLeft
  <2>2. CASE ~(e.x > 0)
    BY <2>2, NothingKeeps DEF MoveCursorLeft
  <2> QED BY <2>1, <2>2
<1>3. Keeps(e, MoveCursorRight(e), h)
  <2>1. CASE e.x < n
    <3>1. e.x + 1 \in Nat /\ e.x + 1 <= n
      BY <1>1, <2>1
    <3> QED BY <2>1, <3>1, WmoveKeeps DEF MoveCursorRight, bufferSize
  <2>2. CASE ~(e.x < n)
    BY <2>2, NothingKeeps DEF MoveCursorRight, bufferSize
  <2> QED BY <2>1, <2>2
<1>4. 0 \in Nat /\ 0 <= n /\ n <= n
  BY <1>1
<1> QED BY <1>1, <1>2, <1>3, <1>4, WmoveKeeps DEF MoveStartLine, MoveEndLine, bufferSize

\* A line that is written anew, and that was kept somewhere.
LEMMA RecallKeeps ==
  ASSUME NEW h \in HintsOf, NEW e, LineOK(e, h), NEW d \in TabLines,
         d.currentCommandIndex <= Len(d.inputHistory),
         d.suggestedHintIndexes \subseteq 1..Len(h),
         d.suggestedHintIndexes # {} =>
           d.currentSuggestedIndex \in d.suggestedHintIndexes \cup {0},
         Memory(d, h) = Memory(e, h),
         \/ /\ d.commandBuffer \in Memory(e, h)
            /\ d.tmpCommandBuffer \in {e.tmpCommandBuffer, e.commandBuffer}
         \/ d.commandBuffer = e.tmpCommandBuffer /\ d.tmpCommandBuffer = <<>>
  PROVE  Keeps(e, WritePromptLine(d), h)
<1> DEFINE w == WritePromptLine(d)
<1>1. /\ w \in TabLines
      /\ w.commandBuffer = d.commandBuffer /\ w.tmpCommandBuffer = d.tmpCommandBuffer
      /\ w.inputHistory = d.inputHistory
      /\ w.suggestedHintIndexes = d.suggestedHintIndexes
      /\ w.currentCommandIndex = d.currentCommandIndex
      /\ w.currentSuggestedIndex = d.currentSuggestedIndex
      /\ w.odd = HasOdd(d.commandBuffer)
      /\ ~w.odd => w.x <= Len(d.commandBuffer)
      /\ ~w.odd /\ Len(d.commandBuffer) < Width => w.x = Len(d.commandBuffer)
      /\ ~w.cut => w.drawn = d.commandBuffer
  BY Prompt
<1> HIDE DEF w
<1>2. LineOK(w, h)
  BY <1>1 DEF LineOK
<1>3. Memory(w, h) = Memory(d, h)
  BY <1>1, MemorySame
<1>4. Len(d.commandBuffer) \in Nat
  BY TabLineIs
<1>5. LineStep(e, w, h)
  <2>1. CASE w.odd
    BY <1>1, <1>3, <2>1 DEF LineStep
  <2>2. CASE ~w.odd /\ Len(d.commandBuffer) < Width
    BY <1>1, <1>3, <2>2 DEF LineStep
  <2>3. CASE ~w.odd /\ Len(d.commandBuffer) >= Width
    BY <1>1, <1>3, <2>3 DEF LineStep
  <2> QED BY <1>4, <2>1, <2>2, <2>3, TabAssumption
<1> QED BY <1>2, <1>5 DEF Keeps, w

LEMMA PromptKeeps ==
  ASSUME NEW h \in HintsOf, NEW e, LineOK(e, h)
  PROVE  Keeps(e, WritePromptLine(e), h)
<1> DEFINE w == WritePromptLine(e)
<1>1. e \in TabLines
  BY DEF LineOK
<1>2. /\ w \in TabLines
      /\ w.commandBuffer = e.commandBuffer /\ w.tmpCommandBuffer = e.tmpCommandBuffer
      /\ w.inputHistory = e.inputHistory
      /\ w.suggestedHintIndexes = e.suggestedHintIndexes
      /\ w.currentCommandIndex = e.currentCommandIndex
      /\ w.currentSuggestedIndex = e.currentSuggestedIndex
      /\ w.odd = HasOdd(e.commandBuffer)
      /\ ~w.odd => w.x <= Len(e.commandBuffer)
      /\ ~w.cut => w.drawn = e.commandBuffer
  BY <1>1, Prompt
<1> HIDE DEF w
<1>3. LineOK(w, h)
  BY <1>2 DEF LineOK
<1>4. Memory(w, h) = Memory(e, h)
  BY <1>2, MemorySame
<1>5. LineStep(e, w, h)
  <2>1. CASE w.odd
    BY <1>2, <1>4, <2>1 DEF LineStep
  <2>2. CASE ~w.odd
    <3>1. w.x \in Nat /\ Len(e.commandBuffer) \in Nat
      BY <1>1, <1>2, TabLineIs
    <3>2. w.x \in 0..Len(e.commandBuffer)
      BY <1>2, <2>2, <3>1
    <3> QED BY <1>2, <1>4, <2>2, <3>2 DEF LineStep
  <2> QED BY <2>1, <2>2
<1> QED BY <1>3, <1>5 DEF Keeps, w

LEMMA LeastIs ==
  ASSUME NEW S \in SUBSET Nat, S # {}
  PROVE  Min(S) \in S
<1> DEFINE R == OpToRel(<, Nat)
<1>1. \A i, j \in Nat : <<i, j>> \in R <=> i < j
  BY DEF OpToRel
<1>2. IsWellFoundedOn(R, Nat)
  BY NatLessThanWellFounded
<1> HIDE DEF R
<1>3. PICK i \in S : \A j \in S : <<j, i>> \notin R
  BY <1>2, WFMin
<1>4. ASSUME NEW j \in S PROVE i <= j
  <2>1. i \in Nat /\ j \in Nat
    OBVIOUS
  <2>2. ~(j < i)
    BY <1>1, <1>3, <2>1
  <2> QED BY <2>1, <2>2
<1> QED BY <1>4 DEF Min

LEMMA MemoryHas ==
  ASSUME NEW e \in TabLines, NEW h
  PROVE  /\ \A i \in DOMAIN h : Append(h[i], Space) \in Memory(e, h)
         /\ \A i \in 1..Len(e.inputHistory) : e.inputHistory[i] \in Memory(e, h)
<1>1. ASSUME NEW i \in 1..Len(e.inputHistory) PROVE e.inputHistory[i] \in Memory(e, h)
  <2>1. i \in DOMAIN e.inputHistory
    BY TabLineIs
  <2> QED BY <2>1 DEF Memory, Range
<1> QED BY <1>1 DEF Memory

LEMMA EmptyText == <<>> \in Texts
BY TabAssumption DEF Texts

LEMMA HistoryText ==
  ASSUME NEW e \in TabLines, NEW i \in 1..Len(e.inputHistory)
  PROVE  e.inputHistory[i] \in Texts
BY TabLineIs

\* A tab whose line is put aside or taken back.
LEMMA Recalled ==
  ASSUME NEW h \in HintsOf, NEW e, LineOK(e, h),
         NEW b \in Texts, NEW tmp,
         \/ b \in Memory(e, h) /\ tmp \in {e.tmpCommandBuffer, e.commandBuffer}
         \/ b = e.tmpCommandBuffer /\ tmp = <<>>,
         NEW c \in 0..Len(e.inputHistory), NEW s \in Nat,
         e.suggestedHintIndexes # {} => s \in e.suggestedHintIndexes \cup {0}
  PROVE  Keeps(e, WritePromptLine([e EXCEPT !.commandBuffer = b, !.tmpCommandBuffer = tmp,
                                    !.currentCommandIndex = c, !.currentSuggestedIndex = s]), h)
<1> DEFINE d == [e EXCEPT !.commandBuffer = b, !.tmpCommandBuffer = tmp,
                          !.currentCommandIndex = c, !.currentSuggestedIndex = s]
<1>1. e \in TabLines /\ e.suggestedHintIndexes \subseteq 1..Len(h)
  BY DEF LineOK
<1>2. Len(e.inputHistory) \in Nat /\ c \in Nat
  BY <1>1, TabLineIs
<1>3. tmp \in Texts
  BY <1>1, TabLineIs, EmptyText
<1>4. d \in TabLines
  BY <1>1, <1>2, <1>3 DEF TabLines
<1>5. /\ d.commandBuffer = b /\ d.tmpCommandBuffer = tmp /\ d.currentCommandIndex = c
      /\ d.currentSuggestedIndex = s /\ d.inputHistory = e.inputHistory
      /\ d.suggestedHintIndexes = e.suggestedHintIndexes
  BY <1>1 DEF TabLines
<1> HIDE DEF d
<1>6. Memory(d, h) = Memory(e, h)
  BY <1>5, MemorySame
<1>7. d.currentCommandIndex <= Len(d.inputHistory)
  BY <1>2, <1>5
<1>8. Keeps(e, WritePromptLine(d), h)
  BY <1>1, <1>4, <1>5, <1>6, <1>7, RecallKeeps
<1> QED BY <1>8 DEF d

LEMMA SuggestKeeps ==
  ASSUME NEW h \in HintsOf, NEW e, LineOK(e, h)
  PROVE  Keeps(e, SuggestHint(e, h), h)
<1> DEFINE more == {i \in e.suggestedHintIndexes : i > e.currentSuggestedIndex}
           n == Min(more)
           k == e.currentCommandIndex
<1>1. e \in TabLines /\ e.suggestedHintIndexes \subseteq 1..Len(h) /\ h \in Seq(Seq(Char))
      /\ e.commandBuffer \in Texts /\ e.tmpCommandBuffer \in Texts
      /\ k \in 0..Len(e.inputHistory) /\ e.currentSuggestedIndex \in Nat
  <2>1. e \in TabLines /\ e.suggestedHintIndexes \subseteq 1..Len(h) /\ h \in Seq(Seq(Char))
        /\ k <= Len(e.inputHistory)
    BY DEF LineOK, HintsOf
  <2>2. k \in Nat /\ Len(e.inputHistory) \in Nat
    BY <2>1, TabLineIs
  <2> QED BY <2>1, <2>2, TabLineIs
<1>2. CASE e.suggestedHintIndexes = {}
  BY <1>2, NothingKeeps DEF SuggestHint
<1>3. CASE e.suggestedHintIndexes # {} /\ more # {}
  <2>1. n \in more
    <3>1. more \in SUBSET Nat
      BY <1>1
    <3> HIDE DEF more
    <3> QED BY <1>3, <3>1, LeastIs
  <2>2. n \in e.suggestedHintIndexes /\ n \in Nat /\ n \in DOMAIN h
    BY <1>1, <2>1
  <2> DEFINE b == Append(h[n], Space)
             tmp == IF e.currentSuggestedIndex = 0 THEN e.commandBuffer ELSE e.tmpCommandBuffer
             w == WritePromptLine([e EXCEPT !.commandBuffer = b, !.tmpCommandBuffer = tmp,
                                     !.currentCommandIndex = k, !.currentSuggestedIndex = n])
  <2>3. b \in Texts /\ b \in Memory(e, h)
    BY <1>1, <2>2, MemoryHas DEF HintsOf
  <2>4. Keeps(e, w, h)
    <3> HIDE DEF b, n, k
    <3> QED BY <1>1, <2>2, <2>3, Recalled
  <2>5. [e EXCEPT !.commandBuffer = b, !.tmpCommandBuffer = tmp, !.currentCommandIndex = k,
                  !.currentSuggestedIndex = n]
        = [(IF e.currentSuggestedIndex = 0 THEN [e EXCEPT !.tmpCommandBuffer = e.commandBuffer]
            ELSE e) EXCEPT !.commandBuffer = b, !.currentSuggestedIndex = n]
    <3> HIDE DEF b, n
    <3> QED BY <1>1 DEF TabLines
  <2>6. SuggestHint(e, h) = w
    <3> HIDE DEF tmp, k
    <3> QED BY <1>3, <2>5 DEF SuggestHint
  <2> QED BY <2>4, <2>6
<1>4. CASE e.suggestedHintIndexes # {} /\ more = {}
  <2> DEFINE b == e.tmpCommandBuffer
             w == WritePromptLine([e EXCEPT !.commandBuffer = b, !.tmpCommandBuffer = <<>>,
                                     !.currentCommandIndex = k, !.currentSuggestedIndex = 0])
  <2>1. Keeps(e, w, h)
    <3> HIDE DEF k
    <3> QED BY <1>1, Recalled
  <2>2. [e EXCEPT !.commandBuffer = b, !.tmpCommandBuffer = <<>>, !.currentCommandIndex = k,
                  !.currentSuggestedIndex = 0]
        = [e EXCEPT !.commandBuffer = b, !.currentSuggestedIndex = 0, !.tmpCommandBuffer = <<>>]
    BY <1>1 DEF TabLines
  <2>3. SuggestHint(e, h) = w
    <3> HIDE DEF k
    <3> QED BY <1>4, <2>2 DEF SuggestHint
  <2> QED BY <2>1, <2>3
<1> QED BY <1>2, <1>3, <1>4

LEMMA ShowPreviousKeeps ==
  ASSUME NEW h \in HintsOf, NEW e, LineOK(e, h)
  PROVE  Keeps(e, ShowPrevious(e), h)
<1> DEFINE older == e.currentCommandIndex + 1
           s == e.currentSuggestedIndex
<1>1. e \in TabLines /\ e.commandBuffer \in Texts /\ e.tmpCommandBuffer \in Texts
      /\ e.currentCommandIndex \in Nat /\ Len(e.inputHistory) \in Nat /\ s \in Nat
      /\ (e.suggestedHintIndexes # {} => s \in e.suggestedHintIndexes \cup {0})
  BY TabLineIs DEF LineOK
<1>2. CASE older > Len(e.inputHistory)
  BY <1>2, NothingKeeps DEF ShowPrevious
<1>3. CASE ~(older > Len(e.inputHistory))
  <2> DEFINE b == e.inputHistory[older]
             tmp == IF e.currentCommandIndex = 0 THEN e.commandBuffer ELSE e.tmpCommandBuffer
             w == WritePromptLine([e EXCEPT !.commandBuffer = b, !.tmpCommandBuffer = tmp,
                                     !.currentCommandIndex = older, !.currentSuggestedIndex = s])
  <2>1. older \in 1..Len(e.inputHistory) /\ older \in 0..Len(e.inputHistory)
    BY <1>1, <1>3
  <2>2. b \in Texts /\ b \in Memory(e, h)
    <3> HIDE DEF older
    <3> QED BY <1>1, <2>1, HistoryText, MemoryHas
  <2>3. Keeps(e, w, h)
    <3> HIDE DEF b, older, s
    <3> QED BY <1>1, <2>1, <2>2, Recalled
  <2>4. [e EXCEPT !.commandBuffer = b, !.tmpCommandBuffer = tmp, !.currentCommandIndex = older,
                  !.currentSuggestedIndex = s]
        = [(IF e.currentCommandIndex = 0 THEN [e EXCEPT !.tmpCommandBuffer = e.commandBuffer]
            ELSE e) EXCEPT !.commandBuffer = b, !.currentCommandIndex = older]
    <3> HIDE DEF b, older
    <3> QED BY <1>1 DEF TabLines
  <2>5. ShowPrevious(e) = w
    <3> HIDE DEF tmp, s
    <3> QED BY <1>3, <2>4 DEF ShowPrevious
  <2> QED BY <2>3, <2>5
<1> QED BY <1>2, <1>3

LEMMA ShowNextKeeps ==
  ASSUME NEW h \in HintsOf, NEW e, LineOK(e, h)
  PROVE  Keeps(e, ShowNext(e), h)
<1> DEFINE i == e.currentCommandIndex
           s == e.currentSuggestedIndex
<1>1. e \in TabLines /\ e.commandBuffer \in Texts /\ e.tmpCommandBuffer \in Texts
      /\ i \in Nat /\ Len(e.inputHistory) \in Nat /\ i <= Len(e.inputHistory) /\ s \in Nat
      /\ (e.suggestedHintIndexes # {} => s \in e.suggestedHintIndexes \cup {0})
  BY TabLineIs DEF LineOK
<1>2. CASE i <= 1
  <2> DEFINE b == e.tmpCommandBuffer
             w == WritePromptLine([e EXCEPT !.commandBuffer = b, !.tmpCommandBuffer = <<>>,
                                     !.currentCommandIndex = 0, !.currentSuggestedIndex = s])
  <2>1. 0 \in 0..Len(e.inputHistory)
    BY <1>1
  <2>2. Keeps(e, w, h)
    <3> HIDE DEF s
    <3> QED BY <1>1, <2>1, Recalled
  <2>3. [e EXCEPT !.commandBuffer = b, !.tmpCommandBuffer = <<>>, !.currentCommandIndex = 0,
                  !.currentSuggestedIndex = s]
        = [e EXCEPT !.commandBuffer = b, !.currentCommandIndex = 0, !.tmpCommandBuffer = <<>>]
    BY <1>1 DEF TabLines
  <2>4. ShowNext(e) = w
    <3> HIDE DEF s
    <3> QED BY <1>2, <2>3 DEF ShowNext
  <2> QED BY <2>2, <2>4
<1>3. CASE ~(i <= 1)
  <2> DEFINE b == e.inputHistory[i - 1]
             tmp == e.tmpCommandBuffer
             w == WritePromptLine([e EXCEPT !.commandBuffer = b, !.tmpCommandBuffer = tmp,
                                     !.currentCommandIndex = i - 1, !.currentSuggestedIndex = s])
  <2>1. i - 1 \in 1..Len(e.inputHistory) /\ i - 1 \in 0..Len(e.inputHistory)
    BY <1>1, <1>3
  <2>2. b \in Texts /\ b \in Memory(e, h)
    <3> HIDE DEF i
    <3> QED BY <1>1, <2>1, HistoryText, MemoryHas
  <2>3. Keeps(e, w, h)
    <3> HIDE DEF b, s, i
    <3> QED BY <1>1, <2>1, <2>2, Recalled
  <2>4. [e EXCEPT !.commandBuffer = b, !.tmpCommandBuffer = tmp, !.currentCommandIndex = i - 1,
                  !.currentSuggestedIndex = s]
        = [e EXCEPT !.commandBuffer = b, !.currentCommandIndex = @ - 1]
    <3> HIDE DEF b
    <3> QED BY <1>1 DEF TabLines
  <2>5. ShowNext(e) = w
    <3> HIDE DEF s
    <3> QED BY <1>3, <2>4 DEF ShowNext
  <2> QED BY <2>3, <2>5
<1> QED BY <1>2, <1>3

\* Whatever is typed, the line is written anew with its hints.
LEMMA TypedIs ==
  ASSUME NEW h \in HintsOf, NEW e, LineOK(e, h), NEW r \in Texts
  PROVE  LET w == WritePromptLine(UpdateHints([e EXCEPT !.commandBuffer = r], h)) IN
         /\ LineOK(w, h) /\ w \in TabLines /\ w.commandBuffer = r
         /\ w.tmpCommandBuffer = e.tmpCommandBuffer /\ w.inputHistory = e.inputHistory
         /\ w.odd = HasOdd(r)
         /\ ~w.odd => w.x <= Len(r)
         /\ ~w.odd /\ Len(r) < Width => w.x = Len(r)
<1> DEFINE d == [e EXCEPT !.commandBuffer = r]
           v == UpdateHints(d, h)
           w == WritePromptLine(v)
<1>1. e \in TabLines /\ e.currentCommandIndex <= Len(e.inputHistory)
      /\ Len(e.inputHistory) \in Nat
  BY TabLineIs DEF LineOK
<1>2. /\ d \in TabLines /\ d.commandBuffer = r /\ d.tmpCommandBuffer = e.tmpCommandBuffer
      /\ d.inputHistory = e.inputHistory
      /\ d.currentCommandIndex = e.currentCommandIndex
  BY <1>1 DEF TabLines
<1> HIDE DEF d
<1>3. /\ v \in TabLines /\ v.commandBuffer = r /\ v.tmpCommandBuffer = e.tmpCommandBuffer
      /\ v.inputHistory = e.inputHistory
      /\ v.currentCommandIndex \in {0, e.currentCommandIndex}
      /\ v.suggestedHintIndexes \subseteq 1..Len(h)
      /\ (v.suggestedHintIndexes # {} => v.currentSuggestedIndex = 0)
  BY <1>2, HintsChange DEF SameText
<1> HIDE DEF v
<1>4. /\ w \in TabLines
      /\ w.commandBuffer = v.commandBuffer /\ w.tmpCommandBuffer = v.tmpCommandBuffer
      /\ w.inputHistory = v.inputHistory
      /\ w.suggestedHintIndexes = v.suggestedHintIndexes
      /\ w.currentCommandIndex = v.currentCommandIndex
      /\ w.currentSuggestedIndex = v.currentSuggestedIndex
      /\ w.odd = HasOdd(v.commandBuffer)
      /\ ~w.odd => w.x <= Len(v.commandBuffer)
      /\ ~w.odd /\ Len(v.commandBuffer) < Width => w.x = Len(v.commandBuffer)
      /\ ~w.cut => w.drawn = v.commandBuffer
  BY <1>3, Prompt
<1> HIDE DEF w
<1>5. LineOK(w, h)
  BY <1>1, <1>3, <1>4 DEF LineOK
<1> QED BY <1>3, <1>4, <1>5 DEF w, v, d

LEMMA Appended ==
  ASSUME NEW S, NEW s \in Seq(S), NEW c \in S
  PROVE  /\ Append(s, c) \in Seq(S) /\ Len(Append(s, c)) = Len(s) + 1
         /\ Append(s, c) = InsertAt(s, Len(s) + 1, c)
<1>1. SubSeq(s, 1, (Len(s) + 1) - 1) = s
  <2>1. (Len(s) + 1) - 1 = Len(s)
    OBVIOUS
  <2>2. SubSeq(s, 1, Len(s)) = s
    OBVIOUS
  <2> QED BY <2>1, <2>2
<1>2. SubSeq(s, Len(s) + 1, Len(s)) = <<>>
  OBVIOUS
<1> DEFINE a == s \o <<c>>
<1>3. a = Append(s, c) /\ a \in Seq(S)
  OBVIOUS
<1>4. InsertAt(s, Len(s) + 1, c) = a \o <<>>
  BY <1>1, <1>2 DEF InsertAt
<1> HIDE DEF a
<1>5. a \o <<>> = a
  BY <1>3
<1> QED BY <1>3, <1>4, <1>5

LEMMA AppendKeeps ==
  ASSUME NEW h \in HintsOf, NEW e, LineOK(e, h), NEW c \in Letters, NEW stale \in Char
  PROVE  Keeps(e, AppendInputChar(e, c, stale, h), h)
<1> DEFINE b == e.commandBuffer
           n == Len(b)
           Typed(line) == WritePromptLine(UpdateHints([e EXCEPT !.commandBuffer = line], h))
           u == AppendInputChar(e, c, stale, h)
<1>1. e \in TabLines /\ (~e.odd => e.x <= n)
  BY DEF LineOK
<1>2. b \in Seq(Char) /\ n \in Nat /\ n <= CMD_BUFFER_SIZE /\ e.x \in Nat /\ c \in Char
  BY <1>1, TabLineIs, TabAssumption
<1>3. CASE n >= CMD_BUFFER_SIZE \/ e.x >= CMD_BUFFER_SIZE
  <2>1. u = [e EXCEPT !.overrun = TRUE]
    BY <1>3 DEF AppendInputChar, bufferSize
  <2> QED BY <2>1, OverrunKeeps
<1>4. CASE ~(n >= CMD_BUFFER_SIZE \/ e.x >= CMD_BUFFER_SIZE) /\ e.x < n
  <2> DEFINE r == InsertAt(b, e.x + 1, c)
             w == Typed(r)
             m == Wmove(w, e.x + 1)
  <2>1. r \in Seq(Char) /\ Len(r) = n + 1
    <3> DEFINE k == e.x
    <3>1. b \in Seq(Char) /\ k \in 0..Len(b) /\ c \in Char
      BY <1>2, <1>4
    <3> HIDE DEF b, k
    <3>2. InsertAt(b, k + 1, c) \in Seq(Char) /\ Len(InsertAt(b, k + 1, c)) = Len(b) + 1
      BY <3>1, Inserted
    <3> QED BY <3>2 DEF k
  <2>2. u = m
    BY <1>4 DEF AppendInputChar, bufferSize
  <2>3. r \in Texts
    BY <1>2, <1>4, <2>1, TabAssumption DEF Texts
  <2> HIDE DEF r
  <2>4. /\ LineOK(w, h) /\ w \in TabLines /\ w.commandBuffer = r
        /\ w.tmpCommandBuffer = e.tmpCommandBuffer /\ w.inputHistory = e.inputHistory
        /\ w.odd = HasOdd(r)
    BY <2>3, TypedIs
  <2> HIDE DEF w
  <2>5. e.x + 1 \in Nat /\ e.x + 1 <= Len(w.commandBuffer)
    BY <1>2, <1>4, <2>1, <2>4
  <2>6. LineOK(m, h)
    BY <2>4, <2>5, WmoveKeeps DEF Keeps
  <2>7. /\ m.commandBuffer = r /\ m.tmpCommandBuffer = e.tmpCommandBuffer
        /\ m.inputHistory = e.inputHistory /\ m.odd = HasOdd(r)
        /\ (e.x + 1 < Width => m.x = e.x + 1)
    BY <2>4 DEF Wmove, TabLines
  <2> HIDE DEF m
  <2>8. Memory(m, h) = Memory(e, h)
    BY <2>7, MemorySame
  <2>9. LineStep(e, m, h)
    <3>1. CASE e.x + 1 < Width
      <4>1. e.x <= Len(e.commandBuffer)
        BY <1>2, <1>4
      <4> QED BY <2>7, <2>8, <3>1, <4>1 DEF LineStep, r
    <3>2. CASE ~(e.x + 1 < Width)
      <4>1. Len(m.commandBuffer) >= Width
        BY <1>2, <1>4, <2>1, <2>7, <3>2, TabAssumption
      <4> QED BY <2>7, <2>8, <4>1 DEF LineStep
    <3> QED BY <3>1, <3>2
  <2> QED BY <2>2, <2>6, <2>9 DEF Keeps
<1>5. CASE ~(n >= CMD_BUFFER_SIZE \/ e.x >= CMD_BUFFER_SIZE) /\ ~(e.x < n)
  <2> DEFINE a == IF e.x = n THEN c ELSE stale
             r == Append(b, a)
             w == Typed(r)
  <2>1. a \in Char
    BY <1>2
  <2>2. r \in Seq(Char) /\ Len(r) = n + 1
    <3> HIDE DEF a, b
    <3> QED BY <1>2, <2>1, Appended
  <2>3. u = w
    BY <1>5 DEF AppendInputChar, bufferSize
  <2>4. r \in Texts
    BY <1>2, <1>5, <2>2, TabAssumption DEF Texts
  <2>5. e.x = n => r = InsertAt(b, e.x + 1, c)
    <3> SUFFICES ASSUME e.x = n PROVE Append(b, c) = InsertAt(b, n + 1, c)
      OBVIOUS
    <3> HIDE DEF b
    <3> QED BY <1>2, Appended
  <2> HIDE DEF r
  <2>6. /\ LineOK(w, h) /\ w.commandBuffer = r
        /\ w.tmpCommandBuffer = e.tmpCommandBuffer /\ w.inputHistory = e.inputHistory
        /\ w.odd = HasOdd(r)
        /\ ~w.odd => w.x <= Len(r)
        /\ ~w.odd /\ Len(r) < Width => w.x = Len(r)
    BY <2>4, TypedIs
  <2> HIDE DEF w
  <2>7. Memory(w, h) = Memory(e, h)
    BY <2>6, MemorySame
  <2>8. LineStep(e, w, h)
    <3>1. CASE e.odd \/ w.odd
      BY <2>6, <2>7, <3>1 DEF LineStep
    <3>2. CASE ~e.odd /\ ~w.odd /\ Len(r) < Width
      <4>1. e.x = n /\ e.x <= n /\ w.x = e.x + 1
        BY <1>1, <1>2, <1>5, <2>2, <2>6, <3>2
      <4> QED BY <2>5, <2>6, <2>7, <3>2, <4>1 DEF LineStep
    <3>3. CASE ~w.odd /\ ~(Len(r) < Width)
      <4>1. Len(w.commandBuffer) >= Width
        BY <1>2, <2>2, <2>6, <3>3, TabAssumption
      <4> QED BY <2>6, <2>7, <3>3, <4>1 DEF LineStep
    <3> QED BY <3>1, <3>2, <3>3
  <2> QED BY <2>3, <2>6, <2>8 DEF Keeps
<1> QED BY <1>3, <1>4, <1>5

LEMMA EnteredKeeps ==
  ASSUME NEW h \in HintsOf, NEW e, LineOK(e, h), e.commandBuffer # <<>>
  PROVE  Keeps(e, Entered(e), h)
<1> DEFINE b == e.commandBuffer
           p == <<b>>
           q == p \o e.inputHistory
           d == [e EXCEPT !.inputHistory = q, !.commandBuffer = <<>>]
           v == ClearHints(d)
<1>1. e \in TabLines
  BY DEF LineOK
<1>2. b \in Texts /\ e.inputHistory \in Seq(Texts) /\ Len(e.inputHistory) \in Nat
      /\ e.tmpCommandBuffer \in Texts
  BY <1>1, TabLineIs
<1>3. p \in Seq(Texts) /\ Len(p) = 1
  <2> HIDE DEF b
  <2> QED BY <1>2
<1>4. q \in Seq(Texts) /\ Len(q) = 1 + Len(e.inputHistory)
  <2> HIDE DEF p
  <2> QED BY <1>2, <1>3, LengthJoined
<1>5. Range(q) = Range(e.inputHistory) \cup {b}
  <2>1. ASSUME NEW i \in DOMAIN q PROVE q[i] \in Range(e.inputHistory) \cup {b}
    <3>1. i \in 1..(1 + Len(e.inputHistory))
      BY <1>4
    <3>2. CASE i = 1
      <4>1. q[i] = b
        BY <1>2, <3>2
      <4> QED BY <4>1
    <3>3. CASE i # 1
      <4>1. q[i] = e.inputHistory[i - 1] /\ i - 1 \in 1..Len(e.inputHistory)
        BY <1>2, <3>1, <3>3
      <4>2. i - 1 \in DOMAIN e.inputHistory
        BY <1>2, <4>1
      <4> QED BY <4>1, <4>2 DEF Range
    <3> QED BY <3>2, <3>3
  <2>2. b \in Range(q)
    <3>1. 1 \in DOMAIN q /\ q[1] = b
      BY <1>2, <1>4
    <3> QED BY <3>1 DEF Range
  <2>3. ASSUME NEW i \in DOMAIN e.inputHistory PROVE e.inputHistory[i] \in Range(q)
    <3>1. i \in 1..Len(e.inputHistory)
      BY <1>2
    <3>2. i + 1 \in 1..(1 + Len(e.inputHistory)) /\ q[i + 1] = e.inputHistory[i]
      BY <1>2, <3>1
    <3>3. i + 1 \in DOMAIN q
      BY <1>4, <3>2
    <3> QED BY <3>2, <3>3 DEF Range
  <2> HIDE DEF q
  <2> QED BY <2>1, <2>2, <2>3 DEF Range
<1> HIDE DEF q
<1>6. /\ d \in TabLines /\ d.commandBuffer = <<>> /\ d.inputHistory = q
      /\ d.tmpCommandBuffer = e.tmpCommandBuffer
  BY <1>1, <1>4, EmptyText DEF TabLines
<1>7. Entered(e) = WritePromptLine(v)
  BY DEF Entered, q
<1> HIDE DEF d
<1>8. /\ v \in TabLines /\ v.commandBuffer = <<>> /\ v.inputHistory = q
      /\ v.tmpCommandBuffer = e.tmpCommandBuffer /\ v.currentCommandIndex = 0
      /\ v.suggestedHintIndexes = {}
  BY <1>6 DEF ClearHints, TabLines
<1> HIDE DEF v
<1> DEFINE w == WritePromptLine(v)
<1>9. /\ w \in TabLines /\ w.commandBuffer = <<>> /\ w.tmpCommandBuffer = e.tmpCommandBuffer
      /\ w.inputHistory = q /\ w.suggestedHintIndexes = {} /\ w.currentCommandIndex = 0
      /\ w.odd = HasOdd(<<>>)
      /\ (~w.odd /\ Len(w.commandBuffer) < Width => w.x = Len(w.commandBuffer))
      /\ (~w.cut => w.drawn = w.commandBuffer)
  BY <1>8, Prompt
<1> HIDE DEF w
<1>10. ~w.odd /\ w.x = 0 /\ Len(w.commandBuffer) = 0
  <2>1. ~HasOdd(<<>>)
    BY DEF HasOdd
  <2> QED BY <1>9, <2>1, TabAssumption
<1>11. LineOK(w, h)
  <2>1. w.currentCommandIndex <= Len(w.inputHistory)
    BY <1>2, <1>4, <1>9
  <2> QED BY <1>9, <1>10, <2>1 DEF LineOK
<1>12. Memory(w, h) = Memory(e, h) \cup {e.commandBuffer}
  BY <1>5, <1>9 DEF Memory
<1>13. LineStep(e, w, h)
  BY <1>9, <1>10, <1>12 DEF LineStep
<1> QED BY <1>7, <1>11, <1>13 DEF Keeps, w

-----------------------------------------------------------------------------
(* The panes *)

PaneLines == [n : Nat, wide : BOOLEAN]
Panes ==
  {o \in [state : Seq(PaneLines), topLineScroll : Nat, rows : Seq(PaneLines), scrolled : BOOLEAN] :
     o.topLineScroll <= Len(o.state)}

Narrow(o) == \A i \in DOMAIN o.state : ~o.state[i].wide

\* RowsShowContent, of one pane.
ShowsContent(o) ==
  Narrow(o) =>
    \A i \in DOMAIN o.rows :
      LET k == o.topLineScroll + i
      IN  o.rows[i] = IF k <= Len(o.state) THEN o.state[k] ELSE Blank

\* What an update does not write again is blank: enough for ShowsContent after it.
BlankBelow(o) ==
  Narrow(o) =>
    \A i \in DOMAIN o.rows : o.topLineScroll + i > Len(o.state) => o.rows[i] = Blank

\* NewestShown, of one pane, with the place that makes it last.
Following(o) ==
  ~o.scrolled =>
    /\ AtBottom(o)
    /\ o.state # <<>> => \E i \in DOMAIN o.rows : o.rows[i].n = o.state[Len(o.state)].n

LEMMA PaneIs ==
  ASSUME NEW o \in Panes
  PROVE  /\ o.state \in Seq(PaneLines) /\ Len(o.state) \in Nat /\ o.topLineScroll \in Nat
         /\ o.topLineScroll <= Len(o.state) /\ o.scrolled \in BOOLEAN
         /\ o.rows \in Seq(PaneLines) /\ Len(o.rows) \in Nat /\ DOMAIN o.rows = 1..Len(o.rows)
         /\ DOMAIN o.state = 1..Len(o.state)
         /\ o = [state |-> o.state, topLineScroll |-> o.topLineScroll, rows |-> o.rows,
                 scrolled |-> o.scrolled]
BY DEF Panes

LEMMA PrintedLine ==
  ASSUME NEW rows \in Seq(PaneLines), NEW i \in 1..Len(rows), NEW l \in PaneLines
  PROVE  /\ PrintLine(rows, i, l) \in Seq(PaneLines) /\ Len(PrintLine(rows, i, l)) = Len(rows)
         /\ \E j \in 1..Len(rows) : PrintLine(rows, i, l)[j].n = l.n
         /\ ~l.wide => PrintLine(rows, i, l) = [rows EXCEPT ![i] = l]
<1> DEFINE r == [rows EXCEPT ![i] = l]
           p == PrintLine(rows, i, l)
<1>1. Len(rows) \in Nat /\ r \in Seq(PaneLines) /\ Len(r) = Len(rows) /\ r[i] = l
  OBVIOUS
<1>2. Rest(l) \in PaneLines /\ Rest(l).n = l.n
  BY DEF Rest, PaneLines
<1>3. CASE ~l.wide
  BY <1>1, <1>3 DEF PrintLine
<1>4. CASE l.wide /\ i < Len(rows)
  <2>1. p = [rows EXCEPT ![i] = l, ![i + 1] = Rest(l)]
    BY <1>4 DEF PrintLine
  <2>2. p = [r EXCEPT ![i + 1] = Rest(l)]
    BY <2>1
  <2>3. i + 1 \in 1..Len(rows) /\ i + 1 # i
    BY <1>1, <1>4
  <2> HIDE DEF r, p
  <2>4. p \in Seq(PaneLines) /\ Len(p) = Len(rows) /\ p[i] = r[i]
    BY <1>1, <1>2, <2>2, <2>3
  <2> QED BY <1>1, <1>4, <2>4 DEF p
<1>5. CASE l.wide /\ ~(i < Len(rows))
  <2> DEFINE e == Rest(l)
  <2>1. p = Append(Tail(r), e)
    BY <1>5 DEF PrintLine
  <2>2. r # <<>> /\ Tail(r) \in Seq(PaneLines) /\ Len(Tail(r)) = Len(rows) - 1
    BY <1>1
  <2> HIDE DEF r, p, e
  <2> DEFINE t == Tail(r)
  <2>3. t \in Seq(PaneLines) /\ Len(t) = Len(rows) - 1
    BY <2>2
  <2> HIDE DEF t
  <2>4. p = Append(t, e) /\ e \in PaneLines
    BY <1>2, <2>1 DEF t, e
  <2>5. p \in Seq(PaneLines) /\ Len(p) = Len(rows) /\ p[Len(rows)] = e
    BY <1>1, <2>3, <2>4
  <2>6. Len(rows) \in 1..Len(rows)
    BY <1>1
  <2> QED BY <1>2, <1>5, <2>5, <2>6 DEF e, p
<1> QED BY <1>3, <1>4, <1>5

LEMMA UpdateIs ==
  ASSUME NEW o \in Panes
  PROVE  LET u == UpdateContent(o) IN
         /\ u \in Panes /\ u.state = o.state /\ u.topLineScroll = o.topLineScroll
         /\ u.scrolled = o.scrolled /\ Len(u.rows) = Len(o.rows)
         /\ Printed(o) = 0 => u = o
         /\ Printed(o) # 0 =>
              \E j \in DOMAIN u.rows : u.rows[j].n = o.state[o.topLineScroll + Printed(o)].n
         /\ BlankBelow(o) => ShowsContent(u)
<1> DEFINE n == Printed(o)
           len == Len(o.state)
           top == o.topLineScroll
           high == Len(o.rows)
           line == [i \in 1..high |-> IF i <= n THEN o.state[top + i] ELSE o.rows[i]]
           r == PrintLine(line, n, line[n])
           u == UpdateContent(o)
<1>1. len \in Nat /\ top \in Nat /\ high \in Nat /\ top <= len
      /\ o.state \in Seq(PaneLines) /\ o.rows \in Seq(PaneLines)
      /\ DOMAIN o.rows = 1..high /\ DOMAIN o.state = 1..len
  BY PaneIs
<1>2. n \in Nat /\ n <= high /\ top + n <= len /\ (n < high => top + n = len)
  BY <1>1 DEF Printed, height
<1>3. \A i \in 1..high : top + i > len <=> i > n
  BY <1>1, <1>2
<1>4. CASE n = 0
  <2>1. u = o
    BY <1>4 DEF UpdateContent
  <2>2. ASSUME BlankBelow(o) PROVE ShowsContent(o)
    BY <1>1, <1>3, <1>4, <2>2 DEF BlankBelow, ShowsContent
  <2> QED BY <1>4, <2>1, <2>2
<1>5. CASE n # 0
  <2>1. \A i \in 1..high : i <= n => o.state[top + i] \in PaneLines
    <3> SUFFICES ASSUME NEW i \in 1..high, i <= n PROVE o.state[top + i] \in PaneLines
      OBVIOUS
    <3>1. top + i \in 1..len
      BY <1>1, <1>2
    <3> QED BY <1>1, <3>1
  <2>2. line \in Seq(PaneLines) /\ Len(line) = high /\ DOMAIN line = 1..high
    <3>1. \A i \in 1..high : line[i] \in PaneLines
      BY <1>1, <2>1
    <3>2. line = [i \in 1..high |-> line[i]]
      OBVIOUS
    <3> HIDE DEF line, high
    <3>3. line \in [1..high -> PaneLines]
      BY <3>1, <3>2
    <3> QED BY <1>1, <3>3
  <2>3. n \in 1..high /\ n \in 1..Len(line)
    BY <1>2, <1>5, <2>2
  <2>4. line[n] \in PaneLines /\ line[n] = o.state[top + n]
    <3>1. n <= n
      BY <1>2
    <3> QED BY <2>1, <2>3, <3>1
  <2>5. u = [o EXCEPT !.rows = r]
    BY <1>5 DEF UpdateContent, height
  <2>6. \A i \in 1..high : line[i] = IF i <= n THEN o.state[top + i] ELSE o.rows[i]
    OBVIOUS
  <2> HIDE DEF line, n, high
  <2>7. /\ r \in Seq(PaneLines) /\ Len(r) = high
        /\ \E j \in 1..high : r[j].n = line[n].n
        /\ ~line[n].wide => r = [line EXCEPT ![n] = line[n]]
    <3>1. line[n] \in PaneLines /\ line \in Seq(PaneLines) /\ n \in 1..Len(line)
      BY <2>2, <2>3, <2>4
    <3>2. Len(line) = high
      BY <2>2
    <3> DEFINE l == line[n]
    <3>3. l \in PaneLines
      BY <3>1
    <3> HIDE DEF l
    <3>4. /\ PrintLine(line, n, l) \in Seq(PaneLines) /\ Len(PrintLine(line, n, l)) = Len(line)
          /\ \E j \in 1..Len(line) : PrintLine(line, n, l)[j].n = l.n
          /\ ~l.wide => PrintLine(line, n, l) = [line EXCEPT ![n] = l]
      BY <3>1, <3>3, PrintedLine
    <3> QED BY <3>2, <3>4 DEF l
  <2> HIDE DEF r
  <2> USE DEF n, high
  <2> HIDE DEF u
  <2>8. /\ u.state = o.state /\ u.topLineScroll = o.topLineScroll
        /\ u.scrolled = o.scrolled /\ u.rows = r
    BY <2>5 DEF Panes
  <2>9. u \in Panes
    BY <1>1, <2>5, <2>7 DEF Panes
  <2>10. \E j \in DOMAIN u.rows : u.rows[j].n = o.state[top + n].n
    BY <2>4, <2>7, <2>8
  <2>11. ASSUME BlankBelow(o) PROVE ShowsContent(u)
    <3> SUFFICES ASSUME Narrow(o), NEW i \in 1..high
                 PROVE  r[i] = IF top + i <= len THEN o.state[top + i] ELSE Blank
      BY <2>7, <2>8 DEF ShowsContent, Narrow
    <3>1. ~line[n].wide
      <4>1. top + n \in DOMAIN o.state
        BY <1>1, <1>2, <1>5
      <4> QED BY <2>4, <4>1 DEF Narrow
    <3>2. r = line
      BY <2>2, <2>3, <2>7, <3>1
    <3>3. CASE i <= n
      <4>1. top + i <= len
        BY <1>1, <1>2, <3>3
      <4> QED BY <2>6, <3>2, <3>3, <4>1
    <3>4. CASE ~(i <= n)
      <4>1. top + i > len /\ ~(top + i <= len)
        BY <1>1, <1>2, <3>4
      <4>2. o.rows[i] = Blank
        BY <1>1, <2>11, <4>1 DEF BlankBelow
      <4> QED BY <2>6, <3>2, <3>4, <4>1, <4>2
    <3> QED BY <3>3, <3>4
  <2> QED BY <1>5, <2>7, <2>8, <2>9, <2>10, <2>11 DEF u
<1> QED BY <1>4, <1>5

LEMMA AppendIs ==
  ASSUME NEW o \in Panes, NEW ls \in Seq(PaneLines)
  PROVE  LET m == AppendContent(o, ls) IN
         /\ m \in Panes /\ m.state = o.state \o ls /\ m.rows = o.rows /\ m.scrolled = o.scrolled
         /\ m.topLineScroll = IF Len(o.rows) > 0 /\ AtBottom(o) THEN LastLines(m)
                              ELSE o.topLineScroll
         /\ BlankBelow(o) => BlankBelow(m)
<1> DEFINE s == o.state \o ls
           high == Len(o.rows)
           more == [o EXCEPT !.state = s]
           m == AppendContent(o, ls)
           last == IF Len(s) > high THEN Len(s) - high ELSE 0
           top == IF high > 0 /\ AtBottom(o) THEN last ELSE o.topLineScroll
<1>1. o.state \in Seq(PaneLines) /\ Len(o.state) \in Nat /\ Len(ls) \in Nat /\ high \in Nat
      /\ o.topLineScroll \in Nat /\ o.topLineScroll <= Len(o.state)
      /\ DOMAIN o.rows = 1..high /\ DOMAIN o.state = 1..Len(o.state)
  BY PaneIs
<1>2. s \in Seq(PaneLines) /\ Len(s) \in Nat /\ Len(s) >= Len(o.state)
  <2>1. s \in Seq(PaneLines) /\ Len(s) = Len(o.state) + Len(ls)
    BY <1>1, LengthJoined
  <2> HIDE DEF s
  <2> QED BY <1>1, <2>1
<1>3. \A i \in 1..Len(o.state) : s[i] = o.state[i]
  BY <1>1
<1> HIDE DEF s
<1>4. more.state = s /\ more.rows = o.rows /\ more.scrolled = o.scrolled
      /\ more.topLineScroll = o.topLineScroll
  BY DEF Panes
<1>5. LastLines(more) = last
  BY <1>4 DEF LastLines, height
<1>6. top \in Nat /\ top <= Len(s) /\ top \in {last, o.topLineScroll}
  <2>1. last \in Nat /\ last <= Len(s) /\ o.topLineScroll <= Len(s)
    BY <1>1, <1>2
  <2>2. top \in {last, o.topLineScroll}
    <3> HIDE DEF last, high
    <3> QED BY Zenon
  <2> HIDE DEF top, last
  <2> QED BY <1>1, <2>1, <2>2
<1>7. m = [o EXCEPT !.state = s, !.topLineScroll = top]
  <2>1. m = IF high > 0 /\ AtBottom(o) THEN [more EXCEPT !.topLineScroll = LastLines(more)] ELSE more
    BY DEF AppendContent, height, s
  <2> HIDE DEF last
  <2> QED BY <1>5, <2>1 DEF Panes
<1> HIDE DEF m, top
<1>8. m \in Panes
  BY <1>2, <1>6, <1>7 DEF Panes
<1>9. m.state = s /\ m.rows = o.rows /\ m.scrolled = o.scrolled /\ m.topLineScroll = top
  BY <1>7 DEF Panes
<1>10. LastLines(m) = last
  BY <1>9 DEF LastLines, height
<1>11. ASSUME BlankBelow(o) PROVE BlankBelow(m)
  <2> SUFFICES ASSUME Narrow(m), NEW i \in 1..high, top + i > Len(s)
               PROVE  o.rows[i] = Blank
    BY <1>1, <1>9 DEF BlankBelow
  <2>1. Narrow(o)
    <3> SUFFICES ASSUME NEW j \in 1..Len(o.state) PROVE ~o.state[j].wide
      BY <1>1 DEF Narrow
    <3>1. s[j] = o.state[j]
      BY <1>3
    <3>2. j \in DOMAIN s
      BY <1>1, <1>2
    <3> QED BY <1>9, <3>1, <3>2 DEF Narrow
  <2>2. o.topLineScroll + i > Len(o.state)
    <3> HIDE DEF top
    <3>1. CASE top = last
      BY <1>1, <1>2, <3>1
    <3>2. CASE top = o.topLineScroll
      <4>1. o.topLineScroll + i > Len(s) /\ Len(s) >= Len(o.state)
        BY <1>1, <1>2, <3>2
      <4> QED BY <1>1, <1>2, <4>1
    <3> QED BY <1>6, <3>1, <3>2
  <2> QED BY <1>1, <1>11, <2>1, <2>2 DEF BlankBelow
<1> QED BY <1>8, <1>9, <1>10, <1>11 DEF m, s, top

LEMMA UpdateFollows ==
  ASSUME NEW o \in Panes, o.rows # <<>>, o.scrolled \/ Following(o) \/ o.topLineScroll = LastLines(o)
  PROVE  Following(UpdateContent(o))
<1> DEFINE len == Len(o.state)
           high == Len(o.rows)
           top == o.topLineScroll
           n == Printed(o)
           u == UpdateContent(o)
<1>1. /\ len \in Nat /\ high \in Nat /\ top \in Nat /\ top <= len /\ high > 0
      /\ o.state \in Seq(PaneLines) /\ o.rows \in Seq(PaneLines)
  BY PaneIs
<1>2. /\ u \in Panes /\ u.state = o.state /\ u.topLineScroll = o.topLineScroll
      /\ u.scrolled = o.scrolled /\ Len(u.rows) = Len(o.rows)
      /\ n = 0 => u = o
      /\ n # 0 => \E j \in DOMAIN u.rows : u.rows[j].n = o.state[top + n].n
  BY UpdateIs
<1>3. AtBottom(u) <=> AtBottom(o)
  BY <1>2 DEF AtBottom, height
<1> HIDE DEF u
<1>4. SUFFICES ASSUME ~o.scrolled
      PROVE  /\ AtBottom(o)
             /\ o.state # <<>> => \E i \in DOMAIN u.rows : u.rows[i].n = o.state[len].n
  BY <1>2, <1>3 DEF Following, u
<1>5. CASE Following(o)
  <2>1. AtBottom(o)
        /\ (o.state # <<>> => \E i \in DOMAIN o.rows : o.rows[i].n = o.state[len].n)
    BY <1>4, <1>5 DEF Following
  <2>2. CASE n = 0
    BY <1>2, <2>1, <2>2
  <2>3. CASE n # 0
    <3>1. top + n = len
      <4>1. top + high >= len
        BY <2>1 DEF AtBottom, height
      <4> QED BY <1>1, <4>1 DEF Printed, height
    <3> QED BY <1>2, <2>1, <2>3, <3>1
  <2> QED BY <2>2, <2>3
<1>6. CASE top = LastLines(o)
  <2>1. top = IF len > high THEN len - high ELSE 0
    BY <1>6 DEF LastLines, height
  <2>2. AtBottom(o)
    <3>1. AtBottom(o) <=> top + high >= len
      BY DEF AtBottom, height
    <3> HIDE DEF top, high, len
    <3>2. top + high >= len
      BY <1>1, <2>1
    <3> QED BY <3>1, <3>2
  <2>3. ASSUME o.state # <<>> PROVE n # 0 /\ top + n = len
    <3>1. len > 0
      BY <1>1, <2>3
    <3>2. n = IF (IF len > top THEN len - top ELSE 0) < high
              THEN (IF len > top THEN len - top ELSE 0) ELSE high
      BY DEF Printed, height
    <3> HIDE DEF top, high, len, n
    <3> QED BY <1>1, <2>1, <3>1, <3>2
  <2> QED BY <1>2, <2>2, <2>3
<1> QED BY <1>4, <1>5, <1>6

LEMMA Pushed ==
  ASSUME NEW rows \in Seq(PaneLines), rows # <<>>
  PROVE  LET r == <<Blank>> \o Front(rows) IN
         /\ r \in Seq(PaneLines) /\ Len(r) = Len(rows)
         /\ \A i \in 2..Len(rows) : r[i] = rows[i - 1]
<1> DEFINE b == <<Blank>>
           f == Front(rows)
           r == b \o f
<1>1. b \in Seq(PaneLines) /\ Len(b) = 1
  BY DEF Blank, PaneLines
<1>2. Len(rows) \in Nat /\ Len(rows) > 0 /\ Len(rows) - 1 \in 0..Len(rows)
  OBVIOUS
<1>3. f \in Seq(PaneLines) /\ Len(f) = Len(rows) - 1 /\ \A i \in 1..(Len(rows) - 1) : f[i] = rows[i]
  <2>1. f = SubSeq(rows, 1, Len(rows) - 1)
    BY DEF Front
  <2>2. f \in Seq(PaneLines) /\ Len(f) = Len(rows) - 1
    BY <1>2, <2>1, Cut
  <2> QED BY <1>2, <2>1, <2>2
<1> HIDE DEF b, f
<1>4. r \in Seq(PaneLines) /\ Len(r) = 1 + (Len(rows) - 1)
  BY <1>1, <1>3, LengthJoined
<1>5. ASSUME NEW i \in 2..Len(rows) PROVE r[i] = rows[i - 1]
  <2>1. i - 1 \in 1..(Len(rows) - 1)
    BY <1>2
  <2>2. r[i] = f[i - 1]
    <3> DEFINE j == i - 1
    <3>1. j \in 1..Len(f) /\ Len(b) + j = i
      BY <1>1, <1>3, <2>1
    <3> HIDE DEF j
    <3>2. b \in Seq(PaneLines) /\ f \in Seq(PaneLines) /\ j \in 1..Len(f)
      BY <1>1, <1>3, <3>1
    <3>3. (b \o f)[Len(b) + j] = f[j]
      BY <3>2
    <3> QED BY <3>1, <3>3 DEF j
  <2> QED BY <1>3, <2>1, <2>2
<1>6. Len(r) = Len(rows)
  BY <1>2, <1>4
<1> QED BY <1>4, <1>5, <1>6 DEF b, f

LEMMA Pulled ==
  ASSUME NEW rows \in Seq(PaneLines), rows # <<>>
  PROVE  LET r == Append(Tail(rows), Blank) IN
         /\ r \in Seq(PaneLines) /\ Len(r) = Len(rows)
         /\ \A i \in 1..(Len(rows) - 1) : r[i] = rows[i + 1]
<1> DEFINE t == Tail(rows)
           r == Append(t, Blank)
<1>1. Blank \in PaneLines
  BY DEF Blank, PaneLines
<1>2. Len(rows) \in Nat /\ Len(rows) > 0
  OBVIOUS
<1>3. t \in Seq(PaneLines) /\ Len(t) = Len(rows) - 1 /\ \A i \in 1..(Len(rows) - 1) : t[i] = rows[i + 1]
  BY <1>2
<1> HIDE DEF t
<1>4. r \in Seq(PaneLines) /\ Len(r) = (Len(rows) - 1) + 1
  BY <1>1, <1>3
<1>5. ASSUME NEW i \in 1..(Len(rows) - 1) PROVE r[i] = rows[i + 1]
  <2>1. r[i] = t[i]
    BY <1>1, <1>2, <1>3
  <2> QED BY <1>3, <2>1
<1>6. Len(r) = Len(rows)
  BY <1>2, <1>4
<1> QED BY <1>4, <1>5, <1>6 DEF t

\* What the two ways of scrolling keep.
PaneKeeps(o, u) ==
  /\ u \in Panes /\ Len(u.rows) = Len(o.rows)
  /\ ShowsContent(o) => ShowsContent(u)
  /\ Following(o) => Following(u)

LEMMA NothingScrolls ==
  ASSUME NEW o \in Panes
  PROVE  PaneKeeps(o, o)
BY DEF PaneKeeps

LEMMA ScrollUpIs ==
  ASSUME NEW o \in Panes, o.rows # <<>>
  PROVE  PaneKeeps(o, ScrollContentUp(o))
<1> DEFINE len == Len(o.state)
           high == Len(o.rows)
           top == o.topLineScroll
           p == <<Blank>> \o Front(o.rows)
           l == o.state[top]
           r == PrintLine(p, 1, l)
           u == [o EXCEPT !.topLineScroll = top - 1, !.scrolled = TRUE, !.rows = r]
<1>1. /\ len \in Nat /\ high \in Nat /\ top \in Nat /\ top <= len /\ high > 0
      /\ o.state \in Seq(PaneLines) /\ o.rows \in Seq(PaneLines)
      /\ DOMAIN o.rows = 1..high /\ DOMAIN o.state = 1..len
  BY PaneIs
<1>2. CASE top = 0
  BY <1>2, NothingScrolls DEF ScrollContentUp
<1>3. CASE top # 0
  <2>1. ScrollContentUp(o) = u
    BY <1>3 DEF ScrollContentUp
  <2>2. top \in 1..len /\ l \in PaneLines
    BY <1>1, <1>3
  <2>3. p \in Seq(PaneLines) /\ Len(p) = high /\ \A i \in 2..high : p[i] = o.rows[i - 1]
    BY <1>1, Pushed
  <2>4. 1 \in 1..Len(p)
    BY <1>1, <2>3
  <2> HIDE DEF p, l
  <2>5. /\ r \in Seq(PaneLines) /\ Len(r) = Len(p)
        /\ ~l.wide => r = [p EXCEPT ![1] = l]
    BY <2>2, <2>3, <2>4, PrintedLine
  <2> HIDE DEF r
  <2>6. top - 1 \in Nat /\ top - 1 <= len
    BY <1>1, <2>2
  <2>7. u \in Panes /\ u.state = o.state /\ u.topLineScroll = top - 1 /\ u.scrolled = TRUE
        /\ u.rows = r
    BY <1>1, <2>5, <2>6 DEF Panes
  <2> HIDE DEF u
  <2>8. Following(u)
    BY <2>7 DEF Following
  <2>9. ASSUME ShowsContent(o) PROVE ShowsContent(u)
    <3>0. DOMAIN r = 1..high
      BY <2>3, <2>5
    <3> SUFFICES ASSUME Narrow(o), NEW i \in 1..high
                 PROVE  r[i] = IF (top - 1) + i <= len THEN o.state[(top - 1) + i] ELSE Blank
      BY <2>7, <3>0 DEF ShowsContent, Narrow
    <3>1. ~l.wide
      BY <1>1, <2>2 DEF Narrow, l
    <3>2. CASE i = 1
      <4>1. r[i] = l
        BY <2>3, <2>4, <2>5, <3>1, <3>2
      <4>2. (top - 1) + i = top
        BY <1>1, <3>2
      <4> QED BY <1>1, <4>1, <4>2 DEF l
    <3>3. CASE i # 1
      <4>1. i \in 2..high /\ i - 1 \in 1..high /\ (top - 1) + i = top + (i - 1)
        BY <1>1, <3>3
      <4>2. r[i] = p[i]
        BY <2>3, <2>5, <3>1, <3>3
      <4>3. r[i] = o.rows[i - 1]
        BY <2>3, <4>1, <4>2
      <4>4. o.rows[i - 1] = IF top + (i - 1) <= len THEN o.state[top + (i - 1)] ELSE Blank
        BY <1>1, <2>9, <4>1 DEF ShowsContent
      <4> QED BY <4>1, <4>3, <4>4
    <3> QED BY <3>2, <3>3
  <2>10. Len(u.rows) = Len(o.rows)
    BY <2>3, <2>5, <2>7
  <2> QED BY <2>1, <2>7, <2>8, <2>9, <2>10 DEF PaneKeeps
<1> QED BY <1>2, <1>3

LEMMA ScrollDownIs ==
  ASSUME NEW o \in Panes, o.rows # <<>>
  PROVE  PaneKeeps(o, ScrollContentDown(o))
<1> DEFINE len == Len(o.state)
           high == Len(o.rows)
           top == o.topLineScroll
           p == Append(Tail(o.rows), Blank)
           l == o.state[top + 1 + high]
           r == PrintLine(p, high, l)
           d == [o EXCEPT !.topLineScroll = top + 1, !.rows = r]
           u == [d EXCEPT !.scrolled = ~AtBottom(d)]
<1>1. /\ len \in Nat /\ high \in Nat /\ top \in Nat /\ top <= len /\ high > 0
      /\ o.state \in Seq(PaneLines) /\ o.rows \in Seq(PaneLines)
      /\ DOMAIN o.rows = 1..high /\ DOMAIN o.state = 1..len
  BY PaneIs
<1>2. CASE AtBottom(o)
  BY <1>2, NothingScrolls DEF ScrollContentDown
<1>3. CASE ~AtBottom(o)
  <2>1. ScrollContentDown(o) = u
    BY <1>3 DEF ScrollContentDown, height
  <2>2. top + high < len
    BY <1>1, <1>3 DEF AtBottom, height
  <2>3. top + 1 + high \in 1..len /\ l \in PaneLines
    BY <1>1, <2>2
  <2>4. p \in Seq(PaneLines) /\ Len(p) = high /\ \A i \in 1..(high - 1) : p[i] = o.rows[i + 1]
    BY <1>1, Pulled
  <2>5. high \in 1..Len(p)
    BY <1>1, <2>4
  <2> HIDE DEF p, l
  <2>6. /\ r \in Seq(PaneLines) /\ Len(r) = Len(p)
        /\ \E j \in 1..Len(p) : r[j].n = l.n
        /\ ~l.wide => r = [p EXCEPT ![high] = l]
    BY <2>3, <2>4, <2>5, PrintedLine
  <2> HIDE DEF r
  <2>7. top + 1 \in Nat /\ top + 1 <= len
    BY <1>1, <2>2
  <2>8. d \in Panes /\ d.state = o.state /\ d.topLineScroll = top + 1 /\ d.rows = r
    BY <1>1, <2>6, <2>7 DEF Panes
  <2>9. AtBottom(d) <=> AtBottom(u)
    BY DEF AtBottom, height, Panes
  <2> DEFINE s == ~AtBottom(d)
  <2>10. s \in BOOLEAN
    OBVIOUS
  <2> HIDE DEF d, s
  <2>11. u \in Panes /\ u.state = o.state /\ u.topLineScroll = top + 1 /\ u.scrolled = s
         /\ u.rows = r
    <3>1. u = [d EXCEPT !.scrolled = s]
      BY DEF s
    <3> HIDE DEF u
    <3> QED BY <2>8, <2>10, <3>1 DEF Panes
  <2> HIDE DEF u
  <2>12. DOMAIN r = 1..high
    BY <2>4, <2>6
  <2>13. Following(u)
    <3> SUFFICES ASSUME AtBottom(d) PROVE Following(u)
      BY <2>11 DEF Following, s
    <3>1. AtBottom(u)
      BY <2>9 DEF u
    <3>2. top + 1 + high = len
      <4>1. top + 1 + high >= len
        BY <2>4, <2>6, <2>8 DEF AtBottom, height
      <4> HIDE DEF top, high, len
      <4> QED BY <1>1, <2>2, <4>1
    <3>3. \E j \in DOMAIN u.rows : u.rows[j].n = u.state[Len(u.state)].n
      BY <2>4, <2>6, <2>11, <2>12, <3>2 DEF l
    <3> QED BY <3>1, <3>3 DEF Following
  <2>14. ASSUME ShowsContent(o) PROVE ShowsContent(u)
    <3> SUFFICES ASSUME Narrow(o), NEW i \in 1..high
                 PROVE  r[i] = IF (top + 1) + i <= len THEN o.state[(top + 1) + i] ELSE Blank
      BY <2>11, <2>12 DEF ShowsContent, Narrow
    <3>1. ~l.wide
      BY <1>1, <2>3 DEF Narrow, l
    <3>2. CASE i = high
      <4>1. r[i] = l
        BY <2>4, <2>5, <2>6, <3>1, <3>2
      <4>2. (top + 1) + i = top + 1 + high /\ (top + 1) + i <= len
        BY <1>1, <2>2, <3>2
      <4> QED BY <4>1, <4>2 DEF l
    <3>3. CASE i # high
      <4>1. i \in 1..(high - 1) /\ i + 1 \in 1..high /\ (top + 1) + i = top + (i + 1)
        BY <1>1, <3>3
      <4>2. r[i] = p[i]
        BY <2>4, <2>6, <3>1, <3>3
      <4>3. r[i] = o.rows[i + 1]
        BY <2>4, <4>1, <4>2
      <4>4. o.rows[i + 1] = IF top + (i + 1) <= len THEN o.state[top + (i + 1)] ELSE Blank
        BY <1>1, <2>14, <4>1 DEF ShowsContent
      <4> QED BY <4>1, <4>3, <4>4
    <3> QED BY <3>2, <3>3
  <2>15. Len(u.rows) = Len(o.rows)
    BY <2>4, <2>6, <2>11
  <2> QED BY <2>1, <2>11, <2>13, <2>14, <2>15 DEF PaneKeeps
<1> QED BY <1>2, <1>3

LEMMA ShownBlank ==
  ASSUME NEW o \in Panes, ShowsContent(o)
  PROVE  BlankBelow(o)
<1> SUFFICES ASSUME Narrow(o), NEW i \in DOMAIN o.rows, o.topLineScroll + i > Len(o.state)
             PROVE  o.rows[i] = Blank
  BY DEF BlankBelow
<1>1. o.topLineScroll + i \in Nat /\ Len(o.state) \in Nat
  BY PaneIs
<1>2. ~(o.topLineScroll + i <= Len(o.state))
  BY <1>1
<1> QED BY <1>2 DEF ShowsContent

LEMMA BlanksAre ==
  ASSUME NEW h \in Nat
  PROVE  /\ Blanks(h) \in Seq(PaneLines) /\ Len(Blanks(h)) = h
         /\ \A i \in DOMAIN Blanks(h) : Blanks(h)[i] = Blank
<1>1. Blank \in PaneLines
  BY DEF Blank, PaneLines
<1>2. Blanks(h) = [i \in 1..h |-> Blank]
  BY DEF Blanks
<1>3. Blanks(h) \in [1..h -> PaneLines]
  BY <1>1, <1>2
<1> QED BY <1>2, <1>3

LEMMA DrawInPlaceIs ==
  ASSUME NEW o \in Panes, NEW h \in Nat
  PROVE  LET u == UpdateContent(DrawInPlace(o, h)) IN
         u \in Panes /\ Len(u.rows) = h /\ ShowsContent(u)
<1> DEFINE b == Blanks(h)
           d == [o EXCEPT !.rows = b]
<1>1. b \in Seq(PaneLines) /\ Len(b) = h /\ \A i \in DOMAIN b : b[i] = Blank
  BY BlanksAre
<1>2. d = DrawInPlace(o, h)
  BY DEF DrawInPlace
<1> HIDE DEF b
<1>3. d \in Panes /\ d.rows = b
  BY <1>1 DEF Panes
<1> HIDE DEF d
<1>4. BlankBelow(d)
  BY <1>1, <1>3 DEF BlankBelow
<1>5. UpdateContent(d) \in Panes /\ Len(UpdateContent(d).rows) = Len(d.rows)
      /\ ShowsContent(UpdateContent(d))
  BY <1>3, <1>4, UpdateIs
<1> QED BY <1>1, <1>2, <1>3, <1>5

LEMMA DrawAtBottomIs ==
  ASSUME NEW o \in Panes, NEW h \in Nat \ {0}
  PROVE  LET u == UpdateContent(DrawAtBottom(o, h)) IN
         u \in Panes /\ Len(u.rows) = h /\ ShowsContent(u) /\ Following(u)
<1> DEFINE b == Blanks(h)
           e == [o EXCEPT !.rows = b]
           k == LastLines(e)
           d == [e EXCEPT !.topLineScroll = k, !.scrolled = FALSE]
<1>1. b \in Seq(PaneLines) /\ Len(b) = h /\ \A i \in DOMAIN b : b[i] = Blank
  BY BlanksAre
<1>2. d = DrawAtBottom(o, h)
  BY DEF DrawAtBottom
<1>3. Len(o.state) \in Nat
  BY PaneIs
<1> HIDE DEF b
<1>4. e \in Panes /\ e.rows = b /\ e.state = o.state
  BY <1>1 DEF Panes
<1>5. k = IF Len(o.state) > h THEN Len(o.state) - h ELSE 0
  BY <1>1, <1>4 DEF LastLines, height
<1>6. k \in Nat /\ k <= Len(o.state)
  <2> HIDE DEF k
  <2> QED BY <1>3, <1>5
<1> HIDE DEF e, k
<1>7. d \in Panes /\ d.rows = b /\ d.state = o.state /\ d.topLineScroll = k
  BY <1>4, <1>6 DEF Panes
<1> HIDE DEF d
<1>8. d.topLineScroll = LastLines(d)
  BY <1>1, <1>5, <1>7 DEF LastLines, height
<1>9. BlankBelow(d)
  BY <1>1, <1>7 DEF BlankBelow
<1>10. UpdateContent(d) \in Panes /\ Len(UpdateContent(d).rows) = Len(d.rows)
      /\ ShowsContent(UpdateContent(d))
  BY <1>7, <1>9, UpdateIs
<1>11. Following(UpdateContent(d))
  <2>1. d.rows # <<>>
    BY <1>1, <1>7
  <2> QED BY <1>7, <1>8, <2>1, UpdateFollows
<1> QED BY <1>1, <1>2, <1>7, <1>10, <1>11

LEMMA ClearIs ==
  ASSUME NEW o \in Panes
  PROVE  Clear(o) \in Panes
<1> DEFINE none == <<>>
<1>1. none \in Seq(PaneLines)
  OBVIOUS
<1> HIDE DEF none
<1>2. [o EXCEPT !.rows = none] \in Panes
  BY <1>1 DEF Panes
<1> QED BY <1>2 DEF Clear, none

LEMMA AppendedIs ==
  ASSUME NEW o \in Panes, NEW ls \in Seq(PaneLines)
  PROVE  LET u == UpdateContent(AppendContent(o, ls)) IN
         /\ u \in Panes /\ Len(u.rows) = Len(o.rows)
         /\ ShowsContent(o) => ShowsContent(u)
         /\ o.rows # <<>> /\ Following(o) => Following(u)
<1> DEFINE m == AppendContent(o, ls)
<1>1. /\ m \in Panes /\ m.rows = o.rows /\ m.scrolled = o.scrolled
      /\ m.topLineScroll = IF Len(o.rows) > 0 /\ AtBottom(o) THEN LastLines(m)
                           ELSE o.topLineScroll
      /\ BlankBelow(o) => BlankBelow(m)
  BY AppendIs
<1> HIDE DEF m
<1>2. UpdateContent(m) \in Panes /\ Len(UpdateContent(m).rows) = Len(o.rows)
      /\ (BlankBelow(m) => ShowsContent(UpdateContent(m)))
  BY <1>1, UpdateIs
<1>3. ASSUME ShowsContent(o) PROVE ShowsContent(UpdateContent(m))
  BY <1>1, <1>2, <1>3, ShownBlank
<1>4. ASSUME o.rows # <<>>, Following(o) PROVE Following(UpdateContent(m))
  <2>1. Len(o.rows) > 0
    BY <1>4, PaneIs
  <2>2. m.scrolled \/ m.topLineScroll = LastLines(m)
    <3>1. o.scrolled \/ AtBottom(o)
      BY <1>4 DEF Following
    <3> QED BY <1>1, <2>1, <3>1
  <2> QED BY <1>1, <1>4, <2>2, UpdateFollows
<1> QED BY <1>2, <1>3, <1>4 DEF m

LEMMA EchoIs ==
  ASSUME NEW o \in Panes, NEW ls \in Seq(PaneLines), Len(ls) \in {1, 2}
  PROVE  LET u == EchoTo(o, ls) IN
         u \in Panes /\ Len(u.rows) = Len(o.rows) /\ (ShowsContent(o) => ShowsContent(u))
<1> DEFINE a == <<ls[1]>>
           m == AppendContent(o, a)
<1>1. a \in Seq(PaneLines)
  <2>1. ls[1] \in PaneLines
    OBVIOUS
  <2> QED BY <2>1
<1> HIDE DEF a
<1>2. CASE Len(ls) = 1
  <2>1. EchoTo(o, ls) = UpdateContent(m)
    BY <1>2 DEF EchoTo, a
  <2> HIDE DEF m
  <2> QED BY <1>1, <2>1, AppendedIs DEF m
<1>3. CASE Len(ls) = 2
  <2> DEFINE b == <<ls[2]>>
  <2>1. b \in Seq(PaneLines)
    <3>1. ls[2] \in PaneLines
      <4>1. 2 \in 1..Len(ls)
        BY <1>3
      <4> QED BY <4>1
    <3> QED BY <3>1
  <2>2. EchoTo(o, ls) = UpdateContent(AppendContent(m, b))
    BY <1>3 DEF EchoTo, a
  <2> HIDE DEF b
  <2>3. m \in Panes /\ m.rows = o.rows /\ (BlankBelow(o) => BlankBelow(m))
    BY <1>1, AppendIs
  <2> HIDE DEF m
  <2> DEFINE q == AppendContent(m, b)
  <2>4. q \in Panes /\ q.rows = m.rows /\ (BlankBelow(m) => BlankBelow(q))
    BY <2>1, <2>3, AppendIs
  <2> HIDE DEF q
  <2>5. UpdateContent(q) \in Panes /\ Len(UpdateContent(q).rows) = Len(q.rows)
        /\ (BlankBelow(q) => ShowsContent(UpdateContent(q)))
    BY <2>4, UpdateIs
  <2>6. ShowsContent(o) => ShowsContent(UpdateContent(q))
    BY <2>3, <2>4, <2>5, ShownBlank
  <2> QED BY <2>2, <2>3, <2>4, <2>5, <2>6 DEF q
<1> QED BY <1>2, <1>3

-----------------------------------------------------------------------------
(* The keys of the input tabs *)

\* The window itself: an error's has buttons only, and what is drawn has a height.
Frame ==
  /\ kind \in Kinds /\ open \in {"shown", "cleared", "left", "closed", "aborted"}
  /\ IF kind = "error" THEN tabs \in {2, 3, 4} /\ active \in 0..(tabs - 1)
     ELSE tabs = 5 /\ active \in {2, 3, 4}
  /\ open = "shown" => active \notin tabsToSkip
  /\ rowsHigh \in Heights[kind] \cup {0} /\ (open = "shown" => rowsHigh # 0)
  /\ typed \in 0..MaxTyped[kind] /\ lines \in 0..MaxLines[kind]

LinesOK ==
  /\ input \in [TabIndexes -> TabLines]
  /\ \A t \in TabIndexes : LineOK(input[t], Hints[t])

\* What is seen of the panes: only that of events follows its end.
PanesShown ==
  \A t \in Outputs :
    /\ output[t].rows # <<>> /\ ShowsContent(output[t])
    /\ Class(t) = "output" => Following(output[t])

PanesOK == output \in [TabIndexes -> Panes] /\ (open = "shown" => PanesShown)

\* Every line keeps what it has to, and moves as an editor does.
LinesStep ==
  /\ input' \in [TabIndexes -> TabLines]
  /\ \A t \in TabIndexes : Keeps(input[t], input'[t], Hints[t])

LEMMA EmptyLineOK ==
  ASSUME NEW h
  PROVE  EmptyLine \in TabLines /\ LineOK(EmptyLine, h)
<1>1. <<>> \in Seq(Char) /\ <<>> \in Seq(Texts) /\ 0 \in 0..(Width - 1) /\ {} \in SUBSET Nat
  BY TabAssumption
<1>2. EmptyLine \in TabLines
  BY <1>1, EmptyText DEF EmptyLine, TabLines
<1> QED BY <1>2 DEF EmptyLine, LineOK

LEMMA InputStays ==
  ASSUME LinesOK, input' = input
  PROVE  LinesStep
BY NothingKeeps DEF LinesOK, LinesStep

LEMMA LineEdited ==
  ASSUME LinesOK, active \in TabIndexes, NEW f, Keeps(input[active], f, Hints[active]),
         input' = [input EXCEPT ![active] = f]
  PROVE  LinesStep
<1>1. f \in TabLines
  BY DEF Keeps, LineOK
<1>2. \A t \in TabIndexes : Keeps(input[t], input'[t], Hints[t])
  BY NothingKeeps DEF LinesOK
<1> QED BY <1>1, <1>2 DEF LinesOK, LinesStep

LEMMA PromptsWritten ==
  ASSUME LinesOK, NEW ts,
         input' = [t \in TabIndexes |-> IF t \in ts THEN WritePromptLine(input[t]) ELSE input[t]]
  PROVE  LinesStep
<1>1. ASSUME NEW t \in TabIndexes PROVE Keeps(input[t], input'[t], Hints[t])
  <2>1. LineOK(input[t], Hints[t]) /\ Hints[t] \in HintsOf
    BY HintsType DEF LinesOK
  <2>2. Keeps(input[t], input[t], Hints[t]) /\ Keeps(input[t], WritePromptLine(input[t]), Hints[t])
    BY <2>1, NothingKeeps, PromptKeeps
  <2> QED BY <2>2
<1>2. \A t \in TabIndexes : input'[t] \in TabLines
  BY <1>1 DEF Keeps, LineOK
<1> QED BY <1>1, <1>2 DEF LinesStep

LEMMA InputIsATab ==
  ASSUME Frame, IsInput(active)
  PROVE  active \in TabIndexes
BY DEF Frame, IsInput, Class, tabsToSkip, TabIndexes

LEMMA EditKeyLines ==
  ASSUME LinesOK, Frame, EditKey
  PROVE  LinesStep
<1> DEFINE e == input[active]
           h == Hints[active]
<1>1. active \in TabIndexes
  BY InputIsATab DEF EditKey, InputKey
<1>2. LineOK(e, h) /\ h \in HintsOf
  BY <1>1, HintsType DEF LinesOK
<1>3. CASE Edit(DeleteCharForward)
  <2>1. input' = [input EXCEPT ![active] = DeleteCharForward(e, h)]
    BY <1>3 DEF Edit
  <2> QED BY <1>1, <1>2, <2>1, DeleteForwardKeeps, LineEdited
<1>4. CASE Edit(DeleteCharBack)
  <2>1. input' = [input EXCEPT ![active] = DeleteCharBack(e, h)]
    BY <1>4 DEF Edit
  <2> QED BY <1>1, <1>2, <2>1, DeleteBackKeeps, LineEdited
<1>5. CASE Edit(SuggestHint)
  <2>1. input' = [input EXCEPT ![active] = SuggestHint(e, h)]
    BY <1>5 DEF Edit
  <2> QED BY <1>1, <1>2, <2>1, SuggestKeeps, LineEdited
<1>6. CASE Edit(LAMBDA a, b : MoveCursorLeft(a))
  <2>1. input' = [input EXCEPT ![active] = MoveCursorLeft(e)]
    BY <1>6 DEF Edit
  <2> QED BY <1>1, <1>2, <2>1, MovesKeep, LineEdited
<1>7. CASE Edit(LAMBDA a, b : MoveCursorRight(a))
  <2>1. input' = [input EXCEPT ![active] = MoveCursorRight(e)]
    BY <1>7 DEF Edit
  <2> QED BY <1>1, <1>2, <2>1, MovesKeep, LineEdited
<1>8. CASE Edit(LAMBDA a, b : MoveStartLine(a))
  <2>1. input' = [input EXCEPT ![active] = MoveStartLine(e)]
    BY <1>8 DEF Edit
  <2> QED BY <1>1, <1>2, <2>1, MovesKeep, LineEdited
<1>9. CASE Edit(LAMBDA a, b : MoveEndLine(a))
  <2>1. input' = [input EXCEPT ![active] = MoveEndLine(e)]
    BY <1>9 DEF Edit
  <2> QED BY <1>1, <1>2, <2>1, MovesKeep, LineEdited
<1> QED BY <1>3, <1>4, <1>5, <1>6, <1>7, <1>8, <1>9 DEF EditKey

LEMMA LinesKept ==
  ASSUME LinesOK, LinesStep
  PROVE  LinesOK'
BY DEF LinesOK, LinesStep, Keeps

LEMMA RecallLines ==
  ASSUME LinesOK, Frame, Recall
  PROVE  LinesStep
<1> DEFINE e == input[active]
           h == Hints[active]
<1>1. active \in TabIndexes
  BY InputIsATab DEF Recall, IsInput
<1>2. LineOK(e, h) /\ h \in HintsOf
  BY <1>1, HintsType DEF LinesOK
<1>3. CASE Edit(LAMBDA a, b : ShowPrevious(a))
  <2>1. input' = [input EXCEPT ![active] = ShowPrevious(e)]
    BY <1>3 DEF Edit
  <2> QED BY <1>1, <1>2, <2>1, ShowPreviousKeeps, LineEdited
<1>4. CASE Edit(LAMBDA a, b : ShowNext(a))
  <2>1. input' = [input EXCEPT ![active] = ShowNext(e)]
    BY <1>4 DEF Edit
  <2> QED BY <1>1, <1>2, <2>1, ShowNextKeeps, LineEdited
<1> QED BY <1>3, <1>4 DEF Recall

LEMMA TypeCharLines ==
  ASSUME LinesOK, Frame, NEW c \in Letters, TypeChar(c)
  PROVE  LinesStep
<1> DEFINE e == input[active]
           h == Hints[active]
<1>1. active \in TabIndexes
  BY InputIsATab DEF TypeChar, InputKey
<1>2. LineOK(e, h) /\ h \in HintsOf
  BY <1>1, HintsType DEF LinesOK
<1>3. PICK stale \in Char : input' = [input EXCEPT ![active] = AppendInputChar(e, c, stale, h)]
  BY DEF TypeChar, Edit, Char
<1> QED BY <1>1, <1>2, <1>3, AppendKeeps, LineEdited

LEMMA TerminateLines ==
  ASSUME LinesOK, Frame, TerminateCommand
  PROVE  LinesStep
<1> DEFINE e == input[active]
           h == Hints[active]
<1>1. active \in TabIndexes
  BY InputIsATab DEF TerminateCommand, InputKey
<1>2. LineOK(e, h) /\ h \in HintsOf
  BY <1>1, HintsType DEF LinesOK
<1>3. input' = [input EXCEPT ![active] = Entered(e)] /\ e.commandBuffer # <<>>
  BY DEF TerminateCommand
<1> QED BY <1>1, <1>2, <1>3, EnteredKeeps, LineEdited

LEMMA DrawnLines ==
  ASSUME LinesOK, NEW h, Drawn(h)
  PROVE  LinesStep
BY PromptsWritten DEF Drawn

LEMMA RedrawnLines ==
  ASSUME LinesOK, NEW ts, input' = Redrawn(ts)
  PROVE  LinesStep
BY PromptsWritten DEF Redrawn

LEMMA NextLines ==
  ASSUME LinesOK, Frame, Next
  PROVE  LinesStep
<1>1. CASE Show
  <2>1. input' = input \/ Drawn(rowsHigh)
    BY <1>1, Zenon DEF Show, Cleared
  <2> QED BY <2>1, InputStays, DrawnLines
<1>2. ASSUME NEW h \in Heights[kind] \cup {0}, Resize(h) PROVE LinesStep
  <2>1. input' = input \/ Drawn(h)
    BY <1>2 DEF Resize, Cleared
  <2> QED BY <2>1, InputStays, DrawnLines
<1>3. CASE Leave \/ KeyInCleared \/ Scroll
  <2>1. input' = input
    BY <1>3, Zenon DEF Leave, KeyInCleared, Scroll, Cleared
  <2> QED BY <2>1, InputStays
<1>4. ASSUME NEW k \in {1, 2}, AppendLines(k) PROVE LinesStep
  <2>1. input' = input
    BY <1>4, Zenon DEF AppendLines
  <2> QED BY <2>1, InputStays
<1>5. CASE SwitchActiveTab
  BY <1>5, RedrawnLines DEF SwitchActiveTab
<1>6. CASE PressButton
  <2>1. input' = input \/ input' = Redrawn({2})
    BY <1>6, Zenon DEF PressButton
  <2> QED BY <2>1, InputStays, RedrawnLines
<1> QED BY <1>1, <1>2, <1>3, <1>4, <1>5, <1>6, EditKeyLines, RecallLines, TypeCharLines,
           TerminateLines DEF Next

-----------------------------------------------------------------------------
(* The window *)

LEMMA NextTab ==
  ASSUME tabs \in {3, 4, 5}, active \in 2..(tabs - 1)
  PROVE  Switched \in 2..(tabs - 1)
<1> DEFINE S == {i \in 1..tabs : (active + i) % tabs \notin tabsToSkip}
<1>1. (active + tabs) % tabs = active
  <2>1. CASE tabs = 3
    <3>1. active = 2
      BY <2>1
    <3> QED BY <2>1, <3>1
  <2>2. CASE tabs = 4
    <3>1. active = 2 \/ active = 3
      BY <2>2
    <3> QED BY <2>2, <3>1
  <2>3. CASE tabs = 5
    <3>1. active = 2 \/ active = 3 \/ active = 4
      BY <2>3
    <3> QED BY <2>3, <3>1
  <2> QED BY <2>1, <2>2, <2>3
<1>2. tabs \in S
  BY <1>1 DEF tabsToSkip
<1>3. S \in SUBSET Nat
  OBVIOUS
<1>4. Switched = (active + Min(S)) % tabs
  BY DEF Switched
<1> DEFINE m == Min(S)
<1>5. m \in S
  <2> HIDE DEF S
  <2> QED BY <1>2, <1>3, LeastIs
<1> HIDE DEF m
<1>6. m \in 1..tabs /\ (active + m) % tabs \notin {0, 1}
  BY <1>5 DEF tabsToSkip
<1>7. (active + m) % tabs \in 0..(tabs - 1)
  BY <1>6
<1>8. (active + m) % tabs \in 2..(tabs - 1)
  BY <1>6, <1>7
<1> QED BY <1>4, <1>8 DEF m

LEMMA HeightsAre ==
  ASSUME kind \in Kinds, NEW h \in Heights[kind] \cup {0}
  PROVE  h \in Nat /\ (h # 0 => h \in Nat \ {0})
BY WindowAssumption DEF WindowAssumption

LEMMA LineCounts ==
  ASSUME kind \in Kinds
  PROVE  MaxTyped[kind] \in Nat /\ MaxLines[kind] \in Nat
BY WindowAssumption DEF WindowAssumption

LEMMA InitFrame ==
  ASSUME Init
  PROVE  Frame
<1>1. kind \in {"login", "game", "error"}
  BY WindowAssumption DEF Init, WindowAssumption
<1> QED BY <1>1, LineCounts DEF Init, Frame

LEMMA NextFrame ==
  ASSUME Frame, Next
  PROVE  Frame'
<1>1. kind \in {"login", "game", "error"} /\ MaxTyped[kind] \in Nat /\ MaxLines[kind] \in Nat
  BY WindowAssumption, LineCounts DEF Frame, WindowAssumption
<1>2. CASE Show
  BY <1>1, <1>2 DEF Show, Frame, AdaptWinToError, Cleared, Drawn, tabsToSkip
<1>3. ASSUME NEW h \in Heights[kind] \cup {0}, Resize(h) PROVE Frame'
  BY <1>1, <1>3 DEF Resize, Frame, ButtonsErased, tabsToSkip
<1>4. CASE Leave
  BY <1>4 DEF Leave, Frame, tabsToSkip
<1>5. CASE Recall \/ Scroll
  BY <1>5 DEF Recall, Scroll, Frame, tabsToSkip
<1>12. CASE EditKey
  <2>1. UNCHANGED <<kind, tabs, active, rowsHigh, typed, lines>> /\ Survives
    BY <1>12, Zenon DEF EditKey
  <2>2. open' \in {"aborted", open}
    BY <2>1 DEF Survives
  <2> QED BY <2>1, <2>2 DEF Frame, tabsToSkip
<1>6. CASE KeyInCleared
  BY <1>6 DEF KeyInCleared, Frame, tabsToSkip
<1>7. CASE TerminateCommand
  <2>1. lines' = lines \/ (\E k \in {1, 2} : lines + k <= MaxLines[kind] /\ lines' = lines + k)
    BY <1>7 DEF TerminateCommand
  <2>2. lines' \in 0..MaxLines[kind]
    BY <1>1, <2>1 DEF Frame
  <2>3. UNCHANGED <<kind, open, tabs, active, rowsHigh, typed>>
    BY <1>7, Zenon DEF TerminateCommand
  <2> QED BY <2>2, <2>3 DEF Frame, tabsToSkip
<1>8. ASSUME NEW c \in Letters, TypeChar(c) PROVE Frame'
  <2>1. typed < MaxTyped[kind] /\ typed' = typed + 1
        /\ UNCHANGED <<kind, tabs, active, rowsHigh, lines>>
    BY <1>8, Zenon DEF TypeChar
  <2>2. open' = (IF input'[active].overrun THEN "aborted" ELSE open)
    BY <1>8, Zenon DEF TypeChar, Survives
  <2>3. open' \in {"aborted", open}
    BY <2>2
  <2>4. typed' \in 0..MaxTyped[kind]
    BY <1>1, <2>1 DEF Frame
  <2> QED BY <2>1, <2>3, <2>4 DEF Frame, tabsToSkip
<1>9. ASSUME NEW k \in {1, 2}, AppendLines(k) PROVE Frame'
  <2>1. lines' \in 0..MaxLines[kind]
    BY <1>1, <1>9 DEF AppendLines, Frame
  <2>2. UNCHANGED <<kind, open, tabs, active, rowsHigh, typed>>
    BY <1>9, Zenon DEF AppendLines
  <2> QED BY <2>1, <2>2 DEF Frame, tabsToSkip
<1>10. CASE SwitchActiveTab
  <2>1. tabs \in {3, 4, 5} /\ active \in 2..(tabs - 1)
    BY <1>10 DEF SwitchActiveTab, Frame, tabsToSkip
  <2>2. active' \in 2..(tabs - 1)
    BY <1>10, <2>1, NextTab DEF SwitchActiveTab
  <2>3. UNCHANGED <<kind, open, tabs, rowsHigh, typed, lines>>
    BY <1>10 DEF SwitchActiveTab
  <2> QED BY <2>1, <2>2, <2>3 DEF Frame, tabsToSkip
<1>11. CASE PressButton
  BY <1>1, <1>11 DEF PressButton, Frame, ButtonsErased, tabsToSkip
<1> QED BY <1>2, <1>3, <1>4, <1>5, <1>6, <1>7, <1>8, <1>9, <1>10, <1>11, <1>12,
           Zenon DEF Next

LEMMA PanesKept ==
  ASSUME PanesOK, output' = output, kind' = kind, tabs' = tabs,
         open = "shown" \/ open' # "shown"
  PROVE  PanesOK'
<1>1. Outputs' = Outputs /\ \A t \in TabIndexes : Class(t)' = Class(t)
  BY DEF Outputs, IsOutput, Class
<1>2. \A t \in Outputs : t \in TabIndexes
  BY DEF Outputs
<1> QED BY <1>1, <1>2 DEF PanesOK, PanesShown

LEMMA NotShown ==
  ASSUME output' \in [TabIndexes -> Panes], open' # "shown"
  PROVE  PanesOK'
BY DEF PanesOK

\* The error window has buttons only.
LEMMA NoPanes ==
  ASSUME output' \in [TabIndexes -> Panes], kind' = "error", tabs' \in {2, 3, 4}
  PROVE  PanesOK'
<1>1. ASSUME NEW t \in Outputs' PROVE FALSE
  <2>1. t \in {2, 3} /\ IsOutput(t)'
    BY <1>1 DEF Outputs, TabIndexes
  <2>2. Class(t)' = Classes["error"][t - 1]
    BY <2>1 DEF Class, tabsToSkip
  <2>3. Class(t)' = "button"
    BY <2>1, <2>2 DEF Classes
  <2> QED BY <2>1, <2>3 DEF IsOutput
<1> QED BY <1>1 DEF PanesOK, PanesShown

LEMMA ClearedPanes ==
  ASSUME output \in [TabIndexes -> Panes], Cleared
  PROVE  output' \in [TabIndexes -> Panes]
BY ClearIs DEF Cleared

LEMMA DrawnPanes ==
  ASSUME output \in [TabIndexes -> Panes], NEW h \in Nat \ {0}, Drawn(h), kind' = kind, tabs' = tabs
  PROVE  PanesOK'
<1>1. Outputs' = Outputs /\ \A t \in TabIndexes : Class(t)' = Class(t)
  BY DEF Outputs, IsOutput, Class
<1>2. ASSUME NEW t \in TabIndexes
      PROVE  LET u == DrawTab(output[t], t, h) IN
             /\ u \in Panes /\ Len(u.rows) = h /\ ShowsContent(u)
             /\ Class(t) = "output" => Following(u)
  BY DrawInPlaceIs, DrawAtBottomIs DEF DrawTab
<1>3. output' = [t \in TabIndexes |-> IF t \in Outputs THEN DrawTab(output[t], t, h) ELSE output[t]]
  BY DEF Drawn
<1>4. output' \in [TabIndexes -> Panes]
  BY <1>2, <1>3
<1>5. ASSUME NEW t \in Outputs
      PROVE  /\ output'[t].rows # <<>> /\ ShowsContent(output'[t])
             /\ Class(t) = "output" => Following(output'[t])
  <2>1. t \in TabIndexes
    BY DEF Outputs
  <2>2. output'[t] = DrawTab(output[t], t, h)
    BY <1>3, <2>1
  <2>3. Len(output'[t].rows) = h /\ ShowsContent(output'[t])
        /\ (Class(t) = "output" => Following(output'[t]))
    BY <1>2, <2>1, <2>2
  <2> QED BY <2>3
<1>6. PanesShown'
  <2>1. \A t \in Outputs : t \in TabIndexes
    BY DEF Outputs
  <2> QED BY <1>1, <1>5, <2>1 DEF PanesShown
<1> QED BY <1>4, <1>6 DEF PanesOK

LEMMA ShowPanes ==
  ASSUME Frame, PanesOK, Show
  PROVE  PanesOK'
<1>0. kind' = kind /\ output \in [TabIndexes -> Panes]
  BY DEF Show, PanesOK
<1>1. CASE kind = "error"
  BY <1>0, <1>1, NoPanes DEF Show, AdaptWinToError
<1>2. CASE kind # "error" /\ rowsHigh = 0
  <2>1. open' = "cleared" /\ Cleared
    BY <1>2 DEF Show
  <2> QED BY <1>0, <2>1, ClearedPanes, NotShown
<1>3. CASE kind # "error" /\ rowsHigh # 0
  <2>1. Drawn(rowsHigh) /\ tabs' = tabs
    BY <1>3 DEF Show
  <2>2. rowsHigh \in Nat \ {0}
    BY <1>3, HeightsAre DEF Frame
  <2> QED BY <1>0, <2>1, <2>2, DrawnPanes
<1> QED BY <1>1, <1>2, <1>3

LEMMA ResizePanes ==
  ASSUME Frame, PanesOK, NEW h \in Heights[kind] \cup {0}, Resize(h)
  PROVE  PanesOK'
<1>0. kind' = kind /\ output \in [TabIndexes -> Panes]
  BY DEF Resize, PanesOK
<1>1. CASE open = "left"
  <2>1. open' = open /\ tabs' = tabs /\ output' = output
    BY <1>1 DEF Resize
  <2> QED BY <1>0, <1>1, <2>1, PanesKept
<1>2. CASE open \in {"shown", "cleared"} /\ kind = "error"
  <2>1. open' = "aborted" /\ output' = output
    BY <1>2 DEF Resize
  <2> QED BY <1>0, <2>1, NotShown
<1>3. CASE open \in {"shown", "cleared"} /\ kind # "error"
  <2>1. tabs' = tabs /\ (IF h = 0 THEN open' = "cleared" /\ Cleared ELSE open' = "shown" /\ Drawn(h))
    BY <1>3 DEF Resize
  <2>2. CASE h = 0
    BY <1>0, <2>1, <2>2, ClearedPanes, NotShown
  <2>3. CASE h # 0
    <3>1. h \in Nat \ {0}
      BY <2>3, HeightsAre DEF Frame
    <3> QED BY <1>0, <2>1, <2>3, <3>1, DrawnPanes
  <2> QED BY <2>2, <2>3
<1>4. open \in {"left", "shown", "cleared"}
  BY DEF Resize
<1> QED BY <1>1, <1>2, <1>3, <1>4

LEMMA LeavePanes ==
  ASSUME Frame, PanesOK, Leave
  PROVE  PanesOK'
<1>1. open' = "left" /\ (Cleared \/ output' = output)
  BY DEF Leave
<1> QED BY <1>1, ClearedPanes, NotShown DEF PanesOK

LEMMA OutputIsAPane ==
  ASSUME Frame, IsOutput(active)
  PROVE  active \in TabIndexes /\ active \in Outputs
<1>1. active \in TabIndexes
  BY DEF Frame, IsOutput, Class, tabsToSkip, TabIndexes
<1>2. active < tabs
  BY DEF Frame
<1> QED BY <1>1, <1>2 DEF Outputs

\* One pane is changed while the window is shown.
LEMMA OnePane ==
  ASSUME PanesOK, open = "shown", kind' = kind, tabs' = tabs, NEW p \in TabIndexes, NEW u \in Panes,
         output' = [output EXCEPT ![p] = u], Len(u.rows) = Len(output[p].rows),
         ShowsContent(output[p]) => ShowsContent(u),
         Class(p) = "output" => (Following(output[p]) => Following(u))
  PROVE  PanesOK'
<1>1. Outputs' = Outputs /\ \A t \in TabIndexes : Class(t)' = Class(t)
  BY DEF Outputs, IsOutput, Class
<1>2. output' \in [TabIndexes -> Panes] /\ output'[p] = u
      /\ \A t \in TabIndexes : t # p => output'[t] = output[t]
  BY DEF PanesOK
<1>3. ASSUME NEW t \in Outputs
      PROVE  /\ output'[t].rows # <<>> /\ ShowsContent(output'[t])
             /\ Class(t) = "output" => Following(output'[t])
  <2>1. t \in TabIndexes
    BY DEF Outputs
  <2>2. /\ output[t].rows # <<>> /\ ShowsContent(output[t])
        /\ Class(t) = "output" => Following(output[t])
    BY DEF PanesOK, PanesShown
  <2>3. CASE t = p
    <3>1. Len(output[p].rows) # 0
      <4>1. output[p] \in Panes
        BY DEF PanesOK
      <4>2. output[p].rows \in Seq(PaneLines)
        BY <4>1, PaneIs
      <4> QED BY <2>2, <2>3, <4>2
    <3>2. u.rows # <<>>
      BY <3>1
    <3> QED BY <1>2, <2>2, <2>3, <3>2
  <2>4. CASE t # p
    BY <1>2, <2>1, <2>2, <2>4
  <2> QED BY <2>3, <2>4
<1>4. PanesShown'
  <2>1. \A t \in Outputs : t \in TabIndexes
    BY DEF Outputs
  <2> QED BY <1>1, <1>3, <2>1 DEF PanesShown
<1> QED BY <1>2, <1>4 DEF PanesOK

LEMMA ScrollPanes ==
  ASSUME Frame, PanesOK, Scroll
  PROVE  PanesOK'
<1> DEFINE o == output[active]
<1>1. active \in TabIndexes /\ active \in Outputs /\ open = "shown" /\ kind' = kind /\ tabs' = tabs
  BY OutputIsAPane DEF Scroll
<1>2. o \in Panes /\ o.rows # <<>>
  BY <1>1 DEF PanesOK, PanesShown
<1>3. PICK u \in {ScrollContentUp(o), ScrollContentDown(o)} : output' = [output EXCEPT ![active] = u]
  BY DEF Scroll
<1>4. PaneKeeps(o, u)
  BY <1>2, ScrollUpIs, ScrollDownIs
<1> QED BY <1>1, <1>3, <1>4, OnePane DEF PaneKeeps

LEMMA NewLinesAre ==
  ASSUME Frame, NEW k \in {1, 2}, NEW ls \in NewLines(k)
  PROVE  ls \in Seq(PaneLines) /\ Len(ls) = k
<1>1. lines \in Nat
  BY LineCounts DEF Frame
<1>2. ls \in [1..k -> [n : (lines + 1)..(lines + k), wide : BOOLEAN]]
  BY DEF NewLines
<1>3. ASSUME NEW i \in 1..k PROVE ls[i] \in PaneLines
  BY <1>1, <1>2 DEF PaneLines
<1>4. ls \in [1..k -> PaneLines]
  BY <1>2, <1>3
<1> QED BY <1>4

LEMMA TerminatePanes ==
  ASSUME Frame, PanesOK, TerminateCommand
  PROVE  PanesOK'
<1> DEFINE o == output[active]
<1>1. open = "shown" /\ open' = open /\ kind' = kind /\ tabs' = tabs /\ IsInput(active)
  BY DEF TerminateCommand, InputKey
<1>2. active \in TabIndexes
  BY <1>1, InputIsATab
<1>3. CASE Class(active) = "input"
  <2>1. output' = output
    BY <1>3 DEF TerminateCommand
  <2> QED BY <1>1, <2>1, PanesKept
<1>4. CASE Class(active) = "inout"
  <2>0. PICK k \in {1, 2} :
          \E ls \in NewLines(k) : output' = [output EXCEPT ![active] = EchoTo(o, ls)]
    <3>1. Class(active) # "input"
      BY <1>4
    <3> QED BY <3>1 DEF TerminateCommand
  <2>1. PICK ls \in NewLines(k) : output' = [output EXCEPT ![active] = EchoTo(o, ls)]
    BY <2>0
  <2>2. ls \in Seq(PaneLines) /\ Len(ls) \in {1, 2}
    BY NewLinesAre
  <2>3. o \in Panes
    BY <1>2 DEF PanesOK
  <2>4. EchoTo(o, ls) \in Panes /\ Len(EchoTo(o, ls).rows) = Len(o.rows)
        /\ (ShowsContent(o) => ShowsContent(EchoTo(o, ls)))
    BY <2>2, <2>3, EchoIs
  <2>5. Class(active) # "output"
    BY <1>4
  <2> QED BY <1>1, <1>2, <2>1, <2>4, <2>5, OnePane
<1> QED BY <1>1, <1>3, <1>4 DEF IsInput

LEMMA AppendPanes ==
  ASSUME Frame, PanesOK, NEW k \in {1, 2}, AppendLines(k)
  PROVE  PanesOK'
<1>1. PICK p \in Outputs, ls \in NewLines(k) :
        LET more == [output EXCEPT ![p] = AppendContent(@, ls)] IN
        output' = IF open = "left" THEN more ELSE [s \in TabIndexes |-> UpdateContent(more[s])]
  BY DEF AppendLines
<1>2. open' = open /\ kind' = kind /\ tabs' = tabs /\ p \in TabIndexes
  BY DEF AppendLines, Outputs
<1>3. ls \in Seq(PaneLines) /\ output \in [TabIndexes -> Panes]
  BY NewLinesAre DEF PanesOK
<1> DEFINE a == AppendContent(output[p], ls)
           more == [output EXCEPT ![p] = a]
<1>4. a \in Panes
  BY <1>2, <1>3, AppendIs
<1>5. output' = IF open = "left" THEN more ELSE [s \in TabIndexes |-> UpdateContent(more[s])]
  BY <1>1
<1> HIDE DEF a
<1>6. more \in [TabIndexes -> Panes] /\ more[p] = a
      /\ \A t \in TabIndexes : t # p => more[t] = output[t]
  BY <1>2, <1>3, <1>4
<1> HIDE DEF more
<1>7. CASE open = "left"
  BY <1>2, <1>5, <1>6, <1>7, NotShown
<1>8. CASE open # "left"
  <2>1. \A t \in TabIndexes : output'[t] = UpdateContent(more[t])
    BY <1>5, <1>8
  <2>2. output' \in [TabIndexes -> Panes]
    <3>1. \A t \in TabIndexes : UpdateContent(more[t]) \in Panes
      BY <1>6, UpdateIs
    <3> QED BY <1>5, <1>8, <3>1
  <2>3. ASSUME open = "shown", NEW t \in Outputs
        PROVE  /\ output'[t].rows # <<>> /\ ShowsContent(output'[t])
               /\ Class(t) = "output" => Following(output'[t])
    <3> DEFINE o == output[t]
               u == UpdateContent(more[t])
    <3>1. t \in TabIndexes /\ o \in Panes
      BY <1>3 DEF Outputs
    <3>2. /\ o.rows # <<>> /\ ShowsContent(o) /\ (Class(t) = "output" => Following(o))
          /\ Len(o.rows) # 0
      <4>1. /\ o.rows # <<>> /\ ShowsContent(o) /\ (Class(t) = "output" => Following(o))
        BY <2>3 DEF PanesOK, PanesShown
      <4>2. o.rows \in Seq(PaneLines)
        BY <3>1, PaneIs
      <4> QED BY <4>1, <4>2
    <3>3. Len(u.rows) = Len(o.rows) /\ ShowsContent(u) /\ (Class(t) = "output" => Following(u))
      <4>1. CASE t = p
        <5>1. u = UpdateContent(AppendContent(o, ls))
          BY <1>6, <4>1 DEF a
        <5> HIDE DEF u
        <5> QED BY <1>3, <3>1, <3>2, <5>1, AppendedIs
      <4>2. CASE t # p
        <5>1. u = UpdateContent(o)
          BY <1>6, <3>1, <4>2
        <5> HIDE DEF u
        <5> QED BY <3>1, <3>2, <5>1, ShownBlank, UpdateIs, UpdateFollows
      <4> QED BY <4>1, <4>2
    <3>4. output'[t] = u
      BY <2>1, <3>1
    <3>5. u.rows # <<>>
      BY <3>2, <3>3
    <3> QED BY <3>3, <3>4, <3>5
  <2>4. open = "shown" => PanesShown'
    <3>1. Outputs' = Outputs /\ \A t \in TabIndexes : Class(t)' = Class(t)
      BY <1>2 DEF Outputs, IsOutput, Class
    <3>2. \A t \in Outputs : t \in TabIndexes
      BY DEF Outputs
    <3> QED BY <2>3, <3>1, <3>2 DEF PanesShown
  <2> QED BY <1>2, <2>2, <2>4 DEF PanesOK
<1> QED BY <1>7, <1>8

LEMMA NextPanes ==
  ASSUME Frame, PanesOK, Next
  PROVE  PanesOK'
<1>1. CASE Recall \/ SwitchActiveTab
  <2>1. open' = open /\ kind' = kind /\ tabs' = tabs /\ output' = output
    BY <1>1, Zenon DEF Recall, SwitchActiveTab
  <2> QED BY <2>1, PanesKept
<1>5. CASE EditKey
  <2>1. open = "shown" /\ kind' = kind /\ tabs' = tabs /\ output' = output
    BY <1>5, Zenon DEF EditKey, InputKey
  <2> QED BY <2>1, PanesKept
<1>2. CASE KeyInCleared
  <2>1. open' = "aborted" /\ output' = output
    BY <1>2 DEF KeyInCleared
  <2> QED BY <2>1, NotShown DEF PanesOK
<1>3. ASSUME NEW c \in Letters, TypeChar(c) PROVE PanesOK'
  <2>1. open = "shown" /\ kind' = kind /\ tabs' = tabs /\ output' = output
    BY <1>3, Zenon DEF TypeChar, InputKey
  <2> QED BY <2>1, PanesKept
<1>4. CASE PressButton
  <2>1. open' # "shown" /\ output' = output
    BY <1>4 DEF PressButton
  <2> QED BY <2>1, NotShown DEF PanesOK
<1> QED BY <1>1, <1>2, <1>3, <1>4, <1>5, ShowPanes, ResizePanes, LeavePanes, ScrollPanes,
           TerminatePanes, AppendPanes, Zenon DEF Next

IInv == Frame /\ LinesOK /\ PanesOK

LEMMA InitIInv ==
  ASSUME Init
  PROVE  IInv
<1>1. LinesOK
  BY EmptyLineOK DEF Init, LinesOK
<1>2. NoLines \in Panes
  <2> DEFINE none == <<>>
  <2>1. none \in Seq(PaneLines) /\ Len(none) = 0
    OBVIOUS
  <2> HIDE DEF none
  <2>2. [state |-> none, topLineScroll |-> 0, rows |-> none, scrolled |-> FALSE] \in Panes
    BY <2>1 DEF Panes
  <2> QED BY <2>2 DEF NoLines, none
<1>3. PanesOK
  BY <1>2 DEF Init, PanesOK
<1> QED BY <1>1, <1>3, InitFrame DEF IInv

LEMMA NextIInv ==
  ASSUME IInv, [Next]_vars
  PROVE  IInv' /\ LinesStep
<1>1. CASE Next
  <2>1. LinesStep
    BY <1>1, NextLines DEF IInv
  <2> QED BY <1>1, <2>1, LinesKept, NextFrame, NextPanes DEF IInv
<1>2. CASE UNCHANGED vars
  <2>1. input' = input
    BY <1>2 DEF vars
  <2>2. LinesStep
    BY <2>1, InputStays DEF IInv
  <2>3. Frame'
    BY <1>2 DEF vars, IInv, Frame, tabsToSkip
  <2>4. output' = output /\ kind' = kind /\ tabs' = tabs /\ open' = open
    BY <1>2 DEF vars
  <2>5. PanesOK'
    BY <2>4, PanesKept DEF IInv
  <2> QED BY <2>2, <2>3, <2>5, LinesKept DEF IInv
<1> QED BY <1>1, <1>2

\* The invariant that the theorems rest on.
LEMMA Invariant == Spec => []IInv
<1>1. Init => IInv
  BY InitIInv
<1>2. IInv /\ [Next]_vars => IInv'
  BY NextIInv
<1> QED BY <1>1, <1>2, PTL DEF Spec

\* The cursor stays in the window and, but for odd characters, in the line, the
\* buffer in its room, what is recalled and suggested is there, and an input tab never passes on to the frame
\* (InputTab.cpp, NcWindow::switchActiveTab).
THEOREM TypeCorrect == Spec => []TypeOK
<1>1. ASSUME IInv PROVE TypeOK
  <2>1. Frame
    BY <1>1 DEF IInv
  <2>2. tabs \in {2, 3, 4, 5} /\ active \in 0..(tabs - 1)
    BY <2>1 DEF Frame
  <2>3. ASSUME NEW t \in TabIndexes
        PROVE  /\ Len(input[t].commandBuffer) <= CMD_BUFFER_SIZE /\ input[t].x \in 0..(Width - 1)
               /\ ~input[t].odd => input[t].x <= Len(input[t].commandBuffer)
               /\ input[t].currentCommandIndex \in 0..Len(input[t].inputHistory)
               /\ input[t].suggestedHintIndexes # {} =>
                    input[t].currentSuggestedIndex \in input[t].suggestedHintIndexes \cup {0}
               /\ output[t].topLineScroll \in 0..Len(output[t].state)
    <3> DEFINE e == input[t]
               o == output[t]
    <3>1. LineOK(e, Hints[t]) /\ o \in Panes
      BY <1>1 DEF IInv, LinesOK, PanesOK
    <3> HIDE DEF e, o
    <3>2. o.topLineScroll \in 0..Len(o.state)
      BY <3>1, PaneIs
    <3>3. e \in TabLines
      BY <3>1 DEF LineOK
    <3>4. e.x \in 0..(Width - 1)
      BY <3>3 DEF TabLines
    <3>5. e.currentCommandIndex \in 0..Len(e.inputHistory)
      <4>1. e.currentCommandIndex \in Nat /\ Len(e.inputHistory) \in Nat
            /\ e.currentCommandIndex <= Len(e.inputHistory)
        BY <3>1, <3>3, TabLineIs DEF LineOK
      <4> QED BY <4>1
    <3> QED BY <3>1, <3>2, <3>3, <3>4, <3>5, TabLineIs DEF LineOK, e, o
  <2> QED BY <2>1, <2>2, <2>3 DEF Frame, TypeOK
<1> QED BY <1>1, Invariant, PTL

\* The deletions change the window and the buffer separately, and what is shown
\* behind the prompt is what Enter will send (InputTab::deleteCharBack).
THEOREM ScreenTheorem == Spec => []ScreenIsLine
<1>1. ASSUME IInv PROVE ScreenIsLine
  <2>1. \A t \in Inputs : t \in TabIndexes
    BY DEF Inputs
  <2> QED BY <1>1, <2>1 DEF IInv, LinesOK, LineOK, ScreenIsLine
<1> QED BY <1>1, Invariant, PTL

\* The rows of a pane are the lines from topLineScroll on, however it was scrolled,
\* added to and resized (OutputTab::updateContent, scrollContentUp, scrollContentDown).
THEOREM RowsTheorem == Spec => []RowsShowContent
<1>1. ASSUME IInv PROVE RowsShowContent
  BY <1>1 DEF IInv, PanesOK, PanesShown, ShowsContent, Narrow, RowsShowContent
<1> QED BY <1>1, Invariant, PTL

\* The newest event can be seen unless the user has gone up (OutputTab::appendContent).
THEOREM NewestTheorem == Spec => []NewestShown
<1>1. ASSUME IInv PROVE NewestShown
  BY <1>1 DEF IInv, PanesOK, PanesShown, Following, NewestShown, Last
<1> QED BY <1>1, Invariant, PTL

LEMMA EditorsInit ==
  ASSUME Init
  PROVE  Editors!Init
<1>1. \A t \in TabIndexes : input[t] = EmptyLine
  BY DEF Init
<1>2. \A t \in TabIndexes :
        /\ input[t].commandBuffer = <<>> /\ input[t].x = 0 /\ input[t].inputHistory = <<>>
        /\ input[t].tmpCommandBuffer = <<>> /\ input[t].odd = FALSE
  BY <1>1 DEF EmptyLine
<1>3. Range(<<>>) = {}
  BY DEF Range
<1>4. ASSUME NEW t \in TabIndexes
      PROVE  Known(t) \cup Range(input[t].inputHistory) = Known(t)
  BY <1>2, <1>3 DEF Known
<1> QED BY <1>2, <1>4 DEF Editors!Init

LEMMA EditorsStep ==
  ASSUME LinesStep
  PROVE  Editors!Next
<1> SUFFICES ASSUME NEW t \in TabIndexes PROVE Editors!Edit(t)
  BY DEF Editors!Next
<1> DEFINE e == input[t]
           f == input'[t]
           h == Hints[t]
<1>1. LineStep(e, f, h)
  BY DEF LinesStep, Keeps
<1>2. /\ Known(t) \cup Range(e.inputHistory) = Memory(e, h)
      /\ Known(t) \cup Range(f.inputHistory) = Memory(f, h)
  BY DEF Known, Memory
<1> HIDE DEF h
<1>3. \A s, i, c : Editors!InsertAt(s, i, c) = InsertAt(s, i, c)
                    /\ Editors!RemoveAt(s, i) = RemoveAt(s, i)
  BY DEF Editors!InsertAt, InsertAt, Editors!RemoveAt, RemoveAt
<1>4. \A s : Editors!HasOdd(s) = HasOdd(s)
  BY DEF Editors!HasOdd, HasOdd
<1> QED BY <1>1, <1>2, <1>3, <1>4 DEF LineStep, Editors!Edit, Editors!Insert, Editors!DeleteForward,
             Editors!DeleteBack, Editors!Move, Editors!Enter, Editors!Recall, Editors!TakeBack,
             Editors!TooLong, Editors!OddLine

\* Every input tab implements LineEditor: a key changes one line, as that editor
\* would, and no line changes because of the others (InputTab.cpp).
THEOREM EditorTheorem == Spec => ImplementsEditor
<1>1. Init => Editors!Init
  BY EditorsInit
<1>2. IInv /\ [Next]_vars => [Editors!Next]_(Editors!vars)
  BY NextIInv, EditorsStep
<1> QED BY <1>1, <1>2, Invariant, PTL DEF Spec, ImplementsEditor, Editors!Spec
=============================================================================
