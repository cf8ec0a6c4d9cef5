---------------------------- MODULE WorkbenchProofs ----------------------------
(* What Workbench guarantees for any sizes of panels and windows, any           *)
(* coordinates, and any commands.                                               *)
EXTENDS Workbench, SequenceTheorems, TLAPS

LayoutTypeOK ==
  /\ sidebarWidth \in Int
  /\ terminalHeight \in Int
  /\ resizingSidebar \in BOOLEAN
  /\ resizingTerminal \in BOOLEAN
  /\ lastX \in Int
  /\ lastY \in Int

\* A drag leaves a panel in the limits of the window there is then.
LEMMA ClampInRange ==
  ASSUME NEW n \in Int, NEW min \in Nat, NEW default \in Nat,
         NEW lengths \in SUBSET Nat, NEW length \in lengths
  PROVE  /\ Clamp(n, min, length - min) \in Int
         /\ InRange(Clamp(n, min, length - min), min, default, lengths)
<1> DEFINE size == Clamp(n, min, length - min)
<1>1. length \in Nat
  OBVIOUS
<1>2. size \in Int
  BY <1>1 DEF Clamp
<1>3. CASE length - min >= min
  <2>1. size >= min /\ size <= length - min
    BY <1>1, <1>3 DEF Clamp
  <2> HIDE DEF size
  <2> QED BY <1>2, <2>1 DEF InRange, size
<1>4. CASE length - min < min
  <2>1. size = length - min /\ length < 2 * min
    BY <1>1, <1>4 DEF Clamp
  <2> HIDE DEF size
  <2> QED BY <1>2, <2>1 DEF InRange, size
<1> QED BY <1>1, <1>3, <1>4

\* The sizes the panels are set to otherwise are in range.
LEMMA SetInRange ==
  /\ InRange(MinTerminal, MinTerminal, DefaultTerminal, Heights)
  /\ InRange(DefaultTerminal, MinTerminal, DefaultTerminal, Heights)
  /\ InRange(DefaultSidebar, MinSidebar, DefaultSidebar, Widths)
BY LayoutAssumption DEF InRange

LayoutInv == LayoutTypeOK /\ PanelsInRange

LEMMA LayoutStep == LayoutInv /\ [Next]_vars => LayoutInv'
<1> SUFFICES ASSUME LayoutInv, [Next]_vars PROVE LayoutInv'
  OBVIOUS
<1>0. /\ sidebarWidth \in Int /\ terminalHeight \in Int
      /\ lastX \in Int /\ lastY \in Int
      /\ MinSidebar \in Nat /\ MinTerminal \in Nat
      /\ DefaultSidebar \in Nat /\ DefaultTerminal \in Nat
      /\ Widths \in SUBSET Nat /\ Heights \in SUBSET Nat /\ Pointer \subseteq Int
  BY LayoutAssumption DEF LayoutInv, LayoutTypeOK
<1>1. CASE UNCHANGED layoutVars
  BY <1>1 DEF layoutVars, sizes, drag, LayoutInv, LayoutTypeOK, PanelsInRange, InRange
<1>2. ASSUME NEW x \in Pointer, NEW width \in Widths, DragSidebar(x, width)
      PROVE  LayoutInv'
  <2> DEFINE n == sidebarWidth + x - lastX
  <2>1. n \in Int /\ x \in Int
    BY <1>0
  <2> HIDE DEF n
  <2>2. /\ Clamp(n, MinSidebar, width - MinSidebar) \in Int
        /\ InRange(Clamp(n, MinSidebar, width - MinSidebar), MinSidebar, DefaultSidebar, Widths)
    BY <1>0, <2>1, ClampInRange
  <2>3. sidebarWidth' \in {Clamp(n, MinSidebar, width - MinSidebar), 0}
    BY <1>2 DEF DragSidebar, n
  <2>4. lastX' \in Int /\ UNCHANGED <<terminalHeight, resizingSidebar, resizingTerminal, lastY>>
    BY <1>2, <2>1 DEF DragSidebar
  <2>5. sidebarWidth' \in Int
    BY <2>2, <2>3
  <2>6. sidebarWidth' = 0 \/ InRange(sidebarWidth', MinSidebar, DefaultSidebar, Widths)
    BY <2>2, <2>3
  <2> QED BY <2>4, <2>5, <2>6 DEF LayoutInv, LayoutTypeOK, PanelsInRange, InRange
<1>3. ASSUME NEW y \in Pointer, NEW height \in Heights, DragTerminal(y, height)
      PROVE  LayoutInv'
  <2> DEFINE n == terminalHeight - y + lastY
  <2>1. n \in Int /\ y \in Int
    BY <1>0
  <2> HIDE DEF n
  <2>2. /\ Clamp(n, MinTerminal, height - MinTerminal) \in Int
        /\ InRange(Clamp(n, MinTerminal, height - MinTerminal), MinTerminal, DefaultTerminal, Heights)
    BY <1>0, <2>1, ClampInRange
  <2>3. terminalHeight' \in {Clamp(n, MinTerminal, height - MinTerminal), MinTerminal}
    BY <1>3 DEF DragTerminal, n
  <2>4. lastY' \in Int /\ UNCHANGED <<sidebarWidth, resizingSidebar, resizingTerminal, lastX>>
    BY <1>3, <2>1 DEF DragTerminal
  <2>5. terminalHeight' \in Int
    BY <1>0, <2>2, <2>3
  <2>6. InRange(terminalHeight', MinTerminal, DefaultTerminal, Heights)
    BY <2>2, <2>3, SetInRange
  <2> QED BY <2>4, <2>5, <2>6 DEF LayoutInv, LayoutTypeOK, PanelsInRange, InRange
<1>4. ASSUME NEW p \in Pointer, ResizeSidebar(p) \/ ResizeTerminal(p) PROVE LayoutInv'
  BY <1>0, <1>4 DEF ResizeSidebar, ResizeTerminal, sizes, LayoutInv, LayoutTypeOK,
                    PanelsInRange, InRange
<1>5. CASE MouseUp
  BY <1>5 DEF MouseUp, sizes, LayoutInv, LayoutTypeOK, PanelsInRange, InRange
<1>6. ASSUME terminalHeight' \in {terminalHeight, MinTerminal, DefaultTerminal},
             sidebarWidth' \in {sidebarWidth, DefaultSidebar},
             resizingSidebar' \in BOOLEAN, resizingTerminal' \in BOOLEAN,
             lastX' \in Int, lastY' \in Int
      PROVE  LayoutInv'
  <2>1. terminalHeight' \in Int /\ sidebarWidth' \in Int
    BY <1>0, <1>6
  <2>2. InRange(terminalHeight', MinTerminal, DefaultTerminal, Heights)
    BY <1>6, SetInRange DEF LayoutInv, PanelsInRange
  <2>3. sidebarWidth' = 0 \/ InRange(sidebarWidth', MinSidebar, DefaultSidebar, Widths)
    BY <1>6, SetInRange DEF LayoutInv, PanelsInRange
  <2> QED BY <1>6, <2>1, <2>2, <2>3 DEF LayoutInv, LayoutTypeOK, PanelsInRange, InRange
<1>7. CASE TabChanged
  BY <1>6, <1>7 DEF TabChanged, drag, LayoutInv, LayoutTypeOK
<1>8. CASE TerminalOpenRequested
  BY <1>6, <1>8 DEF TerminalOpenRequested, drag, LayoutInv, LayoutTypeOK
<1>9. CASE Reload
  <2>1. /\ terminalHeight' \in {terminalHeight, MinTerminal, DefaultTerminal}
        /\ sidebarWidth' \in {sidebarWidth, DefaultSidebar}
    BY <1>9 DEF Reload
  <2>2. /\ resizingSidebar' = FALSE /\ resizingTerminal' = FALSE
        /\ lastX' = 0 /\ lastY' = 0
    BY <1>9 DEF Reload
  <2>3. resizingSidebar' \in BOOLEAN /\ resizingTerminal' \in BOOLEAN
    BY <2>2
  <2>4. lastX' \in Int /\ lastY' \in Int
    BY <2>2
  <2> QED BY <1>6, <2>1, <2>3, <2>4
<1> QED BY <1>1, <1>2, <1>3, <1>4, <1>5, <1>7, <1>8, <1>9
        DEF Next, Typing, Arranging, Answered, Logged, Restart, LayoutNext, MouseMoves, vars

LEMMA LayoutStart == Init => LayoutInv
<1> SUFFICES ASSUME Init PROVE LayoutInv
  OBVIOUS
<1>1. LayoutTypeOK
  <2>1. /\ sidebarWidth = DefaultSidebar /\ terminalHeight = DefaultTerminal
        /\ lastX = 0 /\ lastY = 0
    BY DEF Init, LayoutInit
  <2>2. resizingSidebar = FALSE /\ resizingTerminal = FALSE
    BY DEF Init, LayoutInit
  <2>3. resizingSidebar \in BOOLEAN /\ resizingTerminal \in BOOLEAN
    BY <2>2
  <2>4. sidebarWidth \in Int /\ terminalHeight \in Int /\ lastX \in Int /\ lastY \in Int
    BY <2>1, LayoutAssumption
  <2> QED BY <2>3, <2>4 DEF LayoutTypeOK
<1>2. PanelsInRange
  BY SetInRange DEF Init, LayoutInit, PanelsInRange
<1> QED BY <1>1, <1>2 DEF LayoutInv

\* For panels and windows of any size, no sequence of drags, log entries, tabs
\* and restarts takes a panel out of its range.
THEOREM PanelsStayInRange == Spec => []PanelsInRange
<1>1. LayoutInv => PanelsInRange
  BY DEF LayoutInv
<1> QED BY LayoutStart, LayoutStep, <1>1, PTL DEF Spec

-----------------------------------------------------------------------------
(* The terminal.                                                               *)

\* What the input line and the history hold.
Line == Commands \cup {Blank, Undefined}

TerminalTypeOK ==
  /\ terminalCommand \in Line
  /\ commandHistory \in Seq(Line)
  /\ commandHistory # <<>>
  /\ historyIndex \in 0 .. Len(commandHistory) - 1
  /\ pending \in Nat
  /\ logs \in Nat

\* A command that is executed becomes the second entry.
LEMMA InsertSecond ==
  ASSUME NEW S, NEW s \in Seq(S), s # <<>>, NEW e \in S
  PROVE  /\ InsertAt(s, 2, e) \in Seq(S)
         /\ Len(InsertAt(s, 2, e)) = Len(s) + 1
         /\ InsertAt(s, 2, e)[2] = e
         /\ \A i \in 2 .. Len(s) : InsertAt(s, 2, e)[i + 1] = s[i]
<1> DEFINE n == Len(s)
           a == SubSeq(s, 1, 1)
           b == SubSeq(s, 2, n)
<1>1. n \in Nat \ {0} /\ \A i \in 1 .. n : s[i] \in S
  BY EmptySeq, ElementOfSeq
<1>2. a \in Seq(S) /\ Len(a) = 1
  <2>1. \A i \in 1 .. 1 : s[i] \in S
    BY <1>1
  <2> QED BY <2>1, SubSeqProperties
<1>3. /\ b \in Seq(S)
      /\ Len(b) = n - 1
      /\ \A i \in 1 .. n - 1 : b[i] = s[i + 1]
  <2> HIDE DEF n
  <2>1. \A i \in 2 .. n : s[i] \in S
    BY <1>1
  <2>2. /\ SubSeq(s, 2, n) \in Seq(S)
        /\ Len(SubSeq(s, 2, n)) = IF 2 <= n THEN n - 2 + 1 ELSE 0
        /\ \A i \in 1 .. n - 2 + 1 : SubSeq(s, 2, n)[i] = s[2 + i - 1]
    BY <1>1, <2>1, SubSeqProperties
  <2>3. \A i \in 1 .. n - 1 : i \in 1 .. n - 2 + 1 /\ 2 + i - 1 = i + 1
    BY <1>1
  <2> QED BY <1>1, <2>2, <2>3
<1>4. <<e>> \in Seq(S) /\ Len(<<e>>) = 1 /\ <<e>>[1] = e
  OBVIOUS
<1> HIDE DEF n, a, b
<1> DEFINE c == a \o <<e>>
<1>5. /\ c \in Seq(S)
      /\ Len(c) = 2
      /\ c[2] = e
  <2>1. /\ c \in Seq(S)
        /\ Len(c) = Len(a) + Len(<<e>>)
        /\ \A i \in 1 .. Len(a) + Len(<<e>>) :
             c[i] = IF i <= Len(a) THEN a[i] ELSE <<e>>[i - Len(a)]
    BY <1>2, <1>4, ConcatProperties
  <2>2. Len(c) = 2
    BY <1>2, <1>4, <2>1
  <2>3. c[2] = <<e>>[2 - 1]
    BY <1>2, <1>4, <2>1
  <2> QED BY <1>4, <2>1, <2>2, <2>3
<1> HIDE DEF c
<1>6. /\ c \o b \in Seq(S)
      /\ Len(c \o b) = Len(c) + Len(b)
      /\ \A i \in 1 .. Len(c) + Len(b) :
           (c \o b)[i] = IF i <= Len(c) THEN c[i] ELSE b[i - Len(c)]
  BY <1>3, <1>5, ConcatProperties
<1>7. InsertAt(s, 2, e) = c \o b
  BY DEF InsertAt, a, b, c, n
<1>8. Len(c \o b) = n + 1 /\ (c \o b)[2] = e
  BY <1>1, <1>3, <1>5, <1>6
<1>9. \A i \in 2 .. n : (c \o b)[i + 1] = s[i]
  <2> SUFFICES ASSUME NEW i \in 2 .. n PROVE (c \o b)[i + 1] = s[i]
    OBVIOUS
  <2>1. /\ i + 1 \in 1 .. Len(c) + Len(b)
        /\ ~(i + 1 <= Len(c))
        /\ i + 1 - Len(c) = i - 1
        /\ i - 1 \in 1 .. n - 1
        /\ i - 1 + 1 = i
    BY <1>1, <1>3, <1>5
  <2>2. (c \o b)[i + 1] = b[i - 1]
    BY <1>6, <2>1
  <2> QED BY <1>3, <2>1, <2>2
<1> QED BY <1>6, <1>7, <1>8, <1>9 DEF n

\* Putting a line where the cursor is.
LEMMA LinesSeq ==
  ASSUME TerminalTypeOK, NEW t \in Line
  PROVE  LET i == historyIndex + 1
             s == [commandHistory EXCEPT ![i] = t]
         IN /\ i \in 1 .. Len(commandHistory)
            /\ s \in Seq(Line)
            /\ s # <<>>
            /\ Len(s) = Len(commandHistory)
            /\ \A j \in 1 .. Len(commandHistory) :
                 s[j] = IF j = i THEN t ELSE commandHistory[j]
<1>1. Len(commandHistory) \in Nat \ {0}
  BY EmptySeq DEF TerminalTypeOK
<1>2. historyIndex + 1 \in 1 .. Len(commandHistory)
  BY <1>1 DEF TerminalTypeOK
<1>3. LET s == [commandHistory EXCEPT ![historyIndex + 1] = t]
      IN /\ s \in Seq(Line)
         /\ Len(s) = Len(commandHistory)
         /\ \A j \in 1 .. Len(commandHistory) :
              s[j] = IF j = historyIndex + 1 THEN t ELSE commandHistory[j]
  BY <1>2, ExceptSeq DEF TerminalTypeOK
<1> QED BY <1>1, <1>2, <1>3, EmptySeq

\* What LinesKept says of a step.
KeepsLines ==
  ~Restart =>
    IF Len(commandHistory') > Len(commandHistory)
    THEN /\ Lines'[2] = terminalCommand
         /\ \A i \in 2 .. Len(Lines) : i # historyIndex + 1 => Lines'[i + 1] = Lines[i]
    ELSE \A i \in 1 .. Len(Lines) :
           Lines'[i] # Lines[i] => i = historyIndex + 1 /\ historyIndex' = historyIndex

\* The lines as a sequence.
LEMMA LinesFacts ==
  ASSUME TerminalTypeOK
  PROVE  /\ Len(commandHistory) \in Nat \ {0}
         /\ historyIndex + 1 \in 1 .. Len(commandHistory)
         /\ Lines \in Seq(Line)
         /\ Len(Lines) = Len(commandHistory)
         /\ \A j \in 1 .. Len(commandHistory) :
              Lines[j] = IF j = historyIndex + 1 THEN terminalCommand ELSE commandHistory[j]
BY LinesSeq, EmptySeq DEF TerminalTypeOK, Lines

LEMMA SameInput ==
  ASSUME TerminalTypeOK, UNCHANGED input
  PROVE  KeepsLines
<1>1. Lines' = Lines /\ commandHistory' = commandHistory
  BY DEF input, Lines
<1> QED BY <1>1, LinesFacts DEF KeepsLines

LEMMA TypeStep ==
  ASSUME TerminalTypeOK, NEW text \in Commands \cup {Blank}, Type(text)
  PROVE  TerminalTypeOK' /\ KeepsLines
<1>1. /\ text \in Line
      /\ terminalCommand' = text
      /\ UNCHANGED <<commandHistory, historyIndex, pending, logs>>
  BY DEF Type, Line
<1>2. TerminalTypeOK'
  BY <1>1 DEF TerminalTypeOK
<1>3. Lines' = [commandHistory EXCEPT ![historyIndex + 1] = text]
  BY <1>1 DEF Lines
<1>4. \A j \in 1 .. Len(commandHistory) :
        Lines'[j] = IF j = historyIndex + 1 THEN text ELSE commandHistory[j]
  BY <1>1, <1>3, LinesSeq
<1>5. KeepsLines
  BY <1>1, <1>4, LinesFacts DEF KeepsLines
<1> QED BY <1>2, <1>5

LEMMA WalkStep ==
  ASSUME TerminalTypeOK, NEW direction, LoadCommandFromHistory(direction)
  PROVE  TerminalTypeOK' /\ KeepsLines
<1> DEFINE n == Len(commandHistory)
<1>1. /\ commandHistory' = Lines
      /\ terminalCommand' = Lines[historyIndex' + 1]
      /\ UNCHANGED <<pending, logs>>
  BY DEF LoadCommandFromHistory, Lines
<1>2. historyIndex' \in 0 .. n - 1
  <2>1. n \in Nat \ {0} /\ historyIndex \in 0 .. n - 1
    BY LinesFacts DEF TerminalTypeOK
  <2>2. historyIndex' = IF direction = "up"
                        THEN IF historyIndex = n - 1 THEN n - 1 ELSE historyIndex + 1
                        ELSE IF historyIndex = 0 THEN 0 ELSE historyIndex - 1
    BY DEF LoadCommandFromHistory
  <2> HIDE DEF n
  <2> QED BY <2>1, <2>2
<1>3. /\ Lines \in Seq(Line) /\ Len(Lines) = n /\ n \in Nat \ {0}
      /\ historyIndex' + 1 \in 1 .. n
  <2>1. Lines \in Seq(Line) /\ Len(Lines) = n /\ n \in Nat \ {0}
    BY LinesFacts
  <2> HIDE DEF n
  <2>2. \A k \in 0 .. n - 1 : k + 1 \in 1 .. n
    BY <2>1
  <2>3. historyIndex' + 1 \in 1 .. n
    BY <1>2, <2>2
  <2> QED BY <2>1, <2>3
<1>4. Lines[historyIndex' + 1] \in Line /\ Lines # <<>>
  BY <1>3, ElementOfSeq, EmptySeq
<1>5. TerminalTypeOK'
  BY <1>1, <1>2, <1>3, <1>4 DEF TerminalTypeOK
<1>6. \A j \in 1 .. n : Lines'[j] = Lines[j]
  <2>1. Lines' = [Lines EXCEPT ![historyIndex' + 1] = Lines[historyIndex' + 1]]
    BY <1>1 DEF Lines
  <2>2. \A j \in 1 .. Len(Lines) :
          Lines'[j] = IF j = historyIndex' + 1 THEN Lines[historyIndex' + 1] ELSE Lines[j]
    BY <1>3, <1>4, <2>1, ExceptSeq
  <2> QED BY <1>3, <2>2
<1>7. KeepsLines
  BY <1>1, <1>3, <1>6 DEF KeepsLines
<1> QED BY <1>5, <1>7

LEMMA HandleStep ==
  ASSUME TerminalTypeOK, HandleCommand
  PROVE  TerminalTypeOK' /\ KeepsLines
<1> DEFINE n == Len(commandHistory)
           h == InsertAt(commandHistory, 2, terminalCommand)
<1>1. /\ commandHistory' = h
      /\ historyIndex' = 0
      /\ terminalCommand' = Blank
      /\ pending' \in {pending, pending + 1}
      /\ logs' \in {logs, 0}
  BY DEF HandleCommand
<1>2. /\ h \in Seq(Line)
      /\ Len(h) = n + 1
      /\ h[2] = terminalCommand
      /\ \A i \in 2 .. n : h[i + 1] = commandHistory[i]
  BY InsertSecond DEF TerminalTypeOK
<1>3. n \in Nat \ {0} /\ historyIndex + 1 \in 1 .. n
  BY LinesFacts
<1> HIDE DEF n, h
<1>4. TerminalTypeOK'
  <2>1. h # <<>>
    BY <1>2, <1>3, EmptySeq
  <2>2. Blank \in Line
    BY DEF Line
  <2>3. historyIndex' \in 0 .. Len(commandHistory') - 1
    BY <1>1, <1>2, <1>3
  <2>4. pending' \in Nat /\ logs' \in Nat
    BY <1>1 DEF TerminalTypeOK
  <2> QED BY <1>1, <1>2, <2>1, <2>2, <2>3, <2>4 DEF TerminalTypeOK
<1>5. \A j \in 2 .. n + 1 : Lines'[j] = h[j]
  <2>1. Lines' = [h EXCEPT ![1] = Blank]
    BY <1>1 DEF Lines
  <2>2. 1 \in 1 .. Len(h) /\ Blank \in Line
    BY <1>2, <1>3 DEF Line
  <2>3. \A j \in 1 .. Len(h) : Lines'[j] = IF j = 1 THEN Blank ELSE h[j]
    BY <1>2, <2>1, <2>2, ExceptSeq
  <2> QED BY <1>2, <1>3, <2>3
<1>6. Lines'[2] = terminalCommand
  BY <1>2, <1>3, <1>5
<1>7. ASSUME NEW i \in 2 .. Len(Lines), i # historyIndex + 1
      PROVE  Lines'[i + 1] = Lines[i]
  <2>1. i \in 2 .. n /\ i \in 1 .. n /\ i + 1 \in 2 .. n + 1
    BY <1>3, <1>7, LinesFacts DEF n
  <2>2. Lines[i] = commandHistory[i]
    BY <1>7, <2>1, LinesFacts DEF n
  <2> QED BY <1>2, <1>5, <2>1, <2>2
<1>8. Len(commandHistory') > Len(commandHistory)
  BY <1>1, <1>2, <1>3 DEF n
<1>9. KeepsLines
  BY <1>6, <1>7, <1>8 DEF KeepsLines
<1> QED BY <1>4, <1>9

LEMMA TerminalStep == TerminalTypeOK /\ [Next]_vars => TerminalTypeOK' /\ [KeepsLines]_vars
<1> SUFFICES ASSUME TerminalTypeOK, [Next]_vars PROVE TerminalTypeOK' /\ KeepsLines
  OBVIOUS
<1>1. CASE UNCHANGED vars \/ Arranging
  <2>1. UNCHANGED <<input, pending, logs>>
    BY <1>1 DEF vars, Arranging, terminalVars
  <2>2. TerminalTypeOK'
    BY <2>1 DEF TerminalTypeOK, input
  <2> QED BY <2>1, <2>2, SameInput
<1>2. CASE Typing
  BY <1>2, TypeStep, WalkStep, HandleStep DEF Typing
<1>3. CASE Answered \/ Logged
  <2>1. /\ UNCHANGED input
        /\ logs' = logs + 1
        /\ pending' = pending \/ (pending > 0 /\ pending' = pending - 1)
    BY <1>3 DEF Answered, Logged, CommandAnswered, OthersLog, Log
  <2>2. TerminalTypeOK'
    BY <2>1 DEF TerminalTypeOK, input
  <2> QED BY <2>1, <2>2, SameInput
<1>4. CASE Restart
  <2>1. /\ terminalCommand' = Undefined /\ commandHistory' = <<Blank>>
        /\ historyIndex' = 0 /\ pending' = 0 /\ logs' = 0
    BY <1>4 DEF Restart
  <2>2. /\ Undefined \in Line /\ <<Blank>> \in Seq(Line)
        /\ <<Blank>> # <<>> /\ Len(<<Blank>>) = 1
    BY DEF Line
  <2>3. TerminalTypeOK'
    BY <2>1, <2>2 DEF TerminalTypeOK
  <2> QED BY <1>4, <2>3 DEF KeepsLines
<1> QED BY <1>1, <1>2, <1>3, <1>4 DEF Next

LEMMA TerminalStart == Init => TerminalTypeOK
<1>1. /\ Blank \in Line /\ Undefined \in Line
      /\ <<Blank>> \in Seq(Line) /\ <<Blank>> # <<>> /\ Len(<<Blank>>) = 1
  BY DEF Line
<1> QED BY <1>1 DEF Init, TerminalInit, TerminalTypeOK

\* For any commands and a history of any length, lines are recalled as they were
\* left.
THEOREM LinesAreKept == Spec => LinesKept
BY TerminalStart, TerminalStep, PTL DEF Spec, LinesKept, KeepsLines

-----------------------------------------------------------------------------
(* Terminal and layout together.                                               *)

\* Type correctness; in particular the history index never leaves the history.
THEOREM TypeCorrect == Spec => []TypeOK
<1>1. Init => LayoutInv
  BY LayoutStart
<1>2. LayoutInv /\ TerminalTypeOK => TypeOK
  BY DEF LayoutInv, LayoutTypeOK, TerminalTypeOK, TypeOK, Line
<1>3. TerminalTypeOK /\ [Next]_vars => TerminalTypeOK'
  BY TerminalStep
<1> QED BY LayoutStep, TerminalStart, <1>1, <1>2, <1>3, PTL DEF Spec

\* Only an answer or another part of the page adds an entry, and it opens the
\* terminal first.
LEMMA VisibleStep ==
  LayoutInv /\ TerminalTypeOK /\ [Next]_vars =>
    [logs' > logs => terminalHeight' >= MinTerminal]_vars
<1> SUFFICES ASSUME LayoutInv, TerminalTypeOK, [Next]_vars, logs' > logs
             PROVE  terminalHeight' >= MinTerminal
  OBVIOUS
<1>0. terminalHeight \in Int /\ MinTerminal \in Int /\ logs \in Nat
  BY LayoutAssumption DEF LayoutInv, LayoutTypeOK, TerminalTypeOK
<1>1. CASE Answered \/ Logged
  BY <1>0, <1>1 DEF Answered, Logged, TerminalOpenRequested
<1>2. CASE UNCHANGED vars \/ Arranging
  BY <1>0, <1>2 DEF vars, Arranging, terminalVars
<1>3. CASE Typing
  BY <1>0, <1>3 DEF Typing, Type, LoadCommandFromHistory, HandleCommand
<1>4. CASE Restart
  BY <1>0, <1>4 DEF Restart
<1> QED BY <1>1, <1>2, <1>3, <1>4 DEF Next

\* For panels and windows of any size, what is logged can be seen.
THEOREM LogIsAlwaysVisible == Spec => LogIsVisible
<1>1. Init => LayoutInv
  BY LayoutStart
<1>2. TerminalTypeOK /\ [Next]_vars => TerminalTypeOK'
  BY TerminalStep
<1> QED BY LayoutStep, TerminalStart, VisibleStep, <1>1, <1>2, PTL DEF Spec, LogIsVisible
=============================================================================
