--------------------------- MODULE SqlReplProofs ---------------------------
(* Proofs about SqlRepl, for every set of lines and every bound.           *)
EXTENDS SqlRepl, SequenceTheorems, TLAPS

\* Appending to a sequence.
LEMMA AppendFacts ==
  ASSUME NEW S, NEW s \in Seq(S), NEW e \in S
  PROVE  /\ Append(s, e) \in Seq(S)
         /\ Len(Append(s, e)) = Len(s) + 1
         /\ DOMAIN Append(s, e) = 1..(Len(s) + 1)
         /\ \A i \in 1..Len(s) : Append(s, e)[i] = s[i]
         /\ Append(s, e)[Len(s) + 1] = e
  OBVIOUS

\* A sequence over a set is one over any larger set.
LEMMA WiderSeq ==
  ASSUME NEW S, NEW T, S \subseteq T, NEW s \in Seq(S)
  PROVE  s \in Seq(T)
  OBVIOUS

\* The lines read so far only grow, by the line just read.
LEMMA ScanGrows ==
  ASSUME TypeOK, NEW l \in Lines, Scan(l)
  PROVE  /\ typed' \in Seq(Lines)
         /\ Len(typed') <= MaxLines
         /\ DOMAIN typed = 1..Len(typed)
         /\ DOMAIN typed' = 1..Here
         /\ Here \in DOMAIN typed'
         /\ DOMAIN typed \subseteq DOMAIN typed'
         /\ \A i \in DOMAIN typed : typed'[i] = typed[i]
         /\ typed'[Here] = l
         /\ multiline \in Seq(DOMAIN typed')
         /\ ran \in Seq(DOMAIN typed')
         /\ executed \in Seq(Seq(DOMAIN typed'))
<1>1. /\ typed \in Seq(Lines) /\ Len(typed) \in Nat /\ MaxLines \in Nat
      /\ DOMAIN typed = 1..Len(typed)
  BY MaxLinesAssumption DEF TypeOK
<1>2. /\ typed' = Append(typed, l) /\ Len(typed) < MaxLines
  BY DEF Scan
<1>3. /\ typed' \in Seq(Lines)
      /\ Len(typed') = Len(typed) + 1
      /\ DOMAIN typed' = 1..(Len(typed) + 1)
      /\ \A i \in 1..Len(typed) : typed'[i] = typed[i]
      /\ typed'[Len(typed) + 1] = l
  BY <1>1, <1>2, AppendFacts
<1>4. DOMAIN typed \subseteq DOMAIN typed'
  BY <1>1, <1>3
<1>5. multiline \in Seq(DOMAIN typed') /\ ran \in Seq(DOMAIN typed')
  BY <1>4, WiderSeq DEF TypeOK
<1>6. Seq(DOMAIN typed) \subseteq Seq(DOMAIN typed')
  BY <1>4, WiderSeq
<1>7. executed \in Seq(Seq(DOMAIN typed'))
  BY <1>6, WiderSeq DEF TypeOK
<1> QED
  BY <1>1, <1>2, <1>3, <1>4, <1>5, <1>7 DEF Here

-----------------------------------------------------------------------------
LEMMA TypeOKInit == Init => TypeOK
  BY MaxLinesAssumption DEF Init, TypeOK

LEMMA TypeOKStep == TypeOK /\ [Next]_vars => TypeOK'
<1> SUFFICES ASSUME TypeOK, [Next]_vars PROVE TypeOK'
  OBVIOUS
<1>1. ASSUME NEW l \in Lines, RunCommand(l) PROVE TypeOK'
  <2>1. Scan(l) BY <1>1 DEF RunCommand
  <2>2. ran' = Append(ran, Here) /\ UNCHANGED <<multiline, executed, pc>>
    BY <1>1 DEF RunCommand
  <2>3. ran' \in Seq(DOMAIN typed')
    BY <2>1, <2>2, ScanGrows, AppendFacts
  <2> QED BY <2>1, <2>2, <2>3, ScanGrows DEF TypeOK
<1>2. ASSUME NEW l \in Lines, Quit(l) PROVE TypeOK'
  BY <1>2, ScanGrows DEF Quit, TypeOK
<1>3. ASSUME NEW l \in Lines, SkipBlank(l) PROVE TypeOK'
  BY <1>3, ScanGrows DEF SkipBlank, TypeOK
<1>4. ASSUME NEW l \in Lines, AddLine(l) PROVE TypeOK'
  <2>1. Scan(l) BY <1>4 DEF AddLine
  <2>2. multiline' = Append(multiline, Here) /\ UNCHANGED <<executed, ran, pc>>
    BY <1>4 DEF AddLine
  <2>3. multiline' \in Seq(DOMAIN typed')
    BY <2>1, <2>2, ScanGrows, AppendFacts
  <2> QED BY <2>1, <2>2, <2>3, ScanGrows DEF TypeOK
<1>5. ASSUME NEW l \in Lines, Dispatch(l) PROVE TypeOK'
  <2>1. Scan(l) BY <1>5 DEF Dispatch
  <2>2. /\ executed' = Append(executed, Append(multiline, Here))
        /\ multiline' = <<>> /\ UNCHANGED <<ran, pc>>
    BY <1>5 DEF Dispatch
  <2>3. Append(multiline, Here) \in Seq(DOMAIN typed')
    BY <2>1, ScanGrows, AppendFacts
  <2>4. executed' \in Seq(Seq(DOMAIN typed'))
    BY <2>1, <2>2, <2>3, ScanGrows, AppendFacts
  <2> QED BY <2>1, <2>2, <2>4, ScanGrows DEF TypeOK
<1>6. ASSUME EndOfInput PROVE TypeOK'
  BY <1>6 DEF EndOfInput, TypeOK
<1>7. CASE UNCHANGED vars
  BY <1>7 DEF vars, TypeOK
<1> QED
  BY <1>1, <1>2, <1>3, <1>4, <1>5, <1>6, <1>7 DEF Next

\* TypeCorrect: the loop's variables keep their types; the line numbers held
\* in the buffer, the queries and the commands are those of lines read.
THEOREM TypeCorrect == Spec => []TypeOK
  BY TypeOKInit, TypeOKStep, PTL DEF Spec

-----------------------------------------------------------------------------
(* One step at a time: what each action that touches the statement does.   *)

\* No line is read, or one is read that leaves statement and queries alone.
Bystander == \/ \E l \in Lines : RunCommand(l) \/ Quit(l) \/ SkipBlank(l)
             \/ EndOfInput \/ UNCHANGED vars

LEMMA StepCases ==
  ASSUME [Next]_vars
  PROVE  \/ Bystander
         \/ \E l \in Lines : AddLine(l)
         \/ \E l \in Lines : Dispatch(l)
  BY DEF Next, Bystander

LEMMA BystanderFacts ==
  ASSUME TypeOK, Bystander
  PROVE  /\ UNCHANGED <<multiline, executed>>
         /\ DOMAIN typed \subseteq DOMAIN typed'
         /\ \A i \in DOMAIN typed : typed'[i] = typed[i]
<1>1. ASSUME NEW l \in Lines, RunCommand(l) \/ Quit(l) \/ SkipBlank(l)
      PROVE  /\ UNCHANGED <<multiline, executed>>
             /\ DOMAIN typed \subseteq DOMAIN typed'
             /\ \A i \in DOMAIN typed : typed'[i] = typed[i]
  <2>1. Scan(l) BY <1>1 DEF RunCommand, Quit, SkipBlank
  <2>2. UNCHANGED <<multiline, executed>>
    BY <1>1 DEF RunCommand, Quit, SkipBlank
  <2> QED BY <2>1, <2>2, ScanGrows
<1>2. CASE EndOfInput \/ UNCHANGED vars
  BY <1>2 DEF EndOfInput, vars
<1> QED BY <1>1, <1>2 DEF Bystander

\* AddLine puts a number larger than all before it at the end of the buffer.
LEMMA AddLineFacts ==
  ASSUME TypeOK, NEW l \in Lines, AddLine(l)
  PROVE  /\ executed' = executed
         /\ Len(multiline) \in Nat
         /\ DOMAIN multiline = 1..Len(multiline)
         /\ DOMAIN multiline' = 1..(Len(multiline) + 1)
         /\ \A a \in 1..Len(multiline) : multiline'[a] = multiline[a]
         /\ multiline'[Len(multiline) + 1] = Here
<1>1. Scan(l) /\ multiline' = Append(multiline, Here) /\ executed' = executed
  BY DEF AddLine
<1>2. multiline \in Seq(DOMAIN typed') /\ Here \in DOMAIN typed'
  BY <1>1, ScanGrows
<1> QED BY <1>1, <1>2, AppendFacts

\* Dispatch adds one query: the buffer and the line just read.
LEMMA DispatchFacts ==
  ASSUME TypeOK, NEW l \in Lines, Dispatch(l)
  PROVE  LET new == executed'[Len(executed) + 1]
         IN  /\ multiline' = <<>>
             /\ Len(multiline) \in Nat /\ Len(executed) \in Nat
             /\ DOMAIN multiline = 1..Len(multiline)
             /\ DOMAIN executed = 1..Len(executed)
             /\ DOMAIN executed' = 1..(Len(executed) + 1)
             /\ \A k \in 1..Len(executed) : executed'[k] = executed[k]
             /\ Len(new) = Len(multiline) + 1
             /\ DOMAIN new = 1..(Len(multiline) + 1)
             /\ \A a \in 1..Len(multiline) : new[a] = multiline[a]
             /\ new[Len(multiline) + 1] = Here
<1>1. /\ Scan(l) /\ multiline' = <<>>
      /\ executed' = Append(executed, Append(multiline, Here))
  BY DEF Dispatch
<1>2. /\ multiline \in Seq(DOMAIN typed') /\ Here \in DOMAIN typed'
      /\ executed \in Seq(Seq(DOMAIN typed'))
  BY <1>1, ScanGrows
<1> DEFINE q == Append(multiline, Here)
<1>3. /\ q \in Seq(DOMAIN typed')
      /\ Len(q) = Len(multiline) + 1
      /\ DOMAIN q = 1..(Len(multiline) + 1)
      /\ \A a \in 1..Len(multiline) : q[a] = multiline[a]
      /\ q[Len(multiline) + 1] = Here
  BY <1>2, AppendFacts
<1> HIDE DEF q
<1>4. /\ DOMAIN executed' = 1..(Len(executed) + 1)
      /\ \A k \in 1..Len(executed) : executed'[k] = executed[k]
      /\ executed'[Len(executed) + 1] = q
  BY <1>1, <1>2, <1>3, AppendFacts DEF q
<1>5. /\ Len(multiline) \in Nat /\ DOMAIN multiline = 1..Len(multiline)
      /\ Len(executed) \in Nat /\ DOMAIN executed = 1..Len(executed)
  BY <1>2
<1> QED BY <1>1, <1>3, <1>4, <1>5

\* The line numbers in the buffer and in the queries are natural numbers
\* below the number of the next line.
LEMMA NumbersBelowHere ==
  ASSUME TypeOK
  PROVE  /\ Here \in Nat
         /\ \A a \in DOMAIN multiline :
              multiline[a] \in Nat /\ multiline[a] \in DOMAIN typed /\ multiline[a] < Here
         /\ \A k \in DOMAIN executed : \A a \in DOMAIN executed[k] :
              /\ executed[k][a] \in Nat /\ executed[k][a] \in DOMAIN typed
              /\ executed[k][a] < Here
         /\ \A c \in Range(ran) : c \in Nat /\ c < Here
<1>1. DOMAIN typed = 1..Len(typed) /\ Len(typed) \in Nat
  BY DEF TypeOK
<1>2. \A i \in DOMAIN typed : i \in Nat /\ i < Here
  BY <1>1 DEF Here
<1>3. \A k \in DOMAIN executed : executed[k] \in Seq(DOMAIN typed)
  BY DEF TypeOK
<1> QED BY <1>1, <1>2, <1>3 DEF TypeOK, Here, Range

-----------------------------------------------------------------------------
LEMMA OneTerminatorStep ==
  TypeOK /\ OneTerminatorPerQuery /\ [Next]_vars => OneTerminatorPerQuery'
<1> SUFFICES ASSUME TypeOK, OneTerminatorPerQuery, [Next]_vars
             PROVE  OneTerminatorPerQuery'
  OBVIOUS
<1>1. CASE Bystander
  BY <1>1, BystanderFacts, NumbersBelowHere DEF OneTerminatorPerQuery
<1>2. ASSUME NEW l \in Lines, AddLine(l) PROVE OneTerminatorPerQuery'
  <2>1. Scan(l) /\ ~l.semi BY <1>2 DEF AddLine
  <2>2. typed'[Here] = l /\ \A i \in DOMAIN typed : typed'[i] = typed[i]
    BY <2>1, ScanGrows
  <2>3. \A a \in DOMAIN multiline' : ~typed'[multiline'[a]].semi
    BY <1>2, <2>1, <2>2, AddLineFacts, NumbersBelowHere DEF OneTerminatorPerQuery
  <2> QED BY <1>2, <2>2, <2>3, AddLineFacts, NumbersBelowHere DEF OneTerminatorPerQuery
<1>3. ASSUME NEW l \in Lines, Dispatch(l) PROVE OneTerminatorPerQuery'
  <2>1. Scan(l) /\ l.semi BY <1>3 DEF Dispatch
  <2>2. typed'[Here] = l /\ \A i \in DOMAIN typed : typed'[i] = typed[i]
    BY <2>1, ScanGrows
  <2>3. ASSUME NEW k \in 1..Len(executed), NEW a \in DOMAIN executed[k]
        PROVE  typed'[executed'[k][a]].semi <=> a = Len(executed'[k])
    BY <1>3, <2>2, <2>3, DispatchFacts, NumbersBelowHere DEF OneTerminatorPerQuery
  <2> DEFINE new == executed'[Len(executed) + 1]
  <2>4. ASSUME NEW a \in DOMAIN new
        PROVE  typed'[new[a]].semi <=> a = Len(new)
    BY <1>3, <2>1, <2>2, <2>4, DispatchFacts, NumbersBelowHere DEF OneTerminatorPerQuery
  <2> QED BY <1>3, <2>3, <2>4, DispatchFacts DEF OneTerminatorPerQuery
<1> QED BY <1>1, <1>2, <1>3, StepCases

\* OneTerminator: a terminator typed ends its query at once, and only there;
\* the pending text that "exit" or the end of the input drops has none.
THEOREM OneTerminator == Spec => []OneTerminatorPerQuery
<1>1. Init => OneTerminatorPerQuery
  BY DEF Init, OneTerminatorPerQuery
<1> QED BY <1>1, OneTerminatorStep, TypeCorrect, PTL DEF Spec

-----------------------------------------------------------------------------
LEMMA InTypedOrderStep ==
  TypeOK /\ InTypedOrder /\ [Next]_vars => InTypedOrder'
<1> SUFFICES ASSUME TypeOK, InTypedOrder, [Next]_vars PROVE InTypedOrder'
  OBVIOUS
<1>1. CASE Bystander
  BY <1>1, BystanderFacts DEF InTypedOrder, ExecutedLines
<1>2. ASSUME NEW l \in Lines, AddLine(l) PROVE InTypedOrder'
  <2>1. \A a, b \in DOMAIN multiline' : a < b => multiline'[a] < multiline'[b]
    BY <1>2, AddLineFacts, NumbersBelowHere DEF InTypedOrder
  <2>2. Range(multiline') \subseteq Range(multiline) \cup {Here}
    BY <1>2, AddLineFacts DEF Range
  <2>3. \A i \in ExecutedLines : i < Here
    BY NumbersBelowHere DEF ExecutedLines, Range
  <2>4. ExecutedLines' = ExecutedLines
    BY <1>2, AddLineFacts DEF ExecutedLines
  <2>5. \A i \in ExecutedLines', j \in Range(multiline') : i < j
    BY <2>2, <2>3, <2>4 DEF InTypedOrder
  <2> QED BY <1>2, <2>1, <2>5, AddLineFacts DEF InTypedOrder
<1>3. ASSUME NEW l \in Lines, Dispatch(l) PROVE InTypedOrder'
  <2> DEFINE new == executed'[Len(executed) + 1]
  <2>1. \A k \in 1..Len(executed) : \A a, b \in DOMAIN executed'[k] :
          a < b => executed'[k][a] < executed'[k][b]
    BY <1>3, DispatchFacts DEF InTypedOrder
  <2>2. \A a, b \in DOMAIN new : a < b => new[a] < new[b]
    BY <1>3, DispatchFacts, NumbersBelowHere DEF InTypedOrder
  <2>3. \A k \in DOMAIN executed' : \A a, b \in DOMAIN executed'[k] :
          a < b => executed'[k][a] < executed'[k][b]
    BY <1>3, <2>1, <2>2, DispatchFacts
  <2>4. Range(new) \subseteq Range(multiline) \cup {Here}
    BY <1>3, DispatchFacts DEF Range
  <2>5. \A k \in 1..Len(executed) : \A i \in Range(executed[k]), j \in Range(new) : i < j
    <3>1. \A k \in 1..Len(executed) : Range(executed[k]) \subseteq ExecutedLines
      BY <1>3, DispatchFacts DEF ExecutedLines
    <3>2. \A i \in ExecutedLines : i < Here
      BY NumbersBelowHere DEF ExecutedLines, Range
    <3> QED BY <2>4, <3>1, <3>2 DEF InTypedOrder
  <2>6. ASSUME NEW k \in DOMAIN executed', NEW m \in DOMAIN executed', k < m
        PROVE  \A i \in Range(executed'[k]), j \in Range(executed'[m]) : i < j
    <3>1. k \in 1..Len(executed) /\ executed'[k] = executed[k]
      BY <1>3, <2>6, DispatchFacts
    <3>2. CASE m \in 1..Len(executed)
      BY <1>3, <2>6, <3>1, <3>2, DispatchFacts DEF InTypedOrder
    <3>3. CASE m = Len(executed) + 1
      BY <2>5, <3>1, <3>3
    <3> QED BY <1>3, <2>6, <3>2, <3>3, DispatchFacts
  <2>7. multiline' = <<>>
    BY <1>3, DispatchFacts
  <2> QED BY <2>3, <2>6, <2>7 DEF InTypedOrder, Range
<1> QED BY <1>1, <1>2, <1>3, StepCases

\* TypedOrder: the queries, one after the other, and then the pending text
\* hold the lines in the order typed, none of them twice.
THEOREM TypedOrder == Spec => []InTypedOrder
<1>1. Init => InTypedOrder
  BY DEF Init, InTypedOrder, ExecutedLines, Range
<1> QED BY <1>1, InTypedOrderStep, TypeCorrect, PTL DEF Spec

-----------------------------------------------------------------------------
LEMMA CommandsBetweenStep ==
  TypeOK /\ CommandsBetweenStatements /\ [Next]_vars => CommandsBetweenStatements'
<1> SUFFICES ASSUME TypeOK, CommandsBetweenStatements, [Next]_vars
             PROVE  CommandsBetweenStatements'
  OBVIOUS
<1>1. ASSUME NEW l \in Lines, RunCommand(l) PROVE CommandsBetweenStatements'
  <2>1. /\ ran' = Append(ran, Here) /\ Scan(l)
        /\ UNCHANGED <<multiline, executed>> /\ multiline = <<>>
    BY <1>1 DEF RunCommand, Special
  <2>2. Range(ran') \subseteq Range(ran) \cup {Here}
    <3>1. ran \in Seq(DOMAIN typed') /\ Here \in DOMAIN typed'
      BY <2>1, ScanGrows
    <3>2. DOMAIN ran = 1..Len(ran) /\ Len(ran) \in Nat
      BY <3>1
    <3> QED BY <2>1, <3>1, <3>2, AppendFacts DEF Range
  <2>3. \A k \in DOMAIN executed : \A i \in Range(executed[k]) : i < Here
    BY NumbersBelowHere DEF Range
  <2>4. Range(multiline) = {}
    BY <2>1 DEF Range
  <2> QED BY <2>1, <2>2, <2>3, <2>4 DEF CommandsBetweenStatements
<1>2. ASSUME NEW l \in Lines, Quit(l) \/ SkipBlank(l) PROVE CommandsBetweenStatements'
  BY <1>2 DEF Quit, SkipBlank, CommandsBetweenStatements
<1>3. CASE EndOfInput \/ UNCHANGED vars
  BY <1>3 DEF EndOfInput, vars, CommandsBetweenStatements
<1>4. ASSUME NEW l \in Lines, AddLine(l) PROVE CommandsBetweenStatements'
  <2>1. ran' = ran /\ executed' = executed
    BY <1>4 DEF AddLine
  <2>2. Range(multiline') \subseteq Range(multiline) \cup {Here}
    BY <1>4, AddLineFacts DEF Range
  <2> QED BY <2>1, <2>2, NumbersBelowHere DEF CommandsBetweenStatements
<1>5. ASSUME NEW l \in Lines, Dispatch(l) PROVE CommandsBetweenStatements'
  <2> DEFINE new == executed'[Len(executed) + 1]
  <2>1. ran' = ran
    BY <1>5 DEF Dispatch
  <2>2. Range(new) \subseteq Range(multiline) \cup {Here}
    BY <1>5, DispatchFacts DEF Range
  <2>3. \A c \in Range(ran) : \A i \in Range(new) : c < i
    BY <2>2, NumbersBelowHere DEF CommandsBetweenStatements
  <2>4. Range(multiline') = {}
    BY <1>5, DispatchFacts DEF Range
  <2>5. \A k \in DOMAIN executed' :
          (k \in DOMAIN executed /\ executed'[k] = executed[k]) \/ executed'[k] = new
    BY <1>5, DispatchFacts
  <2> QED BY <2>1, <2>3, <2>4, <2>5 DEF CommandsBetweenStatements
<1> QED BY <1>1, <1>2, <1>3, <1>4, <1>5 DEF Next

\* CommandsBetween: a special command is run only between two statements.
THEOREM CommandsBetween == Spec => []CommandsBetweenStatements
<1>1. Init => CommandsBetweenStatements
  BY DEF Init, CommandsBetweenStatements, Range
<1> QED BY <1>1, CommandsBetweenStep, TypeCorrect, PTL DEF Spec

-----------------------------------------------------------------------------
\* The kinds of lines after one more line l has been read.
LEMMA KindsGrow ==
  ASSUME TypeOK, NEW l \in Lines, Scan(l)
  PROVE  /\ DOMAIN typed' = DOMAIN typed \cup {Here}
         /\ BlankLines \subseteq BlankLines'
         /\ l.word = "" => Here \in BlankLines'
         /\ BlankLines' \subseteq DOMAIN typed'
         /\ QuitLines = {}
         /\ QuitLines' = IF pc' = "quit" THEN {Here} ELSE {}
<1>1. /\ DOMAIN typed = 1..Len(typed) /\ DOMAIN typed' = 1..Here
      /\ Len(typed) \in Nat /\ Here = Len(typed) + 1 /\ typed'[Here] = l
      /\ \A i \in DOMAIN typed : typed'[i] = typed[i]
      /\ typed' \in Seq(Lines)
  BY ScanGrows DEF TypeOK, Here
<1>2. DOMAIN typed' = DOMAIN typed \cup {Here} /\ Here = Len(typed')
  BY <1>1
<1>3. pc # "quit"
  BY DEF Scan
<1> QED BY <1>1, <1>2, <1>3 DEF BlankLines, QuitLines

LEMMA NothingLostStep ==
  TypeOK /\ NothingLost /\ [Next]_vars => NothingLost'
<1> SUFFICES ASSUME TypeOK, NothingLost, [Next]_vars PROVE NothingLost'
  OBVIOUS
<1> DEFINE consumed == ExecutedLines \cup Range(multiline)
<1>1. consumed \subseteq DOMAIN typed /\ Range(ran) \subseteq DOMAIN typed
  BY NumbersBelowHere DEF ExecutedLines, Range, TypeOK
<1>2. ASSUME NEW l \in Lines, Scan(l),
             consumed \subseteq consumed', Range(ran) \subseteq Range(ran)',
             consumed' \cup Range(ran)' \subseteq DOMAIN typed',
             Here \in BlankLines' \cup Range(ran)' \cup QuitLines' \cup consumed'
      PROVE  NothingLost'
  <2>1. QuitLines' \subseteq {Here}
    BY <1>2, KindsGrow
  <2> QED BY <1>2, <2>1, KindsGrow DEF NothingLost
<1>3. ASSUME NEW l \in Lines, RunCommand(l) PROVE NothingLost'
  <2>1. /\ Scan(l) /\ ran' = Append(ran, Here)
        /\ UNCHANGED <<multiline, executed>>
    BY <1>3 DEF RunCommand
  <2>2. ran \in Seq(DOMAIN typed') /\ Here \in DOMAIN typed'
    BY <2>1, ScanGrows
  <2>3. DOMAIN ran = 1..Len(ran) /\ Len(ran) \in Nat
    BY <2>2
  <2>4. Range(ran)' = Range(ran) \cup {Here}
    BY <2>1, <2>2, <2>3, AppendFacts DEF Range
  <2>5. consumed' = consumed
    BY <2>1 DEF ExecutedLines
  <2> QED BY <1>1, <1>2, <2>1, <2>4, <2>5, KindsGrow
<1>4. ASSUME NEW l \in Lines, Quit(l) \/ SkipBlank(l) PROVE NothingLost'
  <2>1. Scan(l) /\ UNCHANGED <<multiline, executed, ran>>
    BY <1>4 DEF Quit, SkipBlank
  <2>2. Here \in BlankLines' \cup QuitLines'
    BY <1>4, <2>1, KindsGrow DEF Quit, SkipBlank
  <2>3. consumed' = consumed
    BY <2>1 DEF ExecutedLines
  <2> QED BY <1>1, <1>2, <2>1, <2>2, <2>3, KindsGrow
<1>5. ASSUME NEW l \in Lines, AddLine(l) PROVE NothingLost'
  <2>1. Scan(l) /\ UNCHANGED <<executed, ran>>
    BY <1>5 DEF AddLine
  <2>2. Range(multiline)' = Range(multiline) \cup {Here}
    BY <1>5, AddLineFacts DEF Range
  <2>3. consumed' = consumed \cup {Here}
    BY <2>1, <2>2 DEF ExecutedLines
  <2> QED BY <1>1, <1>2, <2>1, <2>3, KindsGrow
<1>6. ASSUME NEW l \in Lines, Dispatch(l) PROVE NothingLost'
  <2> DEFINE new == executed'[Len(executed) + 1]
  <2>1. Scan(l) /\ UNCHANGED ran
    BY <1>6 DEF Dispatch
  <2>2. Range(new) = Range(multiline) \cup {Here} /\ Range(multiline)' = {}
    BY <1>6, DispatchFacts DEF Range
  <2>3. ExecutedLines' = ExecutedLines \cup Range(new)
    BY <1>6, DispatchFacts DEF ExecutedLines
  <2>4. consumed' = consumed \cup {Here}
    BY <2>2, <2>3
  <2> QED BY <1>1, <1>2, <2>1, <2>4, KindsGrow
<1>7. CASE EndOfInput
  BY <1>7 DEF EndOfInput, NothingLost, BlankLines, QuitLines, ExecutedLines
<1>8. CASE UNCHANGED vars
  BY <1>8 DEF vars, NothingLost, BlankLines, QuitLines, ExecutedLines
<1> QED BY <1>3, <1>4, <1>5, <1>6, <1>7, <1>8 DEF Next

\* AllAccounted: every line read was blank, ran as a command, ended the
\* session, was sent in a query, or is still pending.
THEOREM AllAccounted == Spec => []NothingLost
<1>1. Init => NothingLost
  BY DEF Init, NothingLost, BlankLines, QuitLines, ExecutedLines, Range
<1> QED BY <1>1, NothingLostStep, TypeCorrect, PTL DEF Spec
=============================================================================
