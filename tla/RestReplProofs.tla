--------------------------- MODULE RestReplProofs ---------------------------
(* Proofs about RestRepl, for every set of lines and names and every bound.*)
EXTENDS RestRepl, SequenceTheorems, TLAPS

\* Appending to a sequence.
LEMMA AppendFacts ==
  ASSUME NEW S, NEW s \in Seq(S), NEW e \in S
  PROVE  /\ Append(s, e) \in Seq(S)
         /\ Len(Append(s, e)) = Len(s) + 1
         /\ DOMAIN Append(s, e) = 1..(Len(s) + 1)
         /\ \A i \in 1..Len(s) : Append(s, e)[i] = s[i]
         /\ Append(s, e)[Len(s) + 1] = e
  OBVIOUS

\* A sequence over a set is one over any larger set.
LEMMA WiderSeq ==
  ASSUME NEW S, NEW T, S \subseteq T, NEW s \in Seq(S)
  PROVE  s \in Seq(T)
  OBVIOUS

\* A sequence that is at most one longer than another has its indices.
LEMMA OneLonger ==
  ASSUME NEW S, NEW r \in Seq(S), NEW T, NEW s \in Seq(T),
         Len(r) = Len(s) \/ Len(r) = Len(s) + 1
  PROVE  DOMAIN s \subseteq DOMAIN r /\ \A n \in DOMAIN r : n \in Nat
  OBVIOUS

\* Appending, seen from the sequence that results.
LEMMA AppendedAt ==
  ASSUME NEW T, NEW s \in Seq(T), NEW e \in T, NEW k, k = Len(s) + 1
  PROVE  /\ DOMAIN Append(s, e) = 1..k /\ Append(s, e)[k] = e
         /\ \A n \in DOMAIN s : Append(s, e)[n] = s[n]
         /\ \A n \in 1..k : n \in DOMAIN s \/ n = k
  OBVIOUS

-----------------------------------------------------------------------------
(* The loop.                                                               *)

LoopType == /\ typed \in Seq(Lines)
            /\ builder \in Seq(DOMAIN typed)
            /\ queries \in Seq(Seq(DOMAIN typed))

\* The lines read so far only grow, by the line just read.
LEMMA ReadGrows ==
  ASSUME LoopType, NEW l \in Lines, Read(l)
  PROVE  /\ typed' \in Seq(Lines)
         /\ Len(typed) \in Nat /\ Here \in Nat
         /\ DOMAIN typed = 1..Len(typed) /\ DOMAIN typed' = 1..Here
         /\ Len(typed') = Here /\ Here \in DOMAIN typed'
         /\ \A i \in DOMAIN typed : typed'[i] = typed[i]
         /\ typed'[Here] = l
         /\ builder \in Seq(DOMAIN typed')
         /\ queries \in Seq(Seq(DOMAIN typed'))
<1>1. typed \in Seq(Lines) /\ Len(typed) \in Nat /\ DOMAIN typed = 1..Len(typed)
  BY DEF LoopType
<1>2. typed' = Append(typed, l)
  BY DEF Read
<1>3. /\ typed' \in Seq(Lines) /\ Len(typed') = Here /\ Here \in Nat
      /\ DOMAIN typed' = 1..Here /\ Here \in DOMAIN typed'
      /\ \A i \in DOMAIN typed : typed'[i] = typed[i]
      /\ typed'[Here] = l
  BY <1>1, <1>2, AppendFacts DEF Here
<1>4. DOMAIN typed \subseteq DOMAIN typed'
  BY <1>1, <1>3 DEF Here
<1>5. Seq(DOMAIN typed) \subseteq Seq(DOMAIN typed')
  BY <1>4, WiderSeq
<1>6. builder \in Seq(DOMAIN typed') /\ queries \in Seq(Seq(DOMAIN typed'))
  BY <1>5, WiderSeq DEF LoopType
<1> QED BY <1>1, <1>3, <1>6

\* A step for the loop: nothing is read; a line is read while no command is
\* being typed and nothing is executed; a line is added; a command is executed.
Pass == \E l \in Lines : Read(l) /\ ~inMultiLine /\ UNCHANGED <<builder, inMultiLine, queries>>
Grow == \E l \in Lines : /\ Read(l) /\ ~l.semi
                         /\ builder' = Append(builder, Here) /\ inMultiLine' = TRUE
                         /\ UNCHANGED queries
Finish == \E l \in Lines : /\ Read(l) /\ l.semi
                           /\ queries' = Append(queries, Append(builder, Here))
                           /\ builder' = <<>> /\ inMultiLine' = FALSE

BuilderFilled == inMultiLine <=> builder # <<>>

LEMMA LoopCases ==
  ASSUME BuilderFilled, inMultiLine \in BOOLEAN, [Next]_vars
  PROVE  UNCHANGED <<typed, builder, inMultiLine, queries>> \/ Pass \/ Grow \/ Finish
<1> USE DEF loopVars
<1>1. ASSUME NEW l \in Lines, BackslashCommand(l) \/ SkipBlank(l) PROVE Pass
  BY <1>1 DEF BackslashCommand, Special, SkipBlank, Pass
<1>2. ASSUME NEW l \in Lines, AddLine(l) PROVE Grow
  BY <1>2 DEF AddLine, Grow
<1>3. ASSUME NEW l \in Lines, SingleLine(l) PROVE Finish
  <2>0. builder = <<>>
    BY <1>3 DEF SingleLine, BuilderFilled
  <2>1. Append(builder, Here) = <<Here>>
    BY <2>0
  <2>2. Read(l) /\ l.semi /\ queries' = Append(queries, <<Here>>) /\ builder' = builder
        /\ inMultiLine' = inMultiLine /\ inMultiLine = FALSE
    BY <1>3 DEF SingleLine, ExecuteCommand
  <2> QED BY <2>0, <2>1, <2>2 DEF Finish
<1>4. ASSUME NEW l \in Lines, LastLine(l) PROVE Finish
  BY <1>4 DEF LastLine, ExecuteCommand, Finish
<1>5. ASSUME Client \/ Service \/ Others \/ EndOfInput \/ UNCHANGED vars
      PROVE  UNCHANGED <<typed, builder, inMultiLine, queries>>
  BY <1>5 DEF Client, Reply, Timeout, PollReady, PollAgain, ShowData, List, ListNothing,
     Lookup, Render, Service, Apply, Others, Appear, Vanish, EndOfInput, vars
<1> QED BY <1>1, <1>2, <1>3, <1>4, <1>5 DEF Next, Loop

\* Grow and Finish put the number of the line read behind those in the builder.
LEMMA NewNumber ==
  ASSUME LoopType, NEW l \in Lines, Read(l)
  PROVE  LET q == Append(builder, Here)
         IN  /\ q \in Seq(DOMAIN typed')
             /\ Len(builder) \in Nat /\ Len(q) = Len(builder) + 1
             /\ DOMAIN builder = 1..Len(builder)
             /\ DOMAIN q = 1..(Len(builder) + 1)
             /\ \A a \in 1..Len(builder) : q[a] = builder[a]
             /\ q[Len(builder) + 1] = Here
<1>1. builder \in Seq(DOMAIN typed') /\ Here \in DOMAIN typed'
  BY ReadGrows
<1> QED BY <1>1, AppendFacts

\* Line numbers held are below the number of the next line.
LEMMA NumbersBelow ==
  ASSUME LoopType
  PROVE  /\ Here \in Nat /\ Len(typed) \in Nat
         /\ Len(builder) \in Nat /\ DOMAIN builder = 1..Len(builder)
         /\ Len(queries) \in Nat /\ DOMAIN queries = 1..Len(queries)
         /\ \A a \in DOMAIN builder : builder[a] \in DOMAIN typed /\ builder[a] \in Nat /\ builder[a] < Here
         /\ \A k \in DOMAIN queries : \A a \in DOMAIN queries[k] :
              queries[k][a] \in DOMAIN typed /\ queries[k][a] \in Nat /\ queries[k][a] < Here
<1>1. DOMAIN typed = 1..Len(typed) /\ Len(typed) \in Nat
  BY DEF LoopType
<1>2. \A i \in DOMAIN typed : i \in Nat /\ i < Here
  BY <1>1 DEF Here
<1>3. \A k \in DOMAIN queries : queries[k] \in Seq(DOMAIN typed)
  BY DEF LoopType
<1>4. \A k \in DOMAIN queries : \A a \in DOMAIN queries[k] : queries[k][a] \in DOMAIN typed
  BY <1>3
<1>5. \A a \in DOMAIN builder : builder[a] \in DOMAIN typed
  BY DEF LoopType
<1> QED BY <1>1, <1>2, <1>4, <1>5 DEF LoopType, Here

LEMMA LoopTypeStep ==
  ASSUME LoopType, BuilderFilled, inMultiLine \in BOOLEAN, [Next]_vars
  PROVE  LoopType' /\ BuilderFilled' /\ inMultiLine' \in BOOLEAN
<1>1. CASE UNCHANGED <<typed, builder, inMultiLine, queries>>
  BY <1>1 DEF LoopType, BuilderFilled
<1>2. CASE Pass
  BY <1>2, ReadGrows DEF Pass, LoopType, BuilderFilled
<1>3. ASSUME NEW l \in Lines, Read(l), builder' = Append(builder, Here), inMultiLine' = TRUE,
             UNCHANGED queries
      PROVE  LoopType' /\ BuilderFilled' /\ inMultiLine' \in BOOLEAN
  <2>1. builder' \in Seq(DOMAIN typed') /\ Len(builder') = Len(builder) + 1 /\ Len(builder) \in Nat
    BY <1>3, NewNumber
  <2>2. builder' # <<>>
    BY <2>1
  <2> QED BY <1>3, <2>1, <2>2, ReadGrows DEF LoopType, BuilderFilled
<1>4. ASSUME NEW l \in Lines, Read(l), queries' = Append(queries, Append(builder, Here)),
             builder' = <<>>, inMultiLine' = FALSE
      PROVE  LoopType' /\ BuilderFilled' /\ inMultiLine' \in BOOLEAN
  <2>1. Append(builder, Here) \in Seq(DOMAIN typed') /\ queries \in Seq(Seq(DOMAIN typed'))
    BY <1>4, NewNumber, ReadGrows
  <2>2. queries' \in Seq(Seq(DOMAIN typed'))
    BY <1>4, <2>1, AppendFacts
  <2>3. builder' \in Seq(DOMAIN typed') /\ BuilderFilled'
    BY <1>4 DEF BuilderFilled
  <2> QED BY <1>4, <2>2, <2>3, ReadGrows DEF LoopType
<1> QED BY <1>1, <1>2, <1>3, <1>4, LoopCases DEF Grow, Finish

-----------------------------------------------------------------------------
\* QueriesAreRunsOfLines, said of the queries and of the builder one by one.
RunInv ==
  /\ builder # <<>> => builder[Len(builder)] = Len(typed)
  /\ \A a \in DOMAIN builder : ~typed[builder[a]].semi
  /\ \A a \in 2..Len(builder) : builder[a] = builder[a - 1] + 1
  /\ \A k \in DOMAIN queries :
       /\ \A a \in DOMAIN queries[k] : typed[queries[k][a]].semi <=> a = Len(queries[k])
       /\ \A a \in 2..Len(queries[k]) : queries[k][a] = queries[k][a - 1] + 1
       /\ \A a \in DOMAIN queries[k], b \in DOMAIN builder : queries[k][a] < builder[b]
       /\ \A m \in DOMAIN queries : k < m =>
            \A a \in DOMAIN queries[k], b \in DOMAIN queries[m] : queries[k][a] < queries[m][b]

LEMMA RunInvStep ==
  ASSUME LoopType, BuilderFilled, inMultiLine \in BOOLEAN, RunInv, [Next]_vars
  PROVE  RunInv'
<1>1. CASE UNCHANGED <<typed, builder, queries>>
  BY <1>1 DEF RunInv
<1>2. ASSUME NEW l \in Lines, Read(l), ~inMultiLine, UNCHANGED <<builder, inMultiLine, queries>>
      PROVE  RunInv'
  <2>1. builder = <<>> /\ DOMAIN builder = {}
    BY <1>2, NumbersBelow DEF BuilderFilled
  <2>2. \A i \in DOMAIN typed : typed'[i] = typed[i]
    BY <1>2, ReadGrows
  <2> QED BY <1>2, <2>1, <2>2, NumbersBelow DEF RunInv
<1> DEFINE q == Append(builder, Here)
<1>3. ASSUME NEW l \in Lines, Read(l)
      PROVE  /\ Len(q) \in Nat /\ DOMAIN q = 1..Len(q)
             /\ q # <<>> /\ q[Len(q)] = Len(typed')
             /\ typed'[q[Len(q)]] = l
             /\ \A a \in DOMAIN q : a # Len(q) => ~typed'[q[a]].semi
             /\ \A a \in 2..Len(q) : q[a] = q[a - 1] + 1
             /\ \A k \in DOMAIN queries : \A a \in DOMAIN queries[k], b \in DOMAIN q :
                  queries[k][a] < q[b]
             /\ \A i \in DOMAIN typed : typed'[i] = typed[i]
  <2>1. /\ Len(builder) \in Nat /\ Len(q) = Len(builder) + 1
        /\ DOMAIN builder = 1..Len(builder)
        /\ DOMAIN q = 1..(Len(builder) + 1)
        /\ \A a \in 1..Len(builder) : q[a] = builder[a]
        /\ q[Len(builder) + 1] = Here
    BY <1>3, NewNumber
  <2> HIDE DEF q
  <2>2. q # <<>> /\ q[Len(q)] = Len(typed') /\ typed'[q[Len(q)]] = l
        /\ \A i \in DOMAIN typed : typed'[i] = typed[i]
    BY <1>3, <2>1, ReadGrows
  <2>3. \A a \in DOMAIN q : a # Len(q) => ~typed'[q[a]].semi
    BY <2>1, <2>2, NumbersBelow DEF RunInv
  <2>4. \A a \in 2..Len(q) : q[a] = q[a - 1] + 1
    <3> SUFFICES ASSUME NEW a \in 2..Len(q) PROVE q[a] = q[a - 1] + 1
      OBVIOUS
    <3>1. CASE a \in 2..Len(builder)
      BY <2>1, <3>1 DEF RunInv
    <3>2. CASE a = Len(builder) + 1
      <4>1. Len(builder) \in DOMAIN builder /\ builder # <<>>
        BY <2>1, <3>2
      <4>2. q[a - 1] = Len(typed)
        BY <2>1, <3>2, <4>1 DEF RunInv
      <4> QED BY <2>1, <3>2, <4>2 DEF Here
    <3> QED BY <2>1, <3>1, <3>2
  <2>5. \A k \in DOMAIN queries : \A a \in DOMAIN queries[k], b \in DOMAIN q : queries[k][a] < q[b]
    BY <2>1, NumbersBelow DEF RunInv
  <2> QED BY <2>1, <2>2, <2>3, <2>4, <2>5
<1> HIDE DEF q
<1>4. ASSUME NEW l \in Lines, Read(l), ~l.semi, builder' = q, UNCHANGED queries
      PROVE  RunInv'
  <2>1. \A a \in DOMAIN q : ~typed'[q[a]].semi
    BY <1>3, <1>4
  <2> QED BY <1>3, <1>4, <2>1, NumbersBelow DEF RunInv
<1>5. ASSUME NEW l \in Lines, Read(l), l.semi, queries' = Append(queries, q), builder' = <<>>
      PROVE  RunInv'
  <2>1. q \in Seq(DOMAIN typed') /\ queries \in Seq(Seq(DOMAIN typed'))
    BY <1>5, NewNumber, ReadGrows DEF q
  <2>2. /\ Len(queries) \in Nat /\ DOMAIN queries = 1..Len(queries)
        /\ DOMAIN queries' = 1..(Len(queries) + 1)
        /\ \A k \in 1..Len(queries) : queries'[k] = queries[k]
        /\ queries'[Len(queries) + 1] = q
    BY <1>5, <2>1, AppendFacts
  <2>3. DOMAIN builder' = {} /\ Len(builder') = 0
    BY <1>5
  <2>4. \A a \in DOMAIN q : typed'[q[a]].semi <=> a = Len(q)
    BY <1>3, <1>5
  <2>5. \A k \in DOMAIN queries : \A a \in DOMAIN queries[k] :
          typed'[queries[k][a]].semi <=> a = Len(queries[k])
    BY <1>3, <1>5, NumbersBelow DEF RunInv
  <2>6. ASSUME NEW k \in DOMAIN queries'
        PROVE  /\ \A a \in DOMAIN queries'[k] : typed'[queries'[k][a]].semi <=> a = Len(queries'[k])
               /\ \A a \in 2..Len(queries'[k]) : queries'[k][a] = queries'[k][a - 1] + 1
    <3>1. CASE k \in DOMAIN queries
      BY <2>2, <2>5, <3>1 DEF RunInv
    <3>2. CASE k = Len(queries) + 1
      BY <1>3, <1>5, <2>2, <2>4, <3>2
    <3> QED BY <2>2, <3>1, <3>2
  <2>7. ASSUME NEW k \in DOMAIN queries', NEW m \in DOMAIN queries', k < m
        PROVE  \A a \in DOMAIN queries'[k], b \in DOMAIN queries'[m] : queries'[k][a] < queries'[m][b]
    <3>1. k \in DOMAIN queries /\ queries'[k] = queries[k]
      BY <2>2, <2>7
    <3>2. CASE m \in DOMAIN queries
      BY <2>2, <2>7, <3>1, <3>2 DEF RunInv
    <3>3. CASE m = Len(queries) + 1
      BY <1>3, <1>5, <2>2, <3>1, <3>3
    <3> QED BY <2>2, <3>2, <3>3
  <2> QED BY <1>5, <2>3, <2>6, <2>7 DEF RunInv
<1> QED BY <1>1, <1>2, <1>4, <1>5, LoopCases DEF Pass, Grow, Finish, q

LEMMA RunInvMeans == ASSUME LoopType, BuilderFilled, RunInv PROVE QueriesAreRunsOfLines
<1> DEFINE all == Append(queries, builder)
<1>1. /\ Len(queries) \in Nat /\ DOMAIN queries = 1..Len(queries)
      /\ DOMAIN all = 1..(Len(queries) + 1)
      /\ \A k \in 1..Len(queries) : all[k] = queries[k]
      /\ all[Len(queries) + 1] = builder
  BY AppendFacts DEF LoopType
<1> HIDE DEF all
<1>2. \A k \in DOMAIN all : \A a \in 2..Len(all[k]) : all[k][a] = all[k][a - 1] + 1
  BY <1>1 DEF RunInv
<1>3. \A k, m \in DOMAIN all : k < m => \A i \in Range(all[k]), j \in Range(all[m]) : i < j
  <2> SUFFICES ASSUME NEW k \in DOMAIN all, NEW m \in DOMAIN all, k < m,
                      NEW a \in DOMAIN all[k], NEW b \in DOMAIN all[m]
               PROVE  all[k][a] < all[m][b]
    BY DEF Range
  <2>1. k \in DOMAIN queries /\ all[k] = queries[k]
    BY <1>1
  <2>2. CASE m \in DOMAIN queries
    BY <1>1, <2>1, <2>2 DEF RunInv
  <2>3. CASE m = Len(queries) + 1
    BY <1>1, <2>1, <2>3 DEF RunInv
  <2> QED BY <1>1, <2>2, <2>3
<1>4. \A k \in DOMAIN all : \A a \in DOMAIN all[k] :
        typed[all[k][a]].semi <=> k <= Len(queries) /\ a = Len(all[k])
  <2> SUFFICES ASSUME NEW k \in DOMAIN all, NEW a \in DOMAIN all[k]
               PROVE  typed[all[k][a]].semi <=> k <= Len(queries) /\ a = Len(all[k])
    OBVIOUS
  <2>1. CASE k \in DOMAIN queries
    BY <1>1, <2>1 DEF RunInv
  <2>2. CASE k = Len(queries) + 1
    BY <1>1, <2>2 DEF RunInv
  <2> QED BY <1>1, <2>1, <2>2
<1>5. builder # <<>> => Last(builder) = Len(typed)
  BY DEF RunInv, Last
<1> QED BY <1>2, <1>3, <1>4, <1>5 DEF QueriesAreRunsOfLines, BuilderFilled, all

\* QueriesAreRunsOfLines: every command executed is an uninterrupted run of
\* lines that ends at its first terminator; none is used twice or carried over.
THEOREM RunsOfLines == Spec => []QueriesAreRunsOfLines
<1> DEFINE LoopInv == LoopType /\ BuilderFilled /\ inMultiLine \in BOOLEAN /\ RunInv
<1>1. Init => LoopInv
  <2> SUFFICES ASSUME Init PROVE LoopInv
    OBVIOUS
  <2>1. typed = <<>> /\ builder = <<>> /\ queries = <<>> /\ inMultiLine = FALSE
    BY DEF Init
  <2>2. LoopType
    BY <2>1 DEF LoopType
  <2>3. RunInv
    BY <2>1 DEF RunInv
  <2> QED BY <2>1, <2>2, <2>3 DEF BuilderFilled
<1>2. LoopInv /\ [Next]_vars => LoopInv'
  BY LoopTypeStep, RunInvStep
<1>3. LoopInv => QueriesAreRunsOfLines
  BY RunInvMeans
<1> QED BY <1>1, <1>2, <1>3, PTL DEF Spec

-----------------------------------------------------------------------------
(* Requests and replies.                                                   *)

Waiting == pc \in {"waiting", "polling"}
Reported == {"response", "error", "warned"}

\* Every request but the one being waited for has a reply; while its index is
\* polled the request is known to be accepted.
HttpType == /\ \E S : requests \in Seq(S)
            /\ replies \in Seq(Reported)
            /\ applied \in Seq(Nat) /\ Range(applied) \subseteq DOMAIN requests
            /\ accepted \subseteq Range(applied)
            /\ IF Waiting THEN Len(requests) = Len(replies) + 1
                          ELSE Len(requests) = Len(replies)
            /\ pc = "polling" => Len(requests) \in accepted
            /\ pc = "listing" => cli = "qdrant"

\* A step for the requests: one is sent; one is processed; the user is told
\* of the one waited for; none of these.
Sending == /\ ~Waiting /\ pc' = "waiting"
           /\ \E r : requests' = Append(requests, r)
           /\ UNCHANGED <<cli, replies, applied, accepted, live, gone>>

Telling(reply) ==
  /\ Waiting /\ Tell(reply)
  /\ UNCHANGED <<cli, requests, applied, accepted, live>>
  /\ gone \subseteq gone' \cup live
  /\ reply = "response" => /\ Len(requests) \in accepted
                           /\ Awaited(requests[Len(requests)]) \subseteq live

Aside == /\ UNCHANGED <<cli, requests, replies, applied, accepted>>
         /\ Waiting <=> Waiting'
         /\ pc' = "polling" => Len(requests) \in accepted
         /\ pc' = "listing" => cli = "qdrant"
         /\ cli = "elasticsearch" => live \cup gone \subseteq live' \cup gone'

LEMMA CommandCases ==
  ASSUME HttpType, NEW q, NEW w, NEW semi, pc = "prompt", ExecuteCommand(q, w, semi)
  PROVE  Sending \/ Aside
<1> USE DEF readVars, serviceVars, httpVars
<1>1. UNCHANGED <<cli, live, gone>>
  BY DEF ExecuteCommand
<1>2. CASE Usage(w) \/ NoRequest(w, semi)
  <2>1. UNCHANGED <<requests, replies, applied, accepted>> /\ pc' \in {"prompt", "crashed"}
    BY <1>2 DEF Usage, NoRequest
  <2> QED BY <1>1, <2>1 DEF Aside, Waiting
<1>3. CASE Send(w, semi)
  BY <1>1, <1>3 DEF Send, Sending, Waiting
<1> QED BY <1>2, <1>3 DEF ExecuteCommand

LEMMA HttpCases ==
  ASSUME HttpType, [Next]_vars
  PROVE  \/ Sending \/ Aside \/ (\E n \in DOMAIN requests : Apply(n))
         \/ \E reply \in Reported : Telling(reply)
<1> USE DEF loopVars, httpVars, serviceVars, readVars
<1>1. ASSUME NEW l \in Lines, BackslashCommand(l) PROVE Aside
  <2>1. /\ pc = "prompt"
        /\ UNCHANGED <<cli, requests, replies, applied, accepted, live, gone>>
    BY <1>1 DEF BackslashCommand, Read
  <2>2. CASE l.slash = "quit"
    <3>1. pc' = "done" BY <1>1, <2>2 DEF BackslashCommand
    <3> QED BY <2>1, <3>1 DEF Aside, Waiting
  <2>3. CASE l.slash = "list"
    <3>1. pc' = IF cli = "qdrant" THEN "listing" ELSE "reading"
      BY <1>1, <2>3 DEF BackslashCommand
    <3> QED BY <2>1, <3>1 DEF Aside, Waiting
  <2>4. CASE l.slash = "info"
    <3>1. pc' = "reading" BY <1>1, <2>4 DEF BackslashCommand
    <3> QED BY <2>1, <3>1 DEF Aside, Waiting
  <2>5. CASE l.slash \notin {"quit", "list", "info"}
    <3>1. pc' = pc BY <1>1, <2>5 DEF BackslashCommand
    <3> QED BY <2>1, <3>1 DEF Aside, Waiting
  <2> QED BY <2>2, <2>3, <2>4, <2>5
<1>2. ASSUME NEW l \in Lines, SkipBlank(l) \/ AddLine(l) PROVE Aside
  BY <1>2 DEF SkipBlank, AddLine, Read, Aside, Waiting
<1>3. ASSUME NEW l \in Lines, SingleLine(l) \/ LastLine(l) PROVE Sending \/ Aside
  <2>1. CASE SingleLine(l)
    <3>1. pc = "prompt" /\ ExecuteCommand(<<Here>>, l.words, FALSE) BY <2>1 DEF SingleLine, Read
    <3> QED BY <3>1, CommandCases
  <2>2. CASE LastLine(l)
    <3>1. pc = "prompt" /\ ExecuteCommand(Append(builder, Here), text \o l.words, TRUE)
      BY <2>2 DEF LastLine, Read
    <3> QED BY <3>1, CommandCases
  <2> QED BY <1>3, <2>1, <2>2
<1>4. CASE EndOfInput \/ UNCHANGED vars
  BY <1>4 DEF EndOfInput, vars, Aside, Waiting, HttpType
<1>5. CASE Reply
  <2>1. pc = "waiting" /\ UNCHANGED <<cli, requests, applied, accepted, live, gone>>
    BY <1>5 DEF Reply
  <2>2. CASE Len(requests) \notin accepted
    <3>1. Tell("error") BY <1>5, <2>2 DEF Reply
    <3>2. Telling("error") BY <2>1, <3>1 DEF Telling, Waiting
    <3> QED BY <3>2 DEF Reported
  <2>3. CASE Len(requests) \in accepted /\ Awaited(Last(requests)) = {}
    <3>1. Tell("response") BY <1>5, <2>3 DEF Reply
    <3>2. Telling("response") BY <2>1, <2>3, <3>1 DEF Telling, Waiting, Last
    <3> QED BY <3>2 DEF Reported
  <2>4. CASE Len(requests) \in accepted /\ Awaited(Last(requests)) # {}
    <3>1. pc' = "polling" /\ UNCHANGED replies BY <1>5, <2>4 DEF Reply
    <3> QED BY <2>1, <2>4, <3>1 DEF Aside, Waiting
  <2> QED BY <2>2, <2>3, <2>4
<1>6. CASE Timeout
  <2>1. Telling("error") BY <1>6 DEF Timeout, Telling, Waiting
  <2> QED BY <2>1 DEF Reported
<1>7. CASE PollReady
  <2>0. gone \subseteq gone' \cup live
    BY <1>7 DEF PollReady, TellReady
  <2>1. Telling("response") BY <1>7, <2>0 DEF PollReady, TellReady, Telling, Waiting, HttpType, Last
  <2> QED BY <2>1 DEF Reported
<1>8. CASE PollAgain
  <2>1. CASE Tell("warned")
    <3>1. Telling("warned") BY <1>8, <2>1 DEF PollAgain, Telling, Waiting
    <3> QED BY <3>1 DEF Reported
  <2>2. CASE UNCHANGED <<replies, pc>>
    BY <1>8, <2>2 DEF PollAgain, Aside, Waiting, HttpType
  <2> QED BY <1>8, <2>1, <2>2 DEF PollAgain
<1>9. CASE ShowData \/ ListNothing
  BY <1>9 DEF ShowData, ListNothing, Aside, Waiting
<1>10. CASE List \/ Render \/ \E c \in Names : Lookup(c)
  BY <1>10 DEF List, Render, Lookup, Aside, Waiting, HttpType
<1>11. ASSUME NEW c \in Names, Appear(c) \/ Vanish(c) PROVE Aside
  BY <1>11 DEF Appear, Vanish, Aside, Waiting, HttpType
<1> QED
  BY <1>1, <1>2, <1>3, <1>4, <1>5, <1>6, <1>7, <1>8, <1>9, <1>10, <1>11
  DEF Next, Loop, Client, Service, Others

LEMMA RequestsGrow ==
  ASSUME \E S : requests \in Seq(S), NEW r, requests' = Append(requests, r)
  PROVE  /\ \E S : requests' \in Seq(S)
         /\ Len(requests) \in Nat /\ Len(requests') = Len(requests) + 1
         /\ DOMAIN requests = 1..Len(requests)
         /\ DOMAIN requests' = 1..(Len(requests) + 1)
         /\ \A n \in 1..Len(requests) : requests'[n] = requests[n]
<1>1. PICK S : requests \in Seq(S)
  OBVIOUS
<1>2. requests \in Seq(S \cup {r}) /\ r \in S \cup {r}
  BY <1>1, WiderSeq
<1> QED BY <1>2, AppendFacts

LEMMA HttpFacts ==
  ASSUME HttpType
  PROVE  /\ Len(requests) \in Nat /\ DOMAIN requests = 1..Len(requests)
         /\ Len(replies) \in Nat /\ DOMAIN replies = 1..Len(replies)
         /\ Len(applied) \in Nat /\ DOMAIN applied = 1..Len(applied)
         /\ \A a \in DOMAIN applied : applied[a] \in Nat /\ applied[a] \in Range(applied)
         /\ ~Waiting => Len(requests) = Len(replies)
         /\ Waiting => Len(requests) = Len(replies) + 1
         /\ accepted \subseteq 1..Len(requests)
<1>1. PICK S : requests \in Seq(S)
  BY DEF HttpType
<1>2. Len(requests) \in Nat /\ DOMAIN requests = 1..Len(requests)
  BY <1>1
<1>3. /\ Len(replies) \in Nat /\ DOMAIN replies = 1..Len(replies)
      /\ Len(applied) \in Nat /\ DOMAIN applied = 1..Len(applied)
      /\ \A a \in DOMAIN applied : applied[a] \in Nat
  BY DEF HttpType
<1>4. \A a \in DOMAIN applied : applied[a] \in Range(applied)
  BY DEF Range
<1>5. accepted \subseteq DOMAIN requests
  BY DEF HttpType
<1>6. /\ ~Waiting => Len(requests) = Len(replies)
      /\ Waiting => Len(requests) = Len(replies) + 1
  BY DEF HttpType, Waiting
<1> QED BY <1>2, <1>3, <1>4, <1>5, <1>6

\* At most one request has no reply yet.
LEMMA Lengths ==
  ASSUME HttpType
  PROVE  /\ Len(requests) \in Nat /\ DOMAIN requests = 1..Len(requests)
         /\ Len(replies) \in Nat /\ DOMAIN replies = 1..Len(replies)
         /\ Len(requests) = Len(replies) \/ Len(requests) = Len(replies) + 1
         /\ \A n \in DOMAIN requests : n \in Nat
         /\ DOMAIN replies \subseteq DOMAIN requests
<1>1. /\ Len(requests) \in Nat /\ DOMAIN requests = 1..Len(requests)
      /\ Len(replies) \in Nat /\ DOMAIN replies = 1..Len(replies)
  BY HttpFacts
<1>2. Len(requests) = Len(replies) \/ Len(requests) = Len(replies) + 1
  BY DEF HttpType, Waiting
<1>3. PICK S : requests \in Seq(S)
  BY DEF HttpType
<1>4. replies \in Seq(Reported)
  BY DEF HttpType
<1>5. DOMAIN replies \subseteq DOMAIN requests /\ \A n \in DOMAIN requests : n \in Nat
  BY <1>2, <1>3, <1>4, OneLonger
<1> QED BY <1>1, <1>2, <1>5

\* A request is processed, once.
LEMMA ApplyFacts ==
  ASSUME HttpType, NEW n \in DOMAIN requests, Apply(n)
  PROVE  /\ n \notin Range(applied) /\ n \in Nat
         /\ applied' \in Seq(Nat)
         /\ DOMAIN applied' = 1..(Len(applied) + 1)
         /\ \A a \in 1..Len(applied) : applied'[a] = applied[a]
         /\ applied'[Len(applied) + 1] = n
         /\ Range(applied') = Range(applied) \cup {n}
         /\ accepted \subseteq accepted' /\ accepted' \subseteq accepted \cup {n}
         /\ UNCHANGED <<cli, requests, replies, gone, pc>>
         /\ live \subseteq live'
<1>1. /\ n \notin Range(applied) /\ n \in Nat /\ applied' = Append(applied, n)
      /\ accepted \subseteq accepted' /\ accepted' \subseteq accepted \cup {n}
      /\ UNCHANGED <<cli, requests, replies, gone, pc>> /\ live \subseteq live'
  <2>1. n \in Nat
    BY Lengths
  <2>2. /\ n \notin Range(applied) /\ applied' = Append(applied, n)
        /\ UNCHANGED <<cli, requests, replies, gone, pc>>
    BY DEF Apply, loopVars
  <2>3. /\ accepted \subseteq accepted' /\ accepted' \subseteq accepted \cup {n}
        /\ live \subseteq live'
    BY DEF Apply
  <2> QED BY <2>1, <2>2, <2>3
<1>2. applied \in Seq(Nat)
  BY DEF HttpType
<1>3. /\ applied' \in Seq(Nat)
      /\ DOMAIN applied' = 1..(Len(applied) + 1) /\ DOMAIN applied = 1..Len(applied)
      /\ \A a \in 1..Len(applied) : applied'[a] = applied[a]
      /\ applied'[Len(applied) + 1] = n
      /\ Len(applied) \in Nat
  BY <1>1, <1>2, AppendFacts
<1>4. Range(applied') = Range(applied) \cup {n}
  BY <1>3 DEF Range
<1> QED BY <1>1, <1>3, <1>4

\* The user is told of the request waited for.
LEMMA TellingFacts ==
  ASSUME HttpType, NEW reply \in Reported, Telling(reply)
  PROVE  /\ replies' \in Seq(Reported) /\ pc' = "prompt"
         /\ Len(replies') = Len(replies) + 1 /\ Len(requests) = Len(replies) + 1
         /\ DOMAIN replies' = 1..(Len(replies) + 1)
         /\ \A n \in 1..Len(replies) : replies'[n] = replies[n]
         /\ replies'[Len(replies) + 1] = reply
<1>1. replies \in Seq(Reported) /\ replies' = Append(replies, reply) /\ pc' = "prompt" /\ Waiting
  BY DEF HttpType, Telling, Tell
<1>2. Len(requests) = Len(replies) + 1
  BY <1>1, HttpFacts
<1> QED BY <1>1, <1>2, AppendFacts

\* With it the last request has a reply, the others keep theirs.
LEMMA TellingAt ==
  ASSUME HttpType, NEW reply \in Reported, Telling(reply)
  PROVE  /\ DOMAIN replies' = 1..Len(requests) /\ replies'[Len(requests)] = reply
         /\ \A n \in DOMAIN replies : replies'[n] = replies[n]
         /\ \A n \in 1..Len(requests) : n \in DOMAIN replies \/ n = Len(requests)
<1>1. replies \in Seq(Reported) /\ replies' = Append(replies, reply)
  BY DEF HttpType, Telling, Tell
<1>2. Len(requests) = Len(replies) + 1
  BY TellingFacts
<1> QED BY <1>1, <1>2, AppendedAt

LEMMA HttpTypeStep == HttpType /\ [Next]_vars => HttpType'
<1> SUFFICES ASSUME HttpType, [Next]_vars PROVE HttpType'
  OBVIOUS
<1>1. CASE Sending
  <2>1. PICK r : requests' = Append(requests, r) BY <1>1 DEF Sending
  <2>2. /\ \E S : requests' \in Seq(S)
        /\ Len(requests') = Len(requests) + 1
        /\ DOMAIN requests \subseteq DOMAIN requests'
    BY <2>1, RequestsGrow DEF HttpType
  <2>3. Len(requests') = Len(replies) + 1
    BY <1>1, <2>2, HttpFacts DEF Sending
  <2> QED BY <1>1, <2>2, <2>3 DEF Sending, HttpType, Waiting, Range
<1>2. CASE Aside
  BY <1>2 DEF Aside, HttpType, Range
<1>3. ASSUME NEW n \in DOMAIN requests, Apply(n) PROVE HttpType'
  <2>1. /\ applied' \in Seq(Nat) /\ Range(applied') \subseteq DOMAIN requests'
        /\ accepted' \subseteq Range(applied') /\ accepted \subseteq accepted'
        /\ UNCHANGED <<cli, requests, replies, pc>>
    BY <1>3, ApplyFacts DEF HttpType
  <2> QED BY <2>1 DEF HttpType, Waiting
<1>4. ASSUME NEW reply \in Reported, Telling(reply) PROVE HttpType'
  <2>1. UNCHANGED <<cli, requests, applied, accepted>>
    BY <1>4 DEF Telling
  <2> QED BY <1>4, <2>1, TellingFacts DEF HttpType, Waiting, Range
<1> QED BY <1>1, <1>2, <1>3, <1>4, HttpCases

-----------------------------------------------------------------------------
\* A response shown as such belongs to a request the service accepted.
ToldAccepted == \A n \in DOMAIN replies : replies[n] = "response" => n \in accepted

LEMMA ResponseStep ==
  HttpType /\ ToldAccepted /\ [Next]_vars => ToldAccepted'
<1> SUFFICES ASSUME HttpType, ToldAccepted, [Next]_vars PROVE ToldAccepted'
  OBVIOUS
<1>1. CASE Sending \/ Aside
  BY <1>1 DEF Sending, Aside, ToldAccepted
<1>2. ASSUME NEW n \in DOMAIN requests, Apply(n) PROVE ToldAccepted'
  BY <1>2, ApplyFacts DEF ToldAccepted
<1>3. ASSUME NEW reply \in Reported, Telling(reply) PROVE ToldAccepted'
  <2>1. accepted' = accepted /\ (reply = "response" => Len(requests) \in accepted)
    BY <1>3 DEF Telling
  <2>2. /\ DOMAIN replies' = 1..Len(requests) /\ replies'[Len(requests)] = reply
        /\ \A n \in DOMAIN replies : replies'[n] = replies[n]
        /\ \A n \in 1..Len(requests) : n \in DOMAIN replies \/ n = Len(requests)
    BY <1>3, TellingAt
  <2> QED BY <2>1, <2>2 DEF ToldAccepted
<1> QED BY <1>1, <1>2, <1>3, HttpCases

LEMMA HttpInit == Init => HttpType /\ ToldAccepted
<1> SUFFICES ASSUME Init PROVE HttpType /\ ToldAccepted
  OBVIOUS
<1>1. requests = <<>> /\ replies = <<>> /\ applied = <<>> /\ accepted = {} /\ pc = "prompt"
  BY DEF Init
<1>2. /\ \E S : requests \in Seq(S)
      /\ replies \in Seq(Reported) /\ applied \in Seq(Nat) /\ Range(applied) = {}
  BY <1>1 DEF Range
<1> QED BY <1>1, <1>2 DEF HttpType, Waiting, ToldAccepted

-----------------------------------------------------------------------------
\* No request is processed twice.
AppliedOnce == \A i, j \in DOMAIN applied : applied[i] = applied[j] => i = j

LEMMA AppliedStep ==
  HttpType /\ ToldAccepted /\ AppliedOnce /\ AppliedAsTyped /\ [Next]_vars
    => AppliedOnce' /\ AppliedAsTyped'
<1> SUFFICES ASSUME HttpType, ToldAccepted, AppliedOnce, AppliedAsTyped, [Next]_vars
             PROVE  AppliedOnce' /\ AppliedAsTyped'
  OBVIOUS
<1>1. CASE Sending \/ Aside
  BY <1>1 DEF Sending, Aside, AppliedOnce, AppliedAsTyped
<1>2. ASSUME NEW n \in DOMAIN requests, Apply(n) PROVE AppliedOnce' /\ AppliedAsTyped'
  <2>1. /\ n \notin Range(applied) /\ Len(applied) \in Nat
        /\ DOMAIN applied = 1..Len(applied)
        /\ DOMAIN applied' = 1..(Len(applied) + 1)
        /\ \A a \in 1..Len(applied) : applied'[a] = applied[a]
        /\ applied'[Len(applied) + 1] = n
        /\ UNCHANGED replies
    BY <1>2, ApplyFacts, HttpFacts
  <2>2. \A a \in 1..Len(applied) : applied[a] # n
    BY <2>1 DEF Range
  <2>3. ~(n \in DOMAIN replies /\ replies[n] = "response")
    BY <2>1 DEF ToldAccepted, HttpType
  <2>4. AppliedOnce'
    BY <2>1, <2>2 DEF AppliedOnce
  <2>5. AppliedAsTyped'
    <3> SUFFICES ASSUME NEW i \in DOMAIN applied', NEW j \in DOMAIN applied', i < j,
                        applied'[j] \in DOMAIN replies, replies[applied'[j]] = "response"
                 PROVE  applied'[i] < applied'[j]
      BY <2>1 DEF AppliedAsTyped
    <3>1. i \in DOMAIN applied /\ j \in DOMAIN applied
      BY <2>1, <2>3
    <3> QED BY <2>1, <3>1 DEF AppliedAsTyped
  <2> QED BY <2>4, <2>5
<1>3. ASSUME NEW reply \in Reported, Telling(reply) PROVE AppliedOnce' /\ AppliedAsTyped'
  <2>1. UNCHANGED <<requests, applied>>
    BY <1>3 DEF Telling
  <2>2. AppliedAsTyped'
    <3> SUFFICES ASSUME NEW i \in DOMAIN applied, NEW j \in DOMAIN applied, i < j,
                        applied[j] \in DOMAIN replies', replies'[applied[j]] = "response"
                 PROVE  applied[i] < applied[j]
      BY <2>1 DEF AppliedAsTyped
    <3>0. /\ DOMAIN replies' = 1..Len(requests)
          /\ \A n \in DOMAIN replies : replies'[n] = replies[n]
          /\ \A n \in 1..Len(requests) : n \in DOMAIN replies \/ n = Len(requests)
      BY <1>3, TellingAt
    <3>1. CASE applied[j] \in DOMAIN replies
      BY <3>0, <3>1 DEF AppliedAsTyped
    <3>2. CASE applied[j] = Len(requests)
      <4>1. applied[i] \in DOMAIN requests /\ applied[i] # applied[j]
        BY HttpFacts DEF HttpType, AppliedOnce
      <4> QED BY <3>2, <4>1, HttpFacts
    <3> QED BY <3>0, <3>1, <3>2
  <2> QED BY <2>1, <2>2 DEF AppliedOnce
<1> QED BY <1>1, <1>2, <1>3, HttpCases

\* AppliedAsTyped: a request whose response is shown was processed before
\* every one typed after it; one typed earlier that the client gave up on may
\* still come later.
THEOREM InOrder == Spec => []AppliedAsTyped
<1>1. Init => AppliedOnce /\ AppliedAsTyped
  BY DEF Init, AppliedOnce, AppliedAsTyped
<1> QED BY HttpInit, HttpTypeStep, ResponseStep, AppliedStep, <1>1, PTL DEF Spec

-----------------------------------------------------------------------------
LEMMA ReadyStep == HttpType /\ IndexReadyAtPrompt /\ [Next]_vars => IndexReadyAtPrompt'
<1> SUFFICES ASSUME HttpType, IndexReadyAtPrompt, [Next]_vars,
                    NEW n \in DOMAIN replies', replies'[n] = "response"
             PROVE  (IF cli' = "elasticsearch" THEN Created(requests'[n]) ELSE {})
                      \subseteq live' \cup gone'
  BY DEF IndexReadyAtPrompt, Awaited, Created
<1> DEFINE Safe == (IF cli = "elasticsearch" THEN Created(requests[n]) ELSE {}) \subseteq live \cup gone
<1>1. n \in DOMAIN replies /\ replies[n] = "response" => n \in DOMAIN requests /\ Safe
  <2> SUFFICES ASSUME n \in DOMAIN replies, replies[n] = "response"
               PROVE  n \in DOMAIN requests /\ Safe
    OBVIOUS
  <2>1. DOMAIN replies \subseteq DOMAIN requests
    BY Lengths
  <2> QED BY <2>1 DEF IndexReadyAtPrompt, Awaited
<1>2. CASE Sending
  <2>1. PICK r : requests' = Append(requests, r) BY <1>2 DEF Sending
  <2>2. \A m \in DOMAIN requests : requests'[m] = requests[m]
    BY <2>1, RequestsGrow DEF HttpType
  <2> QED BY <1>1, <1>2, <2>2 DEF Sending
<1>3. CASE Aside
  BY <1>1, <1>3 DEF Aside
<1>4. ASSUME NEW m \in DOMAIN requests, Apply(m)
      PROVE  (IF cli' = "elasticsearch" THEN Created(requests'[n]) ELSE {}) \subseteq live' \cup gone'
  BY <1>1, <1>4, ApplyFacts
<1>5. ASSUME NEW reply \in Reported, Telling(reply)
      PROVE  (IF cli' = "elasticsearch" THEN Created(requests'[n]) ELSE {}) \subseteq live' \cup gone'
  <2>1. UNCHANGED <<cli, requests, live>> /\ gone \subseteq gone' \cup live
    BY <1>5 DEF Telling
  <2>0. /\ DOMAIN replies' = 1..Len(requests) /\ replies'[Len(requests)] = reply
        /\ \A k \in DOMAIN replies : replies'[k] = replies[k]
        /\ \A k \in 1..Len(requests) : k \in DOMAIN replies \/ k = Len(requests)
    BY <1>5, TellingAt
  <2>2. CASE n \in DOMAIN replies
    BY <1>1, <2>0, <2>1, <2>2
  <2>3. CASE n = Len(requests)
    <3>1. replies'[n] = reply
      BY <2>0, <2>3
    <3>2. Awaited(requests[n]) \subseteq live
      BY <1>5, <2>3, <3>1 DEF Telling
    <3> QED BY <2>1, <3>2 DEF Awaited
  <2> QED BY <2>0, <2>2, <2>3
<1> QED BY <1>2, <1>3, <1>4, <1>5, HttpCases

\* IndexReadyAtPrompt: once the prompt is back without a warning, the index
\* just created is ready or was lost after it was last reported ready.
THEOREM IndexReady == Spec => []IndexReadyAtPrompt
<1>1. Init => IndexReadyAtPrompt
  BY DEF Init, IndexReadyAtPrompt
<1> QED BY HttpInit, HttpTypeStep, ReadyStep, <1>1, PTL DEF Spec

-----------------------------------------------------------------------------
\* A name on the list that is not live any more ceased to be since.
ListInv == /\ live \in SUBSET Names
           /\ table \in [listed : SUBSET Names, todo : SUBSET Names,
                         rows : SUBSET Names, skipped : SUBSET Names]
           /\ table.todo \subseteq table.listed
           /\ table.listed \subseteq live \cup gone
           /\ ListingComplete

\* elasticsearch-cli has no such table.
NoListing == cli = "elasticsearch" => table = NoTable

LEMMA NoListingStep == HttpType /\ NoListing /\ [Next]_vars => NoListing'
<1> SUFFICES ASSUME HttpType, NoListing, [Next]_vars PROVE NoListing'
  OBVIOUS
<1> USE DEF loopVars, httpVars, serviceVars, readVars
<1>1. UNCHANGED cli
  BY HttpCases DEF Sending, Aside, Apply, Telling
<1>2. CASE UNCHANGED table
  BY <1>1, <1>2 DEF NoListing, NoTable
<1>3. CASE List \/ \E c \in Names : Lookup(c)
  <2>1. cli = "qdrant"
    BY <1>3 DEF List, Lookup, HttpType
  <2> QED BY <1>1, <2>1 DEF NoListing
<1>4. CASE Render
  BY <1>4 DEF Render, NoListing, NoTable
<1>5. CASE Loop
  <2>1. UNCHANGED readVars
    BY <1>5 DEF Loop, BackslashCommand, SkipBlank, AddLine, SingleLine, LastLine,
       ExecuteCommand, EndOfInput
  <2> QED BY <1>2, <2>1
<1>6. CASE \/ Reply \/ Timeout \/ PollReady \/ PollAgain \/ ShowData \/ ListNothing
           \/ Service \/ Others \/ UNCHANGED vars
  BY <1>2, <1>6 DEF Reply, Timeout, PollReady, PollAgain, ShowData, ListNothing, Service,
     Apply, Others, Appear, Vanish, vars
<1> QED BY <1>3, <1>4, <1>5, <1>6 DEF Next, Client

LEMMA ListInvStep == NoListing /\ ListInv /\ [Next]_vars => ListInv'
<1> SUFFICES ASSUME NoListing, ListInv, [Next]_vars PROVE ListInv'
  OBVIOUS
<1> USE DEF loopVars, httpVars, serviceVars, readVars
<1>1. ASSUME UNCHANGED <<live, gone, table>> PROVE ListInv'
  BY <1>1 DEF ListInv, ListingComplete
<1>2. CASE Loop
  <2>1. UNCHANGED readVars
    BY <1>2 DEF Loop, BackslashCommand, SkipBlank, AddLine, SingleLine, LastLine,
       ExecuteCommand, EndOfInput
  <2> QED BY <1>1, <2>1
<1>3. CASE Reply \/ Timeout \/ PollAgain \/ ShowData \/ ListNothing \/ UNCHANGED vars
  BY <1>1, <1>3 DEF Reply, Timeout, PollAgain, ShowData, ListNothing, vars
<1>10. CASE PollReady
  <2>1. UNCHANGED <<live, table>> /\ gone' = gone \ Awaited(Last(requests))
        /\ Awaited(Last(requests)) \subseteq live
    BY <1>10 DEF PollReady, TellReady
  <2>2. CASE cli = "elasticsearch"
    <3>1. table = [listed |-> {}, todo |-> {}, rows |-> {}, skipped |-> {}]
      BY <2>2 DEF NoListing, NoTable
    <3> QED BY <2>1, <3>1 DEF ListInv, ListingComplete
  <2>3. CASE cli # "elasticsearch"
    <3>1. gone' = gone
      BY <2>1, <2>3 DEF Awaited
    <3> QED BY <1>1, <2>1, <3>1
  <2> QED BY <2>2, <2>3
<1>4. CASE List
  <2>1. table' = [listed |-> live, todo |-> live, rows |-> {}, skipped |-> {}]
    BY <1>4 DEF List, NoTable
  <2>2. live' = live
    BY <1>4 DEF List
  <2> QED BY <2>1, <2>2 DEF ListInv, ListingComplete
<1>5. ASSUME NEW c \in Names, Lookup(c) PROVE ListInv'
  <2>1. UNCHANGED <<live, gone>> /\ c \in table.todo
    BY <1>5 DEF Lookup
  <2>2. CASE table' = [table EXCEPT !.todo = @ \ {c}, !.rows = @ \cup {c}]
    <3>1. /\ table'.listed = table.listed /\ table'.todo = table.todo \ {c}
          /\ table'.rows = table.rows \cup {c} /\ table'.skipped = table.skipped
          /\ table' \in [listed : SUBSET Names, todo : SUBSET Names,
                         rows : SUBSET Names, skipped : SUBSET Names]
      BY <2>2 DEF ListInv
    <3> QED BY <2>1, <3>1 DEF ListInv, ListingComplete
  <2>3. CASE table' = [table EXCEPT !.todo = @ \ {c}, !.skipped = @ \cup ({c} \cap live)]
    <3>1. /\ table'.listed = table.listed /\ table'.todo = table.todo \ {c}
          /\ table'.rows = table.rows /\ table'.skipped = table.skipped \cup ({c} \cap live)
          /\ table' \in [listed : SUBSET Names, todo : SUBSET Names,
                         rows : SUBSET Names, skipped : SUBSET Names]
      BY <2>3 DEF ListInv
    <3>2. c \in live \cup gone
      BY <2>1 DEF ListInv
    <3> QED BY <2>1, <3>1, <3>2 DEF ListInv, ListingComplete
  <2> QED BY <1>5, <2>2, <2>3 DEF Lookup
<1>6. CASE Render
  <2>1. table' = [listed |-> {}, todo |-> {}, rows |-> {}, skipped |-> {}] /\ live' = live
    BY <1>6 DEF Render, NoTable
  <2> QED BY <2>1 DEF ListInv, ListingComplete
<1>7. ASSUME NEW n \in DOMAIN requests, Apply(n) PROVE ListInv'
  <2>1. UNCHANGED <<gone, table>> /\ live \subseteq live' /\ live' \subseteq live \cup Created(requests[n])
    BY <1>7 DEF Apply
  <2>2. Created(requests[n]) \subseteq Names
    BY DEF Created, Names
  <2> QED BY <2>1, <2>2 DEF ListInv, ListingComplete
<1>8. ASSUME NEW c \in Names, Appear(c) PROVE ListInv'
  BY <1>8 DEF Appear, ListInv, ListingComplete
<1>9. ASSUME NEW c \in Names, Vanish(c) PROVE ListInv'
  <2>1. live' = live \ {c} /\ table' = table /\ gone \subseteq gone'
    BY <1>9 DEF Vanish
  <2>2. CASE table = NoTable
    BY <2>1, <2>2 DEF NoTable, ListInv, ListingComplete
  <2>3. CASE table # NoTable
    <3>1. gone' = gone \cup {c}
      BY <1>9, <2>3 DEF Vanish
    <3> QED BY <2>1, <3>1 DEF ListInv, ListingComplete
  <2> QED BY <2>2, <2>3
<1> QED
  BY <1>2, <1>3, <1>4, <1>5, <1>6, <1>7, <1>8, <1>9, <1>10 DEF Next, Client, Service, Others

\* ListingComplete: the table of collections lacks only those that ceased to
\* be while it was made and those whose own lookup failed.
THEOREM ListingInFull == Spec => []ListingComplete
<1>1. Init => ListInv /\ NoListing
  BY DEF Init, ListInv, ListingComplete, NoTable, NoListing
<1>2. ListInv => ListingComplete
  BY DEF ListInv
<1> QED BY HttpInit, HttpTypeStep, NoListingStep, ListInvStep, <1>1, <1>2, PTL DEF Spec
-----------------------------------------------------------------------------
(* TypeOK.                                                                 *)

Requested == [method : STRING, path : STRING, body : Seq(STRING), semi : BOOLEAN]

\* The part of TypeOK that neither LoopType nor HttpType nor ListInv says.
RestOfType == /\ Len(typed) <= MaxLines
              /\ text \in Seq(STRING)
              /\ requests \in Seq(Requested)
              /\ timeouts \in 0..MaxTimeouts
              /\ cli \in {"qdrant", "elasticsearch"}
              /\ gone \in SUBSET Names
              /\ polls \in 0..MaxPolls
              /\ pc = "polling" => polls < MaxPolls
              /\ pc \in {"prompt", "waiting", "polling", "listing", "reading",
                         "done", "crashed"}

\* SplitN of a command of two or more words gives a request.
LEMMA RequestType ==
  ASSUME NEW w \in Seq(STRING), Len(w) >= 2, NEW semi \in BOOLEAN
  PROVE  Request(w, semi) \in Requested
<1>1. Len(w) \in Nat /\ w[1] \in STRING /\ w[2] \in STRING
  OBVIOUS
<1>2. \A i \in 3..Len(w) : w[i] \in STRING
  OBVIOUS
<1>3. 3 \in Int /\ Len(w) \in Int
  BY <1>1
<1>4. SubSeq(w, 3, Len(w)) \in Seq(STRING)
  BY <1>2, <1>3, SubSeqProperties
<1>5. Path(w, semi) \in STRING
  BY <1>1, PathsAssumption DEF Path
<1> QED BY <1>1, <1>4, <1>5 DEF Request, Requested

\* A command of any words leaves the rest of TypeOK as it is.
LEMMA CommandType ==
  ASSUME RestOfType, pc = "prompt", NEW w \in Seq(STRING), NEW semi \in BOOLEAN, NEW q,
         ExecuteCommand(q, w, semi)
  PROVE  /\ requests' \in Seq(Requested)
         /\ pc' \in {"prompt", "waiting", "crashed"}
         /\ UNCHANGED <<timeouts, cli, gone, polls>>
<1> USE DEF readVars, serviceVars, httpVars
<1>1. CASE Usage(w) \/ NoRequest(w, semi)
  BY <1>1 DEF ExecuteCommand, Usage, NoRequest, RestOfType
<1>2. CASE Send(w, semi)
  <2>1. Request(w, semi) \in Requested
    BY <1>2, RequestType DEF Send
  <2>2. requests' = Append(requests, Request(w, semi)) /\ requests \in Seq(Requested)
    BY <1>2 DEF Send, RestOfType
  <2>3. requests' \in Seq(Requested)
    BY <2>1, <2>2, AppendFacts
  <2> QED BY <1>2, <2>3 DEF Send, ExecuteCommand
<1> QED BY <1>1, <1>2 DEF ExecuteCommand

\* A line read makes the input longer by one, up to the bound.
LEMMA ReadType ==
  ASSUME LoopType, NEW l \in Lines, Read(l)
  PROVE  /\ Len(typed') <= MaxLines /\ pc = "prompt"
         /\ l.words \in Seq(STRING) /\ l.semi \in BOOLEAN
<1>1. Len(typed') = Len(typed) + 1 /\ Len(typed) \in Nat
  BY ReadGrows DEF Here
<1>2. l.words \in Seq(STRING) /\ l.semi \in BOOLEAN
  BY LinesAssumption
<1> QED BY <1>1, <1>2, BoundsAssumption DEF Read

LEMMA RestOfTypeStep ==
  LoopType /\ HttpType /\ ListInv /\ RestOfType /\ [Next]_vars => RestOfType'
<1> SUFFICES ASSUME LoopType, HttpType, ListInv, RestOfType, [Next]_vars PROVE RestOfType'
  OBVIOUS
<1> USE DEF loopVars, httpVars, serviceVars, readVars
<1>1. ASSUME NEW l \in Lines, BackslashCommand(l) PROVE RestOfType'
  <2>1. /\ Read(l) /\ UNCHANGED <<text, requests, timeouts, cli, gone, polls>>
        /\ pc' \in {"prompt", "done", "listing", "reading"}
    BY <1>1 DEF BackslashCommand, Read
  <2> QED BY <2>1, ReadType DEF RestOfType
<1>2. ASSUME NEW l \in Lines, SkipBlank(l) PROVE RestOfType'
  <2>1. Read(l) /\ UNCHANGED <<text, requests, timeouts, cli, gone, polls, pc>>
    BY <1>2 DEF SkipBlank
  <2> QED BY <2>1, ReadType DEF RestOfType
<1>3. ASSUME NEW l \in Lines, AddLine(l) PROVE RestOfType'
  <2>1. /\ Read(l) /\ UNCHANGED <<requests, timeouts, cli, gone, polls, pc>>
        /\ text' = text \o l.words
    BY <1>3 DEF AddLine
  <2>2. text' \in Seq(STRING)
    BY <2>1, ReadType, ConcatProperties DEF RestOfType
  <2> QED BY <2>1, <2>2, ReadType DEF RestOfType
<1>4. ASSUME NEW l \in Lines, SingleLine(l) PROVE RestOfType'
  <2>1. Read(l) /\ text' = text /\ ExecuteCommand(<<Here>>, l.words, FALSE)
    BY <1>4 DEF SingleLine
  <2>2. /\ requests' \in Seq(Requested) /\ pc' \in {"prompt", "waiting", "crashed"}
        /\ UNCHANGED <<timeouts, cli, gone, polls>>
    BY <2>1, ReadType, CommandType
  <2> QED BY <2>1, <2>2, ReadType DEF RestOfType
<1>5. ASSUME NEW l \in Lines, LastLine(l) PROVE RestOfType'
  <2>1. /\ Read(l) /\ text' = <<>>
        /\ ExecuteCommand(Append(builder, Here), text \o l.words, TRUE)
    BY <1>5 DEF LastLine
  <2>2. text \o l.words \in Seq(STRING)
    BY <2>1, ReadType, ConcatProperties DEF RestOfType
  <2>3. /\ requests' \in Seq(Requested) /\ pc' \in {"prompt", "waiting", "crashed"}
        /\ UNCHANGED <<timeouts, cli, gone, polls>>
    BY <2>1, <2>2, ReadType, CommandType
  <2> QED BY <2>1, <2>3, ReadType DEF RestOfType
<1>6. CASE EndOfInput \/ ShowData \/ ListNothing \/ UNCHANGED vars
  <2>1. /\ UNCHANGED <<typed, text, requests, timeouts, cli, gone, polls>>
        /\ pc' = pc \/ pc' \in {"done", "prompt"}
    BY <1>6 DEF EndOfInput, ShowData, ListNothing, vars
  <2> QED BY <2>1 DEF RestOfType
<1>7. CASE Reply
  <2>1. /\ UNCHANGED <<typed, text, requests, timeouts, cli, gone>> /\ polls' = 0
        /\ pc' \in {"prompt", "polling"}
    BY <1>7 DEF Reply, Tell
  <2> QED BY <2>1, BoundsAssumption DEF RestOfType
<1>8. CASE Timeout
  <2>1. /\ UNCHANGED <<typed, text, requests, cli, gone, polls>> /\ pc' = "prompt"
        /\ timeouts < MaxTimeouts /\ timeouts' = timeouts + 1
    BY <1>8 DEF Timeout, Tell
  <2> QED BY <2>1, BoundsAssumption DEF RestOfType
<1>9. CASE PollReady
  <2>1. /\ UNCHANGED <<typed, text, requests, timeouts, cli, polls>> /\ pc' = "prompt"
        /\ gone' \subseteq gone
    BY <1>9 DEF PollReady, TellReady, Tell
  <2> QED BY <2>1 DEF RestOfType
<1>10. CASE PollAgain
  <2>1. /\ UNCHANGED <<typed, text, requests, timeouts, cli, gone>>
        /\ pc = "polling" /\ polls' = polls + 1
        /\ pc' = "prompt" \/ (pc' = "polling" /\ polls' < MaxPolls)
    BY <1>10 DEF PollAgain, Tell
  <2> QED BY <2>1, BoundsAssumption DEF RestOfType
<1>11. ASSUME List \/ Render PROVE RestOfType'
  <2>1. /\ UNCHANGED <<typed, text, requests, timeouts, cli, polls>> /\ gone' = {}
        /\ pc' = pc \/ pc' = "prompt"
    BY <1>11 DEF List, Render
  <2> QED BY <2>1 DEF RestOfType
<1>12. ASSUME NEW c \in Names, Lookup(c) \/ Appear(c) PROVE RestOfType'
  <2>1. UNCHANGED <<typed, text, requests, timeouts, cli, gone, polls, pc>>
    BY <1>12 DEF Lookup, Appear
  <2> QED BY <2>1 DEF RestOfType
<1>13. ASSUME NEW n \in DOMAIN requests, Apply(n) PROVE RestOfType'
  <2>1. UNCHANGED <<typed, text, requests, timeouts, cli, gone, polls, pc>>
    BY <1>13 DEF Apply
  <2> QED BY <2>1 DEF RestOfType
<1>14. ASSUME NEW c \in Names, Vanish(c) PROVE RestOfType'
  <2>1. /\ UNCHANGED <<typed, text, requests, timeouts, cli, polls, pc>>
        /\ gone' \subseteq gone \cup {c}
    BY <1>14 DEF Vanish
  <2> QED BY <2>1 DEF RestOfType
<1> QED
  BY <1>1, <1>2, <1>3, <1>4, <1>5, <1>6, <1>7, <1>8, <1>9, <1>10, <1>11, <1>12, <1>13, <1>14
  DEF Next, Loop, Client, Service, Others

\* TypeOK: whatever is typed, a request has a method, a path and words of a
\* body, and what was processed and accepted was sent.
THEOREM TypeCorrect == Spec => []TypeOK
<1> DEFINE TypeInv == /\ LoopType /\ BuilderFilled /\ inMultiLine \in BOOLEAN
                      /\ HttpType /\ NoListing /\ ListInv /\ RestOfType
<1>1. Init => TypeInv
  <2> SUFFICES ASSUME Init PROVE TypeInv
    OBVIOUS
  <2>1. /\ typed = <<>> /\ builder = <<>> /\ text = <<>> /\ queries = <<>> /\ requests = <<>>
        /\ inMultiLine = FALSE /\ timeouts = 0 /\ polls = 0 /\ gone = {}
        /\ live = {} /\ table = NoTable /\ pc = "prompt" /\ cli \in {"qdrant", "elasticsearch"}
    BY DEF Init
  <2>2. LoopType /\ BuilderFilled
    BY <2>1 DEF LoopType, BuilderFilled
  <2>3. ListInv /\ NoListing
    BY <2>1 DEF ListInv, ListingComplete, NoTable, NoListing
  <2>4. RestOfType
    BY <2>1, BoundsAssumption DEF RestOfType
  <2> QED BY <2>1, <2>2, <2>3, <2>4, HttpInit
<1>2. TypeInv /\ [Next]_vars => TypeInv'
  BY LoopTypeStep, HttpTypeStep, NoListingStep, ListInvStep, RestOfTypeStep
<1>3. TypeInv => TypeOK
  <2> SUFFICES ASSUME TypeInv PROVE TypeOK
    OBVIOUS
  <2>1. applied \in Seq(DOMAIN requests)
    <3>1. applied \in Seq(Nat) /\ \A a \in DOMAIN applied : applied[a] \in DOMAIN requests
      BY DEF HttpType, Range
    <3> QED BY <3>1
  <2> QED BY <2>1 DEF TypeOK, LoopType, HttpType, ListInv, RestOfType, Requested, Reported
<1> QED BY <1>1, <1>2, <1>3, PTL DEF Spec
=============================================================================
