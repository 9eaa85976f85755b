---------------------------- MODULE PgCliProofs ----------------------------
(* Proofs about PgCli: what is proved of the line loop and of the session  *)
(* each on its own holds of the two together.                              *)
EXTENDS PgCli, SequenceTheorems, FiniteSetTheorems, TLAPS

S == INSTANCE PgBlockProofs WITH MaxStmts <- MaxLines
R == INSTANCE SqlReplProofs WITH pc <- loop, Commands <- {"help", "tables"}

-----------------------------------------------------------------------------
\* The statements of PgCli are statements of PgSession.
LEMMA StatementsFit == S!BoundsAssumption /\ S!StatementsAssumption
<1>1. S!BoundsAssumption
  BY BoundsAssumption DEF S!BoundsAssumption
<1>2. S!StatementsAssumption
  BY DEF S!StatementsAssumption, S!Server!Ops, Statements, Queries, Plain, Insert
<1> QED BY <1>1, <1>2

\* The lines of PgCli are lines of SqlRepl.
LEMMA LinesFit == R!LinesAssumption /\ R!CommandsAssumption /\ R!MaxLinesAssumption
<1>1. R!LinesAssumption
  BY LinesAssumption, Zenon DEF R!LinesAssumption
<1>2. R!CommandsAssumption
  BY Zenon DEF R!CommandsAssumption
<1>3. R!MaxLinesAssumption
  BY BoundsAssumption DEF R!MaxLinesAssumption, BoundsAssumption
<1> QED BY <1>1, <1>2, <1>3

\* Whatever lines a query is made of, the server is sent a statement.
LEMMA SentIsStatement ==
  ASSUME NEW ls PROVE Sent(ls) \in Statements /\ Sent(ls).op # "TABLES"
<1>1. ASSUME NEW parts PROVE Meaning(parts) \in Queries
  BY DEF Meaning, Queries, Plain, Insert
<1>2. ASSUME NEW q \in Queries PROVE q \in Statements /\ q.op # "TABLES"
  BY DEF Queries, Statements, Plain, Insert
<1> QED BY <1>1, <1>2 DEF Sent

-----------------------------------------------------------------------------
\* Two names for each action of PgSession: Sess is the instance the model is
\* built from, S the one the theorems are about.
LEMMA SameSubmit == ASSUME NEW s, Sess!Submit(s) PROVE S!Submit(s)
BY DEF Sess!Submit, S!Submit, Sess!database, S!database

LEMMA SameClose == Sess!Close => S!Close
BY DEF Sess!Close, S!Close

LEMMA SameFaults ==
  Sess!CutConnection \/ Sess!StopServer \/ Sess!RestartServer => S!Next
BY DEF Sess!CutConnection, Sess!StopServer, Sess!RestartServer, Sess!Drop, Sess!database,
       S!CutConnection, S!StopServer, S!RestartServer, S!Drop, S!database, S!Next

LEMMA SameRun == Sess!Run => S!Run
<1>1. ASSUME Sess!Server!Execute(stmt) PROVE S!Server!Execute(stmt)
  BY <1>1 DEF Sess!Server!Execute, Sess!Server!Begin, Sess!Server!Commit,
       Sess!Server!Rollback, Sess!Server!Insert, Sess!Server!Select,
       Sess!Server!FailingSelect, Sess!Server!NoEffect, Sess!Server!Reject,
       Sess!Server!Succeed, Sess!Server!Fail, Sess!Server!Visible,
       S!Server!Execute, S!Server!Begin, S!Server!Commit, S!Server!Rollback,
       S!Server!Insert, S!Server!Select, S!Server!FailingSelect,
       S!Server!NoEffect, S!Server!Reject, S!Server!Succeed, S!Server!Fail,
       S!Server!Visible
<1> QED BY <1>1 DEF Sess!Run, S!Run

LEMMA SameClient == Sess!Client => S!Client
<1> USE DEF Sess!database, S!database, Sess!Show, S!Show, Sess!MaxTries, S!MaxTries
<1>1. Sess!Ping => S!Ping
  BY DEF Sess!Ping, S!Ping
<1>2. Sess!TakePooled \/ Sess!Dial \/ Sess!DialRefused
        => S!TakePooled \/ S!Dial \/ S!DialRefused
  BY DEF Sess!TakePooled, S!TakePooled, Sess!Dial, S!Dial, Sess!DialRefused, S!DialRefused
<1>3. Sess!BadConn \/ Sess!NetError => S!BadConn \/ S!NetError
  BY DEF Sess!BadConn, S!BadConn, Sess!NetError, S!NetError
<1>4. Sess!Deliver \/ Sess!RenderRows \/ Sess!RenderCutOff
        => S!Deliver \/ S!RenderRows \/ S!RenderCutOff
  BY DEF Sess!Deliver, S!Deliver, Sess!RenderRows, S!RenderRows,
         Sess!RenderCutOff, S!RenderCutOff
<1> QED BY <1>1, <1>2, <1>3, <1>4 DEF Sess!Client, S!Client

\* Every step of the CLI is a step of its session, or leaves it alone.
LEMMA SessionSteps == [Next]_vars => [S!Next]_(S!vars)
<1> SUFFICES ASSUME [Next]_vars PROVE S!Next \/ UNCHANGED S!vars
  OBVIOUS
<1>1. CASE ReadLine \/ UNCHANGED vars
  BY <1>1 DEF ReadLine, vars, session, S!vars
<1>2. CASE ShowTables
  <2>1. Plain("TABLES") \in Statements
    BY DEF Statements
  <2>2. S!Submit(Plain("TABLES"))
    BY <1>2, SameSubmit DEF ShowTables
  <2> QED BY <2>1, <2>2 DEF S!Next
<1>3. CASE ExecuteQuery
  <2>1. PICK l \in Lines : Sess!Submit(Sent(Append(LinesOf(multiline), l)))
    BY <1>3 DEF ExecuteQuery
  <2>2. S!Submit(Sent(Append(LinesOf(multiline), l)))
    BY <2>1, SameSubmit
  <2> QED BY <2>2, SentIsStatement DEF S!Next
<1>4. CASE Leave
  BY <1>4, SameClose DEF Leave, S!Next
<1>5. CASE SessionStep
  BY <1>5, SameClient, SameRun, SameFaults DEF SessionStep, S!Next
<1> QED BY <1>1, <1>2, <1>3, <1>4, <1>5 DEF Next

\* Every step of the CLI is a step of its line loop, or leaves it alone.
LEMMA LoopSteps == [Next]_vars => [R!Next]_(R!vars)
<1> SUFFICES ASSUME [Next]_vars PROVE R!Next \/ UNCHANGED R!vars
  OBVIOUS
<1> USE DEF Repl!Scan, R!Scan, Repl!Special, R!Special, Repl!Here, R!Here
<1>1. ASSUME NEW l \in Lines, Repl!RunCommand(l) PROVE R!Next
  <2>1. R!RunCommand(l)
    BY <1>1, Zenon DEF Repl!RunCommand, R!RunCommand
  <2> QED BY <2>1, Zenon DEF R!Next
<1>2. ASSUME NEW l \in Lines, Repl!SkipBlank(l) PROVE R!Next
  <2>1. R!SkipBlank(l)
    BY <1>2, Zenon DEF Repl!SkipBlank, R!SkipBlank
  <2> QED BY <2>1, Zenon DEF R!Next
<1>3. ASSUME NEW l \in Lines, Repl!AddLine(l) PROVE R!Next
  <2>1. R!AddLine(l)
    BY <1>3, Zenon DEF Repl!AddLine, R!AddLine
  <2> QED BY <2>1, Zenon DEF R!Next
<1>4. ASSUME NEW l \in Lines, Repl!Dispatch(l) PROVE R!Next
  <2>1. R!Dispatch(l)
    BY <1>4, Zenon DEF Repl!Dispatch, R!Dispatch
  <2> QED BY <2>1, Zenon DEF R!Next
<1>5. ASSUME NEW l \in Lines, Repl!Quit(l) PROVE R!Next
  <2>1. R!Quit(l)
    BY <1>5, Zenon DEF Repl!Quit, R!Quit
  <2> QED BY <2>1, Zenon DEF R!Next
<1>6. ASSUME Repl!EndOfInput PROVE R!Next
  BY <1>6, Zenon DEF Repl!EndOfInput, R!EndOfInput, R!Next
<1>7. CASE ReadLine
  BY <1>1, <1>2, <1>3, <1>7 DEF ReadLine
<1>8. CASE ShowTables
  BY <1>1, <1>8 DEF ShowTables
<1>9. CASE ExecuteQuery
  BY <1>4, <1>9 DEF ExecuteQuery
<1>10. CASE Leave
  BY <1>5, <1>6, <1>10 DEF Leave
<1>11. CASE SessionStep \/ UNCHANGED vars
  BY <1>11 DEF SessionStep, vars, repl, R!vars
<1> QED BY <1>7, <1>8, <1>9, <1>10, <1>11 DEF Next

\* The CLI is its line loop and its session, running together.
THEOREM Composition == Spec => R!Spec /\ S!Spec
<1>1. Init => R!Init /\ S!Init
  BY DEF Init, Repl!Init, R!Init, Sess!Init, S!Init
<1> QED BY <1>1, SessionSteps, LoopSteps, PTL DEF Spec, R!Spec, S!Spec

-----------------------------------------------------------------------------
\* The type invariant of the whole is that of its parts.
THEOREM TypeCorrect == Spec => []TypeOK
<1>1. R!Spec => []R!TypeOK
  BY LinesFit, R!TypeCorrect
<1>2. S!Spec => []S!TypeOK
  BY StatementsFit, S!TypeCorrect
<1>3. R!TypeOK /\ S!TypeOK => TypeOK
  BY DEF TypeOK, R!TypeOK, Repl!TypeOK, S!TypeOK, Sess!TypeOK, S!Server!Modes,
         Sess!Server!Modes, S!Server!Answer, Sess!Server!Answer, S!MaxTries,
         Sess!MaxTries
<1> QED BY <1>1, <1>2, <1>3, Composition, PTL

\* NothingLeftBehind: neither a statement without its terminator nor a block
\* left open has any effect once the CLI is gone.
THEOREM NothingRemains == Spec => []NothingLeftBehind
<1>1. S!Spec => []S!SettledAtExit
  BY StatementsFit, S!AllSettled
<1>2. S!SettledAtExit => NothingLeftBehind
  BY DEF S!SettledAtExit, NothingLeftBehind, S!InsertAcked, Sess!InsertAcked,
         S!InBlock, Sess!InBlock, S!OpenSince, Sess!OpenSince, S!Acked, Sess!Acked
<1> QED BY <1>1, <1>2, Composition, PTL

\* What the replies to typed statements mean holds in the whole CLI, whatever
\* is typed between them: no block is open that the user was not told of,
\* acknowledged INSERTs stay, and undisturbed blocks hold.
SessionPromises == /\ Sess!NoHiddenTransaction
                   /\ Sess!AckedInsertsDurable
                   /\ Sess!UndisturbedBlocksHold

THEOREM SessionsHold == Spec => []SessionPromises
<1>1. S!Spec => []S!NoHiddenTransaction /\ []S!AckedInsertsDurable
  BY StatementsFit, S!NothingHidden, S!InsertsDurable
<1>2. S!Spec => []S!UndisturbedBlocksHold
  BY StatementsFit, S!BlocksHold
<1> USE DEF S!Acked, Sess!Acked, S!OpenSince, Sess!OpenSince, S!InsertAcked, Sess!InsertAcked
<1>3. S!NoHiddenTransaction /\ S!AckedInsertsDurable
        => Sess!NoHiddenTransaction /\ Sess!AckedInsertsDurable
  BY DEF S!NoHiddenTransaction, Sess!NoHiddenTransaction, S!AckedInsertsDurable,
         Sess!AckedInsertsDurable, S!InBlock, Sess!InBlock
<1>4. S!UndisturbedBlocksHold => Sess!UndisturbedBlocksHold
  BY DEF S!UndisturbedBlocksHold, Sess!UndisturbedBlocksHold, S!CommitKept, Sess!CommitKept,
         S!RollbackDiscarded, Sess!RollbackDiscarded, S!WritesRead, Sess!WritesRead,
         S!JustTold, Sess!JustTold
<1> QED BY <1>1, <1>2, <1>3, <1>4, Composition, PTL DEF SessionPromises

-----------------------------------------------------------------------------
\* Answers and queries.
Reply == [stmt : Statements, ok : BOOLEAN, rows : SUBSET Rows]

LEMMA TypeFacts ==
  ASSUME TypeOK
  PROVE  /\ typed \in Seq(Lines) /\ multiline \in Seq(DOMAIN typed)
         /\ executed \in Seq(Seq(DOMAIN typed))
         /\ log \in Seq(Reply) /\ Len(log) \in Nat /\ DOMAIN log = 1..Len(log)
         /\ Len(executed) \in Nat /\ DOMAIN executed = 1..Len(executed)
BY DEF TypeOK, Repl!TypeOK, Sess!TypeOK, Reply

\* Answers are numbered from 1.
LEMMA Ranks ==
  ASSUME TypeOK
  PROVE  /\ IsFiniteSet(Answers) /\ Cardinality(Answers) \in Nat
         /\ \A i \in Answers : Rank(i) \in 1..Cardinality(Answers)
<1>1. IsFiniteSet(DOMAIN log) /\ Answers \subseteq DOMAIN log /\ DOMAIN log \subseteq Nat
  <2>1. Len(log) \in Nat /\ DOMAIN log = 1..Len(log)
    BY TypeFacts
  <2>2. IsFiniteSet(1..Len(log))
    BY <2>1, FS_Interval
  <2> QED BY <2>1, <2>2 DEF Answers
<1>2. IsFiniteSet(Answers) /\ Cardinality(Answers) \in Nat
  BY <1>1, FS_Subset, FS_CardinalityType
<1>3. ASSUME NEW i \in Answers PROVE Rank(i) \in 1..Cardinality(Answers)
  <2> DEFINE T == {j \in Answers : j <= i}
  <2>1. T \subseteq Answers /\ T # {}
    BY <1>1
  <2>2. IsFiniteSet(T) /\ Cardinality(T) <= Cardinality(Answers)
    BY <1>2, <2>1, FS_Subset
  <2>3. Cardinality(T) \in Nat /\ Cardinality(T) # 0
    BY <2>1, <2>2, FS_CardinalityType, FS_EmptySet
  <2>4. Rank(i) = Cardinality(T)
    BY DEF Rank
  <2> HIDE DEF T
  <2> QED BY <1>2, <2>2, <2>3, <2>4
<1> QED BY <1>2, <1>3

\* One more reply is one more answer, unless it is a reply to `tables`.
LEMMA OneMoreAnswer ==
  ASSUME TypeOK, NEW e, log' = Append(log, e), NEW n, n = Len(log) + 1
  PROVE  /\ \A i \in 1..Len(log) : log'[i] = log[i]
         /\ \A i \in Answers : Rank(i)' = Rank(i)
         /\ e.stmt.op = "TABLES" => Answers' = Answers
         /\ e.stmt.op # "TABLES" =>
              /\ Answers' = Answers \cup {n}
              /\ Cardinality(Answers') = Cardinality(Answers) + 1
              /\ Rank(n)' = Cardinality(Answers) + 1
              /\ log'[n] = e
<1>1. /\ n \in Nat /\ DOMAIN log = 1..Len(log) /\ DOMAIN log' = (1..Len(log)) \cup {n}
      /\ log'[n] = e /\ \A i \in 1..Len(log) : log'[i] = log[i] /\ i < n
  <2>1. log \in Seq(Reply) /\ Len(log) \in Nat /\ DOMAIN log = 1..Len(log)
    BY TypeFacts
  <2>2. log \in Seq(Reply \cup {e}) /\ e \in Reply \cup {e}
    BY <2>1, SeqMonotonic
  <2>3. /\ log' \in Seq(Reply \cup {e}) /\ Len(log') = Len(log) + 1
        /\ log'[Len(log) + 1] = e /\ \A i \in 1..Len(log) : log'[i] = log[i]
    BY <2>2, AppendProperties
  <2>4. DOMAIN log' = 1..(Len(log) + 1)
    BY <2>3, LenProperties
  <2> QED BY <2>1, <2>3, <2>4
<1>2. Answers' = IF e.stmt.op = "TABLES" THEN Answers ELSE Answers \cup {n}
  BY <1>1 DEF Answers
<1>3. n \notin Answers /\ Answers \subseteq 1..Len(log) /\ IsFiniteSet(Answers)
  BY <1>1, Ranks DEF Answers
<1>4. ASSUME NEW i \in Answers PROVE Rank(i)' = Rank(i)
  <2>1. i \in 1..Len(log) /\ ~(n <= i)
    BY <1>1, <1>3, TypeFacts
  <2>2. {j \in Answers' : j <= i} = {j \in Answers : j <= i}
    BY <1>2, <2>1
  <2> QED BY <2>2 DEF Rank
<1>5. CASE e.stmt.op # "TABLES"
  <2>1. {j \in Answers' : j <= n} = Answers'
    <3>1. \A j \in Answers' : j \in Nat /\ j <= n
      BY <1>1, <1>2, <1>3, TypeFacts
    <3> QED BY <3>1
  <2>2. Cardinality(Answers') = Cardinality(Answers) + 1
    BY <1>2, <1>3, <1>5, FS_AddElement
  <2> QED BY <1>1, <1>2, <1>4, <1>5, <2>1, <2>2 DEF Rank
<1> QED BY <1>1, <1>2, <1>4, <1>5

\* What a step of the session does to the log: nothing, or the statement
\* being executed is answered.
Answering == pc \in {"checkout", "sent", "reply", "rows"}
LEMMA SessionAnswers ==
  ASSUME SessionStep
  PROVE  /\ UNCHANGED <<repl, stmt>>
         /\ \/ log' = log /\ Answering' = Answering
            \/ /\ Answering /\ ~Answering'
               /\ \E ok, rows : log' = Append(log, [stmt |-> stmt, ok |-> ok, rows |-> rows])
<1> USE DEF Answering, Sess!database
<1>1. CASE Sess!Client
  <2>1. CASE Sess!Ping \/ Sess!TakePooled \/ Sess!Dial
    BY <2>1 DEF SessionStep, Sess!Ping, Sess!TakePooled, Sess!Dial
  <2>2. CASE Sess!DialRefused \/ Sess!NetError \/ Sess!RenderRows
    BY <2>2 DEF SessionStep, Sess!DialRefused, Sess!NetError, Sess!RenderRows, Sess!Show
  <2>3. CASE Sess!BadConn
    <3>1. UNCHANGED <<repl, stmt>> /\ pc \in {"sent", "reply"}
      BY <2>3 DEF SessionStep, Sess!BadConn
    <3>2. (pc' = "checkout" /\ log' = log) \/ Sess!Show(FALSE, {})
      BY <2>3 DEF Sess!BadConn
    <3>3. CASE pc' = "checkout" /\ log' = log
      BY <3>1, <3>3
    <3>4. CASE Sess!Show(FALSE, {})
      BY <3>1, <3>4 DEF Sess!Show
    <3> QED BY <3>1, <3>2, <3>3, <3>4
  <2>4. CASE Sess!Deliver
    <3>1. UNCHANGED <<repl, stmt>> /\ pc = "reply"
      BY <2>4 DEF SessionStep, Sess!Deliver
    <3>2. CASE answer.rows = {}
      BY <2>4, <3>1, <3>2 DEF Sess!Deliver, Sess!Show
    <3>3. CASE answer.rows # {}
      BY <2>4, <3>1, <3>3 DEF Sess!Deliver
    <3> QED BY <3>1, <3>2, <3>3
  <2>5. CASE Sess!RenderCutOff
    <3>1. UNCHANGED <<repl, stmt>> /\ pc = "rows"
      BY <2>5 DEF SessionStep, Sess!RenderCutOff
    <3>2. PICK got \in SUBSET answer.rows : Sess!Show(TRUE, got)
      BY <2>5 DEF Sess!RenderCutOff
    <3> QED BY <3>1, <3>2 DEF Sess!Show
  <2> QED BY <1>1, <2>1, <2>2, <2>3, <2>4, <2>5 DEF Sess!Client
<1>2. CASE Sess!Run
  BY <1>2 DEF SessionStep, Sess!Run
<1>3. CASE Sess!CutConnection \/ Sess!StopServer \/ Sess!RestartServer
  BY <1>3 DEF SessionStep, Sess!CutConnection, Sess!StopServer, Sess!RestartServer, Sess!Drop
<1> QED BY <1>1, <1>2, <1>3 DEF SessionStep

-----------------------------------------------------------------------------
\* The n-th answer is the answer to the n-th query, and only the query being
\* executed has no answer yet.
InTurn ==
  /\ \A i \in Answers : log[i].stmt = Sent(LinesAnswered(i))
  /\ Answering /\ stmt.op # "TABLES" =>
       /\ Len(executed) = Cardinality(Answers) + 1
       /\ stmt = Sent(LinesOf(executed[Len(executed)]))
  /\ ~(Answering /\ stmt.op # "TABLES") => Len(executed) = Cardinality(Answers)

\* Lines typed later do not change what a query is made of.
LEMMA LinesStay ==
  ASSUME TypeOK, NEW l, typed' = Append(typed, l), NEW q \in Seq(DOMAIN typed)
  PROVE  LinesOf(q)' = LinesOf(q)
<1>1. typed \in Seq(Lines \cup {l})
  BY TypeFacts, SeqMonotonic
<1>2. \A i \in DOMAIN typed : typed'[i] = typed[i]
  BY <1>1, AppendProperties, LenProperties
<1>3. \A k \in DOMAIN q : q[k] \in DOMAIN typed
  BY ElementOfSeq, LenProperties
<1> QED BY <1>2, <1>3 DEF LinesOf

\* A step that gives no answer and executes nothing.
LEMMA NoAnswer ==
  ASSUME TypeOK, InTurn, UNCHANGED <<executed, log>>,
         typed' = typed \/ \E l : typed' = Append(typed, l),
         \/ UNCHANGED stmt /\ Answering' = Answering
         \/ ~Answering /\ stmt'.op = "TABLES"
         \/ ~Answering /\ ~Answering'
  PROVE  InTurn'
<1>1. Answers' = Answers /\ \A i \in Answers : Rank(i)' = Rank(i)
  BY DEF Answers, Rank
<1>2. \A k \in DOMAIN executed : LinesOf(executed[k])' = LinesOf(executed[k])
  <2> SUFFICES ASSUME NEW k \in DOMAIN executed
               PROVE  LinesOf(executed[k])' = LinesOf(executed[k])
    OBVIOUS
  <2> DEFINE q == executed[k]
  <2>1. q \in Seq(DOMAIN typed) /\ q' = q
    BY TypeFacts, ElementOfSeq
  <2>2. CASE typed' = typed
    BY <2>1, <2>2 DEF LinesOf
  <2>3. CASE \E l : typed' = Append(typed, l)
    BY <2>1, <2>3, LinesStay
  <2> QED BY <2>2, <2>3
<1>3. ASSUME NEW i \in Answers PROVE LinesAnswered(i)' = LinesAnswered(i)
  <2>1. Rank(i) \in DOMAIN executed
    BY Ranks, TypeFacts DEF InTurn
  <2>2. LinesAnswered(i)' = LinesOf(executed[Rank(i)])'
    BY DEF LinesAnswered
  <2>3. LinesOf(executed[Rank(i)])' = LinesOf(executed[Rank(i)])
    <3> DEFINE k == Rank(i)
    <3>1. k' = k
      BY <1>1
    <3> HIDE DEF k
    <3> QED BY <1>1, <1>2, <2>1 DEF k
  <2> QED BY <2>2, <2>3 DEF LinesAnswered
<1>4. \A i \in Answers' : log'[i].stmt = Sent(LinesAnswered(i)')
  BY <1>1, <1>3 DEF InTurn
<1>5. \/ /\ ~(Answering /\ stmt.op # "TABLES")
         /\ ~(Answering' /\ stmt'.op # "TABLES")
      \/ Answering' = Answering /\ stmt' = stmt
  OBVIOUS
<1>6. CASE ~(Answering /\ stmt.op # "TABLES") /\ ~(Answering' /\ stmt'.op # "TABLES")
  BY <1>1, <1>4, <1>6 DEF InTurn
<1>7. CASE (Answering /\ stmt.op # "TABLES") /\ Answering' = Answering /\ stmt' = stmt
  <2>1. /\ Len(executed) = Cardinality(Answers) + 1
        /\ stmt = Sent(LinesOf(executed[Len(executed)]))
    BY <1>7 DEF InTurn
  <2>2. LinesOf(executed[Len(executed)])' = LinesOf(executed[Len(executed)])
    <3> DEFINE k == Len(executed)
    <3>1. k \in DOMAIN executed /\ k' = k
      BY <2>1, TypeFacts, Ranks
    <3> HIDE DEF k
    <3> QED BY <1>2, <3>1 DEF k
  <2> QED BY <1>1, <1>4, <1>7, <2>1, <2>2 DEF InTurn
<1> QED BY <1>5, <1>6, <1>7

\* The statement being executed is answered.
LEMMA OneAnswer ==
  ASSUME TypeOK, InTurn, UNCHANGED <<repl, stmt>>, Answering, ~Answering',
         NEW ok, NEW rows, log' = Append(log, [stmt |-> stmt, ok |-> ok, rows |-> rows])
  PROVE  InTurn'
<1> DEFINE e == [stmt |-> stmt, ok |-> ok, rows |-> rows]
           n == Len(log) + 1
<1>1. e.stmt = stmt /\ log' = Append(log, e) /\ n = Len(log) + 1 /\ UNCHANGED <<typed, executed>>
  BY DEF repl
<1> HIDE DEF e, n
<1>2. /\ \A i \in 1..Len(log) : log'[i] = log[i]
      /\ \A i \in Answers : Rank(i)' = Rank(i)
      /\ e.stmt.op = "TABLES" => Answers' = Answers
  BY <1>1, OneMoreAnswer
<1>3. \A i \in Answers : log'[i] = log[i] /\ LinesAnswered(i)' = LinesAnswered(i)
  BY <1>1, <1>2, TypeFacts DEF Answers, LinesAnswered, LinesOf
<1>4. CASE stmt.op = "TABLES"
  BY <1>1, <1>2, <1>3, <1>4 DEF InTurn
<1>5. CASE stmt.op # "TABLES"
  <2>1. PICK m : m = n
    OBVIOUS
  <2>2. /\ Answers' = Answers \cup {m}
        /\ Cardinality(Answers') = Cardinality(Answers) + 1
        /\ Rank(m)' = Cardinality(Answers) + 1
        /\ log'[m] = e
    BY <1>1, <1>5, <2>1, OneMoreAnswer
  <2>3. /\ Len(executed) = Cardinality(Answers) + 1
        /\ stmt = Sent(LinesOf(executed[Len(executed)]))
    BY <1>5 DEF InTurn
  <2>4. LinesAnswered(m)' = LinesOf(executed[Len(executed)])
    BY <1>1, <2>2, <2>3 DEF LinesAnswered, LinesOf
  <2>5. \A i \in Answers' : log'[i].stmt = Sent(LinesAnswered(i)')
    BY <1>1, <1>3, <2>2, <2>3, <2>4 DEF InTurn
  <2> QED BY <1>1, <2>2, <2>3, <2>5 DEF InTurn
<1> QED BY <1>4, <1>5

\* The lines pending and the one just typed are handed to executeQuery.
LEMMA OneQuery ==
  ASSUME TypeOK, InTurn, NEW l, Repl!Dispatch(l),
         Sess!Submit(Sent(Append(LinesOf(multiline), l)))
  PROVE  InTurn'
<1> DEFINE q == Append(multiline, Repl!Here)
<1>1. /\ typed' = Append(typed, l) /\ executed' = Append(executed, q)
      /\ UNCHANGED log /\ Answering' /\ ~Answering
      /\ stmt' = Sent(Append(LinesOf(multiline), l))
  BY DEF Repl!Dispatch, Repl!Scan, Sess!Submit, Answering
<1>2. /\ Len(typed) \in Nat /\ DOMAIN typed = 1..Len(typed)
      /\ typed'[Len(typed) + 1] = l
      /\ \A i \in 1..Len(typed) : typed'[i] = typed[i]
  <2>1. typed \in Seq(Lines \cup {l}) /\ l \in Lines \cup {l}
    BY TypeFacts, SeqMonotonic
  <2> QED BY <1>1, <2>1, AppendProperties, LenProperties
<1>3. /\ multiline \in Seq(Nat) /\ DOMAIN multiline = 1..Len(multiline) /\ Len(multiline) \in Nat
      /\ \A k \in 1..Len(multiline) : multiline[k] \in 1..Len(typed)
  <2>1. multiline \in Seq(1..Len(typed)) /\ 1..Len(typed) \subseteq Nat
    BY <1>2, TypeFacts
  <2> QED BY <2>1, SeqMonotonic, ElementOfSeq, LenProperties
<1>4. /\ q \in Seq(Nat) /\ DOMAIN q = 1..(Len(multiline) + 1)
      /\ q[Len(multiline) + 1] = Len(typed) + 1
      /\ \A k \in 1..Len(multiline) : q[k] = multiline[k]
  <2>1. Repl!Here = Len(typed) + 1 /\ Repl!Here \in Nat
    BY <1>2 DEF Repl!Here
  <2> QED BY <1>3, <2>1, AppendProperties, LenProperties
<1>5. /\ executed'[Len(executed) + 1] = q /\ Len(executed') = Len(executed) + 1
      /\ \A k \in 1..Len(executed) : executed'[k] = executed[k]
  <2>1. executed \in Seq(Seq(DOMAIN typed) \cup {q}) /\ q \in Seq(DOMAIN typed) \cup {q}
    BY TypeFacts, SeqMonotonic
  <2> QED BY <1>1, <2>1, AppendProperties
<1>6. [k \in DOMAIN q |-> typed'[q[k]]] = Append(LinesOf(multiline), l)
  <2> DEFINE ls == LinesOf(multiline)
             new == [k \in DOMAIN q |-> typed'[q[k]]]
  <2>1. ls = [k \in 1..Len(multiline) |-> typed[multiline[k]]]
    BY <1>3 DEF LinesOf
  <2>2. \A k \in 1..Len(multiline) : typed[multiline[k]] \in Lines \cup {l}
    BY <1>3, TypeFacts, ElementOfSeq
  <2>3. ls \in Seq(Lines \cup {l}) /\ Len(ls) = Len(multiline)
    BY <1>3, <2>1, <2>2
  <2>4. /\ Append(ls, l) \in Seq(Lines \cup {l}) /\ Len(Append(ls, l)) = Len(multiline) + 1
        /\ Append(ls, l)[Len(multiline) + 1] = l
        /\ \A k \in 1..Len(multiline) : Append(ls, l)[k] = typed[multiline[k]]
    <3>1. l \in Lines \cup {l}
      OBVIOUS
    <3> HIDE DEF ls
    <3>2. /\ Append(ls, l) \in Seq(Lines \cup {l}) /\ Len(Append(ls, l)) = Len(ls) + 1
          /\ Append(ls, l)[Len(ls) + 1] = l
          /\ \A k \in 1..Len(ls) : Append(ls, l)[k] = ls[k]
      BY <2>3, <3>1, AppendProperties
    <3> QED BY <2>1, <2>3, <3>2
  <2>5. \A k \in 1..(Len(multiline) + 1) : new[k] = Append(ls, l)[k]
    <3> HIDE DEF ls, q
    <3> SUFFICES ASSUME NEW k \in 1..(Len(multiline) + 1) PROVE new[k] = Append(ls, l)[k]
      OBVIOUS
    <3>1. new[k] = typed'[q[k]]
      BY <1>4
    <3>2. CASE k \in 1..Len(multiline)
      BY <1>2, <1>3, <1>4, <2>4, <3>1, <3>2
    <3>3. CASE k = Len(multiline) + 1
      BY <1>2, <1>4, <2>4, <3>1, <3>3
    <3>4. k \in 1..Len(multiline) \/ k = Len(multiline) + 1
      BY <1>3
    <3> QED BY <3>2, <3>3, <3>4
  <2>6. DOMAIN Append(ls, l) = 1..(Len(multiline) + 1) /\ DOMAIN new = 1..(Len(multiline) + 1)
    <3> HIDE DEF ls, q
    <3> QED BY <1>4, <2>4, LenProperties
  <2>7. Append(ls, l) = [k \in 1..(Len(multiline) + 1) |-> Append(ls, l)[k]]
    <3> HIDE DEF ls, q
    <3> QED BY <2>4, <2>6, LenProperties
  <2>8. new = [k \in 1..(Len(multiline) + 1) |-> new[k]]
    <3> HIDE DEF ls, q
    <3> QED BY <2>6
  <2>9. new = Append(ls, l)
    <3> HIDE DEF ls, q, new
    <3> QED BY <2>5, <2>7, <2>8
  <2> QED BY <2>9
<1>7. \A i \in Answers : LinesAnswered(i)' = LinesAnswered(i) /\ Rank(i) \in 1..Len(executed)
  <2> SUFFICES ASSUME NEW i \in Answers
               PROVE  LinesAnswered(i)' = LinesAnswered(i) /\ Rank(i) \in 1..Len(executed)
    OBVIOUS
  <2>1. Rank(i)' = Rank(i) /\ Rank(i) \in 1..Len(executed)
    BY <1>1, Ranks DEF Rank, Answers, InTurn
  <2>2. PICK p : p = executed[Rank(i)]
    OBVIOUS
  <2>3. p \in Seq(DOMAIN typed) /\ (executed[Rank(i)])' = p
    BY <1>5, <2>1, <2>2, TypeFacts, ElementOfSeq
  <2>4. LinesOf(p)' = LinesOf(p)
    BY <1>1, <2>3, LinesStay
  <2> QED BY <2>1, <2>2, <2>3, <2>4 DEF LinesAnswered, LinesOf
<1>8. LinesOf(executed[Len(executed)])' = Append(LinesOf(multiline), l)
  <2>1. (executed[Len(executed)])' = q
    BY <1>5
  <2> HIDE DEF q
  <2> QED BY <1>6, <2>1 DEF LinesOf
<1>9. /\ Answers' = Answers /\ Len(executed) = Cardinality(Answers)
      /\ stmt'.op # "TABLES" /\ Cardinality(Answers) \in Nat
  BY <1>1, SentIsStatement, Ranks DEF InTurn, Answers
<1>10. \A i \in Answers' : log'[i].stmt = Sent(LinesAnswered(i)')
  BY <1>1, <1>7, <1>9 DEF InTurn
<1> HIDE DEF q
<1> QED BY <1>1, <1>5, <1>8, <1>9, <1>10 DEF InTurn

LEMMA InTurnStep == TypeOK /\ InTurn /\ [Next]_vars => InTurn'
<1> SUFFICES ASSUME TypeOK, InTurn, [Next]_vars PROVE InTurn'
  OBVIOUS
<1> USE DEF Repl!Scan
<1>1. CASE ReadLine \/ UNCHANGED vars
  <2>1. UNCHANGED <<executed, log, stmt, pc>>
    BY <1>1, Zenon DEF ReadLine, vars, session, repl, Repl!RunCommand, Repl!SkipBlank, Repl!AddLine
  <2>2. typed' = typed \/ \E l : typed' = Append(typed, l)
    BY <1>1, Zenon DEF ReadLine, vars, repl, Repl!RunCommand, Repl!SkipBlank, Repl!AddLine
  <2>3. Answering' = Answering
    BY <2>1 DEF Answering
  <2> QED BY <2>1, <2>2, <2>3, NoAnswer
<1>2. CASE ShowTables
  <2>1. UNCHANGED <<executed, log>> /\ \E l : typed' = Append(typed, l)
    BY <1>2 DEF ShowTables, Repl!RunCommand, Sess!Submit
  <2>2. ~Answering /\ stmt'.op = "TABLES"
    BY <1>2 DEF ShowTables, Sess!Submit, Waiting, Answering, Plain
  <2> QED BY <2>1, <2>2, NoAnswer
<1>3. CASE ExecuteQuery
  BY <1>3, OneQuery DEF ExecuteQuery
<1>4. CASE Leave
  <2>1. UNCHANGED <<executed, log>> /\ ~Answering /\ ~Answering'
    BY <1>4 DEF Leave, Waiting, Repl!EndOfInput, Repl!Quit, Sess!Close, Answering
  <2>2. typed' = typed \/ \E l : typed' = Append(typed, l)
    BY <1>4 DEF Leave, Repl!EndOfInput, Repl!Quit
  <2> QED BY <2>1, <2>2, NoAnswer
<1>5. CASE SessionStep
  <2>1. CASE log' = log /\ Answering' = Answering
    BY <1>5, <2>1, SessionAnswers, NoAnswer DEF repl
  <2>2. CASE /\ Answering /\ ~Answering'
             /\ \E ok, rows : log' = Append(log, [stmt |-> stmt, ok |-> ok, rows |-> rows])
    BY <1>5, <2>2, SessionAnswers, OneAnswer
  <2> QED BY <1>5, <2>1, <2>2, SessionAnswers
<1> QED BY <1>1, <1>2, <1>3, <1>4, <1>5 DEF Next

LEMMA InTurnInit == Init => InTurn
<1> SUFFICES ASSUME Init PROVE InTurn
  OBVIOUS
<1>1. log = <<>> /\ executed = <<>> /\ ~Answering
  BY DEF Init, Repl!Init, Sess!Init, Answering
<1>2. Answers = {} /\ Cardinality(Answers) = 0
  BY <1>1, FS_EmptySet DEF Answers
<1> QED BY <1>1, <1>2 DEF InTurn

\* AnsweredInTurn: whatever was lost and repeated, the n-th answer the user
\* sees is the answer to the n-th query.
THEOREM AnswersInTurn == Spec => []AnsweredInTurn
<1>1. InTurn => AnsweredInTurn
  BY DEF InTurn, AnsweredInTurn, Waiting, Answering
<1> QED BY InTurnInit, InTurnStep, TypeCorrect, <1>1, PTL DEF Spec

\* A query without a comment is sent as its author wrote it.
LEMMA SentAsWritten ==
  ASSUME NEW q, \A k \in DOMAIN LinesOf(q) : ~LinesOf(q)[k].comment, q \in Seq(Nat)
  PROVE  Sent(LinesOf(q)) = Written(LinesOf(q))
<1> DEFINE ls == LinesOf(q)
<1>1. DOMAIN ls = 1..Len(q) /\ Len(ls) = Len(q)
  BY DEF LinesOf
<1> HIDE DEF ls
<1>2. SelectInSeq(ls, LAMBDA l : l.comment) = 0
  BY <1>1 DEF SelectInSeq, ls
<1>3. UpToComment(ls) = ls
  BY <1>2 DEF UpToComment
<1> QED BY <1>3 DEF Sent, Written, ls

\* UncommentedInsertsDurable: an INSERT without a comment that was typed
\* outside any block, on one line or several, and reported as done, stays.
THEOREM TypedInsertsDurable == Spec => []UncommentedInsertsDurable
<1>1. S!Spec => []S!AckedInsertsDurable
  BY StatementsFit, S!InsertsDurable
<1>2. TypeOK /\ InTurn /\ S!AckedInsertsDurable => UncommentedInsertsDurable
  <2> SUFFICES ASSUME TypeOK, InTurn, S!AckedInsertsDurable, NEW i \in Answers, LostInsert(i),
                      \A l \in Range(LinesAnswered(i)) : ~l.comment
               PROVE  FALSE
    BY DEF UncommentedInsertsDurable
  <2>1. Rank(i) \in 1..Len(executed)
    BY Ranks, TypeFacts DEF InTurn
  <2>2. executed[Rank(i)] \in Seq(Nat)
    <3>1. executed[Rank(i)] \in Seq(DOMAIN typed)
      BY <2>1, TypeFacts, ElementOfSeq
    <3>2. DOMAIN typed \subseteq Nat
      BY TypeFacts, LenProperties
    <3> QED BY <3>1, <3>2, SeqMonotonic
  <2>3. \A k \in DOMAIN LinesAnswered(i) : ~LinesAnswered(i)[k].comment
    BY DEF Range
  <2>4. Sent(LinesAnswered(i)) = Written(LinesAnswered(i))
    BY <2>2, <2>3, SentAsWritten DEF LinesAnswered
  <2>5. log[i].stmt = Written(LinesAnswered(i))
    BY <2>4 DEF InTurn
  <2>6. /\ log[i].stmt.op = "INSERT" /\ log[i].ok /\ i \in DOMAIN log
        /\ ~Sess!InBlock(i) /\ log[i].stmt.row \notin store
    BY <2>5 DEF LostInsert, Answers
  <2>7. S!InsertAcked(i) /\ ~S!InBlock(i)
    BY <2>6 DEF S!InsertAcked, S!Acked, S!InBlock, S!OpenSince, Sess!InBlock, Sess!OpenSince, Sess!Acked
  <2> QED BY <2>6, <2>7 DEF S!AckedInsertsDurable
<1> QED BY InTurnInit, InTurnStep, TypeCorrect, Composition, <1>1, <1>2, PTL DEF Spec
=============================================================================
