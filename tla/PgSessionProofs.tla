-------------------------- MODULE PgSessionProofs --------------------------
(* Theorems about PgSession.                                               *)
EXTENDS PgSession, SequenceTheorems, TLAPS

\* Appending to a sequence.
LEMMA AppendFacts ==
  ASSUME NEW S, NEW s \in Seq(S), NEW e \in S
  PROVE  /\ Append(s, e) \in Seq(S)
         /\ Len(Append(s, e)) = Len(s) + 1
         /\ DOMAIN Append(s, e) = 1..(Len(s) + 1)
         /\ \A i \in 1..Len(s) : Append(s, e)[i] = s[i]
         /\ Append(s, e)[Len(s) + 1] = e
  OBVIOUS

-----------------------------------------------------------------------------
Busy == pc \in {"checkout", "sent", "reply", "rows"}

\* What Show and the server need of the statement being executed.
TypeInv == TypeOK /\ (Busy => stmt \in Statements)

LEMMA AnswerShape ==
  ASSUME TypeInv PROVE answer.ok \in BOOLEAN /\ answer.rows \in SUBSET Rows
BY DEF TypeInv, TypeOK, Server!Answer

\* The server keeps its types, whatever statement it executes.
LEMMA ExecuteTyped ==
  ASSUME TypeInv, NEW s \in Statements, Server!Execute(s)
  PROVE  /\ store' \in SUBSET Rows /\ work' \in SUBSET Rows
         /\ mode' \in Server!Modes /\ answer' \in Server!Answer
<1>1. store \in SUBSET Rows /\ work \in SUBSET Rows /\ mode \in Server!Modes
  BY DEF TypeInv, TypeOK
<1>2. Server!Visible \in SUBSET Rows
  BY <1>1 DEF Server!Visible
<1>3. s.op = "INSERT" => s.row \in Rows
  BY StatementsAssumption
<1>4. CASE Server!Begin(s)
  BY <1>1, <1>4 DEF Server!Begin, Server!Succeed, Server!Modes, Server!Answer
<1>5. CASE Server!Commit(s)
  BY <1>1, <1>2, <1>5 DEF Server!Commit, Server!Succeed, Server!Modes, Server!Answer
<1>6. CASE Server!Rollback(s)
  BY <1>1, <1>6 DEF Server!Rollback, Server!Succeed, Server!Modes, Server!Answer
<1>7. CASE Server!Insert(s)
  BY <1>1, <1>3, <1>7 DEF Server!Insert, Server!Succeed, Server!Modes, Server!Answer
<1>8. CASE Server!Select(s)
  BY <1>1, <1>2, <1>8 DEF Server!Select, Server!Succeed, Server!Answer
<1>9. CASE Server!FailingSelect(s)
  <2>1. CASE \E sent \in SUBSET Server!Visible : Server!Fail(sent)
    <3>1. PICK sent \in SUBSET Server!Visible : Server!Fail(sent)
      BY <2>1
    <3>2. sent \in SUBSET Rows
      BY <1>2
    <3> QED BY <1>1, <3>1, <3>2 DEF Server!Fail, Server!Modes, Server!Answer
  <2>2. CASE Server!Succeed({}) /\ UNCHANGED <<store, mode, work>>
    BY <1>1, <2>2 DEF Server!Succeed, Server!Answer
  <2> QED BY <1>9, <2>1, <2>2 DEF Server!FailingSelect
<1>10. CASE Server!NoEffect(s)
  BY <1>1, <1>10 DEF Server!NoEffect, Server!Succeed, Server!Answer
<1>11. CASE Server!Reject(s)
  BY <1>1, <1>11 DEF Server!Reject, Server!Fail, Server!Modes, Server!Answer
<1> QED
  BY <1>4, <1>5, <1>6, <1>7, <1>8, <1>9, <1>10, <1>11 DEF Server!Execute

-----------------------------------------------------------------------------
\* The user is shown a reply.
LEMMA ShowTyped ==
  ASSUME TypeInv, Busy, NEW ok \in BOOLEAN, NEW rows \in SUBSET Rows, Show(ok, rows)
  PROVE  /\ log' \in Seq([stmt : Statements, ok : BOOLEAN, rows : SUBSET Rows])
         /\ pc' = "idle"
<1> DEFINE Reply == [stmt : Statements, ok : BOOLEAN, rows : SUBSET Rows]
<1>1. [stmt |-> stmt, ok |-> ok, rows |-> rows] \in Reply
  BY DEF TypeInv
<1>2. log \in Seq(Reply)
  BY DEF TypeInv, TypeOK
<1> QED BY <1>1, <1>2, AppendFacts DEF Show

LEMMA TypeInvInit == Init => TypeInv
  BY BoundsAssumption DEF Init, TypeInv, TypeOK, Busy, Server!Modes, Server!Answer, MaxTries

LEMMA TypeInvStep == TypeInv /\ [Next]_vars => TypeInv'
<1> SUFFICES ASSUME TypeInv, [Next]_vars PROVE TypeInv'
  OBVIOUS
<1> USE DEF database
<1>1. ASSUME NEW s \in Statements, Submit(s) PROVE TypeInv'
  BY <1>1 DEF Submit, TypeInv, TypeOK, Busy, MaxTries
<1>2. CASE Ping
  BY <1>2 DEF Ping, TypeInv, TypeOK, Busy
<1>3. CASE TakePooled
  BY <1>3 DEF TakePooled, TypeInv, TypeOK, Busy
<1>4. CASE Dial
  BY <1>4 DEF Dial, TypeInv, TypeOK, Busy
<1>5. CASE DialRefused
  <2>1. Busy /\ Show(FALSE, {}) BY <1>5 DEF DialRefused, Busy
  <2> QED BY <1>5, <2>1, ShowTyped DEF DialRefused, TypeInv, TypeOK, Busy
<1>6. CASE BadConn
  <2>1. Busy BY <1>6 DEF BadConn, Busy
  <2>2. CASE Show(FALSE, {}) /\ UNCHANGED tries
    BY <1>6, <2>1, <2>2, ShowTyped DEF BadConn, TypeInv, TypeOK, Busy
  <2>3. CASE tries < MaxTries /\ tries' = tries + 1 /\ pc' = "checkout" /\ UNCHANGED log
    BY <1>6, <2>1, <2>3 DEF BadConn, TypeInv, TypeOK, Busy, MaxTries
  <2> QED BY <1>6, <2>2, <2>3 DEF BadConn
<1>7. CASE NetError
  <2>1. Busy /\ Show(FALSE, {}) BY <1>7 DEF NetError, Busy
  <2> QED BY <1>7, <2>1, ShowTyped DEF NetError, TypeInv, TypeOK, Busy
<1>8. CASE Deliver
  <2>1. Busy BY <1>8 DEF Deliver, Busy
  <2>2. CASE Show(answer.ok, {})
    BY <1>8, <2>1, <2>2, AnswerShape, ShowTyped DEF Deliver, TypeInv, TypeOK, Busy
  <2>3. CASE pc' = "rows" /\ UNCHANGED log
    BY <1>8, <2>1, <2>3 DEF Deliver, TypeInv, TypeOK, Busy
  <2> QED BY <1>8, <2>2, <2>3 DEF Deliver
<1>9. CASE RenderRows
  <2>1. Busy /\ Show(TRUE, answer.rows) BY <1>9 DEF RenderRows, Busy
  <2> QED BY <1>9, <2>1, AnswerShape, ShowTyped DEF RenderRows, TypeInv, TypeOK, Busy
<1>10. CASE RenderCutOff
  <2>1. Busy BY <1>10 DEF RenderCutOff, Busy
  <2>2. PICK got \in SUBSET answer.rows : Show(TRUE, got) BY <1>10 DEF RenderCutOff
  <2>3. got \in SUBSET Rows BY AnswerShape
  <2> QED BY <1>10, <2>1, <2>2, <2>3, ShowTyped DEF RenderCutOff, TypeInv, TypeOK, Busy
<1>11. CASE Close
  BY <1>11 DEF Close, TypeInv, TypeOK, Busy, Server!Modes
<1>12. CASE Run
  <2>1. stmt \in Statements BY <1>12 DEF Run, TypeInv, Busy
  <2>2. Server!Execute(stmt) BY <1>12 DEF Run
  <2> QED BY <1>12, <2>1, <2>2, ExecuteTyped DEF Run, TypeInv, TypeOK, Busy
<1>13. ASSUME Drop, faults < MaxFaults, up' \in BOOLEAN PROVE TypeInv'
  <2>1. mode' \in Server!Modes /\ work' \in SUBSET Rows
    BY <1>13 DEF Drop, Server!Modes
  <2>2. faults' \in 0..MaxFaults
    BY <1>13, BoundsAssumption DEF Drop, TypeInv, TypeOK
  <2>3. conn' \in {"none", "open", "cut"}
    BY <1>13 DEF Drop
  <2>4. UNCHANGED <<store, answer, pc, stmt, tries, log, runAt>>
    BY <1>13 DEF Drop
  <2> QED BY <1>13, <2>1, <2>2, <2>3, <2>4 DEF TypeInv, TypeOK, Busy
<1>14. CASE CutConnection \/ StopServer
  BY <1>13, <1>14 DEF CutConnection, StopServer, TypeInv, TypeOK
<1>15. CASE RestartServer
  BY <1>15 DEF RestartServer, TypeInv, TypeOK, Busy
<1>16. CASE UNCHANGED vars
  BY <1>16 DEF vars, TypeInv, TypeOK, Busy
<1> QED
  BY <1>1, <1>2, <1>3, <1>4, <1>5, <1>6, <1>7, <1>8, <1>9, <1>10, <1>11, <1>12,
     <1>14, <1>15, <1>16 DEF Next, Client

\* The session's variables keep their types; what is being executed is a
\* statement the user typed, and database/sql's attempts stay bounded.
THEOREM TypeCorrect == Spec => []TypeOK
<1>1. TypeInv => TypeOK
  BY DEF TypeInv
<1> QED
  BY TypeInvInit, TypeInvStep, <1>1, PTL DEF Spec

-----------------------------------------------------------------------------
Reply == [stmt : Statements, ok : BOOLEAN, rows : SUBSET Rows]

\* One more reply says nothing new about the blocks of the earlier ones, and
\* leaves a block open unless it is a COMMIT's or a ROLLBACK's.
LEMMA BlockGrows ==
  ASSUME log \in Seq(Reply), NEW e \in Reply, log' = Append(log, e)
  PROVE  /\ \A i \in 1..Len(log) : InBlock(i)' <=> InBlock(i)
         /\ InBlock(Len(log)) /\ e.stmt.op \notin {"COMMIT", "ROLLBACK"}
              => InBlock(Len(log))'
         /\ e.ok /\ e.stmt.op = "BEGIN" => InBlock(Len(log))'
<1>1. /\ Len(log) \in Nat
      /\ Len(log') = Len(log) + 1
      /\ \A i \in 1..Len(log) : log'[i] = log[i]
      /\ log'[Len(log) + 1] = e
  BY AppendFacts
<1>2. \A i \in 1..Len(log) : \A b \in 1..i : OpenSince(b, i)' <=> OpenSince(b, i)
  BY <1>1 DEF OpenSince, Acked
<1>3. ASSUME InBlock(Len(log)), e.stmt.op \notin {"COMMIT", "ROLLBACK"}
      PROVE  InBlock(Len(log))'
  <2>1. PICK b \in 1..Len(log) : OpenSince(b, Len(log))
    BY <1>3 DEF InBlock
  <2>2. b \in 1..Len(log') /\ Acked(b, {"BEGIN"})'
    BY <1>1, <2>1 DEF OpenSince, Acked
  <2>3. \A j \in (b + 1)..Len(log') : ~Acked(j, {"COMMIT", "ROLLBACK"})'
    BY <1>1, <1>3, <2>1 DEF OpenSince, Acked
  <2> QED BY <2>2, <2>3 DEF InBlock, OpenSince
<1>4. ASSUME e.ok, e.stmt.op = "BEGIN"
      PROVE  InBlock(Len(log))'
  <2>1. PICK n \in Nat : n = Len(log')
    BY <1>1
  <2>2. n \in 1..n /\ Acked(n, {"BEGIN"})'
    BY <1>1, <1>4, <2>1 DEF Acked
  <2>3. OpenSince(n, n)'
    BY <2>2 DEF OpenSince
  <2> QED BY <2>1, <2>2, <2>3 DEF InBlock
<1> QED
  BY <1>2, <1>3, <1>4 DEF InBlock

\* A block ends with its connection; while one is open the user was told of
\* it, or is about to be.
BlockInv ==
  /\ conn # "open" => mode = "auto"
  /\ pc = "start" => mode = "auto"
  /\ mode # "auto" /\ pc \in {"idle", "checkout", "sent"} => InBlock(Len(log))
  /\ mode # "auto" /\ pc \in {"reply", "rows"} =>
       \/ stmt.op = "BEGIN" /\ answer.ok
       \/ stmt.op \notin {"COMMIT", "ROLLBACK"} /\ InBlock(Len(log))

\* What the server does with the block.
LEMMA ExecuteBlocks ==
  ASSUME NEW s, Server!Execute(s)
  PROVE  mode' # "auto" => \/ s.op = "BEGIN" /\ answer'.ok
                           \/ s.op \notin {"COMMIT", "ROLLBACK"} /\ mode # "auto"
<1>1. CASE Server!Begin(s)
  BY <1>1 DEF Server!Begin, Server!Succeed
<1>2. CASE Server!Commit(s) \/ Server!Rollback(s)
  BY <1>2 DEF Server!Commit, Server!Rollback
<1>3. CASE Server!Insert(s) \/ Server!Select(s) \/ Server!NoEffect(s)
  BY <1>3 DEF Server!Insert, Server!Select, Server!NoEffect
<1>4. CASE Server!FailingSelect(s)
  BY <1>4 DEF Server!FailingSelect, Server!Fail
<1>5. CASE Server!Reject(s)
  <2>1. s.op \in {"COMMIT", "ROLLBACK"} => FALSE
    BY <1>5 DEF Server!Reject
  <2> QED BY <1>5, <2>1 DEF Server!Reject, Server!Fail
<1> QED
  BY <1>1, <1>2, <1>3, <1>4, <1>5 DEF Server!Execute

LEMMA BlockInvStep == TypeInv /\ BlockInv /\ [Next]_vars => BlockInv'
<1> SUFFICES ASSUME TypeInv, BlockInv, [Next]_vars PROVE BlockInv'
  OBVIOUS
<1> USE DEF database
<1>0. log \in Seq(Reply)
  BY DEF TypeInv, TypeOK, Reply
<1>1. ASSUME NEW s \in Statements, Submit(s) PROVE BlockInv'
  BY <1>1 DEF Submit, BlockInv, InBlock, OpenSince, Acked
<1>2. CASE Ping \/ TakePooled \/ Dial \/ RestartServer \/ UNCHANGED vars
  BY <1>2 DEF Ping, TakePooled, Dial, RestartServer, vars, BlockInv, InBlock, OpenSince, Acked
<1>3. CASE DialRefused \/ BadConn \/ NetError \/ RenderCutOff
  <2>1. conn # "open" /\ mode' = mode
    BY <1>3 DEF DialRefused, BadConn, NetError, RenderCutOff
  <2> QED BY <2>1 DEF BlockInv
<1>4. CASE Close
  BY <1>4 DEF Close, BlockInv
<1>5. CASE CutConnection \/ StopServer
  BY <1>5 DEF CutConnection, StopServer, Drop, BlockInv
<1>6. CASE Run
  <2>1. Server!Execute(stmt) /\ pc' = "reply" /\ UNCHANGED <<conn, stmt, log>> /\ conn = "open" /\ pc = "sent"
    BY <1>6 DEF Run
  <2> QED BY <2>1, ExecuteBlocks DEF BlockInv, InBlock, OpenSince, Acked
<1>7. ASSUME NEW ok \in BOOLEAN, NEW rows \in SUBSET Rows, pc \in {"reply", "rows"},
             answer.ok => ok, Show(ok, rows), UNCHANGED <<mode, conn>>
      PROVE  BlockInv'
  <2> DEFINE e == [stmt |-> stmt, ok |-> ok, rows |-> rows]
  <2>1. e \in Reply /\ log' = Append(log, e) /\ pc' = "idle"
    BY <1>7 DEF Show, TypeInv, Busy, Reply
  <2>2. CASE mode = "auto"
    BY <1>7, <2>1, <2>2 DEF BlockInv
  <2>3. CASE mode # "auto"
    <3>1. InBlock(Len(log))'
      <4> e.stmt = stmt /\ e.ok = ok OBVIOUS
      <4> HIDE DEF e
      <4> QED BY <1>0, <1>7, <2>1, <2>3, BlockGrows DEF BlockInv
    <3> QED BY <1>7, <2>1, <3>1 DEF BlockInv
  <2> QED BY <2>2, <2>3
<1>8. CASE Deliver
  <2>1. CASE Show(answer.ok, {})
    BY <1>7, <1>8, <2>1, AnswerShape DEF Deliver
  <2>2. CASE pc' = "rows" /\ UNCHANGED log
    BY <1>8, <2>2 DEF Deliver, BlockInv, InBlock, OpenSince, Acked
  <2> QED BY <1>8, <2>1, <2>2 DEF Deliver
<1>9. CASE RenderRows
  BY <1>7, <1>9, AnswerShape DEF RenderRows
<1> QED
  BY <1>1, <1>2, <1>3, <1>4, <1>5, <1>6, <1>8, <1>9 DEF Next, Client

\* NoHiddenTransaction: whatever the pool does with lost connections and
\* repeated statements, at the prompt a block is open on the server only if
\* the user was told so.
THEOREM NothingHidden == Spec => []NoHiddenTransaction
<1>1. Init => BlockInv
  BY DEF Init, BlockInv
<1>2. BlockInv => NoHiddenTransaction
  BY DEF BlockInv, NoHiddenTransaction
<1> QED
  BY TypeInvInit, TypeInvStep, BlockInvStep, <1>1, <1>2, PTL DEF Spec

-----------------------------------------------------------------------------
\* An INSERT about to be reported as done is committed, or its block is known.
DurableInv ==
  /\ AckedInsertsDurable
  /\ pc = "rows" => answer.rows # {}
  /\ pc \in {"reply", "rows"} /\ stmt.op = "INSERT" =>
       /\ answer.rows = {}
       /\ answer.ok => stmt.row \in store \/ InBlock(Len(log))

\* No statement takes committed rows away.
LEMMA ExecuteKeeps ==
  ASSUME NEW s, Server!Execute(s) PROVE store \subseteq store'
  BY DEF Server!Execute, Server!Begin, Server!Commit, Server!Rollback, Server!Insert,
     Server!Select, Server!FailingSelect, Server!NoEffect, Server!Reject, Server!Fail,
     Server!Visible

\* An INSERT sends no rows, and puts its row into the table or into the block.
LEMMA ExecuteInserts ==
  ASSUME TypeInv, NEW s, s.op = "INSERT", Server!Execute(s)
  PROVE  answer'.rows = {} /\ (answer'.ok => s.row \in store' \/ mode # "auto")
<1>1. Server!Insert(s) \/ Server!Reject(s)
  BY DEF Server!Execute, Server!Begin, Server!Commit, Server!Rollback, Server!Select,
     Server!FailingSelect, Server!NoEffect
<1> QED
  BY <1>1 DEF Server!Insert, Server!Reject, Server!Succeed, Server!Fail

LEMMA DurableInvStep == TypeInv /\ BlockInv /\ DurableInv /\ [Next]_vars => DurableInv'
<1> SUFFICES ASSUME TypeInv, BlockInv, DurableInv, [Next]_vars PROVE DurableInv'
  OBVIOUS
<1> USE DEF database
<1>0. log \in Seq(Reply)
  BY DEF TypeInv, TypeOK, Reply
<1>a. store \subseteq store'
  BY ExecuteKeeps DEF Next, Client, Submit, Ping, TakePooled, Dial, DialRefused, BadConn,
     NetError, Deliver, RenderRows, RenderCutOff, Close, Run, CutConnection, StopServer,
     Drop, RestartServer, vars
<1>b. ASSUME UNCHANGED log PROVE AckedInsertsDurable'
  BY <1>a, <1>b DEF DurableInv, AckedInsertsDurable, InsertAcked, Acked, InBlock, OpenSince
<1>1. ASSUME NEW s \in Statements, Submit(s) PROVE DurableInv'
  BY <1>1, <1>b DEF Submit, DurableInv
<1>2. CASE Ping \/ TakePooled \/ Dial \/ Close
  BY <1>2, <1>b DEF Ping, TakePooled, Dial, Close, DurableInv
<1>3. CASE CutConnection \/ StopServer \/ RestartServer \/ UNCHANGED vars
  <2>1. UNCHANGED <<store, answer, pc, stmt, log>>
    BY <1>3 DEF CutConnection, StopServer, Drop, RestartServer, vars
  <2> QED BY <2>1, <1>b DEF DurableInv, InBlock, OpenSince, Acked
<1>4. CASE Run
  <2>1. /\ Server!Execute(stmt) /\ pc' = "reply" /\ UNCHANGED <<conn, stmt, log>>
        /\ conn = "open" /\ pc = "sent"
    BY <1>4 DEF Run
  <2>2. stmt.op = "INSERT" => answer'.rows = {} /\ (answer'.ok => stmt.row \in store' \/ mode # "auto")
    BY <2>1, ExecuteInserts
  <2>3. mode # "auto" => InBlock(Len(log))'
    BY <2>1 DEF BlockInv, InBlock, OpenSince, Acked
  <2> QED BY <2>1, <2>2, <2>3, <1>b DEF DurableInv
<1>5. ASSUME NEW ok \in BOOLEAN, NEW rows \in SUBSET Rows, Busy, Show(ok, rows),
             ok /\ stmt.op = "INSERT" => stmt.row \in store \/ InBlock(Len(log))
      PROVE  DurableInv'
  <2> DEFINE e == [stmt |-> stmt, ok |-> ok, rows |-> rows]
  <2>1. e \in Reply /\ log' = Append(log, e) /\ pc' = "idle"
    BY <1>5 DEF Show, TypeInv, Busy, Reply
  <2> e.stmt = stmt /\ e.ok = ok OBVIOUS
  <2> HIDE DEF e
  <2>2. /\ DOMAIN log = 1..Len(log) /\ Len(log) \in Nat
        /\ Len(log') = Len(log) + 1
        /\ DOMAIN log' = 1..(Len(log) + 1)
        /\ \A i \in 1..Len(log) : log'[i] = log[i]
        /\ log'[Len(log) + 1] = e
    BY <1>0, <2>1, AppendFacts
  <2>3. ASSUME NEW i \in 1..Len(log), InsertAcked(i)', ~InBlock(i)'
        PROVE  log'[i].stmt.row \in store'
    <3>1. InsertAcked(i) /\ ~InBlock(i)
      BY <1>0, <2>1, <2>2, <2>3, BlockGrows DEF InsertAcked, Acked
    <3> QED BY <3>1, <1>a, <2>2 DEF DurableInv, AckedInsertsDurable
  <2>4. PICK n \in Nat : n = Len(log')
    BY <2>2
  <2>5. ASSUME InsertAcked(n)', ~InBlock(n)'
        PROVE  log'[n].stmt.row \in store'
    <3>1. ok /\ stmt.op = "INSERT"
      BY <2>2, <2>4, <2>5 DEF InsertAcked, Acked
    <3>2. InBlock(n)' <=> InBlock(Len(log))'
      BY <2>4 DEF InBlock
    <3>3. ~InBlock(Len(log))
      BY <1>0, <2>1, <2>5, <3>1, <3>2, BlockGrows
    <3> QED BY <1>5, <1>a, <2>2, <2>4, <3>1, <3>3
  <2>6. n = Len(log) + 1 /\ DOMAIN log' = 1..n
    BY <2>2, <2>4
  <2>7. AckedInsertsDurable'
    <3>1. \A i \in DOMAIN log' : i \in 1..Len(log) \/ i = n
      BY <2>2, <2>6
    <3> QED BY <2>3, <2>5, <3>1 DEF AckedInsertsDurable
  <2> QED BY <2>1, <2>7 DEF DurableInv
<1>6. CASE DialRefused
  BY <1>5, <1>6 DEF DialRefused, Busy
<1>7. CASE NetError
  BY <1>5, <1>7 DEF NetError, Busy
<1>8. CASE BadConn
  <2>1. CASE Show(FALSE, {})
    BY <1>5, <1>8, <2>1 DEF BadConn, Busy
  <2>2. CASE pc' = "checkout" /\ UNCHANGED log
    BY <2>2, <1>b DEF DurableInv
  <2> QED BY <1>8, <2>1, <2>2 DEF BadConn
<1>9. CASE Deliver
  <2>1. CASE Show(answer.ok, {})
    BY <1>5, <1>9, <2>1, AnswerShape DEF Deliver, Busy, DurableInv
  <2>2. CASE answer.rows # {} /\ pc' = "rows" /\ UNCHANGED log
    <3>1. UNCHANGED <<store, answer, stmt>> /\ pc = "reply"
      BY <1>9 DEF Deliver
    <3> QED BY <3>1, <2>2, <1>b DEF DurableInv, InBlock, OpenSince, Acked
  <2> QED BY <1>9, <2>1, <2>2 DEF Deliver
<1>10. CASE RenderRows
  BY <1>5, <1>10, AnswerShape DEF RenderRows, Busy, DurableInv
<1>11. CASE RenderCutOff
  <2>1. PICK got \in SUBSET answer.rows : Show(TRUE, got)
    BY <1>11 DEF RenderCutOff
  <2>2. pc = "rows" /\ got \in SUBSET Rows /\ stmt.op # "INSERT"
    BY <1>11, AnswerShape DEF RenderCutOff, DurableInv
  <2> QED BY <1>5, <2>1, <2>2 DEF Busy
<1> QED
  BY <1>1, <1>2, <1>3, <1>4, <1>6, <1>7, <1>8, <1>9, <1>10, <1>11 DEF Next, Client

\* AckedInsertsDurable: an INSERT reported as done outside a block stays, over
\* any number of lost connections, repeated statements and server restarts.
THEOREM InsertsDurable == Spec => []AckedInsertsDurable
<1>1. Init => BlockInv /\ DurableInv
  BY DEF Init, BlockInv, DurableInv, AckedInsertsDurable
<1>2. DurableInv => AckedInsertsDurable
  BY DEF DurableInv
<1> QED
  BY TypeInvInit, TypeInvStep, BlockInvStep, DurableInvStep, <1>1, <1>2, PTL DEF Spec

-----------------------------------------------------------------------------
(* Without faults and row errors the session implements TxSession.         *)

NoneFailing == \A s \in Statements : s.op # "FAILING"
Calm == MaxFaults = 0 /\ NoneFailing

\* While there was no fault the connection made by the ping serves every statement, and rows are sent
\* only by a statement that succeeds.
CalmInv ==
  /\ conn # "cut"
  /\ pc \notin {"start", "exited"} => conn = "open"
  /\ pc = "start" => mode = "auto" /\ work = {}
  /\ pc = "rows" => answer.rows # {}
  /\ pc \in {"reply", "rows"} /\ ~answer.ok => answer.rows = {}

LEMMA ExecuteCalmly ==
  ASSUME NEW s, s.op # "FAILING", Server!Execute(s)
  PROVE  ~answer'.ok => answer'.rows = {}
BY DEF Server!Execute, Server!Begin, Server!Commit, Server!Rollback, Server!Insert,
   Server!Select, Server!FailingSelect, Server!NoEffect, Server!Reject, Server!Succeed,
   Server!Fail

\* These steps are none of a session that has seen no fault after them.
LEMMA NoFaults ==
  ASSUME TypeInv, CalmInv, faults' = 0
  PROVE  ~(Dial \/ DialRefused \/ BadConn \/ NetError \/ RenderCutOff \/ CutConnection \/ StopServer)
<1>1. faults' # faults + 1
  BY DEF TypeInv, TypeOK
<1> QED
  BY <1>1 DEF CalmInv, Dial, DialRefused, BadConn, NetError, RenderCutOff, CutConnection,
     StopServer, Drop

\* Faults are counted and not forgotten.
LEMMA FaultsStay ==
  ASSUME TypeInv, [Next]_vars, faults' = 0 PROVE faults = 0
<1>1. faults' = faults \/ faults' = faults + 1
  BY DEF Next, Client, Submit, Ping, TakePooled, Dial, DialRefused, BadConn, NetError, Deliver,
     RenderRows, RenderCutOff, Close, Run, CutConnection, StopServer, Drop, RestartServer, vars
<1> QED BY <1>1 DEF TypeInv, TypeOK

LEMMA CalmInvStep ==
  NoneFailing /\ TypeInv /\ CalmInv /\ [Next]_vars /\ faults' = 0 => CalmInv'
<1> SUFFICES ASSUME NoneFailing, TypeInv, CalmInv, [Next]_vars, faults' = 0 PROVE CalmInv'
  OBVIOUS
<1> USE DEF database
<1>1. ASSUME NEW s \in Statements, Submit(s) PROVE CalmInv'
  BY <1>1 DEF Submit, CalmInv
<1>2. CASE Ping \/ TakePooled \/ Close \/ RestartServer \/ UNCHANGED vars
  BY <1>2 DEF Ping, TakePooled, Close, RestartServer, vars, CalmInv
<1>3. CASE Run
  <2>1. stmt.op # "FAILING" /\ Server!Execute(stmt)
    BY <1>3 DEF Run, NoneFailing, TypeInv, Busy
  <2> QED BY <1>3, <2>1, ExecuteCalmly DEF Run, CalmInv
<1>4. CASE Deliver \/ RenderRows
  BY <1>4 DEF Deliver, RenderRows, Show, CalmInv
<1> QED
  BY <1>1, <1>2, <1>3, <1>4, NoFaults DEF Next, Client

\* The server is the same on both sides of the mapping.
LEMMA SameServer ==
  ASSUME NEW s, Server!Execute(s) PROVE Promise!Server!Execute(s)
BY DEF Server!Execute, Server!Begin, Server!Commit, Server!Rollback, Server!Insert,
   Server!Select, Server!FailingSelect, Server!NoEffect, Server!Reject, Server!Succeed,
   Server!Fail, Server!Visible,
   Promise!Server!Execute, Promise!Server!Begin, Promise!Server!Commit,
   Promise!Server!Rollback, Promise!Server!Insert, Promise!Server!Select,
   Promise!Server!FailingSelect, Promise!Server!NoEffect, Promise!Server!Reject,
   Promise!Server!Succeed, Promise!Server!Fail, Promise!Server!Visible

\* The reply shown is the one the promise tells.
LEMMA ShowTells ==
  ASSUME CalmInv, pc \in {"reply", "rows"}, UNCHANGED <<database, stmt>>,
         \/ Show(answer.ok, {}) /\ answer.rows = {}
         \/ Show(TRUE, answer.rows) /\ answer.ok
  PROVE  Promise!Tell
<1>1. /\ log' = Append(log, Promise!Told(stmt, answer)) /\ pc' = "idle"
  BY DEF Show, Promise!Told
<1> QED BY <1>1 DEF Promise!Tell, database

LEMMA Steps ==
  NoneFailing /\ TypeInv /\ CalmInv /\ [Next]_vars /\ faults' = 0 => [Promise!Next]_(Promise!vars)
<1> SUFFICES ASSUME NoneFailing, TypeInv, CalmInv, [Next]_vars, faults' = 0
             PROVE  Promise!Next \/ UNCHANGED Promise!vars
  OBVIOUS
<1> USE DEF database
<1>1. ASSUME NEW s \in Statements, Submit(s) PROVE Promise!Next
  BY <1>1 DEF Submit, Promise!Ask, Promise!Next
<1>2. CASE TakePooled \/ RestartServer \/ UNCHANGED vars
  BY <1>2 DEF TakePooled, RestartServer, vars, Promise!vars
<1>3. CASE Ping
  <2>1. CASE pc' = "idle"
    BY <1>3, <2>1 DEF Ping, Promise!vars
  <2>2. CASE pc' = "exited"
    <3>1. mode' = "auto" /\ work' = {}
      BY <1>3 DEF Ping, CalmInv
    <3>2. Promise!Close
      BY <1>3, <2>2, <3>1 DEF Ping, Promise!Close
    <3> QED BY <3>2 DEF Promise!Next
  <2> QED BY <1>3, <2>1, <2>2 DEF Ping
<1>4. CASE Close
  BY <1>4 DEF Close, Promise!Close, Promise!Next
<1>5. CASE Run
  <2>1. Promise!Server!Execute(stmt)
    BY <1>5, SameServer DEF Run
  <2>2. Promise!Do
    BY <1>5, <2>1 DEF Run, Promise!Do
  <2> QED BY <2>2 DEF Promise!Next
<1>6. CASE Deliver
  <2>1. CASE answer.rows = {}
    BY <1>6, <2>1, ShowTells DEF Deliver, Promise!Next
  <2>2. CASE answer.rows # {}
    BY <1>6, <2>2 DEF Deliver, Promise!vars
  <2> QED BY <2>1, <2>2
<1>7. CASE RenderRows
  <2>1. answer.ok = TRUE
    BY <1>7, AnswerShape DEF RenderRows, CalmInv
  <2>2. Promise!Tell
    BY <1>7, <2>1, ShowTells DEF RenderRows
  <2> QED BY <2>2 DEF Promise!Next
<1> QED
  BY <1>1, <1>2, <1>3, <1>4, <1>5, <1>6, <1>7, NoFaults DEF Next, Client

\* ImplementsPromise: where no connection is lost and no SELECT fails on a row,
\* pool, retry and row loop are invisible; each statement is executed once, in
\* the transaction left open, and answered.
THEOREM Refinement == ASSUME Calm PROVE Spec => ImplementsPromise
<1>1. Init => CalmInv
  BY DEF Init, CalmInv
<1>2. Init => Promise!Init
  BY DEF Init, Promise!Init
<1>3. TypeInv /\ CalmInv /\ [Next]_vars
        => TypeInv' /\ CalmInv' /\ [Promise!Next]_(Promise!vars)
  <2> SUFFICES ASSUME TypeInv, CalmInv, [Next]_vars
               PROVE  TypeInv' /\ CalmInv' /\ [Promise!Next]_(Promise!vars)
    OBVIOUS
  <2>1. TypeInv'
    BY TypeInvStep
  <2>2. faults' = 0 /\ NoneFailing
    BY <2>1 DEF Calm, TypeInv, TypeOK
  <2> QED BY <2>1, <2>2, CalmInvStep, Steps
<1> QED
  BY TypeInvInit, <1>1, <1>2, <1>3, PTL DEF Spec, ImplementsPromise, Promise!Spec
=============================================================================
