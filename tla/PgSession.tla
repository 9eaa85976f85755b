----------------------------- MODULE PgSession -----------------------------
(***************************************************************************)
(* postgres-cli and pgadapter-cli between main's PingContext and the end   *)
(* of executeQuery: one statement at a time through database/sql's pool    *)
(* and lib/pq to a server that can drop the connection or restart.         *)
(*                                                                         *)
(* The CLIs hold a *sql.DB, not a connection: every db.Query and db.Exec   *)
(* takes a connection from the pool, and when lib/pq says driver.ErrBadConn*)
(* database/sql runs the statement again on another one.  BEGIN, COMMIT    *)
(* and ROLLBACK are typed statements like any other.                       *)
(***************************************************************************)
EXTENDS Naturals, Sequences, FiniteSets

CONSTANTS Rows,        \* the keys of the rows a user may insert
          Statements,  \* the statements a user may type
          NoStatement, \* no statement was typed yet
          MaxStmts,    \* bound on the number of statements typed
          MaxFaults    \* bound on connections dropped and server stops

ASSUME BoundsAssumption == MaxStmts \in Nat /\ MaxFaults \in Nat

VARIABLES store, mode, work, answer, \* the database and its side of the
                                     \* connection, see PgServer
          up,     \* the server accepts connections
          conn,   \* the pooled connection: "none", "open", or "cut" when
                  \* only the server knows that it is gone
          pc,     \* "start", "idle", "checkout", "sent", "reply", "rows", "exited"
          stmt,   \* the statement executeQuery was called with
          tries,  \* how often database/sql got ErrBadConn for it
          log,    \* what the user was told (history)
          faults, \* connections dropped and server stops so far
          runAt   \* how many there had been when the server executed the
                  \* i-th statement, for the last time (history)

database == <<store, mode, work, answer>>
vars == <<store, mode, work, answer, up, conn, pc, stmt, tries, log, faults, runAt>>

Server == INSTANCE PgServer

ASSUME StatementsAssumption ==
  \A s \in Statements :
    /\ s.op \in Server!Ops
    /\ s.op = "INSERT" => s.row \in Rows

\* database/sql: two attempts with a cached or new connection, then a last
\* one with a new connection (maxBadConnRetries).
MaxTries == 2

Init == /\ store = {} /\ mode = "auto" /\ work = {}
        /\ answer = [ok |-> TRUE, rows |-> {}]
        /\ up \in BOOLEAN
        /\ conn = "none"
        /\ pc = "start"
        /\ stmt = NoStatement
        /\ tries = 0
        /\ log = <<>>
        /\ faults = 0
        /\ runAt = [i \in 1..MaxStmts |-> 0]

-----------------------------------------------------------------------------
\* PingContext leaves its connection in the pool; without it main exits.
Ping == /\ pc = "start"
        /\ \/ up /\ conn' = "open" /\ pc' = "idle"
           \/ pc' = "exited" /\ UNCHANGED conn
        /\ UNCHANGED <<database, up, stmt, tries, log, faults, runAt>>

\* executeQuery(db, query)
Submit(s) == /\ pc = "idle"
             /\ Len(log) < MaxStmts
             /\ stmt' = s
             /\ tries' = 0
             /\ pc' = "checkout"
             /\ UNCHANGED <<database, up, conn, log, faults, runAt>>

\* The end of executeQuery: the user is shown a result or an error.
Show(ok, rows) == /\ log' = Append(log, [stmt |-> stmt, ok |-> ok, rows |-> rows])
                  /\ pc' = "idle"

\* Mutation: every statement gets a connection of its own.
TakeNew == /\ pc = "checkout" /\ conn # "none"
           /\ mode' = "auto" /\ work' = {}
           /\ pc' = "sent"
           /\ UNCHANGED <<store, answer, up, conn, stmt, tries, log, faults, runAt>>

\* db.conn(): the pooled connection, or a new one.
TakePooled == /\ pc = "checkout" /\ conn # "none"
              /\ pc' = "sent"
              /\ UNCHANGED <<database, up, conn, stmt, tries, log, faults, runAt>>

Dial == /\ pc = "checkout" /\ conn = "none" /\ up
        /\ conn' = "open"
        /\ pc' = "sent"
        /\ UNCHANGED <<database, up, stmt, tries, log, faults, runAt>>

DialRefused == /\ pc = "checkout" /\ conn = "none" /\ ~up
               /\ Show(FALSE, {})
               /\ UNCHANGED <<database, up, conn, stmt, tries, faults, runAt>>

\* The server executes the statement it was sent.
Run == /\ pc = "sent" /\ conn = "open"
       /\ Server!Execute(stmt)
       /\ runAt' = [runAt EXCEPT ![Len(log) + 1] = faults]
       /\ pc' = "reply"
       /\ UNCHANGED <<up, conn, stmt, tries, log, faults>>

\* Mutation: the bad connection stays in the pool and is not counted.
BadConnKept == /\ pc \in {"sent", "reply"} /\ conn = "cut"
               /\ pc' = "checkout"
               /\ UNCHANGED <<database, up, conn, stmt, tries, log, faults, runAt>>

\* lib/pq reads end of file, or the server's FATAL notice, on a connection
\* that is gone: ErrBadConn, the connection leaves the pool, and database/sql
\* tries again until its attempts are used up.
BadConn == /\ pc \in {"sent", "reply"} /\ conn = "cut"
           /\ conn' = "none"
           /\ \/ /\ tries < MaxTries
                 /\ tries' = tries + 1
                 /\ pc' = "checkout"
                 /\ UNCHANGED log
              \/ /\ tries = MaxTries
                 /\ Show(FALSE, {})
                 /\ UNCHANGED tries
           /\ UNCHANGED <<database, up, stmt, faults, runAt>>

\* Mutation: the error is ignored.
NetErrorIgnored == /\ pc \in {"sent", "reply"} /\ conn = "cut"
                   /\ conn' = "none"
                   /\ Show(TRUE, {})
                   /\ UNCHANGED <<database, up, stmt, tries, faults, runAt>>

\* Any other network error (reset, broken pipe) is returned as it is; the
\* connection leaves the pool all the same.
NetError == /\ pc \in {"sent", "reply"} /\ conn = "cut"
            /\ conn' = "none"
            /\ Show(FALSE, {})
            /\ UNCHANGED <<database, up, stmt, tries, faults, runAt>>

\* Mutations: the error of db.Exec is ignored; a result is taken for an error.
DeliverIgnoringError == /\ pc = "reply"
                        /\ IF answer.rows = {}
                           THEN Show(TRUE, {})
                           ELSE pc' = "rows" /\ UNCHANGED log
                        /\ UNCHANGED <<database, up, conn, stmt, tries, faults, runAt>>
DeliverLosingResult == /\ pc = "reply"
                       /\ IF answer.rows = {}
                          THEN Show(FALSE, {})
                          ELSE pc' = "rows" /\ UNCHANGED log
                       /\ UNCHANGED <<database, up, conn, stmt, tries, faults, runAt>>

\* The reply arrived.  An error before the first row is an error of db.Query
\* or db.Exec; rows start rows.Next().
Deliver == /\ pc = "reply"
           /\ IF answer.rows = {}
              THEN Show(answer.ok, {})
              ELSE pc' = "rows" /\ UNCHANGED log
           /\ UNCHANGED <<database, up, conn, stmt, tries, faults, runAt>>

\* Mutation: the first row is consumed before the loop.
RenderAllButFirst == /\ pc = "rows"
                     /\ \E r \in answer.rows : Show(TRUE, answer.rows \ {r})
                     /\ UNCHANGED <<database, up, conn, stmt, tries, faults, runAt>>

\* rows.Next() returned false after the last row sent, whether the answer
\* ended there or an error followed: rows.Err() is not looked at.
RenderRows == /\ pc = "rows"
              /\ Show(TRUE, answer.rows)
              /\ UNCHANGED <<database, up, conn, stmt, tries, faults, runAt>>

\* rows.Next() returned false because the connection was lost after some of
\* the rows: they are rendered the same way.
RenderCutOff == /\ pc = "rows" /\ conn = "cut"
                /\ \E got \in SUBSET answer.rows :
                     got # {} /\ got # answer.rows /\ Show(TRUE, got)
                /\ conn' = "none"
                /\ UNCHANGED <<database, up, stmt, tries, faults, runAt>>

\* Mutation: the open block is committed on the way out.
CloseCommitting == /\ pc = "idle"
                   /\ pc' = "exited"
                   /\ conn' = "none"
                   /\ store' = store \cup work
                   /\ mode' = "auto"
                   /\ work' = {}
                   /\ UNCHANGED <<answer, up, stmt, tries, log, faults, runAt>>

\* main returns: db.Close() ends the connection, and with it an open block.
Close == /\ pc = "idle"
         /\ pc' = "exited"
         /\ conn' = "none"
         /\ mode' = "auto"
         /\ work' = {}
         /\ UNCHANGED <<store, answer, up, stmt, tries, log, faults, runAt>>

-----------------------------------------------------------------------------
\* The server's end of the connection goes: its open block is undone.
Drop == /\ mode' = "auto"
        /\ work' = {}
        /\ conn' = IF conn = "none" THEN "none" ELSE "cut"
        /\ faults' = faults + 1
        /\ UNCHANGED <<store, answer, pc, stmt, tries, log, runAt>>

CutConnection == conn = "open" /\ faults < MaxFaults /\ Drop /\ UNCHANGED up

StopServer == up /\ faults < MaxFaults /\ up' = FALSE /\ Drop

\* restart: unless-stopped
RestartServer == /\ ~up
                 /\ up' = TRUE
                 /\ UNCHANGED <<database, conn, pc, stmt, tries, log, faults, runAt>>

Client == \/ Ping
          \/ TakePooled \/ Dial \/ DialRefused
          \/ BadConn \/ NetError \/ Deliver
          \/ RenderRows \/ RenderCutOff

Next == \/ \E s \in Statements : Submit(s)
        \/ Client
        \/ Close
        \/ Run
        \/ CutConnection \/ StopServer \/ RestartServer

Spec == Init /\ [][Next]_vars

\* executeQuery runs to its end, and the server answers what it was sent.
FairSpec == Spec /\ WF_vars(Client) /\ WF_vars(Run)

-----------------------------------------------------------------------------
TypeOK == /\ store \in SUBSET Rows /\ work \in SUBSET Rows
          /\ mode \in Server!Modes
          /\ answer \in Server!Answer
          /\ up \in BOOLEAN
          /\ conn \in {"none", "open", "cut"}
          /\ pc \in {"start", "idle", "checkout", "sent", "reply", "rows", "exited"}
          /\ stmt \in Statements \cup {NoStatement}
          /\ tries \in 0..MaxTries
          /\ log \in Seq([stmt : Statements, ok : BOOLEAN, rows : SUBSET Rows])
          /\ faults \in 0..MaxFaults
          /\ runAt \in [1..MaxStmts -> 0..MaxFaults]

\* What the user knows, from the replies alone.
Acked(i, ops) == log[i].ok /\ log[i].stmt.op \in ops
InsertAcked(i) == Acked(i, {"INSERT"})

\* Reply b opened a block that no reply up to n closed.
OpenSince(b, n) == /\ Acked(b, {"BEGIN"})
                   /\ \A j \in (b + 1)..n : ~Acked(j, {"COMMIT", "ROLLBACK"})
InBlock(n) == \E b \in 1..n : OpenSince(b, n)

\* The reply the user is looking at.
JustTold(ops) == pc = "idle" /\ log # <<>> /\ Acked(Len(log), ops)

-----------------------------------------------------------------------------
\* While the CLI waits for input the server has a block open only if the
\* user was told so: whatever the pool did with lost connections and
\* repeated statements, nothing typed now lands in a transaction the user
\* does not know of.
NoHiddenTransaction == pc = "idle" /\ mode # "auto" => InBlock(Len(log))

\* An INSERT reported as done outside a block is committed, and stays so
\* over lost connections and server restarts.
AckedInsertsDurable ==
  \A i \in DOMAIN log :
    InsertAcked(i) /\ ~InBlock(i) => log[i].stmt.row \in store

\* Commit c, when reported as done after a block opened by statement b whose
\* statements were all reported as done, made every row of the block durable.
CommitKept(b, c) ==
  /\ Acked(c, {"COMMIT"}) /\ OpenSince(b, c - 1)
  /\ \A j \in b..c : log[j].ok
  => \A j \in b..c : InsertAcked(j) => log[j].stmt.row \in store
CommitKeeps == \A c \in DOMAIN log : \A b \in 1..(c - 1) : CommitKept(b, c)

\* When a ROLLBACK is reported as done no row of its block is committed.
RollbackDiscarded(b) ==
  JustTold({"ROLLBACK"}) /\ OpenSince(b, Len(log) - 1) =>
    \A j \in b..Len(log) : InsertAcked(j) => log[j].stmt.row \notin store
RollbackDiscards == \A b \in 1..(Len(log) - 1) : RollbackDiscarded(b)

\* The rows a SELECT shows include every row whose INSERT was reported as
\* done in the same, undisturbed block.
WritesRead(b) ==
  /\ JustTold({"SELECT"}) /\ OpenSince(b, Len(log))
  /\ \A j \in b..Len(log) : log[j].ok
  => \A j \in b..Len(log) : InsertAcked(j) => log[j].stmt.row \in log[Len(log)].rows
ReadYourWrites == \A b \in 1..Len(log) : WritesRead(b)

\* The three hold of each block over which no connection was lost, whatever
\* was lost and repeated before it and after it; a COMMIT keeps its block if
\* no SELECT failed on a row in it.
UndisturbedBlocksHold ==
  /\ \A c \in DOMAIN log : \A b \in 1..(c - 1) :
       runAt[b] = runAt[c] /\ (\A j \in b..c : log[j].stmt.op # "FAILING") => CommitKept(b, c)
  /\ \A b \in 1..(Len(log) - 1) : runAt[b] = runAt[Len(log)] => RollbackDiscarded(b)
  /\ \A b \in 1..Len(log) : runAt[b] = faults => WritesRead(b)

\* A row whose INSERT was refused is there only because of an INSERT the
\* user saw succeed: a refused statement has no effect.
RefusedHasNoEffect ==
  \A r \in store : \E i \in DOMAIN log \cup {Len(log) + 1} :
    \/ i \in DOMAIN log /\ InsertAcked(i) /\ log[i].stmt.row = r
    \/ i \notin DOMAIN log /\ pc # "idle" /\ stmt.op = "INSERT" /\ stmt.row = r

\* Every statement typed is answered: no retry goes on for ever and no lost
\* connection leaves the prompt hanging.
Answered == (pc = "checkout") ~> (pc = "idle")

-----------------------------------------------------------------------------
\* The pool, the retries and the row loop are invisible to the user.
Promise == INSTANCE TxSession WITH
  phase <- CASE pc \in {"checkout", "sent"} -> "asked"
             [] pc \in {"reply", "rows"}    -> "done"
             [] pc = "exited"               -> "closed"
             [] OTHER                       -> "idle"
ImplementsPromise == Promise!Spec
=============================================================================
