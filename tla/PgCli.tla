------------------------------- MODULE PgCli -------------------------------
(***************************************************************************)
(* postgres-cli and pgadapter-cli as a whole: the line loop of SqlRepl     *)
(* feeding the session of PgSession.  main is one goroutine: Scan is       *)
(* called again only when executeQuery or showTables has returned.         *)
(***************************************************************************)
EXTENDS Naturals, SequencesExt

CONSTANTS Lines,      \* the lines that may be typed, as in SqlRepl and with
                      \*   code     it holds SQL outside a comment
                      \*   part     the piece of SQL it holds
                      \*   comment  it opens a comment (--) that runs to its end
          MaxLines,   \* bound on the number of lines typed
          Rows,       \* the keys of the rows a user may insert
          NoStatement,
          MaxFaults   \* bound on connections dropped and server stops

ASSUME BoundsAssumption == MaxLines \in Nat /\ MaxFaults \in Nat

\* A command word does not end in the terminator.
ASSUME LinesAssumption ==
  \A l \in Lines :
    /\ l.semi \in BOOLEAN
    /\ l.word \in {"help", "tables"} \cup {"", "exit"} => ~l.semi

VARIABLES typed, multiline, executed, ran, loop,  \* SqlRepl, its pc is loop
          store, mode, work, answer, up, conn,    \* PgSession
          pc, stmt, tries, log, faults, runAt

repl == <<typed, multiline, executed, ran, loop>>
session == <<store, mode, work, answer, up, conn, pc, stmt, tries, log, faults, runAt>>
vars == <<repl, session>>

Plain(op) == [op |-> op, row |-> NoStatement]
Insert(r) == [op |-> "INSERT", row |-> r]
\* What a query may turn out to be, and what the `tables` command runs.
Queries == {Plain(op) : op \in {"BEGIN", "COMMIT", "ROLLBACK", "SELECT",
                                "EMPTY", "SYNTAX"}}
             \cup {Insert(r) : r \in Rows}
Statements == Queries \cup {Plain("TABLES")}

Repl == INSTANCE SqlRepl WITH pc <- loop, Commands <- {"help", "tables"}
Sess == INSTANCE PgSession WITH MaxStmts <- MaxLines

-----------------------------------------------------------------------------
\* The statement that pieces of SQL make up: nothing, one whole statement, or
\* the two lines of an INSERT.
Meaning(parts) ==
  CASE parts = <<>>                                 -> Plain("EMPTY")
    [] Len(parts) = 1 /\ parts[1] \in Queries       -> parts[1]
    [] Len(parts) = 2 /\ parts[1].op = "INSERT INTO"
                      /\ parts[2].op = "VALUES"
                      /\ parts[2].row \in Rows     -> Insert(parts[2].row)
    [] OTHER                                        -> Plain("SYNTAX")

Parts(ls) == LET code == SelectSeq(ls, LAMBDA l : l.code)
             IN  [k \in DOMAIN code |-> code[k].part]

\* strings.Join puts a blank where a line break was, so a comment runs on to
\* the end of the query: the lines the server sees anything of.
UpToComment(ls) == LET c == SelectInSeq(ls, LAMBDA l : l.comment)
                   IN  IF c = 0 THEN ls ELSE SubSeq(ls, 1, c)

LinesOf(q) == [k \in DOMAIN q |-> typed[q[k]]]
\* What the server executes for the query made of lines ls, and what its
\* author wrote.
Sent(ls) == Meaning(Parts(UpToComment(ls)))
Written(ls) == Meaning(Parts(ls))

-----------------------------------------------------------------------------
Init == Repl!Init /\ Sess!Init

\* The loop is in scanner.Scan().
Waiting == pc = "idle"

\* Lines that end in no call to the database.
ReadLine == /\ Waiting
            /\ \E l \in Lines : \/ l.word # "tables" /\ Repl!RunCommand(l)
                                \/ Repl!SkipBlank(l)
                                \/ Repl!AddLine(l)
            /\ UNCHANGED session

ShowTables == /\ Waiting
              /\ \E l \in Lines : l.word = "tables" /\ Repl!RunCommand(l)
              /\ Sess!Submit(Plain("TABLES"))

\* Mutations: the query is the last line only; it is joined after the reset.
ExecuteLastLine == /\ Waiting
                   /\ \E l \in Lines :
                        /\ Repl!Dispatch(l)
                        /\ Sess!Submit(Sent(<<l>>))
ExecuteAfterReset == /\ Waiting
                     /\ \E l \in Lines : Repl!Dispatch(l)
                     /\ Sess!Submit(Sent(LinesOf(<<>>)))

ExecuteQuery == /\ Waiting
                /\ \E l \in Lines :
                     /\ Repl!Dispatch(l)
                     /\ Sess!Submit(Sent(Append(LinesOf(multiline), l)))

\* "exit" or the end of the input: main returns and closes the database.
Leave == /\ Waiting
         /\ Repl!EndOfInput \/ \E l \in Lines : Repl!Quit(l)
         /\ Sess!Close

\* The session at work, in the middle of executeQuery or showTables.
SessionStep == /\ \/ Sess!Client \/ Sess!Run
                  \/ Sess!CutConnection \/ Sess!StopServer \/ Sess!RestartServer
               /\ UNCHANGED repl

Next == ReadLine \/ ShowTables \/ ExecuteQuery \/ Leave \/ SessionStep

Spec == Init /\ [][Next]_vars

-----------------------------------------------------------------------------
TypeOK == Repl!TypeOK /\ Sess!TypeOK

\* The answers to the queries, without those to the tables command: their
\* places in the log, and the lines of the query the n-th of them answers.
Answers == {i \in DOMAIN log : log[i].stmt.op # "TABLES"}
Rank(i) == Cardinality({j \in Answers : j <= i})
LinesAnswered(i) == LinesOf(executed[Rank(i)])

\* The next line is read only after the last query was answered, and every
\* query was answered once: with lost connections and repeated attempts too,
\* the n-th answer the user sees is the answer to the n-th query.
AnsweredInTurn ==
  Waiting => /\ Cardinality(Answers) = Len(executed)
             /\ \A i \in Answers : log[i].stmt = Sent(LinesAnswered(i))

\* Answer i reports an INSERT as done that was, as its author wrote it, an
\* INSERT outside any block, and its row is not in the table.
LostInsert(i) ==
  LET s == Written(LinesAnswered(i))
  IN  /\ s.op = "INSERT" /\ log[i].ok
      /\ ~Sess!InBlock(i)
      /\ s.row \notin store

\* An INSERT that the user wrote outside a block and saw reported as done is
\* in the table.
WrittenInsertsDurable == \A i \in Answers : ~LostInsert(i)

\* The same for a query without a comment, on one line or on several, typed
\* after any other lines and with a lost connection at any moment.
UncommentedInsertsDurable ==
  \A i \in Answers :
    LostInsert(i) => \E l \in Range(LinesAnswered(i)) : l.comment

\* What is in the table when the CLI is gone was acknowledged outside a
\* block or in a block whose COMMIT was sent: neither a statement still
\* pending at the end of the input nor a block left open has any effect.
\* (A lost connection may leave a statement that is reported as failed and
\* took effect.)
NothingLeftBehind ==
  pc = "exited" /\ faults = 0 =>
    \A r \in store : \E i \in DOMAIN log :
      /\ Sess!InsertAcked(i) /\ log[i].stmt.row = r
      /\ \/ ~Sess!InBlock(i)
         \/ \E c \in (i + 1)..Len(log) : Sess!Acked(c, {"COMMIT"})
=============================================================================
