------------------------------ MODULE MCPgCli ------------------------------
(* Models of PgCli: scripts of the CLI guides and of the e2e tests.        *)
EXTENDS PgCli

CONSTANT r1

Line(word, part, comment, semi) ==
  [word |-> word, code |-> part.op # "", part |-> part,
   comment |-> comment, semi |-> semi]
NoPart == Plain("")

\* "exit", "tables", BEGIN; COMMIT; SELECT ...; and an INSERT on one line or
\* on two; the last COMMIT is typed without its terminator.
ScriptLines == {Line("exit", Plain("exit"), FALSE, FALSE),
                Line("tables", Plain("tables"), FALSE, FALSE),
                Line("sql", Plain("BEGIN"), FALSE, TRUE),
                Line("sql", Plain("COMMIT"), FALSE, TRUE),
                Line("sql", Plain("COMMIT"), FALSE, FALSE),
                Line("sql", Insert(r1), FALSE, TRUE),
                Line("sql", [op |-> "INSERT INTO", row |-> r1], FALSE, FALSE),
                Line("sql", [op |-> "VALUES", row |-> r1], FALSE, TRUE)}

\* The same with the comment lines of the guides' examples.
CommentLines == {Line("sql", NoPart, TRUE, FALSE),
                 Line("sql", Insert(r1), FALSE, TRUE),
                 Line("sql", Plain("SELECT"), FALSE, TRUE),
                 Line("", NoPart, FALSE, FALSE),
                 Line("help", Plain("help"), FALSE, FALSE)}
AllLines == ScriptLines \cup CommentLines
=============================================================================
