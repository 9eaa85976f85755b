----------------------------- MODULE MCSqlRepl -----------------------------
(* Model of SqlRepl: a blank line, words the switch knows, a word of       *)
(* another CLI's switch, and lines of statements.                          *)
EXTENDS SqlRepl

Line(word, semi) == [word |-> word, semi |-> semi]

MCCommands == {"help", "tables"}
MCLines == {Line("", FALSE), Line("exit", FALSE), Line("help", FALSE),
            Line("tables", FALSE), Line("labels", FALSE),
            Line("select", FALSE), Line("select;", TRUE)}
=============================================================================
