----------------------------- MODULE MCRestRepl -----------------------------
(* Models of RestRepl: commands of the CLI guides.                         *)
EXTENDS RestRepl, TLC

Line(slash, words, semi) == [slash |-> slash, words |-> words, semi |-> semi]
Text(words, semi) == Line("none", words, semi)

\* \q, \l, \i, \h, a blank line, one-line commands with and without a body,
\* the first and last line of a command with a body on several lines and of one
\* without, a word that is no method and a path that lacks the leading slash.
GuideLines == {Line("quit", <<"\\q">>, FALSE), Line("list", <<"\\l">>, FALSE),
               Line("info", <<"\\i">>, FALSE), Line("local", <<"\\h">>, FALSE),
               Text(<<"">>, FALSE),
               Text(<<"GET", "/c">>, TRUE), Text(<<"PUT", "/c", "{}">>, TRUE),
               Text(<<"PUT", "/c", "{">>, FALSE), Text(<<"}">>, TRUE),
               Text(<<"PUT">>, FALSE), Text(<<"/c">>, TRUE),
               Text(<<"PUT:", "/c", "{}">>, TRUE), Text(<<"PUT", "c", "{}">>, TRUE)}
WordsWithColon == {"PUT:"}
SlashlessPaths == {"c"}
PathsWithSemi == "/c" :> "/c;"
TwoNames == "/c" :> "c" @@ "/c;" :> "c;"
=============================================================================
