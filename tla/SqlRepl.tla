------------------------------ MODULE SqlRepl ------------------------------
(***************************************************************************)
(* The line loop of postgres-cli, pgadapter-cli and neo4j-cli (main in     *)
(* each main.go): a bufio.Scanner over stdin, a `multiline` buffer of the  *)
(* lines of the statement being typed, special commands that are looked at *)
(* only while the buffer is empty, and executeQuery called as soon as a    *)
(* line ends in ";".                                                       *)
(*                                                                         *)
(* A line is abstracted to what the loop looks at (see LinesAssumption).   *)
(* The loop stores the text of a line; here it stores the line's number in *)
(* the input, so that the properties can say which typed lines a query is  *)
(* made of.                                                                *)
(***************************************************************************)
EXTENDS Naturals, Sequences, Functions

CONSTANTS Lines,    \* the trimmed lines that may be typed, as records
          Commands, \* the words the CLI's switch runs and then `continue`s on
          MaxLines  \* bound on the number of lines typed

\* What the loop looks at in a trimmed line:
\*   word     its lower-cased text if it is blank, "exit" or a command word,
\*            and any other string if it is statement text
\*   semi     its last character is ";"
ASSUME LinesAssumption ==
  \A l \in Lines :
    /\ l.semi \in BOOLEAN
    /\ l.word \in Commands \cup {"", "exit"} => ~l.semi
ASSUME CommandsAssumption == "" \notin Commands /\ "exit" \notin Commands
ASSUME MaxLinesAssumption == MaxLines \in Nat

VARIABLES typed,     \* the lines Scan has returned so far (history)
          multiline, \* the pending statement: numbers of its lines
          executed,  \* the queries handed to executeQuery (history)
          ran,       \* numbers of the lines run as commands (history)
          pc         \* "prompt", or why the loop was left: "quit", "eof"

vars == <<typed, multiline, executed, ran, pc>>

Init == /\ typed = <<>>
        /\ multiline = <<>>
        /\ executed = <<>>
        /\ ran = <<>>
        /\ pc = "prompt"

-----------------------------------------------------------------------------
\* scanner.Scan() returned line l.  Its number is Here.
Here == Len(typed) + 1

Scan(l) == /\ pc = "prompt"
           /\ Len(typed) < MaxLines
           /\ typed' = Append(typed, l)

\* Mutation: the switch is entered whatever is pending.
SpecialAnywhere(l) == l.word \in Commands \cup {"exit"}

\* The switch is entered only between statements.
Special(l) == multiline = <<>> /\ l.word \in Commands \cup {"exit"}

RunCommand(l) == /\ Scan(l)
                 /\ Special(l)
                 /\ l.word # "exit"
                 /\ ran' = Append(ran, Here)
                 /\ UNCHANGED <<multiline, executed, pc>>

Quit(l) == /\ Scan(l)
           /\ Special(l)
           /\ l.word = "exit"
           /\ pc' = "quit"
           /\ UNCHANGED <<multiline, executed, ran>>

SkipBlank(l) == /\ Scan(l)
                /\ l.word = ""
                /\ UNCHANGED <<multiline, executed, ran, pc>>

\* Mutations: the buffer is set to the line instead of extended by it; the
\* terminator is not looked at.
AddLineOverwriting(l) == /\ Scan(l)
                         /\ ~Special(l) /\ l.word # "" /\ ~l.semi
                         /\ multiline' = <<Here>>
                         /\ UNCHANGED <<executed, ran, pc>>
AddLineUnchecked(l) == /\ Scan(l)
                       /\ ~Special(l) /\ l.word # ""
                       /\ multiline' = Append(multiline, Here)
                       /\ UNCHANGED <<executed, ran, pc>>

AddLine(l) == /\ Scan(l)
              /\ ~Special(l) /\ l.word # ""
              /\ ~l.semi
              /\ multiline' = Append(multiline, Here)
              /\ UNCHANGED <<executed, ran, pc>>

\* Mutation: the buffer is not reset.
DispatchWithoutReset(l) == /\ Scan(l)
                           /\ ~Special(l) /\ l.word # "" /\ l.semi
                           /\ executed' = Append(executed, Append(multiline, Here))
                           /\ UNCHANGED <<multiline, ran, pc>>

\* strings.Join(multiline, " "), multiline = nil, executeQuery.
Dispatch(l) == /\ Scan(l)
               /\ ~Special(l) /\ l.word # ""
               /\ l.semi
               /\ executed' = Append(executed, Append(multiline, Here))
               /\ multiline' = <<>>
               /\ UNCHANGED <<ran, pc>>

\* Scan returned false: end of input, or a line longer than the scanner's
\* buffer.  The loop is left without looking at `multiline`.
EndOfInput == /\ pc = "prompt"
              /\ pc' = "eof"
              /\ UNCHANGED <<typed, multiline, executed, ran>>

Next == \/ \E l \in Lines : \/ RunCommand(l)
                            \/ Quit(l)
                            \/ SkipBlank(l)
                            \/ AddLine(l)
                            \/ Dispatch(l)
        \/ EndOfInput

Spec == Init /\ [][Next]_vars

-----------------------------------------------------------------------------
\* The numbers of the lines that are in some executed query, and those that
\* were consumed without becoming part of a statement.
ExecutedLines == UNION {Range(executed[k]) : k \in DOMAIN executed}
BlankLines == {i \in DOMAIN typed : typed[i].word = ""}
QuitLines == {i \in DOMAIN typed : pc = "quit" /\ i = Len(typed)}

-----------------------------------------------------------------------------
TypeOK == /\ typed \in Seq(Lines)
          /\ Len(typed) <= MaxLines
          /\ multiline \in Seq(DOMAIN typed)
          /\ executed \in Seq(Seq(DOMAIN typed))
          /\ ran \in Seq(DOMAIN typed)
          /\ pc \in {"prompt", "quit", "eof"}

\* Every line read is accounted for: it was blank, ran as a command, ended
\* the session, went to the database in some query, or is still pending.
\* The append/reset of `multiline` around executeQuery drops nothing.
NothingLost ==
  DOMAIN typed = BlankLines \cup Range(ran) \cup QuitLines
                   \cup ExecutedLines \cup Range(multiline)

\* The lines of the queries, one query after the other, and then the pending
\* ones are in the order typed: no line is sent twice, none overtakes another,
\* and no query reuses the buffer of the one before it.
InTypedOrder ==
  /\ \A k \in DOMAIN executed : \A a, b \in DOMAIN executed[k] :
       a < b => executed[k][a] < executed[k][b]
  /\ \A k, m \in DOMAIN executed : k < m =>
       \A i \in Range(executed[k]), j \in Range(executed[m]) : i < j
  /\ \A a, b \in DOMAIN multiline : a < b => multiline[a] < multiline[b]
  /\ \A i \in ExecutedLines, j \in Range(multiline) : i < j

\* A terminator is never left waiting and never ends up inside a query: a
\* line ending in ";" is the last line of the query it belongs to, and what
\* the end of the input discards was never terminated.
OneTerminatorPerQuery ==
  /\ \A k \in DOMAIN executed : LET q == executed[k] IN
       \A a \in DOMAIN q : typed[q[a]].semi <=> a = Len(q)
  /\ \A a \in DOMAIN multiline : ~typed[multiline[a]].semi

\* A special command runs only between two statements: the lines of one
\* query lie all before or all after it, and so do those still pending.
CommandsBetweenStatements ==
  \A c \in Range(ran) :
    /\ \A k \in DOMAIN executed :
         (\A i \in Range(executed[k]) : i < c) \/ (\A i \in Range(executed[k]) : c < i)
    /\ \A i \in Range(multiline) : c < i
=============================================================================
