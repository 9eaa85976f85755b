----------------------------- MODULE TxSession -----------------------------
(***************************************************************************)
(* What the SQL CLIs promise their user: each statement typed is executed  *)
(* exactly once, in the transaction the statements before it left open,    *)
(* and the user is then told what the database answered to it.             *)
(***************************************************************************)
EXTENDS Sequences

CONSTANTS Rows, Statements, NoStatement

VARIABLES store, mode, work, answer, \* the database, see PgServer
          phase,                     \* "idle", "asked", "done", "closed"
          stmt,                      \* the statement being handled
          log                        \* what the user was told (history)

vars == <<store, mode, work, answer, phase, stmt, log>>

Server == INSTANCE PgServer

\* What the user is told: the rows of a result, or that there was an error.
Told(s, a) == [stmt |-> s, ok |-> a.ok, rows |-> IF a.ok THEN a.rows ELSE {}]

Init == /\ store = {} /\ mode = "auto" /\ work = {}
        /\ answer = [ok |-> TRUE, rows |-> {}]
        /\ phase = "idle"
        /\ stmt = NoStatement
        /\ log = <<>>

Ask(s) == /\ phase = "idle"
          /\ phase' = "asked"
          /\ stmt' = s
          /\ UNCHANGED <<store, mode, work, answer, log>>

Do == /\ phase = "asked"
      /\ Server!Execute(stmt)
      /\ phase' = "done"
      /\ UNCHANGED <<stmt, log>>

Tell == /\ phase = "done"
        /\ log' = Append(log, Told(stmt, answer))
        /\ phase' = "idle"
        /\ UNCHANGED <<store, mode, work, answer, stmt>>

\* The user leaves: a block still open is not committed.
Close == /\ phase = "idle"
         /\ phase' = "closed"
         /\ mode' = "auto"
         /\ work' = {}
         /\ UNCHANGED <<store, answer, stmt, log>>

Next == (\E s \in Statements : Ask(s)) \/ Do \/ Tell \/ Close

Spec == Init /\ [][Next]_vars
=============================================================================
