------------------------------ MODULE PgServer ------------------------------
(***************************************************************************)
(* The database behind postgres-cli and pgadapter-cli, as far as one       *)
(* connection can tell: PostgreSQL's transaction blocks over one table of  *)
(* rows with unique keys.  It is not part of the repository; the CLIs use  *)
(* it by sending it one statement at a time (db.Query, db.Exec).           *)
(***************************************************************************)
CONSTANT Rows \* the keys of the rows a user may insert

VARIABLES store,  \* committed rows
          mode,   \* the connection: "auto" (no block), "block", "aborted"
          work,   \* rows inserted in the open block
          answer  \* reply to the last statement, and the rows sent with it

\* FAILING is a SELECT whose expressions raise an error on one of the rows,
\* TABLES the catalog query of showTables, EMPTY a query of comments only,
\* SYNTAX text that is no statement.
Ops == {"BEGIN", "COMMIT", "ROLLBACK", "INSERT", "SELECT", "FAILING", "TABLES",
        "EMPTY", "SYNTAX"}
Modes == {"auto", "block", "aborted"}
Answer == [ok : BOOLEAN, rows : SUBSET Rows]

Visible == store \cup work

Succeed(rows) == answer' = [ok |-> TRUE, rows |-> rows]

\* An error undoes the open block and leaves it to be closed by the user.
Fail(sent) == /\ answer' = [ok |-> FALSE, rows |-> sent]
              /\ mode' = IF mode = "auto" THEN "auto" ELSE "aborted"
              /\ work' = {}
              /\ UNCHANGED store

-----------------------------------------------------------------------------
\* BEGIN inside a block is a warning.
Begin(s) == /\ s.op = "BEGIN" /\ mode # "aborted"
            /\ mode' = "block"
            /\ Succeed({})
            /\ UNCHANGED <<store, work>>

\* COMMIT closes any block: one that was aborted has nothing left to commit,
\* and outside a block it is a warning.  All three report success.
Commit(s) == /\ s.op = "COMMIT"
             /\ store' = Visible
             /\ work' = {}
             /\ mode' = "auto"
             /\ Succeed({})

Rollback(s) == /\ s.op = "ROLLBACK"
               /\ work' = {}
               /\ mode' = "auto"
               /\ Succeed({})
               /\ UNCHANGED store

Insert(s) == /\ s.op = "INSERT" /\ mode # "aborted"
             /\ s.row \notin Visible
             /\ \/ mode = "auto"  /\ store' = store \cup {s.row} /\ UNCHANGED work
                \/ mode = "block" /\ work' = work \cup {s.row} /\ UNCHANGED store
             /\ Succeed({})
             /\ UNCHANGED mode

Select(s) == /\ s.op = "SELECT" /\ mode # "aborted"
             /\ Succeed(Visible)
             /\ UNCHANGED <<store, mode, work>>

\* The rows before the one that fails have been sent when the error is.
FailingSelect(s) == /\ s.op = "FAILING" /\ mode # "aborted"
                    /\ \/ \E sent \in SUBSET Visible : sent # Visible /\ Fail(sent)
                       \/ /\ Visible = {}
                          /\ Succeed({})
                          /\ UNCHANGED <<store, mode, work>>

\* An empty query is answered like a statement without effect, even in an
\* aborted block.
NoEffect(s) == /\ \/ s.op = "EMPTY"
                  \/ s.op = "TABLES" /\ mode # "aborted"
               /\ Succeed({})
               /\ UNCHANGED <<store, mode, work>>

Reject(s) == /\ \/ mode = "aborted" /\ s.op \notin {"COMMIT", "ROLLBACK", "EMPTY"}
                \/ s.op = "SYNTAX"
                \/ s.op = "INSERT" /\ s.row \in Visible
             /\ Fail({})

Execute(s) == \/ Begin(s) \/ Commit(s) \/ Rollback(s) \/ Insert(s)
              \/ Select(s) \/ FailingSelect(s) \/ NoEffect(s) \/ Reject(s)
=============================================================================
