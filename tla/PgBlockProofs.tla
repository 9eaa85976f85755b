---------------------------- MODULE PgBlockProofs ----------------------------
(***************************************************************************)
(* What a user may conclude from the replies to BEGIN, COMMIT and ROLLBACK *)
(* of a block over which no connection is lost.                            *)
(*                                                                         *)
(* A statement changes the database when the server executes it and the    *)
(* log when its reply is shown.  Heard is the log with the reply that is   *)
(* still on its way, so that both change in one step.                      *)
(***************************************************************************)
EXTENDS PgSessionProofs

\* The operators of PgSession on any sequence h of replies; t says when each
\* statement was executed, as runAt does.
Ok(h, i, ops) == h[i].ok /\ h[i].stmt.op \in ops
Open(h, b, n) == /\ Ok(h, b, {"BEGIN"})
                 /\ \A j \in (b + 1)..n : ~Ok(h, j, {"COMMIT", "ROLLBACK"})
Clean(h, b, n) == \A j \in b..n : h[j].ok /\ h[j].stmt.op # "FAILING"

\* Every INSERT reported in replies b to n has its row in, or not in, a set.
InsertsIn(h, b, n, rows) ==
  \A j \in b..n : Ok(h, j, {"INSERT"}) => h[j].stmt.row \in rows
InsertsOut(h, b, n, rows) ==
  \A j \in b..n : Ok(h, j, {"INSERT"}) => h[j].stmt.row \notin rows

\* A block known to be open whose BEGIN was executed after the last of f
\* faults is open; unless it was aborted, all it inserted is in the server's
\* work and nothing of it in the table.
Blocks(h, t, f, m, st, wk) ==
  \A b \in 1..Len(h) : Open(h, b, Len(h)) /\ t[b] = f =>
    /\ m # "auto"
    /\ Clean(h, b, Len(h)) => m = "block"
    /\ InsertsOut(h, b, Len(h), st)
    /\ m = "block" => InsertsIn(h, b, Len(h), wk)

Kept(h, t, st) ==
  \A c \in 1..Len(h) : \A b \in 1..(c - 1) :
    Ok(h, c, {"COMMIT"}) /\ Open(h, b, c - 1) /\ Clean(h, b, c) /\ t[b] = t[c]
      => InsertsIn(h, b, c, st)
Undone(h, t, st) ==
  Len(h) > 0 /\ Ok(h, Len(h), {"ROLLBACK"}) =>
    \A b \in 1..(Len(h) - 1) : Open(h, b, Len(h) - 1) /\ t[b] = t[Len(h)]
      => InsertsOut(h, b, Len(h), st)
Seen(h, t, f) ==
  Len(h) > 0 /\ Ok(h, Len(h), {"SELECT"}) =>
    \A b \in 1..Len(h) : Open(h, b, Len(h)) /\ t[b] = f
      => InsertsIn(h, b, Len(h), h[Len(h)].rows)

\* u says the same as t of the statements before the n-th.
Continues(u, t, n) == \A i \in 1..(n - 1) : u[i] = t[i]
\* The first n were all executed after the last of f faults.
Undisturbed(u, n, f) == \A b \in 1..n : u[b] = f

\* Of a session without faults: each row, in the table or in work, was
\* inserted, and those in the table outside a block or before a COMMIT.
Known(h, st, wk) ==
  \A r \in st \cup wk : \E i \in 1..Len(h) : Ok(h, i, {"INSERT"}) /\ h[i].stmt.row = r
Settled(h, st) ==
  \A r \in st : \E i \in 1..Len(h) :
    /\ Ok(h, i, {"INSERT"}) /\ h[i].stmt.row = r
    /\ (\A b \in 1..i : ~Open(h, b, i)) \/ (\E c \in (i + 1)..Len(h) : Ok(h, c, {"COMMIT"}))

-----------------------------------------------------------------------------
\* What a statement does to the connection, by its reply.
LEMMA ExecuteEffect ==
  ASSUME NEW s, Server!Execute(s)
  PROVE  /\ answer'.ok \in BOOLEAN
         /\ s.op \in {"COMMIT", "ROLLBACK"} => answer'.ok
         /\ ~answer'.ok => /\ store' = store /\ work' = {}
                           /\ mode' = IF mode = "auto" THEN "auto" ELSE "aborted"
         /\ answer'.ok /\ s.op = "BEGIN" =>
              mode # "aborted" /\ mode' = "block" /\ store' = store /\ work' = work
         /\ s.op = "COMMIT" => store' = store \cup work /\ work' = {} /\ mode' = "auto"
         /\ s.op = "ROLLBACK" => store' = store /\ work' = {} /\ mode' = "auto"
         /\ answer'.ok /\ s.op = "INSERT" =>
              /\ mode' = mode /\ s.row \notin store
              /\ \/ mode = "auto" /\ store' = store \cup {s.row} /\ work' = work
                 \/ mode = "block" /\ work' = work \cup {s.row} /\ store' = store
         /\ answer'.ok /\ s.op \notin {"BEGIN", "COMMIT", "ROLLBACK", "INSERT"} =>
              UNCHANGED <<store, mode, work>>
         /\ answer'.ok /\ s.op = "SELECT" => answer'.rows = store \cup work /\ mode # "aborted"
         /\ ~answer'.ok /\ s.op # "FAILING" => answer'.rows = {}
         /\ s.op \in {"COMMIT", "ROLLBACK"} => answer'.rows = {}
<1>1. CASE Server!Begin(s)
  BY <1>1 DEF Server!Begin, Server!Succeed
<1>2. CASE Server!Commit(s)
  BY <1>2 DEF Server!Commit, Server!Succeed, Server!Visible
<1>3. CASE Server!Rollback(s)
  BY <1>3 DEF Server!Rollback, Server!Succeed
<1>4. CASE Server!Insert(s)
  BY <1>4 DEF Server!Insert, Server!Succeed, Server!Visible
<1>5. CASE Server!Select(s)
  BY <1>5 DEF Server!Select, Server!Succeed, Server!Visible
<1>6. CASE Server!NoEffect(s)
  BY <1>6 DEF Server!NoEffect, Server!Succeed
<1>7. CASE Server!Reject(s)
  BY <1>7 DEF Server!Reject, Server!Fail
<1>8. CASE Server!FailingSelect(s)
  <2>1. s.op = "FAILING" /\ mode # "aborted"
    BY <1>8 DEF Server!FailingSelect
  <2>2. \/ \E sent : Server!Fail(sent)
        \/ Server!Succeed({}) /\ UNCHANGED <<store, mode, work>>
    BY <1>8 DEF Server!FailingSelect
  <2>3. CASE Server!Succeed({}) /\ UNCHANGED <<store, mode, work>>
    BY <2>1, <2>3 DEF Server!Succeed
  <2>4. CASE \E sent : Server!Fail(sent)
    <3>1. PICK sent : Server!Fail(sent)
      BY <2>4
    <3> QED BY <2>1, <3>1 DEF Server!Fail
  <2> QED BY <2>2, <2>3, <2>4
<1> QED
  BY <1>1, <1>2, <1>3, <1>4, <1>5, <1>6, <1>7, <1>8 DEF Server!Execute

\* The reply the user hears: an error only if it comes before the first row.
Hears(e, s, a) == e.stmt = s /\ e.ok = (a.ok \/ a.rows # {}) /\ e.rows = a.rows

LEMMA ExecuteHeard ==
  ASSUME NEW s, Server!Execute(s), NEW e, Hears(e, s, answer')
  PROVE  /\ e.stmt = s /\ e.rows = answer'.rows
         /\ answer'.ok => e.ok
         /\ s.op # "FAILING" => (e.ok <=> answer'.ok)
<1>1. e.stmt = s /\ e.rows = answer'.rows /\ e.ok = (answer'.ok \/ answer'.rows # {})
  BY DEF Hears
<1>2. ~answer'.ok /\ s.op # "FAILING" => answer'.rows = {}
  BY ExecuteEffect
<1> QED BY <1>1, <1>2

-----------------------------------------------------------------------------
\* One more reply: what is said of the earlier ones stays as it is.
LEMMA OneMore ==
  ASSUME NEW h \in Seq(Reply), NEW e \in Reply, NEW g, g = Append(h, e),
         NEW n, n = Len(h) + 1
  PROVE  /\ n \in Nat /\ n > 0 /\ Len(g) = n /\ Len(h) = n - 1 /\ g[n] = e
         /\ \A i \in 1..(n - 1) : g[i] = h[i]
BY AppendFacts

LEMMA Earlier ==
  ASSUME NEW h, NEW g, NEW n \in Nat, \A i \in 1..(n - 1) : g[i] = h[i],
         NEW b \in 1..(n - 1), NEW k \in 0..(n - 1)
  PROVE  /\ Open(g, b, k) <=> Open(h, b, k)
         /\ Clean(g, b, k) <=> Clean(h, b, k)
<1>1. \A j \in b..k : g[j] = h[j]
  OBVIOUS
<1>2. g[b] = h[b] /\ \A j \in (b + 1)..k : j \in b..k
  OBVIOUS
<1> QED BY <1>1, <1>2 DEF Open, Clean, Ok

LEMMA EarlierRows ==
  ASSUME NEW h, NEW g, NEW n \in Nat, \A i \in 1..(n - 1) : g[i] = h[i],
         NEW b \in 1..n, NEW k \in 0..(n - 1), NEW rows
  PROVE  /\ InsertsIn(g, b, k, rows) <=> InsertsIn(h, b, k, rows)
         /\ InsertsOut(g, b, k, rows) <=> InsertsOut(h, b, k, rows)
<1>1. \A j \in b..k : g[j] = h[j]
  OBVIOUS
<1> QED BY <1>1 DEF InsertsIn, InsertsOut, Ok

\* What the new reply adds.
LEMMA Latest ==
  ASSUME NEW g, NEW n \in Nat, NEW b \in 1..(n - 1)
  PROVE  /\ Open(g, b, n) <=> (Open(g, b, n - 1) /\ ~Ok(g, n, {"COMMIT", "ROLLBACK"}))
         /\ Clean(g, b, n) <=> (Clean(g, b, n - 1) /\ g[n].ok /\ g[n].stmt.op # "FAILING")
<1>1. \A j : j \in b..n <=> j \in b..(n - 1) \/ j = n
  OBVIOUS
<1>2. \A j : j \in (b + 1)..n <=> j \in (b + 1)..(n - 1) \/ j = n
  OBVIOUS
<1>3. Open(g, b, n) <=> (Open(g, b, n - 1) /\ ~Ok(g, n, {"COMMIT", "ROLLBACK"}))
  BY <1>2 DEF Open
<1>4. Clean(g, b, n) <=> (Clean(g, b, n - 1) /\ g[n].ok /\ g[n].stmt.op # "FAILING")
  BY <1>1 DEF Clean
<1> QED BY <1>3, <1>4

LEMMA LatestRows ==
  ASSUME NEW g, NEW n \in Nat, NEW b \in 1..n, NEW rows
  PROVE  /\ InsertsIn(g, b, n, rows) <=>
              (InsertsIn(g, b, n - 1, rows) /\ (Ok(g, n, {"INSERT"}) => g[n].stmt.row \in rows))
         /\ InsertsOut(g, b, n, rows) <=>
              (InsertsOut(g, b, n - 1, rows) /\ (Ok(g, n, {"INSERT"}) => g[n].stmt.row \notin rows))
<1>1. \A j : j \in b..n <=> j \in b..(n - 1) \/ j = n
  OBVIOUS
<1>2. InsertsIn(g, b, n, rows) <=>
        (InsertsIn(g, b, n - 1, rows) /\ (Ok(g, n, {"INSERT"}) => g[n].stmt.row \in rows))
  BY <1>1 DEF InsertsIn
<1>3. InsertsOut(g, b, n, rows) <=>
        (InsertsOut(g, b, n - 1, rows) /\ (Ok(g, n, {"INSERT"}) => g[n].stmt.row \notin rows))
  BY <1>1 DEF InsertsOut
<1> QED BY <1>2, <1>3

-----------------------------------------------------------------------------
\* What holds of the replies and the database between two statements still
\* holds when the server has executed the next, the n-th, after f faults.
LEMMA ExecuteBlocksKnown ==
  ASSUME TypeInv, NEW h \in Seq(Reply), NEW t, NEW f, Blocks(h, t, f, mode, store, work),
         NEW s, Server!Execute(s), NEW e \in Reply, Hears(e, s, answer'),
         NEW g, g = Append(h, e), NEW n, n = Len(h) + 1,
         NEW u, Continues(u, t, n)
  PROVE  Blocks(g, u, f, mode', store', work')
<1> USE DEF Continues
<1>1. /\ e.stmt = s /\ (answer'.ok => e.ok) /\ (s.op # "FAILING" => (e.ok <=> answer'.ok))
  BY ExecuteHeard
<1>2. /\ n \in Nat /\ n > 0 /\ Len(g) = n /\ Len(h) = n - 1 /\ g[n] = e
      /\ \A i \in 1..(n - 1) : g[i] = h[i]
  BY OneMore
<1>3. ASSUME NEW b \in 1..(n - 1), Open(g, b, n), u[b] = f
      PROVE  /\ mode' # "auto"
             /\ Clean(g, b, n) => mode' = "block"
             /\ InsertsOut(g, b, n, store')
             /\ mode' = "block" => InsertsIn(g, b, n, work')
  <2>1. n - 1 \in 0..(n - 1) /\ b \in 1..n
    BY <1>2
  <2>2. Open(g, b, n - 1) /\ ~(e.ok /\ s.op \in {"COMMIT", "ROLLBACK"})
    <3>1. Open(g, b, n - 1) /\ ~Ok(g, n, {"COMMIT", "ROLLBACK"})
      BY <1>2, <1>3, Latest
    <3> QED BY <1>1, <1>2, <3>1 DEF Ok
  <2>3. Open(h, b, n - 1) /\ t[b] = f
    BY <1>2, <1>3, <2>1, <2>2, Earlier
  <2>4. /\ mode # "auto" /\ (Clean(h, b, n - 1) => mode = "block")
        /\ InsertsOut(h, b, n - 1, store)
        /\ mode = "block" => InsertsIn(h, b, n - 1, work)
    BY <1>2, <2>3 DEF Blocks
  <2>5. /\ Clean(g, b, n - 1) => mode = "block"
        /\ InsertsOut(g, b, n - 1, store)
        /\ mode = "block" => InsertsIn(g, b, n - 1, work)
    BY <1>2, <2>1, <2>4, Earlier, EarlierRows
  <2>6. CASE ~answer'.ok
    <3>1. store' = store /\ mode' = "aborted"
      BY <2>4, <2>6, ExecuteEffect
    <3>2. ~Clean(g, b, n) /\ ~Ok(g, n, {"INSERT"})
      BY <1>1, <1>2, <2>6, Latest DEF Ok
    <3>3. InsertsOut(g, b, n, store)
      BY <1>2, <2>1, <2>5, <3>2, LatestRows
    <3> QED BY <3>1, <3>2, <3>3
  <2>7. CASE answer'.ok /\ s.op = "INSERT"
    <3>1. /\ mode = "block" /\ mode' = "block" /\ store' = store
          /\ work' = work \cup {s.row} /\ s.row \notin store
      BY <2>4, <2>7, ExecuteEffect
    <3>2. InsertsIn(g, b, n - 1, work')
      BY <2>5, <3>1 DEF InsertsIn
    <3>3. InsertsIn(g, b, n, work') /\ InsertsOut(g, b, n, store')
      BY <1>1, <1>2, <2>1, <2>5, <3>1, <3>2, LatestRows
    <3> QED BY <3>1, <3>3
  <2>8. CASE answer'.ok /\ s.op # "INSERT"
    <3>1. store' = store /\ work' = work /\ (mode' = mode \/ (mode' = "block" /\ mode # "aborted"))
      BY <1>1, <2>2, <2>8, ExecuteEffect
    <3>2. ~Ok(g, n, {"INSERT"})
      BY <1>1, <1>2, <2>8 DEF Ok
    <3>3. Clean(g, b, n) => Clean(g, b, n - 1)
      BY <1>2, Latest
    <3>4. InsertsOut(g, b, n, store') /\ (mode = "block" => InsertsIn(g, b, n, work'))
      BY <1>2, <2>1, <2>5, <3>1, <3>2, LatestRows
    <3>5. mode' = "block" => mode = "block"
      BY <2>4, <3>1 DEF TypeInv, TypeOK, Server!Modes
    <3> QED BY <2>4, <2>5, <3>1, <3>3, <3>4, <3>5
  <2> QED BY <2>6, <2>7, <2>8
<1>4. ASSUME Open(g, n, n)
      PROVE  /\ mode' # "auto"
             /\ Clean(g, n, n) => mode' = "block"
             /\ InsertsOut(g, n, n, store')
             /\ mode' = "block" => InsertsIn(g, n, n, work')
  <2>1. e.ok /\ s.op = "BEGIN"
    BY <1>1, <1>2, <1>4 DEF Open, Ok
  <2>2. mode' = "block"
    BY <1>1, <2>1, ExecuteEffect
  <2>3. \A j \in n..n : j = n
    BY <1>2
  <2>4. ~Ok(g, n, {"INSERT"})
    BY <1>1, <1>2, <2>1 DEF Ok
  <2> QED BY <2>2, <2>3, <2>4 DEF InsertsOut, InsertsIn
<1>5. \A b \in 1..n : b \in 1..(n - 1) \/ b = n
  BY <1>2
<1> QED BY <1>2, <1>3, <1>4, <1>5 DEF Blocks

LEMMA ExecuteKept ==
  ASSUME NEW h \in Seq(Reply), NEW t, NEW f, Blocks(h, t, f, mode, store, work), Kept(h, t, store),
         NEW s, Server!Execute(s), NEW e \in Reply, Hears(e, s, answer'),
         NEW g, g = Append(h, e), NEW n, n = Len(h) + 1,
         NEW u, Continues(u, t, n), u[n] = f
  PROVE  Kept(g, u, store')
<1> USE DEF Continues
<1>1. e.stmt = s
  BY ExecuteHeard
<1>2. /\ n \in Nat /\ n > 0 /\ Len(g) = n /\ Len(h) = n - 1 /\ g[n] = e
      /\ \A i \in 1..(n - 1) : g[i] = h[i]
  BY OneMore
<1>a. store \subseteq store'
  BY ExecuteKeeps
<1>3. ASSUME NEW c \in 1..(n - 1), NEW b \in 1..(c - 1),
             Ok(g, c, {"COMMIT"}), Open(g, b, c - 1), Clean(g, b, c), u[b] = u[c]
      PROVE  InsertsIn(g, b, c, store')
  <2>1. /\ b \in 1..(n - 1) /\ b \in 1..n /\ c - 1 \in 0..(n - 1) /\ c \in 0..(n - 1)
    BY <1>2
  <2>2. Ok(h, c, {"COMMIT"}) /\ Open(h, b, c - 1) /\ Clean(h, b, c) /\ t[b] = t[c]
    BY <1>2, <1>3, <2>1, Earlier DEF Ok
  <2>3. InsertsIn(h, b, c, store)
    BY <1>2, <2>2 DEF Kept
  <2>4. InsertsIn(g, b, c, store)
    BY <1>2, <2>1, <2>3, EarlierRows
  <2> QED BY <1>a, <2>4 DEF InsertsIn
<1>4. ASSUME NEW b \in 1..(n - 1), Ok(g, n, {"COMMIT"}), Open(g, b, n - 1), Clean(g, b, n),
             u[b] = u[n]
      PROVE  InsertsIn(g, b, n, store')
  <2>1. b \in 1..n /\ n - 1 \in 0..(n - 1) /\ t[b] = f
    BY <1>2, <1>4
  <2>2. Open(h, b, n - 1) /\ Clean(g, b, n - 1)
    <3>1. Open(h, b, n - 1)
      BY <1>2, <1>4, <2>1, Earlier
    <3>2. Clean(g, b, n - 1)
      BY <1>2, <1>4, Latest
    <3> QED BY <3>1, <3>2
  <2>3. Clean(h, b, n - 1)
    BY <1>2, <2>1, <2>2, Earlier
  <2>4. InsertsIn(h, b, n - 1, work)
    BY <1>2, <2>1, <2>2, <2>3 DEF Blocks
  <2>5. InsertsIn(g, b, n - 1, work)
    BY <1>2, <2>1, <2>4, EarlierRows
  <2>6. s.op = "COMMIT" /\ ~Ok(g, n, {"INSERT"})
    BY <1>1, <1>2, <1>4 DEF Ok
  <2>7. store' = store \cup work
    BY <2>6, ExecuteEffect
  <2>8. InsertsIn(g, b, n - 1, store')
    BY <2>5, <2>7 DEF InsertsIn
  <2> QED BY <1>2, <2>1, <2>6, <2>8, LatestRows
<1>5. \A c \in 1..n : c \in 1..(n - 1) \/ c = n
  BY <1>2
<1> QED BY <1>2, <1>3, <1>4, <1>5 DEF Kept

LEMMA ExecuteKnown ==
  ASSUME NEW h \in Seq(Reply), Known(h, store, work),
         NEW s, Server!Execute(s), NEW e \in Reply, Hears(e, s, answer'),
         NEW g, g = Append(h, e), NEW n, n = Len(h) + 1
  PROVE  Known(g, store', work')
<1>1. /\ e.stmt = s /\ (answer'.ok => e.ok) /\ (s.op # "FAILING" => (e.ok <=> answer'.ok))
  BY ExecuteHeard
<1>2. /\ n \in Nat /\ n > 0 /\ Len(g) = n /\ Len(h) = n - 1 /\ g[n] = e
      /\ \A i \in 1..(n - 1) : g[i] = h[i]
  BY OneMore
<1>3. \/ store' \cup work' \subseteq store \cup work
      \/ e.ok /\ s.op = "INSERT" /\ store' \cup work' \subseteq store \cup work \cup {s.row}
  BY <1>1, ExecuteEffect
<1>4. ASSUME NEW r \in store \cup work
      PROVE  \E i \in 1..n : Ok(g, i, {"INSERT"}) /\ g[i].stmt.row = r
  <2>1. PICK i \in 1..(n - 1) : Ok(h, i, {"INSERT"}) /\ h[i].stmt.row = r
    BY <1>2, <1>4 DEF Known
  <2> QED BY <1>2, <2>1 DEF Ok
<1>5. ASSUME e.ok, s.op = "INSERT"
      PROVE  \E i \in 1..n : Ok(g, i, {"INSERT"}) /\ g[i].stmt.row = s.row
  <2>1. n \in 1..n
    BY <1>2
  <2> QED BY <1>1, <1>2, <1>5, <2>1 DEF Ok
<1> QED BY <1>2, <1>3, <1>4, <1>5 DEF Known

LEMMA ExecuteUndone ==
  ASSUME NEW h \in Seq(Reply), NEW t, NEW f, Blocks(h, t, f, mode, store, work),
         NEW s, Server!Execute(s), NEW e \in Reply, Hears(e, s, answer'),
         NEW g, g = Append(h, e), NEW n, n = Len(h) + 1,
         NEW u, Continues(u, t, n), u[n] = f
  PROVE  Undone(g, u, store')
<1> USE DEF Continues
<1>1. e.stmt = s
  BY ExecuteHeard
<1>2. /\ n \in Nat /\ n > 0 /\ Len(g) = n /\ Len(h) = n - 1 /\ g[n] = e
      /\ \A i \in 1..(n - 1) : g[i] = h[i]
  BY OneMore
<1>3. ASSUME NEW b \in 1..(n - 1), Ok(g, n, {"ROLLBACK"}), Open(g, b, n - 1), u[b] = u[n]
      PROVE  InsertsOut(g, b, n, store')
  <2>1. b \in 1..n /\ n - 1 \in 0..(n - 1) /\ t[b] = f
    BY <1>2, <1>3
  <2>2. Open(h, b, n - 1)
    BY <1>2, <1>3, <2>1, Earlier
  <2>3. InsertsOut(h, b, n - 1, store)
    BY <1>2, <2>1, <2>2 DEF Blocks
  <2>4. InsertsOut(g, b, n - 1, store)
    BY <1>2, <2>1, <2>3, EarlierRows
  <2>5. s.op = "ROLLBACK" /\ ~Ok(g, n, {"INSERT"})
    BY <1>1, <1>2, <1>3 DEF Ok
  <2>6. store' = store
    BY <2>5, ExecuteEffect
  <2> QED BY <1>2, <2>1, <2>4, <2>5, <2>6, LatestRows
<1> QED BY <1>2, <1>3 DEF Undone

LEMMA ExecuteSeen ==
  ASSUME TypeInv, NEW h \in Seq(Reply), NEW t, NEW f, Blocks(h, t, f, mode, store, work),
         NEW s, Server!Execute(s), NEW e \in Reply, Hears(e, s, answer'),
         NEW g, g = Append(h, e), NEW n, n = Len(h) + 1,
         NEW u, Continues(u, t, n)
  PROVE  Seen(g, u, f)
<1> USE DEF Continues
<1>1. e.stmt = s /\ e.rows = answer'.rows /\ (s.op # "FAILING" => (e.ok <=> answer'.ok))
  BY ExecuteHeard
<1>2. /\ n \in Nat /\ n > 0 /\ Len(g) = n /\ Len(h) = n - 1 /\ g[n] = e
      /\ \A i \in 1..(n - 1) : g[i] = h[i]
  BY OneMore
<1>3. ASSUME NEW b \in 1..n, Ok(g, n, {"SELECT"}), Open(g, b, n), u[b] = f
      PROVE  InsertsIn(g, b, n, g[n].rows)
  <2>1. /\ answer'.ok /\ s.op = "SELECT" /\ ~Ok(g, n, {"INSERT"}) /\ ~Ok(g, n, {"BEGIN"})
    BY <1>1, <1>2, <1>3 DEF Ok
  <2>2. b # n
    BY <1>3, <2>1 DEF Open
  <2>3. b \in 1..(n - 1) /\ n - 1 \in 0..(n - 1)
    BY <1>2, <2>2
  <2>4. Open(g, b, n - 1)
    BY <1>2, <1>3, <2>3, Latest
  <2>5. Open(h, b, n - 1) /\ t[b] = f
    BY <1>2, <1>3, <2>3, <2>4, Earlier
  <2>6. g[n].rows = store \cup work /\ mode # "aborted"
    BY <1>1, <1>2, <2>1, ExecuteEffect
  <2>7. InsertsIn(h, b, n - 1, work)
    <3>1. mode # "auto" /\ (mode = "block" => InsertsIn(h, b, n - 1, work))
      BY <1>2, <2>3, <2>5 DEF Blocks
    <3> QED BY <2>6, <3>1 DEF TypeInv, TypeOK, Server!Modes
  <2>8. InsertsIn(g, b, n - 1, work)
    BY <1>2, <2>3, <2>7, EarlierRows
  <2>9. InsertsIn(g, b, n - 1, g[n].rows)
    BY <2>6, <2>8 DEF InsertsIn
  <2> QED BY <1>2, <2>1, <2>9, LatestRows
<1> QED BY <1>2, <1>3 DEF Seen

LEMMA ExecuteSettled ==
  ASSUME NEW h \in Seq(Reply), Known(h, store, work), Settled(h, store),
         NEW s, Server!Execute(s), NEW e \in Reply, Hears(e, s, answer'),
         NEW g, g = Append(h, e), NEW n, n = Len(h) + 1,
         NEW u, NEW f, Blocks(g, u, f, mode', store', work'), Undisturbed(u, n, f)
  PROVE  Settled(g, store')
<1> USE DEF Undisturbed
<1>1. /\ e.stmt = s /\ (answer'.ok => e.ok) /\ (s.op # "FAILING" => (e.ok <=> answer'.ok))
  BY ExecuteHeard
<1>2. /\ n \in Nat /\ n > 0 /\ Len(g) = n /\ Len(h) = n - 1 /\ g[n] = e
      /\ \A i \in 1..(n - 1) : g[i] = h[i]
  BY OneMore
<1> DEFINE Good(r, i) ==
      /\ Ok(g, i, {"INSERT"}) /\ g[i].stmt.row = r
      /\ (\A b \in 1..i : ~Open(g, b, i)) \/ (\E c \in (i + 1)..n : Ok(g, c, {"COMMIT"}))
<1>3. ASSUME NEW r \in store PROVE \E i \in 1..n : Good(r, i)
  <2>1. PICK i \in 1..(n - 1) :
          /\ Ok(h, i, {"INSERT"}) /\ h[i].stmt.row = r
          /\ (\A b \in 1..i : ~Open(h, b, i)) \/ (\E c \in (i + 1)..(n - 1) : Ok(h, c, {"COMMIT"}))
    BY <1>2, <1>3 DEF Settled
  <2>2. i \in 1..n /\ i \in 0..(n - 1) /\ \A b \in 1..i : b \in 1..(n - 1)
    BY <1>2
  <2>3. Ok(g, i, {"INSERT"}) /\ g[i].stmt.row = r
    BY <1>2, <2>1 DEF Ok
  <2>4. CASE \A b \in 1..i : ~Open(h, b, i)
    <3>1. \A b \in 1..i : ~Open(g, b, i)
      BY <1>2, <2>2, <2>4, Earlier
    <3> QED BY <2>2, <2>3, <3>1
  <2>5. CASE \E c \in (i + 1)..(n - 1) : Ok(h, c, {"COMMIT"})
    <3>1. PICK c \in (i + 1)..(n - 1) : Ok(h, c, {"COMMIT"})
      BY <2>5
    <3>2. c \in 1..(n - 1) /\ c \in (i + 1)..n
      BY <1>2
    <3>3. Ok(g, c, {"COMMIT"})
      BY <1>2, <3>1, <3>2 DEF Ok
    <3> QED BY <2>2, <2>3, <3>2, <3>3
  <2> QED BY <2>1, <2>4, <2>5
<1>4. ASSUME NEW r \in work, s.op = "COMMIT" PROVE \E i \in 1..n : Good(r, i)
  <2>1. PICK i \in 1..(n - 1) : Ok(h, i, {"INSERT"}) /\ h[i].stmt.row = r
    BY <1>2, <1>4 DEF Known
  <2>2. i \in 1..n /\ n \in (i + 1)..n
    BY <1>2
  <2>3. Ok(g, i, {"INSERT"}) /\ g[i].stmt.row = r
    BY <1>2, <2>1 DEF Ok
  <2>4. Ok(g, n, {"COMMIT"})
    BY <1>1, <1>2, <1>4, ExecuteEffect DEF Ok
  <2> QED BY <2>2, <2>3, <2>4
<1>5. ASSUME e.ok, s.op = "INSERT", mode' = "auto" PROVE Good(s.row, n)
  <2>1. Ok(g, n, {"INSERT"}) /\ g[n].stmt.row = s.row
    BY <1>1, <1>2, <1>5 DEF Ok
  <2>2. \A b \in 1..n : ~Open(g, b, n)
    BY <1>2, <1>5 DEF Blocks
  <2> QED BY <2>1, <2>2
<1>6. \/ store' = store
      \/ s.op = "COMMIT" /\ store' = store \cup work
      \/ e.ok /\ s.op = "INSERT" /\ mode' = "auto" /\ store' = store \cup {s.row}
  BY <1>1, ExecuteEffect
<1>7. n \in 1..n
  BY <1>2
<1>8. \A r \in store' : \E i \in 1..n : Good(r, i)
  <2> HIDE DEF Good
  <2> QED BY <1>3, <1>4, <1>5, <1>6, <1>7
<1> QED BY <1>2, <1>8 DEF Settled

-----------------------------------------------------------------------------
\* An error told without an answer of the server: nothing changes.
LEMMA ErrorAdded ==
  ASSUME NEW h \in Seq(Reply), NEW e \in Reply, ~e.ok, NEW g, g = Append(h, e),
         NEW t, NEW f, NEW m, NEW st, NEW wk
  PROVE  /\ Blocks(h, t, f, m, st, wk) => Blocks(g, t, f, m, st, wk)
         /\ Undone(g, t, st) /\ Seen(g, t, f)
         /\ Known(h, st, wk) => Known(g, st, wk)
         /\ Settled(h, st) => Settled(g, st)
<1> DEFINE n == Len(h) + 1
<1>2. /\ n \in Nat /\ n > 0 /\ Len(g) = n /\ Len(h) = n - 1 /\ g[n] = e
      /\ \A i \in 1..(n - 1) : g[i] = h[i]
  BY OneMore
<1> HIDE DEF n
<1>3. \A ops : ~Ok(g, n, ops)
  BY <1>2 DEF Ok
<1>4. ASSUME Blocks(h, t, f, m, st, wk) PROVE Blocks(g, t, f, m, st, wk)
  <2>1. ASSUME NEW b \in 1..(n - 1), Open(g, b, n), t[b] = f
        PROVE  /\ m # "auto" /\ (Clean(g, b, n) => m = "block")
               /\ InsertsOut(g, b, n, st) /\ (m = "block" => InsertsIn(g, b, n, wk))
    <3>1. b \in 1..n /\ n - 1 \in 0..(n - 1)
      BY <1>2
    <3>2. Open(g, b, n - 1) /\ ~Clean(g, b, n)
      BY <1>2, <2>1, Latest
    <3>3. Open(h, b, n - 1)
      BY <1>2, <3>1, <3>2, Earlier
    <3>4. m # "auto" /\ InsertsOut(h, b, n - 1, st) /\ (m = "block" => InsertsIn(h, b, n - 1, wk))
      BY <1>2, <1>4, <2>1, <3>3 DEF Blocks
    <3>5. InsertsOut(g, b, n - 1, st) /\ (m = "block" => InsertsIn(g, b, n - 1, wk))
      BY <1>2, <3>1, <3>4, EarlierRows
    <3>6. InsertsOut(g, b, n, st) /\ (m = "block" => InsertsIn(g, b, n, wk))
      BY <1>2, <1>3, <3>1, <3>5, LatestRows
    <3> QED BY <3>2, <3>4, <3>6
  <2>2. ~Open(g, n, n)
    BY <1>3 DEF Open
  <2>3. \A b \in 1..n : b \in 1..(n - 1) \/ b = n
    BY <1>2
  <2> QED BY <1>2, <2>1, <2>2, <2>3 DEF Blocks
<1>5. Undone(g, t, st) /\ Seen(g, t, f)
  BY <1>2, <1>3 DEF Undone, Seen
<1>6. ASSUME Known(h, st, wk) PROVE Known(g, st, wk)
  <2>1. ASSUME NEW r \in st \cup wk
        PROVE  \E i \in 1..n : Ok(g, i, {"INSERT"}) /\ g[i].stmt.row = r
    <3>1. PICK i \in 1..(n - 1) : Ok(h, i, {"INSERT"}) /\ h[i].stmt.row = r
      BY <1>2, <1>6 DEF Known
    <3> QED BY <1>2, <3>1 DEF Ok
  <2> QED BY <1>2, <2>1 DEF Known
<1>7. ASSUME Settled(h, st) PROVE Settled(g, st)
  <2>1. ASSUME NEW r \in st
        PROVE  \E i \in 1..n :
                 /\ Ok(g, i, {"INSERT"}) /\ g[i].stmt.row = r
                 /\ (\A b \in 1..i : ~Open(g, b, i)) \/ (\E c \in (i + 1)..n : Ok(g, c, {"COMMIT"}))
    <3>1. PICK i \in 1..(n - 1) :
            /\ Ok(h, i, {"INSERT"}) /\ h[i].stmt.row = r
            /\ \/ \A b \in 1..i : ~Open(h, b, i)
               \/ \E c \in (i + 1)..(n - 1) : Ok(h, c, {"COMMIT"})
      BY <1>2, <1>7 DEF Settled
    <3>2. i \in 1..n /\ i \in 0..(n - 1) /\ \A b \in 1..i : b \in 1..(n - 1)
      BY <1>2
    <3>3. Ok(g, i, {"INSERT"}) /\ g[i].stmt.row = r
      BY <1>2, <3>1 DEF Ok
    <3>4. CASE \A b \in 1..i : ~Open(h, b, i)
      <4>1. \A b \in 1..i : ~Open(g, b, i)
        BY <1>2, <3>2, <3>4, Earlier
      <4> QED BY <3>2, <3>3, <4>1
    <3>5. CASE \E c \in (i + 1)..(n - 1) : Ok(h, c, {"COMMIT"})
      <4>1. PICK c \in (i + 1)..(n - 1) : Ok(h, c, {"COMMIT"})
        BY <3>5
      <4>2. c \in 1..(n - 1) /\ c \in (i + 1)..n
        BY <1>2
      <4>3. Ok(g, c, {"COMMIT"})
        BY <1>2, <4>1, <4>2 DEF Ok
      <4> QED BY <3>2, <3>3, <4>2, <4>3
    <3> QED BY <3>1, <3>4, <3>5
  <2> QED BY <1>2, <2>1 DEF Settled
<1> QED BY <1>4, <1>5, <1>6, <1>7

\* What is said of the blocks that were committed does not depend on a last
\* reply that is no COMMIT's, nor on one that was lost.
LEMMA KeptLast ==
  ASSUME NEW h \in Seq(Reply), NEW e \in Reply, NEW g, g = Append(h, e), NEW t, NEW st
  PROVE  /\ Kept(g, t, st) => Kept(h, t, st)
         /\ Kept(h, t, st) /\ (e.ok => e.stmt.op # "COMMIT") => Kept(g, t, st)
<1> DEFINE n == Len(h) + 1
<1>2. /\ n \in Nat /\ n > 0 /\ Len(g) = n /\ Len(h) = n - 1 /\ g[n] = e
      /\ \A i \in 1..(n - 1) : g[i] = h[i]
  BY OneMore
<1> HIDE DEF n
<1>3. ASSUME NEW c \in 1..(n - 1), NEW b \in 1..(c - 1)
      PROVE  /\ Ok(g, c, {"COMMIT"}) <=> Ok(h, c, {"COMMIT"})
             /\ Open(g, b, c - 1) <=> Open(h, b, c - 1)
             /\ Clean(g, b, c) <=> Clean(h, b, c)
             /\ InsertsIn(g, b, c, st) <=> InsertsIn(h, b, c, st)
  <2>1. b \in 1..(n - 1) /\ b \in 1..n /\ c - 1 \in 0..(n - 1) /\ c \in 0..(n - 1)
    BY <1>2
  <2>2. Ok(g, c, {"COMMIT"}) <=> Ok(h, c, {"COMMIT"})
    BY <1>2 DEF Ok
  <2>3. (Open(g, b, c - 1) <=> Open(h, b, c - 1)) /\ (Clean(g, b, c) <=> Clean(h, b, c))
    BY <1>2, <2>1, Earlier
  <2>4. InsertsIn(g, b, c, st) <=> InsertsIn(h, b, c, st)
    BY <1>2, <2>1, EarlierRows
  <2> QED BY <2>2, <2>3, <2>4
<1>4. \A c \in 1..n : c \in 1..(n - 1) \/ c = n
  BY <1>2
<1>5. \A c \in 1..(n - 1) : c \in 1..n
  BY <1>2
<1>6. Kept(g, t, st) => Kept(h, t, st)
  BY <1>2, <1>3, <1>5 DEF Kept
<1>7. ASSUME Kept(h, t, st), e.ok => e.stmt.op # "COMMIT" PROVE Kept(g, t, st)
  <2>1. ~Ok(g, n, {"COMMIT"})
    BY <1>2, <1>7 DEF Ok
  <2> QED BY <1>2, <1>3, <1>4, <1>7, <2>1 DEF Kept
<1> QED BY <1>6, <1>7

\* A fault undoes every open block, and says nothing of the others.
LEMMA NoneOpen ==
  ASSUME NEW h, NEW t, NEW f, \A b \in 1..Len(h) : t[b] # f, NEW m, NEW st, NEW wk
  PROVE  Blocks(h, t, f, m, st, wk) /\ Seen(h, t, f)
BY DEF Blocks, Seen

-----------------------------------------------------------------------------
Said == [stmt |-> stmt, ok |-> answer.ok \/ answer.rows # {}, rows |-> answer.rows]
Heard == IF pc \in {"reply", "rows"} THEN Append(log, Said) ELSE log

\* A connection that was cut served no statement since, and what a statement
\* without rows was answered has none.
FaultInv ==
  /\ \A i \in 1..MaxStmts : runAt[i] <= faults
  /\ conn = "cut" => faults > 0 /\ \A i \in 1..MaxStmts : runAt[i] < faults
  /\ Len(log) <= MaxStmts
  /\ Busy => Len(log) < MaxStmts
  /\ pc = "rows" => answer.rows # {}
  /\ pc \in {"reply", "rows"} /\ stmt.op \in {"COMMIT", "ROLLBACK"} => answer.rows = {}

HeardInv ==
  /\ pc # "exited" => Blocks(Heard, runAt, faults, mode, store, work)
  /\ Kept(Heard, runAt, store)
  /\ pc \in {"start", "idle", "reply", "rows"} =>
       Undone(Heard, runAt, store) /\ Seen(Heard, runAt, faults)
  /\ faults = 0 => Known(Heard, store, work) /\ Settled(Heard, store)

LEMMA FaultInvStep == TypeInv /\ FaultInv /\ [Next]_vars => FaultInv'
<1> SUFFICES ASSUME TypeInv, FaultInv, [Next]_vars PROVE FaultInv'
  OBVIOUS
<1> USE DEF database
<1>1. /\ Len(log) \in Nat /\ log \in Seq(Reply) /\ faults \in Nat /\ MaxStmts \in Nat
      /\ Busy => stmt \in Statements
      /\ runAt \in [1..MaxStmts -> Nat]
  BY BoundsAssumption DEF TypeInv, TypeOK, Reply
<1>2. ASSUME NEW ok \in BOOLEAN, NEW rows \in SUBSET Rows, Show(ok, rows), Busy
      PROVE  Len(log') = Len(log) + 1 /\ ~Busy'
  <2>1. [stmt |-> stmt, ok |-> ok, rows |-> rows] \in Reply
    BY <1>1, <1>2 DEF Reply
  <2>2. log' = Append(log, [stmt |-> stmt, ok |-> ok, rows |-> rows]) /\ pc' = "idle"
    BY <1>2 DEF Show
  <2> QED BY <1>1, <2>1, <2>2, AppendFacts DEF Busy
<1>3. ASSUME NEW ok \in BOOLEAN, NEW rows \in SUBSET Rows, Show(ok, rows), Busy,
             UNCHANGED <<runAt, faults>>, conn' = "cut" => conn = "cut"
      PROVE  FaultInv'
  <2>1. Len(log') = Len(log) + 1 /\ ~Busy' /\ pc' = "idle"
    BY <1>2, <1>3 DEF Show
  <2>2. Len(log') <= MaxStmts
    BY <1>1, <1>3, <2>1 DEF FaultInv
  <2> QED BY <1>3, <2>1, <2>2 DEF FaultInv
<1>4. ASSUME NEW s \in Statements, Submit(s) PROVE FaultInv'
  BY <1>1, <1>4 DEF Submit, FaultInv, Busy
<1>5. CASE Ping \/ TakePooled \/ Dial \/ RestartServer \/ UNCHANGED vars
  BY <1>5 DEF Ping, TakePooled, Dial, RestartServer, vars, FaultInv, Busy
<1>6. CASE DialRefused
  BY <1>3, <1>6 DEF DialRefused, Busy
<1>7. CASE BadConn
  <2>1. CASE pc' = "checkout" /\ UNCHANGED log
    BY <1>7, <2>1 DEF BadConn, FaultInv, Busy
  <2>2. CASE Show(FALSE, {})
    BY <1>3, <1>7, <2>2 DEF BadConn, Busy
  <2> QED BY <1>7, <2>1, <2>2 DEF BadConn
<1>8. CASE NetError
  BY <1>3, <1>8 DEF NetError, Busy
<1>9. CASE Deliver
  <2>1. CASE answer.rows = {}
    BY <1>3, <1>9, <2>1, AnswerShape DEF Deliver, Busy
  <2>2. CASE answer.rows # {}
    BY <1>9, <2>2 DEF Deliver, FaultInv, Busy
  <2> QED BY <2>1, <2>2
<1>10. CASE RenderRows
  BY <1>3, <1>10, AnswerShape DEF RenderRows, Busy
<1>11. CASE RenderCutOff
  <2>1. PICK got \in SUBSET answer.rows : Show(TRUE, got)
    BY <1>11 DEF RenderCutOff
  <2>2. got \in SUBSET Rows
    BY AnswerShape
  <2> QED BY <1>3, <1>11, <2>1, <2>2 DEF RenderCutOff, Busy
<1>12. CASE Close
  BY <1>12 DEF Close, FaultInv, Busy
<1>13. CASE Run
  <2>1. /\ pc = "sent" /\ pc' = "reply" /\ conn = "open" /\ Server!Execute(stmt)
        /\ runAt' = [runAt EXCEPT ![Len(log) + 1] = faults]
        /\ UNCHANGED <<conn, stmt, log, faults>>
    BY <1>13 DEF Run
  <2>2. \A i \in 1..MaxStmts : runAt'[i] <= faults'
    BY <1>1, <2>1 DEF FaultInv
  <2>3. stmt.op \in {"COMMIT", "ROLLBACK"} => answer'.rows = {}
    BY <2>1, ExecuteEffect
  <2> QED BY <2>1, <2>2, <2>3 DEF FaultInv, Busy
<1>14. CASE CutConnection \/ StopServer
  <2>1. /\ faults' = faults + 1 /\ UNCHANGED <<answer, pc, stmt, log, runAt>>
    BY <1>14 DEF CutConnection, StopServer, Drop
  <2>2. \A i \in 1..MaxStmts : runAt'[i] < faults'
    BY <1>1, <2>1 DEF FaultInv
  <2>3. \A i \in 1..MaxStmts : runAt'[i] <= faults'
    BY <1>1, <2>1, <2>2
  <2>4. faults' > 0
    BY <1>1, <2>1
  <2> QED BY <2>1, <2>2, <2>3, <2>4 DEF FaultInv, Busy
<1> QED
  BY <1>4, <1>5, <1>6, <1>7, <1>8, <1>9, <1>10, <1>11, <1>12, <1>13, <1>14 DEF Next, Client

\* Steps by which nobody learns anything: what is heard stays as it is, and
\* the database too unless the session ends.
LEMMA Silent ==
  ASSUME HeardInv, Heard' = Heard, UNCHANGED <<store, runAt, faults>>,
         \/ UNCHANGED <<mode, work>> /\ (pc = "exited" => pc' = "exited")
         \/ pc' = "exited" /\ work' \subseteq work,
         pc' \in {"start", "idle", "reply", "rows"} => pc \in {"start", "idle", "reply", "rows"}
  PROVE  HeardInv'
<1>1. pc' # "exited" => Blocks(Heard', runAt', faults', mode', store', work')
  BY DEF HeardInv
<1>2. Kept(Heard', runAt', store')
  BY DEF HeardInv
<1>3. pc' \in {"start", "idle", "reply", "rows"} =>
        Undone(Heard', runAt', store') /\ Seen(Heard', runAt', faults')
  BY DEF HeardInv
<1>4. ASSUME faults' = 0 PROVE Known(Heard', store', work') /\ Settled(Heard', store')
  <2>1. Known(Heard, store, work) /\ Settled(Heard, store)
    BY <1>4 DEF HeardInv
  <2>2. Known(Heard, store, work')
    BY <2>1 DEF Known
  <2> QED BY <2>1, <2>2
<1> QED BY <1>1, <1>2, <1>3, <1>4 DEF HeardInv

\* The user is told of an error in place of an answer.
LEMMA ErrorTold ==
  ASSUME TypeInv, HeardInv, pc \in {"checkout", "sent"}, Show(FALSE, {}),
         UNCHANGED <<database, runAt, faults>>
  PROVE  HeardInv'
<1> DEFINE e == [stmt |-> stmt, ok |-> FALSE, rows |-> {}]
<1>1. log \in Seq(Reply) /\ e \in Reply /\ ~e.ok
  BY DEF TypeInv, TypeOK, Busy, Reply
<1>2. Heard = log /\ Heard' = Append(log, e) /\ pc' = "idle"
  BY DEF Show, Heard
<1> HIDE DEF e
<1>3. PICK g : g = Append(log, e)
  OBVIOUS
<1>4. UNCHANGED <<store, mode, work>>
  BY DEF database
<1>5. Blocks(g, runAt, faults, mode, store, work)
  BY <1>1, <1>2, <1>3, ErrorAdded DEF HeardInv
<1>6. Kept(g, runAt, store)
  BY <1>1, <1>2, <1>3, KeptLast DEF HeardInv
<1>7. Undone(g, runAt, store) /\ Seen(g, runAt, faults)
  BY <1>1, <1>3, ErrorAdded
<1>8. faults = 0 => Known(g, store, work) /\ Settled(g, store)
  BY <1>1, <1>2, <1>3, ErrorAdded DEF HeardInv
<1> QED BY <1>2, <1>3, <1>4, <1>5, <1>6, <1>7, <1>8 DEF HeardInv

\* The answer on its way is lost with the connection: database/sql runs the
\* statement again, or the user is told of an error or of some of the rows.
LEMMA AnswerLost ==
  ASSUME TypeInv, FaultInv, HeardInv, pc \in {"reply", "rows"}, conn = "cut",
         UNCHANGED <<database, runAt, faults>>,
         \/ pc' = "checkout" /\ log' = log
         \/ \E rows \in SUBSET Rows, ok \in BOOLEAN :
              Show(ok, rows) /\ (ok => stmt.op \notin {"COMMIT", "ROLLBACK"})
  PROVE  HeardInv'
<1>1. /\ log \in Seq(Reply) /\ Said \in Reply /\ stmt \in Statements
      /\ Len(log) \in Nat /\ Len(log) < MaxStmts /\ MaxStmts \in Nat /\ faults \in Nat
      /\ runAt \in [1..MaxStmts -> Nat]
  <2>1. log \in Seq(Reply) /\ stmt \in Statements /\ faults \in Nat /\ MaxStmts \in Nat
    BY BoundsAssumption DEF TypeInv, TypeOK, Busy, Reply
  <2>2. Said \in Reply
    BY <2>1, AnswerShape DEF Said, Reply
  <2>3. runAt \in [1..MaxStmts -> Nat] /\ Len(log) < MaxStmts
    BY BoundsAssumption DEF TypeInv, TypeOK, FaultInv, Busy
  <2>4. Len(log) \in Nat
    BY <2>1
  <2> QED BY <2>1, <2>2, <2>3, <2>4
<1>2. Heard = Append(log, Said) /\ UNCHANGED <<store, mode, work>>
  BY DEF Heard, database
<1>3. Kept(log, runAt, store)
  BY <1>1, <1>2, KeptLast DEF HeardInv
<1>4. faults # 0 /\ \A b \in 1..(Len(log) + 1) : runAt[b] # faults
  BY <1>1 DEF FaultInv
<1>5. CASE pc' = "checkout" /\ log' = log
  <2>1. Heard' = log
    BY <1>5 DEF Heard
  <2>2. \A b \in 1..Len(log) : runAt[b] # faults
    BY <1>1, <1>4
  <2>3. Blocks(log, runAt, faults, mode, store, work)
    BY <2>2, NoneOpen
  <2> QED BY <1>2, <1>3, <1>4, <1>5, <2>1, <2>3 DEF HeardInv
<1>6. ASSUME NEW rows \in SUBSET Rows, NEW ok \in BOOLEAN, Show(ok, rows),
             ok => stmt.op \notin {"COMMIT", "ROLLBACK"}
      PROVE  HeardInv'
  <2> DEFINE e == [stmt |-> stmt, ok |-> ok, rows |-> rows]
  <2>1. e \in Reply /\ e.stmt = stmt /\ e.ok = ok
    BY <1>1 DEF Reply
  <2>2. Heard' = Append(log, e) /\ pc' = "idle"
    BY <1>6 DEF Show, Heard
  <2> HIDE DEF e
  <2>3. PICK g : g = Append(log, e)
    OBVIOUS
  <2>4. Len(g) = Len(log) + 1 /\ g[Len(g)] = e
    BY <1>1, <2>1, <2>3, AppendFacts
  <2>5. Blocks(g, runAt, faults, mode, store, work) /\ Seen(g, runAt, faults)
    BY <1>4, <2>4, NoneOpen
  <2>6. Kept(g, runAt, store)
    BY <1>1, <1>3, <1>6, <2>1, <2>3, KeptLast
  <2>7. Undone(g, runAt, store)
    BY <1>6, <2>1, <2>4 DEF Undone, Ok
  <2> QED BY <1>2, <1>4, <2>2, <2>3, <2>5, <2>6, <2>7 DEF HeardInv
<1> QED BY <1>5, <1>6

\* The server executes the statement.
LEMMA Executed == ASSUME TypeInv, FaultInv, HeardInv, Run PROVE HeardInv'
<1>1. /\ pc = "sent" /\ pc' = "reply" /\ UNCHANGED <<stmt, log, faults>>
      /\ Server!Execute(stmt)
      /\ runAt' = [runAt EXCEPT ![Len(log) + 1] = faults]
  BY DEF Run
<1>2. /\ stmt \in Statements /\ log \in Seq(Reply) /\ Len(log) \in Nat
      /\ Len(log) < MaxStmts /\ MaxStmts \in Nat /\ runAt \in [1..MaxStmts -> Nat]
  <2>1. stmt \in Statements /\ log \in Seq(Reply)
    BY <1>1 DEF TypeInv, TypeOK, Busy, Reply
  <2>2. Len(log) < MaxStmts /\ runAt \in [1..MaxStmts -> Nat]
    BY <1>1, BoundsAssumption DEF TypeInv, TypeOK, FaultInv, Busy
  <2> QED BY <2>1, <2>2, BoundsAssumption
<1>3. answer'.ok \in BOOLEAN /\ answer'.rows \in SUBSET Rows
  BY <1>1, <1>2, ExecuteTyped DEF Server!Answer
<1> DEFINE e == [stmt |-> stmt, ok |-> answer'.ok \/ answer'.rows # {}, rows |-> answer'.rows]
<1>4. e \in Reply /\ Hears(e, stmt, answer')
  BY <1>2, <1>3 DEF Hears, Reply
<1>5. Heard = log /\ Heard' = Append(log, e)
  BY <1>1 DEF Heard, Said
<1> HIDE DEF e
<1>6. /\ Blocks(log, runAt, faults, mode, store, work) /\ Kept(log, runAt, store)
      /\ faults = 0 => Known(log, store, work) /\ Settled(log, store)
  BY <1>1, <1>5 DEF HeardInv
<1>7. PICK g, n, u : g = Append(log, e) /\ n = Len(log) + 1 /\ u = runAt'
  OBVIOUS
<1>8. Continues(u, runAt, n) /\ u[n] = faults
  BY <1>1, <1>2, <1>7 DEF Continues
<1>9. Blocks(g, u, faults, mode', store', work')
  BY <1>1, <1>2, <1>4, <1>6, <1>7, <1>8, ExecuteBlocksKnown
<1>10. Kept(g, u, store')
  BY <1>1, <1>2, <1>4, <1>6, <1>7, <1>8, ExecuteKept
<1>11. Undone(g, u, store') /\ Seen(g, u, faults)
  BY <1>1, <1>2, <1>4, <1>6, <1>7, <1>8, ExecuteUndone, ExecuteSeen
<1>12. ASSUME faults = 0 PROVE Known(g, store', work') /\ Settled(g, store')
  <2>1. Known(g, store', work')
    BY <1>1, <1>2, <1>4, <1>6, <1>7, <1>12, ExecuteKnown
  <2>2. Undisturbed(u, n, faults)
    <3>1. \A b \in 1..(n - 1) : runAt[b] = 0
      BY <1>2, <1>7, <1>12 DEF FaultInv
    <3>2. \A b \in 1..n : b \in 1..(n - 1) \/ b = n
      BY <1>2, <1>7
    <3> QED BY <1>8, <1>12, <3>1, <3>2 DEF Continues, Undisturbed
  <2>3. Settled(g, store')
    BY <1>1, <1>2, <1>4, <1>6, <1>7, <1>9, <1>12, <2>2, ExecuteSettled
  <2> QED BY <2>1, <2>3
<1> QED BY <1>1, <1>5, <1>7, <1>9, <1>10, <1>11, <1>12 DEF HeardInv

\* The log has all replies but the one on its way.
LEMMA HeardLog ==
  ASSUME TypeInv
  PROVE  /\ log \in Seq(Reply) /\ Len(log) \in Nat /\ DOMAIN log = 1..Len(log)
         /\ pc \notin {"reply", "rows"} => Heard = log
         /\ pc \in {"reply", "rows"} =>
              /\ Heard = Append(log, Said) /\ Said \in Reply
              /\ Len(Heard) = Len(log) + 1
              /\ Heard[Len(log) + 1].stmt = stmt
              /\ \A i \in 1..Len(log) : Heard[i] = log[i]
<1>1. log \in Seq(Reply)
  BY DEF TypeInv, TypeOK, Reply
<1>2. Len(log) \in Nat /\ DOMAIN log = 1..Len(log)
  BY <1>1
<1>3. pc \notin {"reply", "rows"} => Heard = log
  BY DEF Heard
<1>4. ASSUME pc \in {"reply", "rows"}
      PROVE  /\ Heard = Append(log, Said) /\ Said \in Reply
             /\ Len(Heard) = Len(log) + 1
             /\ Heard[Len(log) + 1].stmt = stmt
             /\ \A i \in 1..Len(log) : Heard[i] = log[i]
  <2>1. Said \in Reply /\ Said.stmt = stmt
    BY <1>4, AnswerShape DEF Said, TypeInv, Busy, Reply
  <2>2. Heard = Append(log, Said)
    BY <1>4 DEF Heard
  <2> QED BY <1>1, <2>1, <2>2, AppendFacts
<1> QED BY <1>1, <1>2, <1>3, <1>4

LEMMA HeardBound ==
  ASSUME TypeInv, FaultInv
  PROVE  /\ Len(Heard) <= MaxStmts
         /\ \A b \in 1..Len(Heard) : b \in 1..MaxStmts /\ runAt[b] # faults + 1
<1>1. Len(log) \in Nat /\ MaxStmts \in Nat /\ faults \in Nat
  BY HeardLog, BoundsAssumption DEF TypeInv, TypeOK
<1>2. Len(Heard) <= MaxStmts /\ Len(Heard) \in Nat
  BY <1>1, HeardLog DEF FaultInv, Busy
<1>3. \A b \in 1..Len(Heard) : b \in 1..MaxStmts
  BY <1>1, <1>2
<1>4. \A b \in 1..MaxStmts : runAt[b] \in Nat /\ runAt[b] <= faults
  BY <1>1, BoundsAssumption DEF TypeInv, TypeOK, FaultInv
<1> QED BY <1>1, <1>2, <1>3, <1>4

LEMMA HeardInvStep == TypeInv /\ FaultInv /\ HeardInv /\ [Next]_vars => HeardInv'
<1> SUFFICES ASSUME TypeInv, FaultInv, HeardInv, [Next]_vars PROVE HeardInv'
  OBVIOUS
<1> USE DEF database
<1>1. ASSUME NEW s \in Statements, Submit(s) PROVE HeardInv'
  BY <1>1, Silent DEF Submit, Heard
<1>2. CASE TakePooled \/ Dial \/ RestartServer \/ UNCHANGED vars
  <2>1. /\ Heard' = Heard /\ UNCHANGED <<store, mode, work, runAt, faults>>
        /\ pc = "exited" => pc' = "exited"
        /\ pc' \in {"start", "idle", "reply", "rows"} => pc \in {"start", "idle", "reply", "rows"}
    BY <1>2 DEF TakePooled, Dial, RestartServer, vars, Heard, Said
  <2> QED BY <2>1, Silent
<1>3. CASE Ping
  <2>1. /\ Heard' = Heard /\ UNCHANGED <<store, mode, work, runAt, faults>> /\ pc = "start"
    BY <1>3 DEF Ping, Heard
  <2> QED BY <2>1, Silent
<1>4. CASE Close
  <2>1. /\ Heard' = Heard /\ UNCHANGED <<store, runAt, faults>> /\ work' \subseteq work
        /\ pc = "idle" /\ pc' = "exited"
    BY <1>4 DEF Close, Heard
  <2> QED BY <2>1, Silent
<1>5. CASE DialRefused
  BY <1>5, ErrorTold DEF DialRefused
<1>6. CASE BadConn
  <2>1. CASE pc = "sent" /\ pc' = "checkout" /\ log' = log
    <3>1. Heard' = Heard /\ UNCHANGED <<store, mode, work, runAt, faults>>
      BY <1>6, <2>1 DEF BadConn, Heard
    <3> QED BY <2>1, <3>1, Silent
  <2>2. CASE pc = "sent" /\ Show(FALSE, {})
    BY <1>6, <2>2, ErrorTold DEF BadConn
  <2>3. CASE pc = "reply" /\ ((pc' = "checkout" /\ log' = log) \/ Show(FALSE, {}))
    BY <1>6, <2>3, AnswerLost DEF BadConn
  <2> QED BY <1>6, <2>1, <2>2, <2>3 DEF BadConn
<1>7. CASE NetError
  <2>1. CASE pc = "sent"
    BY <1>7, <2>1, ErrorTold DEF NetError
  <2>2. CASE pc = "reply"
    BY <1>7, <2>2, AnswerLost DEF NetError
  <2> QED BY <1>7, <2>1, <2>2 DEF NetError
<1>8. CASE RenderCutOff
  <2>1. PICK got \in SUBSET answer.rows : Show(TRUE, got)
    BY <1>8 DEF RenderCutOff
  <2>2. got \in SUBSET Rows /\ stmt.op \notin {"COMMIT", "ROLLBACK"}
    BY <1>8, AnswerShape DEF RenderCutOff, FaultInv
  <2> QED BY <1>8, <2>1, <2>2, AnswerLost DEF RenderCutOff
<1>9. CASE Deliver
  <2>1. UNCHANGED <<database, stmt, runAt, faults>> /\ pc = "reply"
    BY <1>9 DEF Deliver
  <2>2. CASE answer.rows = {}
    <3>1. (answer.ok \/ answer.rows # {}) = answer.ok
      BY <2>2, AnswerShape
    <3>2. log' = Append(log, Said) /\ pc' = "idle"
      BY <1>9, <2>2, <3>1 DEF Deliver, Show, Said
    <3>3. Heard' = Heard
      BY <2>1, <3>2 DEF Heard
    <3> QED BY <2>1, <3>2, <3>3, Silent
  <2>3. CASE answer.rows # {}
    <3>1. log' = log /\ pc' = "rows"
      BY <1>9, <2>3 DEF Deliver
    <3>2. Heard' = Heard
      BY <2>1, <3>1 DEF Heard, Said
    <3> QED BY <2>1, <3>1, <3>2, Silent
  <2> QED BY <2>2, <2>3
<1>10. CASE RenderRows
  <2>1. UNCHANGED <<database, stmt, runAt, faults>> /\ pc = "rows" /\ pc' = "idle"
    BY <1>10 DEF RenderRows, Show
  <2>2. (answer.ok \/ answer.rows # {}) = TRUE
    BY <2>1 DEF FaultInv
  <2>3. log' = Append(log, Said)
    BY <1>10, <2>2 DEF RenderRows, Show, Said
  <2>4. Heard' = Heard
    BY <2>1, <2>3 DEF Heard
  <2> QED BY <2>1, <2>4, Silent
<1>11. CASE Run
  BY <1>11, Executed
<1>12. CASE CutConnection \/ StopServer
  <2>1. /\ faults' = faults + 1 /\ UNCHANGED <<store, answer, pc, stmt, log, runAt>>
    BY <1>12 DEF CutConnection, StopServer, Drop
  <2>2. Heard' = Heard /\ faults' # 0
    BY <2>1 DEF Heard, Said, TypeInv, TypeOK
  <2>3. \A b \in 1..Len(Heard) : runAt[b] # faults'
    BY <2>1, HeardBound
  <2>4. Blocks(Heard', runAt', faults', mode', store', work') /\ Seen(Heard', runAt', faults')
    BY <2>1, <2>2, <2>3, NoneOpen
  <2> QED BY <2>1, <2>2, <2>4 DEF HeardInv
<1> QED
  BY <1>1, <1>2, <1>3, <1>4, <1>5, <1>6, <1>7, <1>8, <1>9, <1>10, <1>11, <1>12 DEF Next, Client

LEMMA HeardInvInit == Init => FaultInv /\ HeardInv
<1> SUFFICES ASSUME Init PROVE FaultInv /\ HeardInv
  OBVIOUS
<1>1. Heard = <<>> /\ store = {} /\ work = {}
  BY DEF Init, Heard
<1>2. Len(<<>>) = 0
  OBVIOUS
<1>3. FaultInv
  BY <1>2, BoundsAssumption DEF Init, FaultInv, Busy
<1>4. HeardInv
  BY <1>1, <1>2 DEF HeardInv, Blocks, Kept, Known, Undone, Seen, Settled
<1> QED BY <1>3, <1>4

BlocksInv == TypeInv /\ FaultInv /\ HeardInv

LEMMA BlocksInvariant == Spec => []BlocksInv
<1>1. Init => BlocksInv
  BY TypeInvInit, HeardInvInit DEF BlocksInv
<1>2. BlocksInv /\ [Next]_vars => BlocksInv'
  BY TypeInvStep, FaultInvStep, HeardInvStep DEF BlocksInv
<1> QED BY <1>1, <1>2, PTL DEF Spec

\* What was heard of the committed blocks is in the log.
LEMMA LogKept == ASSUME BlocksInv PROVE Kept(log, runAt, store)
BY HeardLog, KeptLast DEF BlocksInv, HeardInv

-----------------------------------------------------------------------------
\* UndisturbedBlocksHold: over a block during which no connection is lost,
\* COMMIT keeps what was acknowledged, ROLLBACK discards it, and SELECT shows
\* it, whatever was lost, repeated or left open before and after.
THEOREM BlocksHold == Spec => []UndisturbedBlocksHold
<1>1. ASSUME BlocksInv, NEW c \in DOMAIN log, NEW b \in 1..(c - 1), runAt[b] = runAt[c],
             \A j \in b..c : log[j].stmt.op # "FAILING",
             Acked(c, {"COMMIT"}), OpenSince(b, c - 1), \A j \in b..c : log[j].ok,
             NEW j \in b..c, InsertAcked(j)
      PROVE  log[j].stmt.row \in store
  <2>1. c \in 1..Len(log)
    BY <1>1, HeardLog DEF BlocksInv
  <2>2. Ok(log, c, {"COMMIT"}) /\ Open(log, b, c - 1) /\ Clean(log, b, c)
    BY <1>1 DEF Acked, OpenSince, Ok, Open, Clean
  <2>3. InsertsIn(log, b, c, store)
    BY <1>1, <2>1, <2>2, LogKept DEF Kept
  <2> QED BY <1>1, <2>3 DEF InsertsIn, InsertAcked, Acked, Ok
<1>2. ASSUME BlocksInv, NEW b \in 1..(Len(log) - 1), runAt[b] = runAt[Len(log)],
             JustTold({"ROLLBACK"}), OpenSince(b, Len(log) - 1),
             NEW j \in b..Len(log), InsertAcked(j)
      PROVE  log[j].stmt.row \notin store
  <2>1. Heard = log /\ Len(log) \in Nat /\ Len(log) > 0
    BY <1>2, HeardLog DEF BlocksInv, JustTold
  <2>2. Ok(Heard, Len(log), {"ROLLBACK"}) /\ Open(Heard, b, Len(log) - 1)
    BY <1>2, <2>1 DEF JustTold, Acked, OpenSince, Ok, Open
  <2>3. Undone(Heard, runAt, store)
    BY <1>2 DEF BlocksInv, HeardInv, JustTold
  <2>4. InsertsOut(Heard, b, Len(log), store)
    BY <1>2, <2>1, <2>2, <2>3 DEF Undone
  <2> QED BY <1>2, <2>1, <2>4 DEF InsertsOut, InsertAcked, Acked, Ok
<1>3. ASSUME BlocksInv, NEW b \in 1..Len(log), runAt[b] = faults,
             JustTold({"SELECT"}), OpenSince(b, Len(log)),
             NEW j \in b..Len(log), InsertAcked(j)
      PROVE  log[j].stmt.row \in log[Len(log)].rows
  <2>1. Heard = log /\ Len(log) \in Nat /\ Len(log) > 0
    BY <1>3, HeardLog DEF BlocksInv, JustTold
  <2>2. Ok(Heard, Len(log), {"SELECT"}) /\ Open(Heard, b, Len(log))
    BY <1>3, <2>1 DEF JustTold, Acked, OpenSince, Ok, Open
  <2>3. Seen(Heard, runAt, faults)
    BY <1>3 DEF BlocksInv, HeardInv, JustTold
  <2>4. InsertsIn(Heard, b, Len(log), log[Len(log)].rows)
    BY <1>3, <2>1, <2>2, <2>3 DEF Seen
  <2> QED BY <1>3, <2>1, <2>4 DEF InsertsIn, InsertAcked, Acked, Ok
<1>4. BlocksInv => UndisturbedBlocksHold
  BY <1>1, <1>2, <1>3 DEF UndisturbedBlocksHold, CommitKept, RollbackDiscarded, WritesRead
<1> QED BY BlocksInvariant, <1>4, PTL

\* A session without faults and without a SELECT that fails on a row has
\* undisturbed blocks only.
LEMMA CalmBlocks ==
  ASSUME Calm
  PROVE  BlocksInv => /\ \A b \in 1..Len(log) : runAt[b] = faults /\ log[b].stmt.op # "FAILING"
                      /\ Len(log) \in Nat /\ DOMAIN log = 1..Len(log)
<1> SUFFICES ASSUME BlocksInv
             PROVE  /\ \A b \in 1..Len(log) : runAt[b] = faults /\ log[b].stmt.op # "FAILING"
                    /\ Len(log) \in Nat /\ DOMAIN log = 1..Len(log)
  OBVIOUS
<1>1. log \in Seq(Reply) /\ Len(log) \in Nat /\ DOMAIN log = 1..Len(log)
  BY HeardLog DEF BlocksInv
<1>2. \A b \in 1..Len(log) : log[b].stmt \in Statements
  <2>1. \A b \in 1..Len(log) : log[b] \in Reply
    BY <1>1
  <2> QED BY <2>1 DEF Reply
<1>3. \A b \in 1..Len(log) : b \in 1..MaxStmts
  BY <1>1, BoundsAssumption DEF BlocksInv, FaultInv
<1>4. faults = 0 /\ \A b \in 1..MaxStmts : runAt[b] = 0
  BY DEF Calm, BlocksInv, TypeInv, TypeOK
<1> QED BY <1>1, <1>2, <1>3, <1>4 DEF Calm, NoneFailing

\* CommitKeeps: in such a session a COMMIT reported as done after a block
\* whose statements were all reported as done has made its rows durable.
THEOREM CommitsKeep == ASSUME Calm PROVE Spec => []CommitKeeps
<1>1. ASSUME BlocksInv, UndisturbedBlocksHold, NEW c \in DOMAIN log, NEW b \in 1..(c - 1)
      PROVE  CommitKept(b, c)
  <2>1. c \in 1..Len(log) /\ Len(log) \in Nat
    BY <1>1, CalmBlocks
  <2>2. b \in 1..Len(log) /\ \A j \in b..c : j \in 1..Len(log)
    BY <2>1
  <2>3. runAt[b] = runAt[c] /\ \A j \in b..c : log[j].stmt.op # "FAILING"
    BY <1>1, <2>1, <2>2, CalmBlocks
  <2> QED BY <1>1, <2>3 DEF UndisturbedBlocksHold
<1>2. BlocksInv /\ UndisturbedBlocksHold => CommitKeeps
  BY <1>1 DEF CommitKeeps
<1> QED BY BlocksInvariant, BlocksHold, <1>2, PTL

\* RollbackDiscards: in such a session no row of a block whose ROLLBACK is
\* reported as done is in the table.
THEOREM RollbacksDiscard == ASSUME Calm PROVE Spec => []RollbackDiscards
<1>1. ASSUME BlocksInv, UndisturbedBlocksHold, NEW b \in 1..(Len(log) - 1)
      PROVE  RollbackDiscarded(b)
  <2>1. b \in 1..Len(log) /\ Len(log) \in 1..Len(log)
    BY <1>1, CalmBlocks
  <2>2. runAt[b] = runAt[Len(log)]
    BY <1>1, <2>1, CalmBlocks
  <2> QED BY <1>1, <2>2 DEF UndisturbedBlocksHold
<1>2. BlocksInv /\ UndisturbedBlocksHold => RollbackDiscards
  BY <1>1 DEF RollbackDiscards
<1> QED BY BlocksInvariant, BlocksHold, <1>2, PTL

\* ReadYourWrites: in such a session a SELECT shows every row whose INSERT
\* was reported as done in the same block.
THEOREM ReadsOwnWrites == ASSUME Calm PROVE Spec => []ReadYourWrites
<1>1. BlocksInv /\ UndisturbedBlocksHold => ReadYourWrites
  BY CalmBlocks DEF UndisturbedBlocksHold, ReadYourWrites
<1> QED BY BlocksInvariant, BlocksHold, <1>1, PTL

\* RefusedHasNoEffect: without faults every row of the table is there by an
\* INSERT that was reported as done, or is about to be.
THEOREM RefusalsHaveNoEffect == ASSUME MaxFaults = 0 PROVE Spec => []RefusedHasNoEffect
<1>1. ASSUME BlocksInv, NEW r \in store
      PROVE  \E i \in DOMAIN log \cup {Len(log) + 1} :
               \/ i \in DOMAIN log /\ InsertAcked(i) /\ log[i].stmt.row = r
               \/ i \notin DOMAIN log /\ pc # "idle" /\ stmt.op = "INSERT" /\ stmt.row = r
  <2>1. faults = 0
    BY <1>1 DEF BlocksInv, TypeInv, TypeOK
  <2>2. Known(Heard, store, work)
    BY <1>1, <2>1 DEF BlocksInv, HeardInv
  <2>3. PICK i \in 1..Len(Heard) : Ok(Heard, i, {"INSERT"}) /\ Heard[i].stmt.row = r
    BY <1>1, <2>2 DEF Known
  <2>4. Len(log) \in Nat /\ DOMAIN log = 1..Len(log)
    BY <1>1, HeardLog DEF BlocksInv
  <2>5. CASE i \in 1..Len(log)
    <3>1. Heard[i] = log[i]
      BY <1>1, <2>5, HeardLog DEF BlocksInv
    <3> QED BY <2>3, <2>4, <2>5, <3>1 DEF InsertAcked, Acked, Ok
  <2>6. CASE i \notin 1..Len(log)
    <3>1. pc \in {"reply", "rows"} /\ i = Len(log) + 1
      BY <1>1, <2>3, <2>4, <2>6, HeardLog DEF BlocksInv
    <3>2. Heard[i].stmt = stmt
      BY <1>1, <3>1, HeardLog DEF BlocksInv
    <3> QED BY <2>3, <2>4, <2>6, <3>1, <3>2 DEF Ok
  <2> QED BY <2>5, <2>6
<1>2. BlocksInv => RefusedHasNoEffect
  BY <1>1 DEF RefusedHasNoEffect
<1> QED BY BlocksInvariant, <1>2, PTL

\* What is in the table at the end of a session that saw no fault was
\* acknowledged outside a block, or in a block whose COMMIT was sent.
SettledAtExit ==
  pc = "exited" /\ faults = 0 =>
    \A r \in store : \E i \in DOMAIN log :
      /\ InsertAcked(i) /\ log[i].stmt.row = r
      /\ \/ ~InBlock(i)
         \/ \E c \in (i + 1)..Len(log) : Acked(c, {"COMMIT"})

LEMMA AllSettled == Spec => []SettledAtExit
<1>1. ASSUME BlocksInv, pc = "exited", faults = 0, NEW r \in store
      PROVE  \E i \in DOMAIN log :
               /\ InsertAcked(i) /\ log[i].stmt.row = r
               /\ \/ ~InBlock(i)
                  \/ \E c \in (i + 1)..Len(log) : Acked(c, {"COMMIT"})
  <2>1. Heard = log /\ Len(log) \in Nat /\ DOMAIN log = 1..Len(log)
    BY <1>1, HeardLog DEF BlocksInv
  <2>2. Settled(log, store)
    BY <1>1, <2>1 DEF BlocksInv, HeardInv
  <2>3. PICK i \in 1..Len(log) :
          /\ Ok(log, i, {"INSERT"}) /\ log[i].stmt.row = r
          /\ (\A b \in 1..i : ~Open(log, b, i)) \/ (\E c \in (i + 1)..Len(log) : Ok(log, c, {"COMMIT"}))
    BY <1>1, <2>2 DEF Settled
  <2>4. (\A b \in 1..i : ~Open(log, b, i)) => ~InBlock(i)
    BY DEF InBlock, OpenSince, Acked, Open, Ok
  <2>5. InsertAcked(i) /\ \A c : Acked(c, {"COMMIT"}) <=> Ok(log, c, {"COMMIT"})
    BY <2>3 DEF InsertAcked, Acked, Ok
  <2> QED BY <2>1, <2>3, <2>4, <2>5
<1>2. BlocksInv => SettledAtExit
  BY <1>1 DEF SettledAtExit
<1> QED BY BlocksInvariant, <1>2, PTL
=============================================================================
