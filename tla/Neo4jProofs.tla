---------------------------- MODULE Neo4jProofs ----------------------------
(* Proofs about Neo4jSession, for every set of labels and constraints and  *)
(* any number of commands and faults.                                      *)
EXTENDS Neo4jSession, SequenceTheorems, TLAPS

\* Appending to a sequence.
LEMMA AppendFacts ==
  ASSUME NEW S, NEW s \in Seq(S), NEW e \in S
  PROVE  /\ Append(s, e) \in Seq(S)
         /\ Len(Append(s, e)) = Len(s) + 1
         /\ DOMAIN Append(s, e) = 1..(Len(s) + 1)
         /\ \A i \in 1..Len(s) : Append(s, e)[i] = s[i]
         /\ Append(s, e)[Len(s) + 1] = e
  OBVIOUS

Node == [label : Labels, by : Nat \ {0}]
Reply == [cmd : Commands, ok : BOOLEAN, rows : SUBSET Names, none : BOOLEAN, lost : BOOLEAN]
Running == pc \in {"run", "stream"}

\* A result is open exactly while the client reads it.
TypeInv == /\ TypeOK
           /\ Running => cmd \in Commands
           /\ stream # "none" <=> pc = "stream"

\* What kind of command an argument belongs to.
LEMMA CommandKinds ==
  ASSUME NEW c \in Commands
  PROVE  /\ c.op = "create" => c.arg \in Labels /\ c = Create(c.arg)
         /\ c.op = "constrain" => c.arg \in Constraints /\ c = Constrain(c.arg)
         /\ c \in Sections => c.op \notin {"create", "constrain"}
BY DEF Commands, Queries, Sections, Op, Create, Constrain

LEMMA SectionCommands ==
  /\ Sections \subseteq Commands
  /\ Op("constraints") # Op("indexes") /\ Op("indexes") \in Sections
BY DEF Commands, Sections, Op

LEMMA LabelsTyped == ASSUME TypeInv PROVE LabelsInUse \in SUBSET Labels
<1>1. nodes \in Seq(Node) /\ DOMAIN nodes = 1..Len(nodes)
  BY DEF TypeInv, TypeOK, Node
<1>2. \A i \in DOMAIN nodes : nodes[i] \in Node
  BY <1>1
<1>3. \A i \in DOMAIN nodes : nodes[i].label \in Labels
  BY <1>2 DEF Node
<1> QED BY <1>3 DEF LabelsInUse

LEMMA RecordFacts ==
  ASSUME TypeInv
  PROVE  /\ \A c : Records(c) \in SUBSET Names
         /\ \A c \in {Op("match"), Op("labels")} : Records(c) = LabelsInUse
         /\ Records(Op("constraints")) = catalog
         /\ Records(Op("indexes")) = catalog \cup {Lookup}
<1>1. LabelsInUse \in SUBSET Names /\ catalog \in SUBSET Names /\ {Lookup} \in SUBSET Names
  BY LabelsTyped DEF TypeInv, TypeOK, Names
<1>2. \A c \in {Op("match"), Op("labels")} : Records(c) = LabelsInUse
  BY DEF Records, Op
<1>3. Records(Op("constraints")) = catalog
  BY DEF Records, Op
<1>4. Records(Op("indexes")) = catalog \cup {Lookup}
  BY DEF Records, Op
<1>5. ASSUME NEW c PROVE Records(c) \in SUBSET Names
  <2>1. \/ Records(c) = LabelsInUse \/ Records(c) = catalog
        \/ Records(c) = catalog \cup {Lookup} \/ Records(c) = {}
    BY DEF Records
  <2> QED BY <1>1, <2>1
<1> QED BY <1>2, <1>3, <1>4, <1>5

\* The user is told something about the command being run.
Say(ok, rows) == Tell(ok, rows) \/ (cmd \in Sections /\ TellSection(ok, rows))

\* It is recorded as e.
Entry(e, ok, rows) == /\ e.cmd = cmd /\ e.ok = ok /\ e.rows = rows /\ e.lost = lost
                      /\ e.none => rows = {}

LEMMA TellFacts ==
  ASSUME TypeInv, Running, NEW ok \in BOOLEAN, NEW rows \in SUBSET Names, Say(ok, rows)
  PROVE  /\ log \in Seq(Reply) /\ Len(log) \in Nat /\ DOMAIN log = 1..Len(log)
         /\ log' \in Seq(Reply)
         /\ Len(log') = Len(log) + 1
         /\ DOMAIN log' = 1..(Len(log) + 1)
         /\ \A i \in 1..Len(log) : log'[i] = log[i]
         /\ Entry(log'[Len(log) + 1], ok, rows)
         /\ pc' \in {"idle", "run"} /\ (pc' = "run" => cmd' \in Commands)
         /\ cmd' \in Commands \cup {NoCommand}
         /\ syntax' \in Syntaxes /\ lost' \in BOOLEAN
<1>1. ASSUME NEW none \in BOOLEAN, none => rows = {}, Report(ok, rows, none)
      PROVE  /\ log \in Seq(Reply) /\ Len(log) \in Nat /\ DOMAIN log = 1..Len(log)
             /\ log' \in Seq(Reply)
             /\ Len(log') = Len(log) + 1
             /\ DOMAIN log' = 1..(Len(log) + 1)
             /\ \A i \in 1..Len(log) : log'[i] = log[i]
             /\ Entry(log'[Len(log) + 1], ok, rows)
  <2> DEFINE e == [cmd |-> cmd, ok |-> ok, rows |-> rows, none |-> none, lost |-> lost]
  <2>1. log \in Seq(Reply) /\ e \in Reply /\ log' = Append(log, e)
    BY <1>1 DEF TypeInv, TypeOK, Report, Reply
  <2>2. Entry(e, ok, rows)
    BY <1>1 DEF Entry
  <2> HIDE DEF e
  <2>3. /\ log' \in Seq(Reply)
        /\ Len(log') = Len(log) + 1
        /\ DOMAIN log' = 1..(Len(log) + 1)
        /\ \A i \in 1..Len(log) : log'[i] = log[i]
        /\ log'[Len(log) + 1] = e
    BY <2>1, AppendFacts
  <2> QED BY <2>1, <2>2, <2>3
<1>2. CASE Tell(ok, rows)
  <2>1. Report(ok, rows, FALSE) /\ pc' = "idle" /\ UNCHANGED <<cmd, syntax, lost>>
    BY <1>2 DEF Tell
  <2> QED BY <1>1, <2>1 DEF TypeInv, TypeOK
<1>3. CASE cmd \in Sections /\ TellSection(ok, rows)
  <2>1. PICK none \in BOOLEAN : none = (rows = {})
    OBVIOUS
  <2>2. Report(ok, rows, none)
    BY <1>3, <2>1 DEF TellSection
  <2>3. /\ pc' \in {"idle", "run"} /\ (pc' = "run" => cmd' \in Commands)
        /\ cmd' \in Commands \cup {NoCommand}
        /\ syntax' \in Syntaxes /\ lost' \in BOOLEAN
    BY <1>3, SectionCommands DEF TellSection, Start, TypeInv, TypeOK, Syntaxes
  <2> QED BY <1>1, <2>1, <2>2, <2>3
<1> QED BY <1>2, <1>3 DEF Say

\* The server commits the command being run.
LEMMA CommitFacts ==
  ASSUME TypeInv, Commit
  PROVE  /\ nodes' \in Seq(Node) /\ catalog' \in SUBSET Constraints
         /\ pc = "stream" /\ cmd \in Commands
         /\ catalog \subseteq catalog'
         /\ Len(nodes) \in Nat /\ DOMAIN nodes = 1..Len(nodes)
         /\ DOMAIN nodes \subseteq DOMAIN nodes'
         /\ \A i \in DOMAIN nodes : nodes'[i] = nodes[i]
         /\ \A i \in DOMAIN nodes' : i \in DOMAIN nodes \/
              (cmd.op = "create" /\ i = Len(nodes) + 1 /\ nodes'[i] = [label |-> cmd.arg, by |-> Len(log) + 1])
         /\ cmd.op = "create" => /\ Len(nodes) + 1 \in DOMAIN nodes'
                                 /\ nodes'[Len(nodes) + 1] = [label |-> cmd.arg, by |-> Len(log) + 1]
         /\ cmd.op = "constrain" => cmd.arg \in catalog'
<1> DEFINE new == [label |-> cmd.arg, by |-> Len(log) + 1]
<1>1. pc = "stream" /\ cmd \in Commands
  BY DEF Commit, TypeInv, Running
<1>2. nodes \in Seq(Node) /\ catalog \in SUBSET Constraints /\ Len(log) \in Nat
  BY DEF TypeInv, TypeOK, Node
<1>3. catalog' \in SUBSET Constraints /\ catalog \subseteq catalog'
      /\ (cmd.op = "constrain" => cmd.arg \in catalog')
  BY <1>1, <1>2, CommandKinds DEF Commit
<1>4. CASE cmd.op # "create"
  BY <1>1, <1>2, <1>3, <1>4 DEF Commit
<1>5. CASE cmd.op = "create"
  <2>1. new \in Node /\ nodes' = Append(nodes, new)
    BY <1>1, <1>2, <1>5, CommandKinds DEF Commit, Node
  <2> HIDE DEF new
  <2>2. /\ nodes' \in Seq(Node)
        /\ Len(nodes) \in Nat /\ DOMAIN nodes = 1..Len(nodes)
        /\ DOMAIN nodes' = 1..(Len(nodes) + 1)
        /\ \A i \in 1..Len(nodes) : nodes'[i] = nodes[i]
        /\ nodes'[Len(nodes) + 1] = new
    BY <1>2, <2>1, AppendFacts
  <2> QED BY <1>1, <1>3, <1>5, <2>2 DEF new
<1> QED BY <1>4, <1>5

-----------------------------------------------------------------------------
LEMMA TypeInvInit == Init => TypeInv
<1> SUFFICES ASSUME Init PROVE TypeInv
  OBVIOUS
<1>1. faults \in 0..MaxFaults
  BY BoundsAssumption DEF Init
<1>2. nodes \in Seq(Node) /\ log \in Seq(Reply)
  BY DEF Init
<1>3. knows \in SUBSET Syntaxes /\ syntax \in Syntaxes
  BY DEF Init, Syntaxes
<1> QED BY <1>1, <1>2, <1>3 DEF Init, TypeInv, TypeOK, Running, Node, Reply

LEMMA TypeInvStep == TypeInv /\ [Next]_vars => TypeInv'
<1> SUFFICES ASSUME TypeInv, [Next]_vars PROVE TypeInv'
  OBVIOUS
<1> USE DEF store, net, result
<1>1. ASSUME NEW c \in Commands, Submit(c) PROVE TypeInv'
  BY <1>1 DEF Submit, Start, TypeInv, TypeOK, Running, Syntaxes
<1>2. CASE Connect \/ Exit \/ RestartServer
  BY <1>2 DEF Connect, Exit, RestartServer, TypeInv, TypeOK, Running
<1>3. CASE RunAccepted
  BY <1>3, RecordFacts DEF RunAccepted, TypeInv, TypeOK, Running
<1>4. ASSUME Say(FALSE, {}), Running, UNCHANGED <<nodes, catalog, knows, up, faults>>,
             conn' \in {"none", "open", "cut"}, stream' = "none", answer' \in SUBSET Names
      PROVE  TypeInv'
  BY <1>4, TellFacts DEF TypeInv, TypeOK, Running, Reply
<1>5. CASE RunRefused \/ RunUnreachable
  <2>1. /\ pc = "run" /\ conn' \in {"none", "open"}
        /\ UNCHANGED <<nodes, catalog, knows, up, faults, stream, answer>>
        /\ FallBackOrTell
    BY <1>5 DEF RunRefused, RunUnreachable
  <2>2. CASE Say(FALSE, {})
    BY <1>4, <2>1, <2>2 DEF TypeInv, TypeOK, Running
  <2>3. CASE syntax' = "old" /\ UNCHANGED <<pc, cmd, log, lost>>
    BY <2>1, <2>3 DEF TypeInv, TypeOK, Running, Syntaxes
  <2> QED BY <2>1, <2>2, <2>3 DEF FallBackOrTell, Say
<1>6. CASE Collected \/ SectionRead
  <2>1. answer \in SUBSET Names /\ Running
    BY <1>6 DEF Collected, SectionRead, TypeInv, TypeOK, Running
  <2>2. Say(TRUE, answer) /\ CloseResult /\ UNCHANGED <<store, net>>
    BY <1>6 DEF Collected, SectionRead, Say
  <2> QED BY <2>1, <2>2, TellFacts DEF CloseResult, TypeInv, TypeOK, Running, Reply
<1>7. CASE CollectFails
  <2>1. Say(FALSE, {})
    BY <1>7 DEF CollectFails, Say
  <2> QED BY <1>4, <1>7, <2>1 DEF CollectFails, CloseResult, Discard, TypeInv, TypeOK, Running
<1>8. CASE SectionCutOff
  <2>1. PICK got \in SUBSET answer : Say(TRUE, got) BY <1>8 DEF SectionCutOff, Say
  <2>2. got \in SUBSET Names /\ Running BY <1>8 DEF SectionCutOff, TypeInv, TypeOK, Running
  <2> QED BY <1>8, <2>1, <2>2, TellFacts
          DEF SectionCutOff, CloseResult, Discard, TypeInv, TypeOK, Running, Reply
<1>9. CASE Commit
  BY <1>9, CommitFacts DEF Commit, TypeInv, TypeOK, Running, Node
<1>10. CASE Abort
  BY <1>10 DEF Abort, TypeInv, TypeOK, Running
<1>11. ASSUME Drop, up' \in BOOLEAN PROVE TypeInv'
  <2>1. faults' \in 0..MaxFaults BY <1>11, BoundsAssumption DEF Drop, TypeInv, TypeOK
  <2>2. /\ conn' \in {"none", "open", "cut"} /\ lost' \in BOOLEAN
        /\ stream' \in {"none", "open", "committed", "failed"}
        /\ stream' # "none" <=> pc = "stream"
    BY <1>11 DEF Drop, TypeInv, TypeOK
  <2>3. UNCHANGED <<nodes, catalog, knows, answer, pc, cmd, syntax, log>>
    BY <1>11 DEF Drop
  <2> QED BY <1>11, <2>1, <2>2, <2>3 DEF TypeInv, TypeOK, Running
<1>12. CASE CutConnection \/ StopServer
  BY <1>11, <1>12 DEF CutConnection, StopServer, TypeInv, TypeOK
<1>13. CASE UNCHANGED vars
  BY <1>13 DEF vars, TypeInv, TypeOK, Running
<1> QED
  BY <1>1, <1>2, <1>3, <1>5, <1>6, <1>7, <1>8, <1>9, <1>10, <1>12, <1>13
  DEF Next, Client, Server

\* The session's variables keep their types, and a result is open exactly
\* while executeQuery, showLabels or showSchema reads it.
THEOREM TypeCorrect == Spec => []TypeOK
<1>1. TypeInv => TypeOK
  BY DEF TypeInv
<1> QED
  BY TypeInvInit, TypeInvStep, <1>1, PTL DEF Spec

-----------------------------------------------------------------------------
(* One step at a time: what a step does to data and replies.               *)

\* The user is told something while the data stay as they are.  It is a
\* success in two cases: the stream was read to its end, or a section was cut
\* off, which takes a lost connection.
Telling(ok, rows) ==
  /\ Running /\ Say(ok, rows)
  /\ UNCHANGED <<nodes, catalog>>
  /\ stream' = "none"
  /\ ok => \/ stream = "committed" /\ rows = answer
           \/ cmd \in Sections /\ lost
  /\ ~ok => stream # "committed" \/ conn = "cut"

\* Nothing is told and no data change.  A result may be opened, or fail.
Quiet ==
  /\ UNCHANGED <<nodes, catalog, log>>
  /\ \/ UNCHANGED <<stream, answer, cmd>> \/ stream' = "none"
     \/ stream' = "open" /\ answer' = Records(cmd) /\ cmd' = cmd
     \/ stream = "open" /\ stream' = "failed" /\ UNCHANGED <<answer, cmd>> /\ (cmd \in Sections => lost')
  /\ stream = "committed" => stream' = "committed"
  /\ lost => lost' \/ stream' = "none"
  /\ conn' = "cut" /\ stream' # "none" => lost'

\* A connection lost while a result is read is recorded, and only that makes
\* a schema section fail.
LostInv == /\ pc = "stream" /\ conn = "cut" => lost
           /\ pc = "stream" /\ cmd \in Sections /\ stream = "failed" => lost

LEMMA StepCases ==
  ASSUME TypeInv, LostInv, [Next]_vars
  PROVE  \/ Quiet \/ Commit
         \/ \E ok \in BOOLEAN, rows \in SUBSET Names : Telling(ok, rows)
<1> USE DEF store, net, result
<1>0. answer \in SUBSET Names
  BY DEF TypeInv, TypeOK
<1>1. ASSUME NEW c \in Commands, Submit(c) PROVE Quiet
  BY <1>1 DEF Submit, Quiet, TypeInv
<1>2. CASE Connect \/ Exit \/ RestartServer \/ UNCHANGED vars
  BY <1>2 DEF Connect, Exit, RestartServer, vars, Quiet, TypeInv, LostInv
<1>3. CASE RunAccepted
  BY <1>3 DEF RunAccepted, Quiet, TypeInv
<1>4. CASE RunRefused \/ RunUnreachable
  <2>1. /\ pc = "run" /\ UNCHANGED <<nodes, catalog, stream, answer>>
        /\ stream = "none" /\ FallBackOrTell
    BY <1>4 DEF RunRefused, RunUnreachable, TypeInv
  <2>2. CASE Say(FALSE, {})
    <3>1. Telling(FALSE, {})
      BY <2>1, <2>2 DEF Telling, Running
    <3> QED BY <3>1
  <2>3. CASE UNCHANGED <<pc, cmd, log, lost>>
    BY <2>1, <2>3 DEF Quiet
  <2> QED BY <2>1, <2>2, <2>3 DEF FallBackOrTell, Say
<1>5. CASE Collected \/ SectionRead
  <2>1. Telling(TRUE, answer)
    BY <1>5 DEF Collected, SectionRead, CloseResult, Telling, Say, Running
  <2> QED BY <1>0, <2>1
<1>6. CASE CollectFails
  <2>1. Telling(FALSE, {})
    BY <1>6 DEF CollectFails, CloseResult, Ended, Telling, Say, Running
  <2> QED BY <2>1
<1>7. CASE SectionCutOff
  <2>1. PICK got \in SUBSET answer : Say(TRUE, got)
    BY <1>7 DEF SectionCutOff, Say
  <2>2. Telling(TRUE, got)
    BY <1>7, <2>1 DEF SectionCutOff, CloseResult, Ended, Telling, Running, LostInv
  <2> QED BY <1>0, <2>2
<1>8. CASE Abort
  <2>1. cmd \notin Sections
    BY <1>8, CommandKinds DEF Abort, Breaks, Sections, Op
  <2> QED BY <1>8, <2>1 DEF Abort, Quiet, LostInv, TypeInv
<1>9. ASSUME Drop PROVE Quiet
  BY <1>9 DEF Drop, Quiet, TypeInv, TypeOK
<1> QED
  BY <1>1, <1>2, <1>3, <1>4, <1>5, <1>6, <1>7, <1>8, <1>9
  DEF Next, Client, Server, CutConnection, StopServer

LEMMA LostInvStep == TypeInv /\ LostInv /\ [Next]_vars => LostInv'
<1> SUFFICES ASSUME TypeInv, LostInv, [Next]_vars PROVE LostInv'
  OBVIOUS
<1> USE DEF store, net, result
<1>1. pc' # "stream" \/ (pc' = "stream" /\ (Quiet \/ Commit))
  <2>1. ASSUME NEW ok \in BOOLEAN, NEW rows \in SUBSET Names, Telling(ok, rows)
        PROVE  pc' # "stream"
    BY <2>1 DEF Telling, Say, Tell, TellSection, Start
  <2> QED BY <2>1, StepCases
<1>2. stream' # "none" <=> pc' = "stream"
  BY TypeInvStep DEF TypeInv
<1>3. CASE Commit
  BY <1>3 DEF Commit, LostInv
<1>4. CASE Quiet /\ pc' = "stream"
  <2>1. conn' = "cut" => lost'
    BY <1>2, <1>4 DEF Quiet
  <2>2. cmd' \in Sections /\ stream' = "failed" => lost'
    BY <1>2, <1>4 DEF Quiet, LostInv, TypeInv
  <2> QED BY <2>1, <2>2 DEF LostInv
<1> QED BY <1>1, <1>3, <1>4 DEF LostInv

LEMMA BaseInit == Init => TypeInv /\ LostInv
BY TypeInvInit DEF Init, LostInv

\* Nodes and constraints only become more.
DataGrow == /\ catalog \subseteq catalog'
            /\ DOMAIN nodes \subseteq DOMAIN nodes'
            /\ \A i \in DOMAIN nodes : nodes'[i] = nodes[i]

LEMMA Growth == ASSUME TypeInv, LostInv, [Next]_vars PROVE DataGrow
<1>1. CASE UNCHANGED <<nodes, catalog>>
  BY <1>1 DEF DataGrow
<1>2. CASE Commit
  BY <1>2, CommitFacts DEF DataGrow
<1> QED BY <1>1, <1>2, StepCases DEF Quiet, Telling

LEMMA LabelsGrow == ASSUME DataGrow PROVE LabelsInUse \subseteq LabelsInUse'
<1> SUFFICES ASSUME NEW l \in LabelsInUse PROVE l \in LabelsInUse'
  OBVIOUS
<1>1. PICK i \in DOMAIN nodes : l = nodes[i].label
  BY DEF LabelsInUse
<1>2. i \in DOMAIN nodes' /\ l = nodes'[i].label
  BY <1>1 DEF DataGrow
<1> QED BY <1>2 DEF LabelsInUse

\* What was told before stays as it was told.
LEMMA ToldBefore ==
  ASSUME TypeInv, NEW ok \in BOOLEAN, NEW rows \in SUBSET Names, Telling(ok, rows),
         NEW n \in 1..Len(log)
  PROVE  log'[n] = log[n] /\ \A c : Told(n, c)' <=> Told(n, c)
<1>1. Running /\ Say(ok, rows)
  BY DEF Telling
<1>2. /\ Len(log) \in Nat /\ DOMAIN log = 1..Len(log) /\ DOMAIN log' = 1..(Len(log) + 1)
      /\ \A i \in 1..Len(log) : log'[i] = log[i]
  BY <1>1, TellFacts
<1>3. n \in DOMAIN log /\ n \in DOMAIN log' /\ log'[n] = log[n]
  BY <1>2
<1> QED BY <1>3 DEF Told

-----------------------------------------------------------------------------
\* Command c, the n-th, was reported as done or is about to be.
Done(n, c) == Told(n, c) \/ (stream = "committed" /\ n = Len(log) + 1 /\ cmd = c)

AckInv == \A n \in Nat :
            /\ \A l \in Labels : Done(n, Create(l)) =>
                 \E i \in DOMAIN nodes : nodes[i] = [label |-> l, by |-> n]
            /\ \A k \in Constraints : Done(n, Constrain(k)) => k \in catalog

\* A write is done by the step that commits it, and by no other.
LEMMA DoneByCommit ==
  ASSUME TypeInv, LostInv, [Next]_vars, NEW n \in Nat, NEW c \in Queries, Done(n, c)',
         c.op \in {"create", "constrain"}
  PROVE  Done(n, c) \/ (Commit /\ n = Len(log) + 1 /\ cmd = c)
<1>1. CASE Quiet
  BY <1>1 DEF Quiet, Done, Told
<1>2. CASE Commit
  BY <1>2 DEF Commit, Done, Told
<1>3. ASSUME NEW ok \in BOOLEAN, NEW rows \in SUBSET Names, Telling(ok, rows)
      PROVE  Done(n, c)
  <2>1. /\ stream' = "none" /\ DOMAIN log' = 1..(Len(log) + 1)
        /\ Entry(log'[Len(log) + 1], ok, rows)
        /\ Len(log) \in Nat
    BY <1>3, TellFacts DEF Telling
  <2>2. n \in DOMAIN log' /\ log'[n].ok /\ log'[n].cmd = c
    BY <2>1 DEF Done, Told
  <2>3. CASE n \in 1..Len(log)
    BY <1>3, <2>2, <2>3, ToldBefore DEF Done, Told
  <2>4. CASE n = Len(log) + 1
    <3>1. ok /\ cmd = c BY <2>1, <2>2, <2>4 DEF Entry
    <3>2. c \notin Sections BY CommandKinds DEF Commands
    <3> QED BY <1>3, <2>4, <3>1, <3>2 DEF Telling, Done
  <2> QED BY <2>1, <2>2, <2>3, <2>4
<1> QED BY <1>1, <1>2, <1>3, StepCases

LEMMA AckInvStep == TypeInv /\ LostInv /\ AckInv /\ [Next]_vars => AckInv'
<1> SUFFICES ASSUME TypeInv, LostInv, AckInv, [Next]_vars, NEW n \in Nat
             PROVE  /\ \A l \in Labels : Done(n, Create(l))' =>
                         \E i \in DOMAIN nodes' : nodes'[i] = [label |-> l, by |-> n]
                    /\ \A k \in Constraints : Done(n, Constrain(k))' => k \in catalog'
  BY DEF AckInv
<1>1. ASSUME NEW l \in Labels, Done(n, Create(l))'
      PROVE  \E i \in DOMAIN nodes' : nodes'[i] = [label |-> l, by |-> n]
  <2>1. Create(l) \in Queries /\ Create(l).op = "create" /\ Create(l).arg = l
    BY DEF Queries, Create
  <2>2. CASE Done(n, Create(l))
    BY <2>2, Growth DEF AckInv, DataGrow
  <2>3. CASE Commit /\ n = Len(log) + 1 /\ cmd = Create(l)
    BY <2>1, <2>3, CommitFacts
  <2> QED BY <1>1, <2>1, <2>2, <2>3, DoneByCommit
<1>2. ASSUME NEW k \in Constraints, Done(n, Constrain(k))' PROVE k \in catalog'
  <2>1. /\ Constrain(k) \in Queries /\ Constrain(k).op = "constrain"
        /\ Constrain(k).arg = k
    BY DEF Queries, Constrain
  <2>2. CASE Done(n, Constrain(k))
    BY <2>2, Growth DEF AckInv, DataGrow
  <2>3. CASE Commit /\ n = Len(log) + 1 /\ cmd = Constrain(k)
    BY <2>1, <2>3, CommitFacts
  <2> QED BY <1>2, <2>1, <2>2, <2>3, DoneByCommit
<1> QED BY <1>1, <1>2

LEMMA AckInvStays == ASSUME TypeInv, AckInv PROVE AckedWritesStay
<1>1. \A n \in DOMAIN log : n \in Nat
  BY DEF TypeInv, TypeOK
<1>2. \A n, c : Told(n, c) => Done(n, c)
  BY DEF Done
<1> QED BY <1>1, <1>2 DEF AckInv, AckedWritesStay

\* AckedWritesStay: what neo4j-cli reported as created is in the database, over
\* any number of lost connections and restarts.
THEOREM WritesStay == Spec => []AckedWritesStay
<1>1. Init => AckInv
  BY DEF Init, AckInv, Done, Told
<1> QED
  BY BaseInit, TypeInvStep, LostInvStep, AckInvStep, AckInvStays, <1>1, PTL DEF Spec

-----------------------------------------------------------------------------
\* The node of the command being run is there once its stream is committed.
OnceInv ==
  /\ \A i, j \in DOMAIN nodes : nodes[i].by = nodes[j].by => i = j
  /\ \A i \in DOMAIN nodes :
       \/ nodes[i].by \in DOMAIN log /\ (log[nodes[i].by].ok \/ log[nodes[i].by].lost)
       \/ nodes[i].by = Len(log) + 1 /\ stream = "committed"

LEMMA OnceInvStep == TypeInv /\ LostInv /\ OnceInv /\ [Next]_vars => OnceInv'
<1> SUFFICES ASSUME TypeInv, LostInv, OnceInv, [Next]_vars PROVE OnceInv'
  OBVIOUS
<1>1. Len(log) \in Nat /\ DOMAIN log = 1..Len(log)
  BY DEF TypeInv, TypeOK
<1>2. CASE Quiet
  BY <1>2 DEF Quiet, OnceInv
<1>3. CASE Commit
  <2>1. UNCHANGED log /\ stream = "open" /\ stream' = "committed"
    BY <1>3 DEF Commit
  <2>2. \A i \in DOMAIN nodes : nodes[i].by \in 1..Len(log)
    BY <1>1, <2>1 DEF OnceInv
  <2>3. \A i \in DOMAIN nodes' : \/ i \in DOMAIN nodes /\ nodes'[i] = nodes[i]
                                 \/ i = Len(nodes) + 1 /\ nodes'[i].by = Len(log) + 1
    BY <1>3, CommitFacts
  <2>4. \A i, j \in DOMAIN nodes' : nodes'[i].by = nodes'[j].by => i = j
    BY <1>1, <2>2, <2>3 DEF OnceInv
  <2>5. \A i \in DOMAIN nodes' :
          \/ nodes'[i].by \in DOMAIN log' /\ (log'[nodes'[i].by].ok \/ log'[nodes'[i].by].lost)
          \/ nodes'[i].by = Len(log') + 1 /\ stream' = "committed"
    BY <2>1, <2>3, <2>2 DEF OnceInv
  <2> QED BY <2>4, <2>5 DEF OnceInv
<1>4. ASSUME NEW ok \in BOOLEAN, NEW rows \in SUBSET Names, Telling(ok, rows) PROVE OnceInv'
  <2>1. /\ nodes' = nodes /\ DOMAIN log' = 1..(Len(log) + 1)
        /\ \A n \in 1..Len(log) : log'[n] = log[n]
        /\ Entry(log'[Len(log) + 1], ok, rows)
    BY <1>1, <1>4, TellFacts DEF Telling
  <2>2. stream = "committed" => ok \/ lost
    BY <1>4 DEF Telling, LostInv, TypeInv
  <2> QED BY <1>1, <2>1, <2>2 DEF OnceInv, Entry
<1> QED BY <1>2, <1>3, <1>4, StepCases

\* WrittenAtMostOnce: no query has its effect twice, and one whose failure the
\* user was told of has none, unless the connection was lost while it ran.
THEOREM AtMostOnce == Spec => []WrittenAtMostOnce
<1>1. Init => OnceInv
  BY DEF Init, OnceInv
<1>2. TypeInv /\ OnceInv => WrittenAtMostOnce
  BY DEF TypeInv, OnceInv, WrittenAtMostOnce
<1> QED
  BY BaseInit, TypeInvStep, LostInvStep, OnceInvStep, <1>1, <1>2, PTL DEF Spec

-----------------------------------------------------------------------------
(* Results shown are complete.                                             *)

\* What a success is made of.
LEMMA TellingFacts ==
  ASSUME TypeInv, LostInv, NEW ok \in BOOLEAN, NEW rows \in SUBSET Names, Telling(ok, rows)
  PROVE  /\ Len(log) \in Nat /\ DOMAIN log = 1..Len(log)
         /\ DOMAIN log' = 1..(Len(log) + 1)
         /\ Entry(log'[Len(log) + 1], ok, rows)
         /\ UNCHANGED <<nodes, catalog>> /\ stream' = "none"
         /\ ok /\ (cmd \in Sections => ~lost) => stream # "none" /\ rows = answer
<1>1. Running /\ Say(ok, rows)
  BY DEF Telling
<1>2. /\ Len(log) \in Nat /\ DOMAIN log = 1..Len(log)
      /\ DOMAIN log' = 1..(Len(log) + 1)
      /\ Entry(log'[Len(log) + 1], ok, rows)
  BY <1>1, TellFacts
<1> QED BY <1>2 DEF Telling

\* Told records hold all that must be in them, and nothing that is not there.
AllLabels(rows, n) ==
  /\ rows \subseteq LabelsInUse
  /\ \A l \in Labels, k \in 1..n : Told(k, Create(l)) => l \in rows

ResInv == stream # "none" /\ cmd \in {Op("match"), Op("labels")} => AllLabels(answer, Len(log))

LEMMA ResInvStep ==
  TypeInv /\ LostInv /\ AckInv /\ ResInv /\ [Next]_vars => ResInv'
<1> SUFFICES ASSUME TypeInv, LostInv, AckInv, ResInv, [Next]_vars,
                    stream' # "none", cmd' \in {Op("match"), Op("labels")}
             PROVE  /\ answer' \subseteq LabelsInUse'
                    /\ \A l \in Labels, k \in 1..Len(log') : Told(k, Create(l))' => l \in answer'
  BY DEF ResInv, AllLabels
<1>1. UNCHANGED log => \A k, c : Told(k, c)' <=> Told(k, c)
  BY DEF Told
<1>2. LabelsInUse \subseteq LabelsInUse'
  BY Growth, LabelsGrow
<1>3. CASE Quiet /\ stream' = "open" /\ answer' = Records(cmd) /\ cmd' = cmd
  <2>1. answer' = LabelsInUse
    BY <1>3, RecordFacts
  <2>2. ASSUME NEW l \in Labels, NEW k \in 1..Len(log), Told(k, Create(l)) PROVE l \in answer'
    <3>1. PICK i \in DOMAIN nodes : nodes[i] = [label |-> l, by |-> k]
      BY <2>2, AckInvStays DEF AckedWritesStay, Told
    <3> QED BY <2>1, <3>1 DEF LabelsInUse
  <2> QED BY <1>1, <1>2, <1>3, <2>1, <2>2 DEF Quiet
<1>4. CASE UNCHANGED <<log, answer, cmd>> /\ stream # "none"
  BY <1>1, <1>2, <1>4 DEF ResInv, AllLabels
<1>5. CASE Quiet
  BY <1>3, <1>4, <1>5 DEF Quiet, TypeInv, TypeOK
<1>6. CASE Commit
  BY <1>4, <1>6 DEF Commit
<1>7. ASSUME NEW ok \in BOOLEAN, NEW rows \in SUBSET Names, Telling(ok, rows) PROVE FALSE
  BY <1>7 DEF Telling
<1> QED BY <1>5, <1>6, <1>7, StepCases

LEMMA ResultsStep ==
  TypeInv /\ LostInv /\ ResInv /\ ResultsComplete /\ [Next]_vars => ResultsComplete'
<1> SUFFICES ASSUME TypeInv, LostInv, ResInv, ResultsComplete, [Next]_vars
             PROVE  ResultsComplete'
  OBVIOUS
<1>1. LabelsInUse \subseteq LabelsInUse'
  BY Growth, LabelsGrow
<1>2. CASE UNCHANGED log
  BY <1>1, <1>2 DEF ResultsComplete, Told
<1>3. ASSUME NEW ok \in BOOLEAN, NEW rows \in SUBSET Names, Telling(ok, rows)
      PROVE  ResultsComplete'
  <2> SUFFICES ASSUME NEW n \in DOMAIN log', log'[n].ok,
                      log'[n].cmd \in {Op("match"), Op("labels")}
               PROVE  /\ log'[n].rows \subseteq LabelsInUse'
                      /\ \A l \in Labels, k \in 1..(n - 1) :
                           Told(k, Create(l))' => l \in log'[n].rows
    BY DEF ResultsComplete
  <2>1. Len(log) \in Nat /\ n \in 1..(Len(log) + 1)
    BY <1>3, TellingFacts
  <2>2. \A k \in 1..Len(log) : log'[k] = log[k] /\ \A c : Told(k, c)' <=> Told(k, c)
    BY <1>3, ToldBefore
  <2>3. CASE n \in 1..Len(log)
    <3>1. n \in DOMAIN log /\ log'[n] = log[n] /\ \A k \in 1..(n - 1) : k \in 1..Len(log)
      BY <1>3, <2>1, <2>2, <2>3, TellingFacts
    <3> QED BY <1>1, <2>2, <3>1 DEF ResultsComplete
  <2>4. CASE n = Len(log) + 1
    <3>1. Entry(log'[n], ok, rows)
      BY <1>3, <2>4, TellingFacts
    <3>2. ok /\ cmd \in {Op("match"), Op("labels")} /\ log'[n].rows = rows
      BY <3>1 DEF Entry
    <3>3. cmd \notin Sections
      BY <3>2 DEF Sections, Op
    <3>4. AllLabels(rows, Len(log))
      BY <1>3, <3>2, <3>3, TellingFacts DEF ResInv
    <3>5. \A k \in 1..(n - 1) : k \in 1..Len(log)
      BY <2>1, <2>4
    <3> QED BY <1>1, <2>2, <3>2, <3>4, <3>5 DEF AllLabels
  <2> QED BY <2>1, <2>3, <2>4
<1> QED BY <1>2, <1>3, StepCases DEF Quiet, Commit

\* ResultsComplete: labels and query results shown without an error show every
\* label reported as created before, and none that is not in use.
THEOREM ResultsInFull == Spec => []ResultsComplete
<1>1. Init => AckInv /\ ResInv /\ ResultsComplete
  BY DEF Init, AckInv, Done, Told, ResInv, ResultsComplete
<1> QED
  BY BaseInit, TypeInvStep, LostInvStep, AckInvStep, ResInvStep, ResultsStep, <1>1, PTL
  DEF Spec

-----------------------------------------------------------------------------
\* The records of schema section c.
AllNames(rows, c, n) ==
  /\ Lookup \in rows <=> c = Op("indexes")
  /\ rows \ {Lookup} \subseteq catalog
  /\ \A d \in Constraints, k \in 1..n : Told(k, Constrain(d)) => d \in rows

SchInv == stream # "none" /\ cmd \in Sections => AllNames(answer, cmd, Len(log))

LEMMA SchInvStep ==
  TypeInv /\ LostInv /\ AckInv /\ SchInv /\ [Next]_vars => SchInv'
<1> SUFFICES ASSUME TypeInv, LostInv, AckInv, SchInv, [Next]_vars,
                    stream' # "none", cmd' \in Sections
             PROVE  /\ Lookup \in answer' <=> cmd' = Op("indexes")
                    /\ answer' \ {Lookup} \subseteq catalog'
                    /\ \A d \in Constraints, k \in 1..Len(log') :
                         Told(k, Constrain(d))' => d \in answer'
  BY DEF SchInv, AllNames
<1>1. UNCHANGED log => \A k, c : Told(k, c)' <=> Told(k, c)
  BY DEF Told
<1>2. catalog \subseteq catalog' /\ Lookup \notin catalog
  BY Growth, NamesAssumption DEF DataGrow, TypeInv, TypeOK
<1>3. CASE Quiet /\ stream' = "open" /\ answer' = Records(cmd) /\ cmd' = cmd
  <2>1. \/ cmd = Op("constraints") /\ answer' = catalog
        \/ cmd = Op("indexes") /\ answer' = catalog \cup {Lookup}
    BY <1>3, RecordFacts DEF Sections
  <2>2. \A d \in Constraints, k \in 1..Len(log) : Told(k, Constrain(d)) => d \in catalog
    BY AckInvStays DEF AckedWritesStay, Told
  <2>3. Lookup \in answer' <=> cmd' = Op("indexes")
    BY <1>2, <1>3, <2>1, SectionCommands
  <2> QED BY <1>1, <1>2, <1>3, <2>1, <2>2, <2>3 DEF Quiet
<1>4. CASE UNCHANGED <<log, answer, cmd>> /\ stream # "none"
  BY <1>1, <1>2, <1>4 DEF SchInv, AllNames
<1>5. CASE Quiet
  BY <1>3, <1>4, <1>5 DEF Quiet, TypeInv, TypeOK
<1>6. CASE Commit
  BY <1>4, <1>6 DEF Commit
<1>7. ASSUME NEW ok \in BOOLEAN, NEW rows \in SUBSET Names, Telling(ok, rows) PROVE FALSE
  BY <1>7 DEF Telling
<1> QED BY <1>5, <1>6, <1>7, StepCases

LEMMA SchemaStep ==
  TypeInv /\ LostInv /\ SchInv /\ SchemaComplete /\ [Next]_vars => SchemaComplete'
<1> SUFFICES ASSUME TypeInv, LostInv, SchInv, SchemaComplete, [Next]_vars
             PROVE  SchemaComplete'
  OBVIOUS
<1>1. catalog \subseteq catalog'
  BY Growth DEF DataGrow
<1>2. CASE UNCHANGED log
  BY <1>1, <1>2 DEF SchemaComplete, Told
<1>3. ASSUME NEW ok \in BOOLEAN, NEW rows \in SUBSET Names, Telling(ok, rows)
      PROVE  SchemaComplete'
  <2> SUFFICES ASSUME NEW n \in DOMAIN log', log'[n].ok, ~log'[n].lost,
                      log'[n].cmd \in Sections
               PROVE  /\ Lookup \in log'[n].rows <=> log'[n].cmd = Op("indexes")
                      /\ log'[n].rows \ {Lookup} \subseteq catalog'
                      /\ \A d \in Constraints, k \in 1..(n - 1) :
                           Told(k, Constrain(d))' => d \in log'[n].rows /\ ~log'[n].none
    BY DEF SchemaComplete
  <2>1. Len(log) \in Nat /\ n \in 1..(Len(log) + 1)
    BY <1>3, TellingFacts
  <2>2. \A k \in 1..Len(log) : log'[k] = log[k] /\ \A c : Told(k, c)' <=> Told(k, c)
    BY <1>3, ToldBefore
  <2>3. CASE n \in 1..Len(log)
    <3>1. n \in DOMAIN log /\ log'[n] = log[n] /\ \A k \in 1..(n - 1) : k \in 1..Len(log)
      BY <1>3, <2>1, <2>2, <2>3, TellingFacts
    <3> QED BY <1>1, <2>2, <3>1 DEF SchemaComplete
  <2>4. CASE n = Len(log) + 1
    <3>1. Entry(log'[n], ok, rows)
      BY <1>3, <2>4, TellingFacts
    <3>2. /\ ok /\ ~lost /\ cmd \in Sections /\ log'[n].rows = rows /\ log'[n].cmd = cmd
          /\ log'[n].none => rows = {}
      BY <3>1 DEF Entry
    <3>3. AllNames(rows, cmd, Len(log))
      BY <1>3, <3>2, TellingFacts DEF SchInv
    <3>4. \A k \in 1..(n - 1) : k \in 1..Len(log)
      BY <2>1, <2>4
    <3> QED BY <1>1, <2>2, <3>2, <3>3, <3>4 DEF AllNames
  <2> QED BY <2>1, <2>3, <2>4
<1> QED BY <1>2, <1>3, StepCases DEF Quiet, Commit

\* SchemaComplete: a section of the schema that is shown without an error and
\* over a connection that held lacks no constraint, and does not say that
\* nothing is defined when something is, in whichever syntax it was asked.
THEOREM SchemaInFull == Spec => []SchemaComplete
<1>1. Init => AckInv /\ SchInv /\ SchemaComplete
  BY DEF Init, AckInv, Done, Told, SchInv, SchemaComplete
<1> QED
  BY BaseInit, TypeInvStep, LostInvStep, AckInvStep, SchInvStep, SchemaStep, <1>1, PTL
  DEF Spec
=============================================================================
