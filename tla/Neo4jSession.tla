---------------------------- MODULE Neo4jSession ----------------------------
(***************************************************************************)
(* neo4j-cli behind its line loop: executeQuery, showLabels and showSchema *)
(* on one session of the Neo4j driver, against a server that can drop the  *)
(* connection or restart.                                                  *)
(*                                                                         *)
(* session.Run returns when the server has accepted a query; its records   *)
(* are streamed afterwards and the auto-commit transaction is committed    *)
(* when the stream ends.  The driver repeats nothing for session.Run.      *)
(* showSchema calls session.Run once or twice for each of its sections; a  *)
(* section is a command of its own here.                                   *)
(***************************************************************************)
EXTENDS Naturals, Sequences, Functions

CONSTANTS Labels,      \* labels of the nodes a user may create
          Constraints, \* names of the constraints a user may create
          NoCommand,   \* no command was typed yet
          MaxCommands, \* bound on the commands typed, a schema section is one
          MaxFaults    \* bound on connections dropped and server stops

\* Every database has an index for looking up labels.
Lookup == "lookup"

ASSUME NamesAssumption == Labels \subseteq STRING /\ Constraints \subseteq STRING \ {Lookup}
ASSUME BoundsAssumption == MaxCommands \in Nat /\ MaxFaults \in Nat

Op(op) == [op |-> op, arg |-> op]
Create(l) == [op |-> "create", arg |-> l]
Constrain(c) == [op |-> "constrain", arg |-> c]

\* "fail" is a query that breaks while its records are streamed, "syntax" one
\* the server does not accept.
Queries == {Create(l) : l \in Labels} \cup {Constrain(c) : c \in Constraints}
             \cup {Op("match"), Op("fail"), Op("syntax")}
Sections == {Op("constraints"), Op("indexes")}
Commands == Queries \cup Sections \cup {Op("labels")}

Syntaxes == {"new", "old"}

VARIABLES nodes,    \* the nodes in the order created: label, number of the command
          catalog,  \* the constraints; each has an index of its name
          knows,    \* the schema syntaxes of this server's version
          up,       \* the server accepts connections
          conn,     \* the session's connection: "none", "open", or "cut" when
                    \* only the server knows that it is gone
          pc,       \* "start", "idle", "run", "stream", "exited"
          cmd,      \* the command being run
          syntax,   \* the syntax a schema section is asked for in
          stream,   \* "none"; "open"; "committed"; "failed", also when lost
          answer,   \* the records of the open result
          log,      \* what the user was told (history)
          lost,     \* the connection was lost while cmd was run (history)
          faults    \* connections dropped and server stops so far

store == <<nodes, catalog, knows>>
net == <<up, conn, faults>>
result == <<stream, answer>>
vars == <<store, net, result, pc, cmd, syntax, log, lost>>

Init == /\ nodes = <<>> /\ catalog = {}
        /\ knows \in SUBSET Syntaxes /\ knows # {}
        /\ up \in BOOLEAN /\ conn = "none" /\ faults = 0
        /\ stream = "none" /\ answer = {}
        /\ pc = "start" /\ cmd = NoCommand /\ syntax = "new"
        /\ log = <<>> /\ lost = FALSE

-----------------------------------------------------------------------------
\* VerifyConnectivity; without a server main exits.
Connect == /\ pc = "start"
           /\ \/ up /\ conn' = "open" /\ pc' = "idle"
              \/ pc' = "exited" /\ UNCHANGED conn
           /\ UNCHANGED <<store, up, faults, result, cmd, syntax, log, lost>>

Start(c) == /\ pc' = "run"
            /\ cmd' = c /\ syntax' = "new" /\ lost' = FALSE

\* executeQuery, showLabels and showSchema are called by the line loop.
Submit(c) == /\ pc = "idle"
             /\ Len(log) < MaxCommands
             /\ Start(c)
             /\ UNCHANGED <<store, net, result, log>>

\* What the user is shown: records, a success or an error, and for a section
\* of the schema maybe that nothing is defined.
Report(ok, rows, none) ==
  log' = Append(log, [cmd |-> cmd, ok |-> ok, rows |-> rows, none |-> none, lost |-> lost])

\* executeQuery and showLabels return.
Tell(ok, rows) == /\ Report(ok, rows, FALSE)
                  /\ pc' = "idle" /\ UNCHANGED <<cmd, syntax, lost>>

\* showSchema: without a record, also after an error, it adds that nothing is
\* defined; after the constraints it goes on with the indexes.
TellSection(ok, rows) == /\ Report(ok, rows, rows = {})
                         /\ \/ cmd = Op("constraints") /\ Start(Op("indexes"))
                            \/ cmd = Op("indexes") /\ pc' = "idle" /\ UNCHANGED <<cmd, syntax, lost>>

-----------------------------------------------------------------------------
\* The server's side of session.Run.
Accepts(c) == /\ c # Op("syntax")
              /\ c \in Sections => syntax \in knows

LabelsInUse == {nodes[i].label : i \in DOMAIN nodes}

Records(c) == CASE c \in {Op("match"), Op("fail"), Op("labels")} -> LabelsInUse
                [] c = Op("constraints")                         -> catalog
                [] c = Op("indexes")                             -> catalog \cup {Lookup}
                [] OTHER                                         -> {}

\* The connection the driver hands out, a new one if there is none.
Usable == conn = "open" \/ (conn = "none" /\ up)

\* session.Run returned a result.
RunAccepted == /\ pc = "run" /\ Usable /\ Accepts(cmd)
               /\ conn' = "open"
               /\ stream' = "open" /\ answer' = Records(cmd)
               /\ pc' = "stream"
               /\ UNCHANGED <<store, up, faults, cmd, syntax, log, lost>>

\* Mutations: the fallback asks in the new syntax again; a query that failed
\* is run again.
TryAgainOrTell == \/ cmd \in Sections /\ pc' = pc
                     /\ UNCHANGED <<cmd, syntax, log, lost>>
                  \/ cmd \notin Sections /\ Tell(FALSE, {})
RunAgain == Start(cmd) /\ UNCHANGED log

\* An error of session.Run: a schema section is asked for in the old syntax,
\* whatever the error was; everything else is an error for the user.
FallBackOrTell ==
  \/ /\ cmd \in Sections /\ syntax = "new"
     /\ syntax' = "old"
     /\ UNCHANGED <<pc, cmd, log, lost>>
  \/ cmd \in Sections /\ syntax = "old" /\ TellSection(FALSE, {})
  \/ cmd \notin Sections /\ Tell(FALSE, {})

RunRefused == /\ pc = "run" /\ Usable /\ ~Accepts(cmd)
              /\ conn' = "open"
              /\ FallBackOrTell
              /\ UNCHANGED <<store, up, faults, result>>

\* No server, or a connection that turns out to be gone and leaves the pool.
RunUnreachable == /\ pc = "run" /\ ~Usable
                  /\ conn' = "none"
                  /\ FallBackOrTell
                  /\ UNCHANGED <<store, up, faults, result>>

-----------------------------------------------------------------------------
\* The server comes to the end of the stream: the effects are committed.
Breaks(c) == c = Op("fail") \/ (c.op = "constrain" /\ c.arg \in catalog)

Commit == /\ stream = "open" /\ ~Breaks(cmd)
          /\ stream' = "committed"
          /\ nodes' = IF cmd.op = "create"
                      THEN Append(nodes, [label |-> cmd.arg, by |-> Len(log) + 1])
                      ELSE nodes
          /\ catalog' = IF cmd.op = "constrain" THEN catalog \cup {cmd.arg} ELSE catalog
          /\ UNCHANGED <<knows, net, answer, pc, cmd, syntax, log, lost>>

\* Or to an error: nothing is kept.
Abort == /\ stream = "open" /\ Breaks(cmd)
         /\ stream' = "failed"
         /\ UNCHANGED <<store, net, answer, pc, cmd, syntax, log, lost>>

-----------------------------------------------------------------------------
CloseResult == stream' = "none" /\ answer' = {}

\* Collect, or showLabels' loop over Next, saw all records.
Collected == /\ pc = "stream" /\ stream = "committed" /\ conn = "open"
             /\ cmd \notin Sections
             /\ Tell(TRUE, answer)
             /\ CloseResult
             /\ UNCHANGED <<store, net>>

\* Mutation: the result of the old syntax is assigned to a variable of its
\* own, and the loop over Next is left out.
SectionReadShadowed == /\ pc = "stream" /\ stream = "committed" /\ conn = "open"
                       /\ cmd \in Sections
                       /\ TellSection(TRUE, IF syntax = "old" THEN {} ELSE answer)
                       /\ CloseResult
                       /\ UNCHANGED <<store, net>>

\* showSchema's loops over Next saw all records of the section.
SectionRead == /\ pc = "stream" /\ stream = "committed" /\ conn = "open"
               /\ cmd \in Sections
               /\ TellSection(TRUE, answer)
               /\ CloseResult
               /\ UNCHANGED <<store, net>>

\* The stream ended in an error, which a lost connection is as well.
Ended == stream # "none" /\ (stream = "failed" \/ conn = "cut")
Discard == conn' = IF conn = "cut" THEN "none" ELSE conn

\* Mutations: the error of Collect is ignored; so is that of Next; the query
\* is run again after any error.
CollectIgnoringError == /\ pc = "stream" /\ cmd \notin Sections /\ Ended
                        /\ Tell(cmd.op = "create", {})
                        /\ CloseResult /\ Discard
                        /\ UNCHANGED <<store, up, faults>>
NextIgnoringError == /\ pc = "stream" /\ cmd \notin Sections /\ Ended
                     /\ Tell(cmd.op = "labels", {})
                     /\ CloseResult /\ Discard
                     /\ UNCHANGED <<store, up, faults>>
CollectFailsRetry == /\ pc = "stream" /\ cmd \notin Sections /\ Ended
                     /\ IF conn = "cut" THEN RunAgain ELSE Tell(FALSE, {})
                     /\ CloseResult /\ Discard
                     /\ UNCHANGED <<store, up, faults>>

\* executeQuery and showLabels look at the error.
CollectFails == /\ pc = "stream" /\ cmd \notin Sections /\ Ended
                /\ Tell(FALSE, {})
                /\ CloseResult /\ Discard
                /\ UNCHANGED <<store, up, faults>>

\* showSchema does not: the records before the error are the section, and
\* without any it says that none are defined.
SectionCutOff == /\ pc = "stream" /\ cmd \in Sections /\ Ended
                 /\ \E got \in SUBSET answer : TellSection(TRUE, got)
                 /\ CloseResult /\ Discard
                 /\ UNCHANGED <<store, up, faults>>

\* exit or end of input: session.Close and driver.Close.
Exit == /\ pc = "idle"
        /\ pc' = "exited" /\ conn' = "none"
        /\ UNCHANGED <<store, up, faults, result, cmd, syntax, log, lost>>

-----------------------------------------------------------------------------
\* The server's end of the connection goes; what it had not committed is
\* undone.
Drop == /\ faults < MaxFaults
        /\ faults' = faults + 1
        /\ conn' = IF conn = "none" THEN "none" ELSE "cut"
        /\ stream' = IF stream = "open" THEN "failed" ELSE stream
        /\ lost' = (lost \/ pc \in {"run", "stream"})
        /\ UNCHANGED <<store, answer, pc, cmd, syntax, log>>

CutConnection == conn = "open" /\ Drop /\ UNCHANGED up

StopServer == up /\ up' = FALSE /\ Drop

\* restart: unless-stopped, with the data in a volume.
RestartServer == /\ ~up /\ up' = TRUE
                 /\ UNCHANGED <<store, conn, faults, result, pc, cmd, syntax, log, lost>>

Client == \/ Connect
          \/ RunAccepted \/ RunRefused \/ RunUnreachable
          \/ Collected \/ CollectFails \/ SectionRead \/ SectionCutOff

Server == Commit \/ Abort

Next == \/ \E c \in Commands \ {Op("indexes")} : Submit(c)
        \/ Client \/ Server \/ Exit
        \/ CutConnection \/ StopServer \/ RestartServer

Spec == Init /\ [][Next]_vars

\* The client's code runs to its end; the server finishes what it accepted.
FairSpec == Spec /\ WF_vars(Client) /\ WF_vars(Server)

-----------------------------------------------------------------------------
Names == Labels \cup Constraints \cup {Lookup}

TypeOK == /\ nodes \in Seq([label : Labels, by : Nat \ {0}])
          /\ catalog \in SUBSET Constraints
          /\ knows \in SUBSET Syntaxes /\ up \in BOOLEAN
          /\ conn \in {"none", "open", "cut"}
          /\ pc \in {"start", "idle", "run", "stream", "exited"}
          /\ cmd \in Commands \cup {NoCommand}
          /\ syntax \in Syntaxes
          /\ stream \in {"none", "open", "committed", "failed"}
          /\ answer \in SUBSET Names
          /\ log \in Seq([cmd : Commands, ok : BOOLEAN, rows : SUBSET Names,
                          none : BOOLEAN, lost : BOOLEAN])
          /\ lost \in BOOLEAN /\ faults \in 0..MaxFaults

Told(n, c) == n \in DOMAIN log /\ log[n].ok /\ log[n].cmd = c

\* A CREATE or a constraint reported as done is in the database, over lost
\* connections and restarts, although the report is made of a stream that
\* was still open when session.Run returned.
AckedWritesStay ==
  \A n \in DOMAIN log :
    /\ \A l \in Labels : Told(n, Create(l)) =>
         \E i \in DOMAIN nodes : nodes[i] = [label |-> l, by |-> n]
    /\ \A c \in Constraints : Told(n, Constrain(c)) => c \in catalog

\* No query is carried out twice, and one reported as an error has had no
\* effect unless the connection was lost while it ran: nothing behind
\* session.Run repeats it.
WrittenAtMostOnce ==
  /\ \A i, j \in DOMAIN nodes : nodes[i].by = nodes[j].by => i = j
  /\ \A i \in DOMAIN nodes : LET n == nodes[i].by IN
       \/ n \in DOMAIN log /\ (log[n].ok \/ log[n].lost)
       \/ n = Len(log) + 1 /\ pc = "stream"

\* Labels and query results shown without an error are complete, also when
\* the connection was lost on the way: a result is shown in full or not at
\* all.
ResultsComplete ==
  \A n \in DOMAIN log :
    log[n].ok /\ log[n].cmd \in {Op("match"), Op("labels")} =>
      /\ log[n].rows \subseteq LabelsInUse
      /\ \A l \in Labels, k \in 1..(n - 1) : Told(k, Create(l)) => l \in log[n].rows

\* A section of the schema shown without an error is complete if the
\* connection was not lost meanwhile, in whichever syntax it was asked for:
\* no constraint is missing or made up, the indexes are never without the
\* lookup index, and the section says that nothing is defined only where that
\* is so.
SchemaComplete ==
  \A n \in DOMAIN log :
    /\ log[n].ok /\ ~log[n].lost
    /\ log[n].cmd \in Sections
    => /\ Lookup \in log[n].rows <=> log[n].cmd = Op("indexes")
       /\ log[n].rows \ {Lookup} \subseteq catalog
       /\ \A c \in Constraints, k \in 1..(n - 1) :
            Told(k, Constrain(c)) => c \in log[n].rows /\ ~log[n].none

\* Every command is answered: the fallback of the schema sections ends, and
\* no lost connection leaves the prompt hanging.
Answered == (pc = "run") ~> (pc = "idle")
=============================================================================
