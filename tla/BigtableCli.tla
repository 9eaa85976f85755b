---------------------------- MODULE BigtableCli ----------------------------
(***************************************************************************)
(* Several bigtable-cli programs at work on one Bigtable emulator.  main   *)
(* reads one command at a time, connects when the first one needs it, and  *)
(* runs it in a switch; create makes two calls and scan streams rows, and  *)
(* between these steps the other programs go on.                           *)
(*                                                                         *)
(* A row is the set of families it has a cell in; qualifiers, versions and *)
(* values are left out.                                                    *)
(***************************************************************************)
EXTENDS Integers, SequencesExt

CONSTANTS Clis, Tables, Families, Instances,
          RowKeys,     \* the row keys, as numbers in key order
          Limits,      \* the limits a user may give to scan
          MaxCommands, \* bound on the commands that need a connection
          MaxFaults    \* bound on failing calls and emulator restarts

ASSUME RowKeysAssumption == RowKeys \subseteq Nat /\ Limits \subseteq Int
ASSUME BoundsAssumption == MaxCommands \in Nat /\ MaxFaults \in Nat

VARIABLES tables, families, cells, instances, \* the emulator, all in memory
          connected,  \* main's flag of each CLI
          job,        \* where each CLI is in its loop
          told,       \* how its last command ended: "none", "ok", "error"
          shown,      \* row keys its last scan put into the table to render
          ready,      \* tables and families reported as ready and not
                      \* deleted since (history)
          initialized, \* instances reported as ready since the emulator
                      \* started (history)
          half,       \* tables whose creation was reported as failed (history)
          steady,     \* rows that were there all through its last scan (history)
          commands, faults

emulator == <<tables, families, cells>>
admin == <<instances, initialized>>
history == <<ready, half>>
vars == <<emulator, admin, connected, job, told, shown, history, steady, commands, faults>>

Prompt == [step |-> "prompt"]
Closed == [step |-> "closed"]
Creating(t, f) == [step |-> "family", table |-> t, family |-> f]
Making(i) == [step |-> "instance", instance |-> i]
Scanning(t, n) == [step |-> "scan", table |-> t, limit |-> n]

Init == /\ tables = {} /\ families = {} /\ cells = {}
        /\ instances = {} /\ initialized = {}
        /\ connected = [c \in Clis |-> FALSE]
        /\ job = [c \in Clis |-> Prompt]
        /\ told = [c \in Clis |-> "none"]
        /\ shown = [c \in Clis |-> <<>>]
        /\ ready = {} /\ half = {}
        /\ steady = [c \in Clis |-> {}]
        /\ commands = 0 /\ faults = 0

-----------------------------------------------------------------------------
Cell(t, r, f) == [table |-> t, row |-> r, family |-> f]
RowsIn(data, t) == {r \in RowKeys : \E f \in Families : Cell(t, r, f) \in data}
RowsOf(t) == RowsIn(cells, t)

\* Which rows are still there, for the scans under way.
Watch == steady' = [c \in Clis |->
                      IF job[c].step = "scan"
                      THEN steady[c] \cap RowsIn(cells', job[c].table)
                      ELSE steady[c]]

\* A command that needs a connection was read, and there is one now.
Begin(c) == /\ job[c] = Prompt
            /\ commands < MaxCommands
            /\ commands' = commands + 1
            /\ connected' = [connected EXCEPT ![c] = TRUE]

\* The command ended with s, the CLI prompts again.
Finish(c, s) == /\ job' = [job EXCEPT ![c] = Prompt]
                /\ told' = [told EXCEPT ![c] = s]

Fault == faults < MaxFaults /\ faults' = faults + 1

ConnectFails(c) == /\ job[c] = Prompt /\ ~connected[c]
                   /\ commands < MaxCommands
                   /\ commands' = commands + 1
                   /\ Finish(c, "error")
                   /\ Fault
                   /\ UNCHANGED <<emulator, connected, shown, history, steady>>

\* tables, get, unknown commands and commands without their arguments.
ReadOnly(c) == /\ Begin(c)
               /\ \E s \in {"ok", "error"} : Finish(c, s)
               /\ UNCHANGED <<emulator, shown, history, steady, faults>>

-----------------------------------------------------------------------------
\* init looks for the instance first.  Any error of that call is taken for
\* "there is none"; one of making the admin client ends the command.
InitInstance(c, i) == /\ Begin(c)
                      /\ IF i \in instances
                         THEN Finish(c, "ok") /\ initialized' = initialized \cup {i}
                         ELSE /\ job' = [job EXCEPT ![c] = Making(i)]
                              /\ UNCHANGED <<told, initialized>>
                      /\ UNCHANGED <<emulator, instances, shown, history, steady, faults>>

LookFails(c, i) == /\ Begin(c) /\ Fault
                   /\ \/ job' = [job EXCEPT ![c] = Making(i)] /\ UNCHANGED told
                      \/ Finish(c, "error")
                   /\ UNCHANGED <<emulator, admin, shown, history, steady>>

\* Another CLI may have made it since: then the call is an error.
MakeInstance(c) == LET i == job[c].instance IN
  /\ job[c].step = "instance"
  /\ IF i \in instances
     THEN Finish(c, "error") /\ UNCHANGED admin
     ELSE /\ instances' = instances \cup {i}
          /\ initialized' = initialized \cup {i}
          /\ Finish(c, "ok")
  /\ UNCHANGED <<emulator, connected, shown, history, steady, commands, faults>>

MakeInstanceFails(c) == /\ job[c].step = "instance" /\ Fault
                        /\ instances' \in {instances, instances \cup {job[c].instance}}
                        /\ Finish(c, "error")
                        /\ UNCHANGED <<emulator, initialized, connected, shown, history,
                                       steady, commands>>

-----------------------------------------------------------------------------
\* Mutation: "already exists" is taken for the end of the command.
CreateTableExistingDone(c, t, f) ==
  /\ Begin(c)
  /\ tables' = tables \cup {t}
  /\ IF t \in tables
     THEN Finish(c, "ok") /\ ready' = ready \cup {<<t, f>>}
     ELSE job' = [job EXCEPT ![c] = Creating(t, f)] /\ UNCHANGED <<told, ready>>
  /\ UNCHANGED <<families, cells, shown, half, steady, faults>>

\* create: a table that exists already is as good as a new one.
CreateTable(c, t, f) == /\ Begin(c)
                        /\ tables' = tables \cup {t}
                        /\ job' = [job EXCEPT ![c] = Creating(t, f)]
                        /\ UNCHANGED <<families, cells, told, shown, history, steady, faults>>

\* The call fails, with or without its effect.
CreateTableFails(c, t) == /\ Begin(c) /\ Fault
                          /\ tables' \in {tables, tables \cup {t}}
                          /\ Finish(c, "error")
                          /\ half' = half \cup {t}
                          /\ UNCHANGED <<families, cells, shown, ready, steady>>

CreateFamily(c) == LET j == job[c] IN
  /\ j.step = "family"
  /\ IF j.table \in tables
     THEN /\ families' = families \cup {<<j.table, j.family>>}
          /\ ready' = ready \cup {<<j.table, j.family>>}
          /\ Finish(c, "ok")
     ELSE Finish(c, "error") /\ UNCHANGED <<families, ready>>
  /\ UNCHANGED <<tables, cells, connected, shown, half, steady, commands, faults>>

\* Mutation: the error of the second call is ignored.
CreateFamilyErrorIgnored(c) == LET j == job[c] IN
  /\ j.step = "family" /\ Fault
  /\ families' \in {families, families \cup ({<<j.table, j.family>>} \cap (tables \X Families))}
  /\ Finish(c, "ok")
  /\ UNCHANGED <<tables, cells, connected, shown, history, steady, commands>>

CreateFamilyFails(c) == LET j == job[c] IN
  /\ j.step = "family" /\ Fault
  /\ families' \in {families, families \cup ({<<j.table, j.family>>} \cap (tables \X Families))}
  /\ half' = half \cup {j.table}
  /\ Finish(c, "error")
  /\ UNCHANGED <<tables, cells, connected, shown, ready, steady, commands>>

\* The emulator drops what belongs to tables ts.
Forget(ts) == /\ tables' = tables \ ts
              /\ families' = {p \in families : p[1] \notin ts}
              /\ cells' = {d \in cells : d.table \notin ts}
              /\ ready' = {p \in ready : p[1] \notin ts}
              /\ half' = half \ ts
              /\ Watch

\* A table that does not exist is an error.
Delete(c, t) == /\ Begin(c)
                /\ Forget({t})
                /\ Finish(c, IF t \in tables THEN "ok" ELSE "error")
                /\ UNCHANGED <<shown, faults>>

DeleteFails(c, t) == /\ Begin(c) /\ Fault
                     /\ Forget({t}) \/ UNCHANGED <<emulator, history, steady>>
                     /\ Finish(c, "error")
                     /\ UNCHANGED shown

Put(c, t, r, f) == /\ Begin(c)
                   /\ IF <<t, f>> \in families
                      THEN cells' = cells \cup {Cell(t, r, f)} /\ Finish(c, "ok")
                      ELSE Finish(c, "error") /\ UNCHANGED cells
                   /\ UNCHANGED <<tables, families, shown, history, steady, faults>>

PutFails(c, t, r, f) == /\ Begin(c) /\ Fault
                        /\ \/ UNCHANGED cells
                           \/ <<t, f>> \in families /\ cells' = cells \cup {Cell(t, r, f)}
                        /\ Finish(c, "error")
                        /\ UNCHANGED <<tables, families, shown, history, steady>>

-----------------------------------------------------------------------------
StartScan(c, t, n) == /\ Begin(c)
                      /\ shown' = [shown EXCEPT ![c] = <<>>]
                      /\ IF t \in tables
                         THEN /\ job' = [job EXCEPT ![c] = Scanning(t, n)]
                              /\ steady' = [steady EXCEPT ![c] = RowsOf(t)]
                              /\ UNCHANGED told
                         ELSE Finish(c, "error") /\ UNCHANGED steady
                      /\ UNCHANGED <<emulator, history, faults>>

\* The rows the stream has not passed yet: a row is sent as it is when the
\* emulator comes to it, and a broken stream is resumed behind the last one.
Ahead(c) == {r \in RowsOf(job[c].table) : \A q \in Range(shown[c]) : q < r}

\* Mutation: the limit is compared before the row is counted.
ScanRowLate(c) == /\ job[c].step = "scan" /\ Ahead(c) # {}
                  /\ shown' = [shown EXCEPT ![c] = Append(@, Min(Ahead(c)))]
                  /\ IF Len(shown[c]) < job[c].limit
                     THEN UNCHANGED <<job, told>>
                     ELSE Finish(c, "ok")
                  /\ UNCHANGED <<emulator, connected, history, steady, commands, faults>>

\* The callback of ReadRows: it is asked whether to go on after a row.
ScanRow(c) == /\ job[c].step = "scan" /\ Ahead(c) # {}
              /\ shown' = [shown EXCEPT ![c] = Append(@, Min(Ahead(c)))]
              /\ IF Len(shown[c]) + 1 < job[c].limit
                 THEN UNCHANGED <<job, told>>
                 ELSE Finish(c, "ok")
              /\ UNCHANGED <<emulator, connected, history, steady, commands, faults>>

ScanEnd(c) == /\ job[c].step = "scan"
              /\ job[c].table \in tables /\ Ahead(c) = {}
              /\ Finish(c, "ok")
              /\ UNCHANGED <<emulator, connected, shown, history, steady, commands, faults>>

\* The table is gone, or the call failed: nothing is rendered.
ScanFails(c) == /\ job[c].step = "scan"
                /\ \/ Fault
                   \/ job[c].table \notin tables /\ UNCHANGED faults
                /\ Finish(c, "error")
                /\ UNCHANGED <<emulator, connected, shown, history, steady, commands>>

-----------------------------------------------------------------------------
Exit(c) == /\ job[c] = Prompt
           /\ job' = [job EXCEPT ![c] = Closed]
           /\ UNCHANGED <<emulator, connected, told, shown, history, steady, commands, faults>>

\* restart: unless-stopped; the CLIs' channels connect again by themselves.
RestartEmulator == /\ Fault
                   /\ Forget(Tables)
                   /\ instances' = {} /\ initialized' = {}
                   /\ UNCHANGED <<connected, job, told, shown, commands>>

Command(c) == \/ ConnectFails(c) \/ ReadOnly(c)
              \/ \E t \in Tables : \/ \E f \in Families : CreateTable(c, t, f)
                                   \/ CreateTableFails(c, t)
                                   \/ Delete(c, t) \/ DeleteFails(c, t)
                                   \/ \E r \in RowKeys, f \in Families :
                                        Put(c, t, r, f) \/ PutFails(c, t, r, f)
                                   \/ \E n \in Limits : StartScan(c, t, n)

Continue(c) == \/ CreateFamily(c) \/ CreateFamilyFails(c)
               \/ ScanRow(c) \/ ScanEnd(c) \/ ScanFails(c)

InitCommand(c) == \/ \E i \in Instances : InitInstance(c, i) \/ LookFails(c, i)
                  \/ MakeInstance(c) \/ MakeInstanceFails(c)

Next == \/ \E c \in Clis : /\ Command(c) \/ Continue(c) \/ Exit(c)
                           /\ UNCHANGED admin
        \/ \E c \in Clis : InitCommand(c)
        \/ RestartEmulator

Spec == Init /\ [][Next]_vars

-----------------------------------------------------------------------------
Jobs == {Prompt, Closed} \cup {Creating(t, f) : t \in Tables, f \in Families}
          \cup {Making(i) : i \in Instances}
          \cup {Scanning(t, n) : t \in Tables, n \in Limits}

TypeOK == /\ tables \subseteq Tables
          /\ families \subseteq tables \X Families
          /\ cells \subseteq [table : tables, row : RowKeys, family : Families]
          /\ instances \subseteq Instances /\ initialized \subseteq Instances
          /\ connected \in [Clis -> BOOLEAN]
          /\ job \in [Clis -> Jobs]
          /\ told \in [Clis -> {"none", "ok", "error"}]
          /\ shown \in [Clis -> Seq(RowKeys)]
          /\ ready \subseteq Tables \X Families
          /\ half \subseteq Tables
          /\ steady \in [Clis -> SUBSET RowKeys]
          /\ commands \in 0..MaxCommands /\ faults \in 0..MaxFaults

\* A table reported as ready has its column family, and an instance reported
\* as ready exists, whatever the other CLIs did between the two calls, until
\* the table is deleted or the emulator restarts.
ReadyMeansUsable == ready \subseteq families /\ initialized \subseteq instances

\* A table without a column family takes no rows.  There is one only while
\* some CLI is about to make its family, or when a user was told that
\* creating it failed.
HalfTableIsReported ==
  \A t \in tables :
    \/ \E f \in Families : <<t, f>> \in families
    \/ \E c \in Clis : job[c].step = "family" /\ job[c].table = t
    \/ t \in half

\* Rows s are the first n in key order: one of `there` is missing only if n
\* others come before it.
FirstRows(s, n, there) ==
  /\ \A i, k \in DOMAIN s : i < k => s[i] < s[k]
  /\ Len(s) <= n
  /\ \A r \in there \ Range(s) : Len(s) = n /\ \A q \in Range(s) : q < r

\* The scan of c ends and its rows are rendered.
Renders(c) == job[c].step = "scan" /\ job'[c] = Prompt /\ told'[c] = "ok"

\* What a scan with a limit of at least 1 renders are the first rows in key
\* order: no more than the limit, and none is missing that was in the table
\* all the time, while other CLIs write, delete and create.  A limit below 1
\* shows one row: the count is compared only after a row was added.
ScanShowsFirstRows ==
  [][ \A c \in Clis :
        Renders(c) /\ job[c].limit >= 1 =>
          FirstRows(shown'[c], job[c].limit, steady[c]) ]_vars
=============================================================================
