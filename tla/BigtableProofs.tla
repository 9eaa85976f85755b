--------------------------- MODULE BigtableProofs ---------------------------
(* Proofs about BigtableCli, for any number of CLIs, tables and rows.      *)
EXTENDS BigtableCli, WellFoundedInduction, TLAPS

\* A non-empty set of row keys has a least one.
LEMMA LeastKey ==
  ASSUME NEW S, S \subseteq Nat, S # {}
  PROVE  Min(S) \in S /\ \A y \in S : Min(S) <= y
<1>1. PICK x \in S : \A y \in S : ~(<<y, x>> \in OpToRel(<, Nat))
  BY NatLessThanWellFounded, WFMin
<1>2. \A y \in S : ~(y < x)
  BY <1>1 DEF OpToRel
<1>3. \A y \in S : x =< y
  BY <1>2
<1> QED
  BY <1>3 DEF Min

-----------------------------------------------------------------------------
(* What the helpers of the actions do to job and told.                     *)

LEMMA JobsFacts ==
  /\ Prompt \in Jobs /\ Closed \in Jobs
  /\ \A t \in Tables, f \in Families : Creating(t, f) \in Jobs
  /\ \A i \in Instances : Making(i) \in Jobs
  /\ \A t \in Tables, n \in Limits : Scanning(t, n) \in Jobs
  BY DEF Jobs

LEMMA FinishTypes ==
  ASSUME TypeOK, NEW c \in Clis, NEW s \in {"none", "ok", "error"}, Finish(c, s)
  PROVE  job' \in [Clis -> Jobs] /\ told' \in [Clis -> {"none", "ok", "error"}]
<1>1. job \in [Clis -> Jobs] /\ told \in [Clis -> {"none", "ok", "error"}]
  BY DEF TypeOK
<1> QED
  BY <1>1, JobsFacts DEF Finish

LEMMA BeginTypes ==
  ASSUME TypeOK, NEW c \in Clis, Begin(c)
  PROVE  connected' \in [Clis -> BOOLEAN] /\ commands' \in 0..MaxCommands
<1>1. connected \in [Clis -> BOOLEAN] /\ commands \in 0..MaxCommands
  BY DEF TypeOK
<1>2. connected' \in [Clis -> BOOLEAN]
  BY <1>1, Zenon DEF Begin
<1>3. commands' \in 0..MaxCommands
  BY <1>1, BoundsAssumption DEF Begin
<1> QED
  BY <1>2, <1>3

LEMMA FaultTypes ==
  ASSUME TypeOK, Fault
  PROVE  faults' \in 0..MaxFaults
  BY BoundsAssumption DEF Fault, TypeOK

\* A CLI between the calls of create holds a table and a family.
LEMMA FamilyJob ==
  ASSUME TypeOK, NEW c \in Clis, job[c].step = "family"
  PROVE  job[c].table \in Tables /\ job[c].family \in Families
  BY DEF TypeOK, Jobs, Prompt, Closed, Creating, Making, Scanning
LEMMA InstanceJob ==
  ASSUME TypeOK, NEW c \in Clis, job[c].step = "instance"
  PROVE  job[c].instance \in Instances
  BY DEF TypeOK, Jobs, Prompt, Closed, Creating, Making, Scanning

LEMMA ForgetTypes ==
  ASSUME TypeOK, NEW ts \in SUBSET Tables, Forget(ts)
  PROVE  /\ tables' \subseteq Tables
         /\ families' \subseteq tables' \X Families
         /\ cells' \subseteq [table : tables', row : RowKeys, family : Families]
         /\ ready' \subseteq Tables \X Families
         /\ half' \subseteq Tables
         /\ steady' \in [Clis -> SUBSET RowKeys]
<1>1. /\ tables' \subseteq Tables
      /\ ready' \subseteq Tables \X Families
      /\ half' \subseteq Tables
  BY DEF Forget, TypeOK
<1>2. families' \subseteq tables' \X Families
  BY DEF Forget, TypeOK
<1>3. cells' \subseteq [table : tables', row : RowKeys, family : Families]
  BY DEF Forget, TypeOK
<1>4. steady' \in [Clis -> SUBSET RowKeys]
  BY DEF Forget, Watch, TypeOK, RowsIn
<1> QED
  BY <1>1, <1>2, <1>3, <1>4

-----------------------------------------------------------------------------
LEMMA TypeOKInit == Init => TypeOK
  BY BoundsAssumption DEF Init, TypeOK, Jobs

\* The actions of a CLI, one lemma per group; the invariant is TypeOK.
LEMMA TypeOKCommand ==
  ASSUME TypeOK, NEW c \in Clis, Command(c), UNCHANGED admin
  PROVE  TypeOK'
<1> USE DEF emulator, admin, history
<1>1. CASE ConnectFails(c)
  BY <1>1, FinishTypes, FaultTypes, BoundsAssumption DEF ConnectFails, TypeOK
<1>2. CASE ReadOnly(c)
  BY <1>2, FinishTypes, BeginTypes DEF ReadOnly, TypeOK
<1>3. ASSUME NEW t \in Tables, NEW f \in Families, CreateTable(c, t, f)
      PROVE  TypeOK'
  <2>1. job' \in [Clis -> Jobs]
    BY <1>3 DEF CreateTable, TypeOK, Jobs
  <2>2. /\ tables' \subseteq Tables
        /\ families' \subseteq tables' \X Families
        /\ cells' \subseteq [table : tables', row : RowKeys, family : Families]
    BY <1>3 DEF CreateTable, TypeOK
  <2> QED
    BY <1>3, <2>1, <2>2, BeginTypes DEF CreateTable, TypeOK
<1>4. ASSUME NEW t \in Tables, CreateTableFails(c, t) PROVE TypeOK'
  <2>1. /\ tables' \subseteq Tables /\ half' \subseteq Tables
        /\ families' \subseteq tables' \X Families
        /\ cells' \subseteq [table : tables', row : RowKeys, family : Families]
    BY <1>4 DEF CreateTableFails, TypeOK
  <2> QED
    BY <1>4, <2>1, BeginTypes, FaultTypes, FinishTypes DEF CreateTableFails, TypeOK
<1>5. ASSUME NEW t \in Tables, Delete(c, t) PROVE TypeOK'
  <2>1. Finish(c, "ok") \/ Finish(c, "error")
    BY <1>5 DEF Delete
  <2>2. Forget({t}) /\ Begin(c) /\ UNCHANGED <<shown, faults>>
    BY <1>5 DEF Delete
  <2> QED
    BY <2>1, <2>2, BeginTypes, FinishTypes, ForgetTypes DEF TypeOK
<1>6. ASSUME NEW t \in Tables, DeleteFails(c, t) PROVE TypeOK'
  <2>1. Begin(c) /\ Fault /\ Finish(c, "error") /\ UNCHANGED shown
    BY <1>6 DEF DeleteFails
  <2>2. CASE Forget({t})
    BY <2>1, <2>2, BeginTypes, FaultTypes, FinishTypes, ForgetTypes DEF TypeOK
  <2>3. CASE UNCHANGED <<emulator, history, steady>>
    BY <2>1, <2>3, BeginTypes, FaultTypes, FinishTypes DEF TypeOK
  <2> QED
    BY <1>6, <2>2, <2>3 DEF DeleteFails
<1>7. ASSUME NEW t \in Tables, NEW r \in RowKeys, NEW f \in Families, Put(c, t, r, f)
      PROVE  TypeOK'
  <2>1. Finish(c, "ok") \/ Finish(c, "error")
    BY <1>7 DEF Put
  <2>2. cells' \subseteq [table : tables', row : RowKeys, family : Families]
    BY <1>7 DEF Put, TypeOK, Cell
  <2> QED
    BY <1>7, <2>1, <2>2, BeginTypes, FinishTypes DEF Put, TypeOK
<1>8. ASSUME NEW t \in Tables, NEW r \in RowKeys, NEW f \in Families, PutFails(c, t, r, f)
      PROVE  TypeOK'
  <2>1. cells' \subseteq [table : tables', row : RowKeys, family : Families]
    BY <1>8 DEF PutFails, TypeOK, Cell
  <2> QED
    BY <1>8, <2>1, BeginTypes, FaultTypes, FinishTypes DEF PutFails, TypeOK
<1>9. ASSUME NEW t \in Tables, NEW n \in Limits, StartScan(c, t, n) PROVE TypeOK'
  <2>1. shown' \in [Clis -> Seq(RowKeys)]
    BY <1>9 DEF StartScan, TypeOK
  <2>2. job' \in [Clis -> Jobs] /\ told' \in [Clis -> {"none", "ok", "error"}]
    <3>1. CASE t \in tables
      BY <1>9, <3>1, JobsFacts DEF StartScan, TypeOK
    <3>2. CASE t \notin tables
      BY <1>9, <3>2, FinishTypes DEF StartScan
    <3> QED
      BY <3>1, <3>2
  <2>3. steady' \in [Clis -> SUBSET RowKeys]
    BY <1>9 DEF StartScan, TypeOK, RowsOf, RowsIn
  <2> QED
    BY <1>9, <2>1, <2>2, <2>3, BeginTypes DEF StartScan, TypeOK
<1> QED
  BY <1>1, <1>2, <1>3, <1>4, <1>5, <1>6, <1>7, <1>8, <1>9 DEF Command

LEMMA TypeOKContinue ==
  ASSUME TypeOK, NEW c \in Clis, Continue(c), UNCHANGED admin
  PROVE  TypeOK'
<1> USE DEF emulator, admin, history
<1>1. CASE CreateFamily(c)
  <2>1. job[c].table \in Tables /\ job[c].family \in Families
    BY <1>1, FamilyJob DEF CreateFamily
  <2>2. Finish(c, "ok") \/ Finish(c, "error")
    BY <1>1 DEF CreateFamily
  <2>3. families' \subseteq tables' \X Families /\ ready' \subseteq Tables \X Families
    BY <1>1, <2>1 DEF CreateFamily, TypeOK
  <2> QED
    BY <1>1, <2>2, <2>3, FinishTypes DEF CreateFamily, TypeOK
<1>2. CASE CreateFamilyFails(c)
  <2>1. job[c].table \in Tables
    BY <1>2, FamilyJob DEF CreateFamilyFails
  <2>2. families' \subseteq tables' \X Families /\ half' \subseteq Tables
    BY <1>2, <2>1 DEF CreateFamilyFails, TypeOK
  <2> QED
    BY <1>2, <2>2, FinishTypes, FaultTypes DEF CreateFamilyFails, TypeOK
<1>3. CASE ScanRow(c)
  <2>1. Ahead(c) \subseteq RowKeys
    BY DEF Ahead, RowsOf, RowsIn
  <2>2. Min(Ahead(c)) \in RowKeys
    BY <1>3, <2>1, LeastKey, RowKeysAssumption DEF ScanRow
  <2>3. shown' \in [Clis -> Seq(RowKeys)]
    BY <1>3, <2>2 DEF ScanRow, TypeOK
  <2>4. job' \in [Clis -> Jobs] /\ told' \in [Clis -> {"none", "ok", "error"}]
    <3>1. Finish(c, "ok") \/ UNCHANGED <<job, told>>
      BY <1>3 DEF ScanRow
    <3> QED
      BY <3>1, FinishTypes DEF TypeOK
  <2> QED
    BY <1>3, <2>3, <2>4 DEF ScanRow, TypeOK
<1>4. CASE ScanEnd(c)
  BY <1>4, FinishTypes DEF ScanEnd, TypeOK
<1>5. CASE ScanFails(c)
  <2>1. faults' \in 0..MaxFaults
    BY <1>5, FaultTypes DEF ScanFails, TypeOK
  <2> QED
    BY <1>5, <2>1, FinishTypes DEF ScanFails, TypeOK
<1> QED
  BY <1>1, <1>2, <1>3, <1>4, <1>5 DEF Continue

LEMMA TypeOKInitCommand ==
  ASSUME TypeOK, NEW c \in Clis, InitCommand(c)
  PROVE  TypeOK'
<1> USE DEF emulator, admin, history
<1>1. ASSUME NEW i \in Instances, InitInstance(c, i) PROVE TypeOK'
  <2>1. /\ job' \in [Clis -> Jobs] /\ told' \in [Clis -> {"none", "ok", "error"}]
        /\ initialized' \subseteq Instances
    <3>1. CASE i \in instances
      BY <1>1, <3>1, FinishTypes DEF InitInstance, TypeOK
    <3>2. CASE i \notin instances
      BY <1>1, <3>2, JobsFacts DEF InitInstance, TypeOK
    <3> QED
      BY <3>1, <3>2
  <2> QED
    BY <1>1, <2>1, BeginTypes DEF InitInstance, TypeOK
<1>2. ASSUME NEW i \in Instances, LookFails(c, i) PROVE TypeOK'
  <2>1. job' \in [Clis -> Jobs] /\ told' \in [Clis -> {"none", "ok", "error"}]
    <3>1. CASE Finish(c, "error")
      BY <3>1, FinishTypes
    <3>2. CASE job' = [job EXCEPT ![c] = Making(i)] /\ UNCHANGED told
      BY <3>2, JobsFacts DEF TypeOK
    <3> QED
      BY <1>2, <3>1, <3>2 DEF LookFails
  <2> QED
    BY <1>2, <2>1, BeginTypes, FaultTypes DEF LookFails, TypeOK
<1>3. CASE MakeInstance(c)
  <2>1. job[c].instance \in Instances
    BY <1>3, InstanceJob DEF MakeInstance
  <2>2. Finish(c, "ok") \/ Finish(c, "error")
    BY <1>3 DEF MakeInstance
  <2>3. instances' \subseteq Instances /\ initialized' \subseteq Instances
    BY <1>3, <2>1 DEF MakeInstance, TypeOK
  <2> QED
    BY <1>3, <2>2, <2>3, FinishTypes DEF MakeInstance, TypeOK
<1>4. CASE MakeInstanceFails(c)
  <2>1. job[c].instance \in Instances
    BY <1>4, InstanceJob DEF MakeInstanceFails
  <2>2. instances' \subseteq Instances
    BY <1>4, <2>1 DEF MakeInstanceFails, TypeOK
  <2> QED
    BY <1>4, <2>2, FinishTypes, FaultTypes DEF MakeInstanceFails, TypeOK
<1> QED
  BY <1>1, <1>2, <1>3, <1>4 DEF InitCommand

LEMMA TypeOKStep == TypeOK /\ [Next]_vars => TypeOK'
<1> SUFFICES ASSUME TypeOK, [Next]_vars PROVE TypeOK'
  OBVIOUS
<1>1. ASSUME NEW c \in Clis, Command(c) \/ Continue(c), UNCHANGED admin PROVE TypeOK'
  BY <1>1, TypeOKCommand, TypeOKContinue
<1>2. ASSUME NEW c \in Clis, Exit(c), UNCHANGED admin PROVE TypeOK'
  BY <1>2, JobsFacts DEF Exit, TypeOK, emulator, admin, history
<1>3. ASSUME NEW c \in Clis, InitCommand(c) PROVE TypeOK'
  BY <1>3, TypeOKInitCommand
<1>4. CASE RestartEmulator
  <2>1. Forget(Tables) /\ Fault /\ instances' = {} /\ initialized' = {}
        /\ UNCHANGED <<connected, job, told, shown, commands>>
    BY <1>4 DEF RestartEmulator
  <2> QED
    BY <2>1, ForgetTypes, FaultTypes DEF TypeOK
<1>5. CASE UNCHANGED vars
  BY <1>5 DEF vars, TypeOK, emulator, admin, history
<1> QED
  BY <1>1, <1>2, <1>3, <1>4, <1>5 DEF Next

\* TypeCorrect: whatever the CLIs do to each other, a family belongs to a
\* table and a cell to a table that are there.
THEOREM TypeCorrect == Spec => []TypeOK
  BY TypeOKInit, TypeOKStep, PTL DEF Spec

-----------------------------------------------------------------------------
(* What was reported as ready is there.                                    *)

LEMMA ForgetKeepsReady ==
  ASSUME ReadyMeansUsable, NEW ts, Forget(ts)
  PROVE  ready' \subseteq families'
  BY DEF Forget, ReadyMeansUsable

LEMMA ReadyStep == TypeOK /\ ReadyMeansUsable /\ [Next]_vars => ReadyMeansUsable'
<1> SUFFICES ASSUME TypeOK, ReadyMeansUsable, [Next]_vars PROVE ReadyMeansUsable'
  OBVIOUS
<1> USE DEF emulator, admin, history
<1>1. ASSUME NEW c \in Clis, Command(c), UNCHANGED admin PROVE ReadyMeansUsable'
  <2>1. CASE ConnectFails(c) \/ ReadOnly(c)
    BY <1>1, <2>1 DEF ConnectFails, ReadOnly, ReadyMeansUsable
  <2>2. ASSUME NEW t \in Tables,
               Delete(c, t) \/ DeleteFails(c, t)
        PROVE  ready' \subseteq families'
    BY <2>2, ForgetKeepsReady DEF Delete, DeleteFails, ReadyMeansUsable
  <2>3. ready' \subseteq families' \/ UNCHANGED <<ready, families>>
    <3>1. ASSUME NEW t \in Tables, NEW f \in Families, CreateTable(c, t, f)
          PROVE  UNCHANGED <<ready, families>>
      BY <3>1 DEF CreateTable
    <3>2. ASSUME NEW t \in Tables, CreateTableFails(c, t)
          PROVE  UNCHANGED <<ready, families>>
      BY <3>2 DEF CreateTableFails
    <3>3. ASSUME NEW t \in Tables, NEW r \in RowKeys, NEW f \in Families,
                 Put(c, t, r, f) \/ PutFails(c, t, r, f)
          PROVE  UNCHANGED <<ready, families>>
      BY <3>3 DEF Put, PutFails
    <3>4. ASSUME NEW t \in Tables, NEW n \in Limits, StartScan(c, t, n)
          PROVE  UNCHANGED <<ready, families>>
      BY <3>4 DEF StartScan
    <3> QED
      BY <1>1, <2>1, <2>2, <3>1, <3>2, <3>3, <3>4 DEF Command, ConnectFails, ReadOnly
  <2> QED
    BY <1>1, <2>3 DEF ReadyMeansUsable
<1>2. ASSUME NEW c \in Clis, Continue(c), UNCHANGED admin PROVE ReadyMeansUsable'
  <2>1. CASE CreateFamily(c)
    BY <1>2, <2>1 DEF CreateFamily, ReadyMeansUsable
  <2>2. CASE CreateFamilyFails(c)
    BY <1>2, <2>2 DEF CreateFamilyFails, ReadyMeansUsable
  <2>3. CASE ScanRow(c) \/ ScanEnd(c) \/ ScanFails(c)
    BY <1>2, <2>3 DEF ScanRow, ScanEnd, ScanFails, ReadyMeansUsable
  <2> QED
    BY <1>2, <2>1, <2>2, <2>3 DEF Continue
<1>3. ASSUME NEW c \in Clis, Exit(c), UNCHANGED admin PROVE ReadyMeansUsable'
  BY <1>3 DEF Exit, ReadyMeansUsable
<1>4. ASSUME NEW c \in Clis, InitCommand(c) PROVE ReadyMeansUsable'
  <2>1. UNCHANGED <<ready, families>>
    BY <1>4 DEF InitCommand, InitInstance, LookFails, MakeInstance, MakeInstanceFails
  <2>2. initialized' \subseteq instances'
    <3>1. ASSUME NEW i \in Instances, InitInstance(c, i) PROVE initialized' \subseteq instances'
      BY <3>1 DEF InitInstance, ReadyMeansUsable
    <3>2. ASSUME NEW i \in Instances, LookFails(c, i) PROVE initialized' \subseteq instances'
      BY <3>2 DEF LookFails, ReadyMeansUsable
    <3>3. CASE MakeInstance(c) \/ MakeInstanceFails(c)
      BY <3>3 DEF MakeInstance, MakeInstanceFails, ReadyMeansUsable
    <3> QED
      BY <1>4, <3>1, <3>2, <3>3 DEF InitCommand
  <2> QED
    BY <2>1, <2>2 DEF ReadyMeansUsable
<1>5. CASE RestartEmulator
  BY <1>5, ForgetKeepsReady DEF RestartEmulator, ReadyMeansUsable
<1>6. CASE UNCHANGED vars
  BY <1>6 DEF vars, ReadyMeansUsable
<1> QED
  BY <1>1, <1>2, <1>3, <1>4, <1>5, <1>6 DEF Next

\* ReadyStaysUsable: no interleaving of the two calls of create, or of init,
\* with deletes, restarts and failing calls makes a report of success wrong.
THEOREM ReadyStaysUsable == Spec => []ReadyMeansUsable
<1>1. Init => ReadyMeansUsable
  BY DEF Init, ReadyMeansUsable
<1> QED
  BY <1>1, TypeOKInit, TypeOKStep, ReadyStep, PTL DEF Spec

-----------------------------------------------------------------------------
(* A table without a family is some CLI's unfinished or reported business. *)

\* A step that makes no table, takes nothing from the tables it leaves, and
\* interrupts no creation keeps the property.
LEMMA NothingTaken ==
  ASSUME HalfTableIsReported,
         tables' \subseteq tables,
         \A p \in families : p[1] \in tables' => p \in families',
         \A t \in half : t \in tables' => t \in half',
         \A c \in Clis : job[c].step = "family" => job'[c] = job[c]
  PROVE  HalfTableIsReported'
  BY DEF HalfTableIsReported

\* A CLI at the prompt is creating nothing.
LEMMA OthersGoOn ==
  ASSUME TypeOK, NEW c \in Clis, NEW j, job[c].step # "family",
         job' = [job EXCEPT ![c] = j]
  PROVE  \A d \in Clis : job[d].step = "family" => job'[d] = job[d]
  BY DEF TypeOK

LEMMA BeginAtPrompt ==
  ASSUME NEW c \in Clis, Begin(c)
  PROVE  job[c].step # "family" /\ job[c].step # "scan"
  BY DEF Begin, Prompt

LEMMA ForgetTakes ==
  ASSUME NEW ts, Forget(ts)
  PROVE  /\ tables' \subseteq tables
         /\ \A p \in families : p[1] \in tables' => p \in families'
         /\ \A t \in half : t \in tables' => t \in half'
  BY DEF Forget

LEMMA HalfStep == TypeOK /\ HalfTableIsReported /\ [Next]_vars => HalfTableIsReported'
<1> SUFFICES ASSUME TypeOK, HalfTableIsReported, [Next]_vars PROVE HalfTableIsReported'
  OBVIOUS
<1> USE DEF emulator, admin, history
<1>0. job \in [Clis -> Jobs]
  BY DEF TypeOK
<1>1. ASSUME NEW c \in Clis, NEW t \in Tables, NEW f \in Families, CreateTable(c, t, f)
      PROVE  HalfTableIsReported'
  <2>1. \A d \in Clis : job[d].step = "family" => job'[d] = job[d]
    BY <1>1, OthersGoOn, BeginAtPrompt DEF CreateTable
  <2>2. job'[c].step = "family" /\ job'[c].table = t
    BY <1>0, <1>1 DEF CreateTable, Creating
  <2>3. tables' = tables \cup {t} /\ families' = families /\ half' = half
    BY <1>1 DEF CreateTable
  <2> QED
    BY <2>1, <2>2, <2>3 DEF HalfTableIsReported
<1>2. ASSUME NEW c \in Clis, NEW t \in Tables, CreateTableFails(c, t)
      PROVE  HalfTableIsReported'
  <2>1. \A d \in Clis : job[d].step = "family" => job'[d] = job[d]
    BY <1>2, OthersGoOn, BeginAtPrompt DEF CreateTableFails, Finish
  <2>2. /\ tables' \subseteq tables \cup {t} /\ families' = families
        /\ half' = half \cup {t}
    BY <1>2 DEF CreateTableFails
  <2> QED
    BY <2>1, <2>2 DEF HalfTableIsReported
<1>3. ASSUME NEW c \in Clis, NEW t \in Tables, Delete(c, t) \/ DeleteFails(c, t)
      PROVE  HalfTableIsReported'
  <2>1. \A d \in Clis : job[d].step = "family" => job'[d] = job[d]
    BY <1>3, OthersGoOn, BeginAtPrompt DEF Delete, DeleteFails, Finish
  <2>2. CASE Forget({t})
    BY <2>1, <2>2, ForgetTakes, NothingTaken
  <2>3. CASE UNCHANGED <<emulator, history, steady>>
    BY <2>1, <2>3, NothingTaken
  <2> QED
    BY <1>3, <2>2, <2>3 DEF Delete, DeleteFails
<1>4. ASSUME NEW c \in Clis, ConnectFails(c) \/ ReadOnly(c)
      PROVE  HalfTableIsReported'
  <2>1. \A d \in Clis : job[d].step = "family" => job'[d] = job[d]
    BY <1>4, OthersGoOn, BeginAtPrompt DEF ConnectFails, ReadOnly, Finish, Prompt
  <2> QED
    BY <1>4, <2>1, NothingTaken DEF ConnectFails, ReadOnly
<1>5. ASSUME NEW c \in Clis, NEW t \in Tables, NEW r \in RowKeys, NEW f \in Families,
             Put(c, t, r, f) \/ PutFails(c, t, r, f)
      PROVE  HalfTableIsReported'
  <2>1. \A d \in Clis : job[d].step = "family" => job'[d] = job[d]
    BY <1>5, OthersGoOn, BeginAtPrompt DEF Put, PutFails, Finish
  <2> QED
    BY <1>5, <2>1, NothingTaken DEF Put, PutFails
<1>6. ASSUME NEW c \in Clis, NEW t \in Tables, NEW n \in Limits, StartScan(c, t, n)
      PROVE  HalfTableIsReported'
  <2>1. \A d \in Clis : job[d].step = "family" => job'[d] = job[d]
    BY <1>6, OthersGoOn, BeginAtPrompt DEF StartScan, Finish
  <2> QED
    BY <1>6, <2>1, NothingTaken DEF StartScan
<1>7. ASSUME NEW c \in Clis, CreateFamily(c) PROVE HalfTableIsReported'
  <2>1. \A d \in Clis : d # c => job'[d] = job[d]
    BY <1>0, <1>7 DEF CreateFamily, Finish
  <2>2. tables' = tables /\ half' = half
    BY <1>7 DEF CreateFamily
  <2>3. CASE job[c].table \in tables
    <3>1. job[c].family \in Families /\ families' = families \cup {<<job[c].table, job[c].family>>}
      BY <1>7, <2>3, FamilyJob DEF CreateFamily
    <3> QED
      BY <2>1, <2>2, <3>1 DEF HalfTableIsReported
  <2>4. CASE job[c].table \notin tables
    <3>1. families' = families
      BY <1>7, <2>4 DEF CreateFamily
    <3> QED
      BY <2>1, <2>2, <2>4, <3>1 DEF HalfTableIsReported
  <2> QED
    BY <2>3, <2>4
<1>8. ASSUME NEW c \in Clis, CreateFamilyFails(c) PROVE HalfTableIsReported'
  <2>1. \A d \in Clis : d # c => job'[d] = job[d]
    BY <1>0, <1>8 DEF CreateFamilyFails, Finish
  <2>2. /\ tables' = tables /\ half' = half \cup {job[c].table}
        /\ families \subseteq families'
    BY <1>8 DEF CreateFamilyFails
  <2> QED
    BY <2>1, <2>2 DEF HalfTableIsReported
<1>9. ASSUME NEW c \in Clis, ScanRow(c) \/ ScanEnd(c) \/ ScanFails(c) \/ Exit(c)
      PROVE  HalfTableIsReported'
  <2>1. job[c].step # "family" /\ \E j : job' = [job EXCEPT ![c] = j]
    BY <1>0, <1>9 DEF ScanRow, ScanEnd, ScanFails, Exit, Finish, Prompt
  <2>2. \A d \in Clis : job[d].step = "family" => job'[d] = job[d]
    BY <2>1, OthersGoOn
  <2> QED
    BY <1>9, <2>2, NothingTaken DEF ScanRow, ScanEnd, ScanFails, Exit
<1>10. ASSUME NEW c \in Clis, InitCommand(c) PROVE HalfTableIsReported'
  <2>1. ASSUME NEW i \in Instances, InitInstance(c, i) \/ LookFails(c, i)
        PROVE  \A d \in Clis : job[d].step = "family" => job'[d] = job[d]
    BY <2>1, OthersGoOn, BeginAtPrompt DEF InitInstance, LookFails, Finish
  <2>2. ASSUME MakeInstance(c) \/ MakeInstanceFails(c)
        PROVE  \A d \in Clis : job[d].step = "family" => job'[d] = job[d]
    <3>1. job[c].step # "family" /\ job' = [job EXCEPT ![c] = Prompt]
      BY <2>2 DEF MakeInstance, MakeInstanceFails, Finish
    <3> QED
      BY <3>1, OthersGoOn
  <2>3. UNCHANGED <<tables, families, half>>
    BY <1>10 DEF InitCommand, InitInstance, LookFails, MakeInstance, MakeInstanceFails
  <2> QED
    BY <1>10, <2>1, <2>2, <2>3, NothingTaken DEF InitCommand
<1>11. CASE RestartEmulator
  BY <1>11, ForgetTakes, NothingTaken DEF RestartEmulator
<1>12. CASE UNCHANGED vars
  BY <1>12 DEF vars, HalfTableIsReported
<1> QED
  BY <1>1, <1>2, <1>3, <1>4, <1>5, <1>6, <1>7, <1>8, <1>9, <1>10, <1>11, <1>12
  DEF Next, Command, Continue

\* HalfTablesReported: however creations, deletes, restarts and failing calls
\* interleave, a table that takes no rows is one a user was told about, or
\* one whose creation goes on.
THEOREM HalfTablesReported == Spec => []HalfTableIsReported
<1>1. Init => HalfTableIsReported
  BY DEF Init, HalfTableIsReported
<1> QED
  BY <1>1, TypeOKInit, TypeOKStep, HalfStep, PTL DEF Spec

-----------------------------------------------------------------------------
(* Scans.  The invariant says what a scan under way has done so far.       *)

ScanSoFar(c) ==
  job[c].step = "scan" =>
    /\ \A i, k \in DOMAIN shown[c] : i < k => shown[c][i] < shown[c][k]
    /\ job[c].limit >= 1 => Len(shown[c]) < job[c].limit
    /\ steady[c] \subseteq RowsOf(job[c].table)
    /\ \A r \in steady[c] \ Range(shown[c]) : \A q \in Range(shown[c]) : q < r
ScanInv == \A c \in Clis : ScanSoFar(c)

LEMMA ScanJob ==
  ASSUME TypeOK, NEW c \in Clis, job[c].step = "scan"
  PROVE  job[c].limit \in Int
  BY RowKeysAssumption DEF TypeOK, Jobs, Prompt, Closed, Creating, Making, Scanning

\* A step that leaves the scan of c as it is; rows may come and go.
Aside(c) == /\ job'[c] = job[c] /\ shown'[c] = shown[c]
            /\ \/ steady'[c] = steady[c] /\ cells \subseteq cells'
               \/ steady'[c] = steady[c] \cap RowsIn(cells', job[c].table)

Mine(c) == ScanRow(c) \/ ScanEnd(c) \/ ScanFails(c)

\* Step j of another CLI.
LEMMA OtherJob ==
  ASSUME TypeOK, NEW c \in Clis, NEW d \in Clis, NEW j, d # c, job' = [job EXCEPT ![d] = j]
  PROVE  job'[c] = job[c]
  BY DEF TypeOK

LEMMA ForgetAside ==
  ASSUME TypeOK, NEW ts, Forget(ts), NEW c \in Clis, job[c].step = "scan",
         job'[c] = job[c], shown'[c] = shown[c]
  PROVE  Aside(c)
  BY DEF Forget, Watch, Aside, TypeOK

LEMMA ScanUntouched ==
  ASSUME TypeOK, [Next]_vars, NEW c \in Clis, job[c].step = "scan"
  PROVE  Mine(c) \/ Aside(c)
<1> USE DEF emulator, admin, history
<1>0. /\ job \in [Clis -> Jobs] /\ steady \in [Clis -> SUBSET RowKeys]
      /\ shown \in [Clis -> Seq(RowKeys)]
  BY DEF TypeOK
<1>1. ASSUME NEW d \in Clis, Begin(d) PROVE d # c
  BY <1>1, BeginAtPrompt
<1>2. ASSUME NEW d \in Clis, NEW s, Finish(d, s), d # c PROVE job'[c] = job[c]
  BY <1>2, OtherJob DEF Finish
<1>3. ASSUME NEW d \in Clis, ConnectFails(d) \/ ReadOnly(d) PROVE Aside(c)
  <2>1. d # c
    BY <1>1, <1>3 DEF ConnectFails, ReadOnly, Prompt
  <2>2. job'[c] = job[c]
    BY <1>2, <1>3, <2>1 DEF ConnectFails, ReadOnly
  <2> QED
    BY <1>3, <2>2 DEF ConnectFails, ReadOnly, Aside
<1>4. ASSUME NEW d \in Clis, NEW t \in Tables, NEW f \in Families, CreateTable(d, t, f)
      PROVE  Aside(c)
  <2>1. d # c
    BY <1>1, <1>4 DEF CreateTable
  <2>2. job'[c] = job[c]
    BY <1>4, <2>1, OtherJob DEF CreateTable
  <2> QED
    BY <1>4, <2>2 DEF CreateTable, Aside
<1>5. ASSUME NEW d \in Clis, NEW t \in Tables, CreateTableFails(d, t)
      PROVE  Aside(c)
  <2>1. d # c
    BY <1>1, <1>5 DEF CreateTableFails
  <2>2. job'[c] = job[c]
    BY <1>2, <1>5, <2>1 DEF CreateTableFails
  <2> QED
    BY <1>5, <2>2 DEF CreateTableFails, Aside
<1>6. ASSUME NEW d \in Clis, NEW t \in Tables, Delete(d, t) \/ DeleteFails(d, t)
      PROVE  Aside(c)
  <2>1. d # c
    BY <1>1, <1>6 DEF Delete, DeleteFails
  <2>2. job'[c] = job[c]
    BY <1>2, <1>6, <2>1 DEF Delete, DeleteFails
  <2>3. shown'[c] = shown[c]
    BY <1>6 DEF Delete, DeleteFails
  <2>4. CASE Forget({t})
    BY <2>2, <2>3, <2>4, ForgetAside
  <2>5. CASE UNCHANGED <<emulator, history, steady>>
    BY <2>2, <2>3, <2>5 DEF Aside
  <2> QED
    BY <1>6, <2>4, <2>5 DEF Delete, DeleteFails
<1>7. ASSUME NEW d \in Clis, NEW t \in Tables, NEW r \in RowKeys, NEW f \in Families,
             Put(d, t, r, f) \/ PutFails(d, t, r, f)
      PROVE  Aside(c)
  <2>1. d # c
    BY <1>1, <1>7 DEF Put, PutFails
  <2>2. job'[c] = job[c]
    BY <1>2, <1>7, <2>1 DEF Put, PutFails
  <2>3. cells \subseteq cells'
    BY <1>7 DEF Put, PutFails
  <2> QED
    BY <1>7, <2>2, <2>3 DEF Put, PutFails, Aside
<1>8. ASSUME NEW d \in Clis, NEW t \in Tables, NEW n \in Limits, StartScan(d, t, n)
      PROVE  Aside(c)
  <2>1. d # c
    BY <1>1, <1>8 DEF StartScan
  <2>2. job'[c] = job[c]
    <3>1. CASE t \in tables
      BY <1>8, <2>1, <3>1, OtherJob DEF StartScan
    <3>2. CASE t \notin tables
      BY <1>2, <1>8, <2>1, <3>2 DEF StartScan
    <3> QED
      BY <3>1, <3>2
  <2>3. shown'[c] = shown[c] /\ steady'[c] = steady[c] /\ cells' = cells
    BY <1>0, <1>8, <2>1 DEF StartScan
  <2> QED
    BY <2>2, <2>3 DEF Aside
<1>9. ASSUME NEW d \in Clis, CreateFamily(d) \/ CreateFamilyFails(d) PROVE Aside(c)
  <2>1. d # c
    BY <1>9 DEF CreateFamily, CreateFamilyFails
  <2>2. Finish(d, "ok") \/ Finish(d, "error")
    BY <1>9 DEF CreateFamily, CreateFamilyFails
  <2>3. UNCHANGED <<cells, shown, steady>>
    BY <1>9 DEF CreateFamily, CreateFamilyFails
  <2> QED
    BY <1>2, <2>1, <2>2, <2>3 DEF Aside
<1>10. ASSUME NEW d \in Clis, Mine(d), d # c PROVE Aside(c)
  <2>1. \E j : job' = [job EXCEPT ![d] = j]
    <3>1. CASE UNCHANGED job
      BY <1>0, <3>1
    <3>2. CASE Finish(d, "ok") \/ Finish(d, "error")
      BY <3>2 DEF Finish
    <3> QED
      BY <1>10, <3>1, <3>2 DEF Mine, ScanRow, ScanEnd, ScanFails
  <2>2. shown'[c] = shown[c] /\ UNCHANGED <<cells, steady>>
    BY <1>0, <1>10 DEF Mine, ScanRow, ScanEnd, ScanFails
  <2> QED
    BY <1>10, <2>1, <2>2, OtherJob DEF Aside
<1>11. ASSUME NEW d \in Clis, Exit(d) PROVE Aside(c)
  <2>1. d # c
    BY <1>11 DEF Exit, Prompt
  <2> QED
    BY <1>11, <2>1, OtherJob DEF Exit, Aside
<1>12. ASSUME NEW d \in Clis, InitCommand(d) PROVE Aside(c)
  <2>1. UNCHANGED <<cells, shown, steady>>
    BY <1>12 DEF InitCommand, InitInstance, LookFails, MakeInstance, MakeInstanceFails
  <2>2. d # c
    BY <1>1, <1>12 DEF InitCommand, InitInstance, LookFails, MakeInstance, MakeInstanceFails
  <2>3. \E j : job' = [job EXCEPT ![d] = j]
    BY <1>12 DEF InitCommand, InitInstance, LookFails, MakeInstance, MakeInstanceFails, Finish
  <2> QED
    BY <2>1, <2>2, <2>3, OtherJob DEF Aside
<1>13. CASE RestartEmulator
  BY <1>13, ForgetAside DEF RestartEmulator
<1>14. CASE UNCHANGED vars
  BY <1>14 DEF vars, Aside
<1> QED
  BY <1>3, <1>4, <1>5, <1>6, <1>7, <1>8, <1>9, <1>10, <1>11, <1>12, <1>13, <1>14
  DEF Next, Command, Continue, Mine

LEMMA ScanStarts ==
  ASSUME TypeOK, [Next]_vars, NEW c \in Clis, job[c].step # "scan", job'[c].step = "scan"
  PROVE  \E t \in Tables, n \in Limits :
           StartScan(c, t, n) /\ t \in tables
<1> USE DEF emulator, admin, history
<1>0. job \in [Clis -> Jobs]
  BY DEF TypeOK
<1>1. /\ Prompt.step # "scan" /\ Closed.step # "scan"
      /\ \A t, f : Creating(t, f).step # "scan"
      /\ \A i : Making(i).step # "scan"
  BY DEF Prompt, Closed, Creating, Making
<1>2. ASSUME NEW d \in Clis, NEW s, Finish(d, s) PROVE FALSE
  BY <1>0, <1>1, <1>2 DEF Finish
<1>3. ASSUME NEW d \in Clis, NEW j, job' = [job EXCEPT ![d] = j], j.step # "scan"
      PROVE  FALSE
  BY <1>0, <1>3
<1>4. ASSUME NEW d \in Clis, Command(d)
      PROVE  \E t \in Tables, n \in Limits : StartScan(c, t, n) /\ t \in tables
  <2>1. ASSUME NEW t \in Tables, NEW f \in Families, CreateTable(d, t, f) PROVE FALSE
    BY <1>1, <1>3, <2>1 DEF CreateTable
  <2>2. ASSUME NEW t \in Tables, NEW n \in Limits, StartScan(d, t, n)
        PROVE  t \in tables /\ d = c
    BY <1>0, <1>2, <2>2 DEF StartScan
  <2>3. ASSUME NEW t \in Tables,
               \/ ConnectFails(d) \/ ReadOnly(d) \/ CreateTableFails(d, t)
               \/ Delete(d, t) \/ DeleteFails(d, t)
        PROVE  FALSE
    BY <1>2, <2>3 DEF ConnectFails, ReadOnly, CreateTableFails, Delete, DeleteFails
  <2>4. ASSUME NEW t \in Tables, NEW r \in RowKeys, NEW f \in Families,
               Put(d, t, r, f) \/ PutFails(d, t, r, f)
        PROVE  FALSE
    BY <1>2, <2>4 DEF Put, PutFails
  <2>5. ~ConnectFails(d) /\ ~ReadOnly(d)
    BY <1>2 DEF ConnectFails, ReadOnly
  <2> QED
    BY <1>4, <2>1, <2>2, <2>3, <2>4, <2>5 DEF Command
<1>5. ASSUME NEW d \in Clis, Continue(d) PROVE FALSE
  <2>1. UNCHANGED job \/ Finish(d, "ok") \/ Finish(d, "error")
    BY <1>5 DEF Continue, CreateFamily, CreateFamilyFails, ScanRow, ScanEnd, ScanFails
  <2> QED
    BY <1>2, <2>1
<1>6. ASSUME NEW d \in Clis, Exit(d) PROVE FALSE
  BY <1>1, <1>3, <1>6 DEF Exit
<1>7. ASSUME NEW d \in Clis, InitCommand(d) PROVE FALSE
  <2>1. \/ \E s : Finish(d, s)
        \/ \E i : job' = [job EXCEPT ![d] = Making(i)]
    BY <1>7 DEF InitCommand, InitInstance, LookFails, MakeInstance, MakeInstanceFails
  <2> QED
    BY <1>1, <1>2, <1>3, <2>1
<1>8. ~RestartEmulator /\ ~UNCHANGED vars
  BY DEF RestartEmulator, vars
<1> QED
  BY <1>4, <1>5, <1>6, <1>7, <1>8 DEF Next

\* One more row: it is the least of those ahead, so the order is kept and no
\* steady row is passed over.
LEMMA RowShown ==
  ASSUME TypeOK, NEW c \in Clis, ScanSoFar(c), ScanRow(c)
  PROVE  /\ Len(shown'[c]) = Len(shown[c]) + 1
         /\ \A i, k \in DOMAIN shown'[c] : i < k => shown'[c][i] < shown'[c][k]
         /\ \A r \in steady[c] \ Range(shown'[c]) : \A q \in Range(shown'[c]) : q < r
<1> DEFINE s == shown[c]
           x == Min(Ahead(c))
<1>1. job[c].step = "scan" /\ Ahead(c) # {} /\ shown' = [shown EXCEPT ![c] = Append(s, x)]
  BY DEF ScanRow
<1>2. s \in Seq(RowKeys) /\ shown'[c] = Append(s, x)
  BY <1>1 DEF TypeOK
<1>3. Ahead(c) \subseteq RowKeys
  BY DEF Ahead, RowsOf, RowsIn
<1>4. x \in Ahead(c) /\ \A y \in Ahead(c) : x <= y
  BY <1>1, <1>3, LeastKey, RowKeysAssumption
<1>5. /\ Len(Append(s, x)) = Len(s) + 1 /\ Len(s) \in Nat
      /\ DOMAIN s = 1..Len(s) /\ DOMAIN Append(s, x) = 1..(Len(s) + 1)
      /\ \A i \in 1..Len(s) : Append(s, x)[i] = s[i] /\ s[i] \in RowKeys
      /\ Append(s, x)[Len(s) + 1] = x
  BY <1>2, <1>3, <1>4
<1>6. \A q \in Range(s) : q < x
  BY <1>4 DEF Ahead
<1>7. \A i \in 1..Len(s) : s[i] < x
  BY <1>5, <1>6 DEF Range
<1>8. ASSUME NEW i \in DOMAIN Append(s, x), NEW k \in DOMAIN Append(s, x), i < k
      PROVE  Append(s, x)[i] < Append(s, x)[k]
  <2>1. i \in 1..Len(s)
    BY <1>5, <1>8
  <2>2. CASE k = Len(s) + 1
    BY <1>5, <1>7, <2>1, <2>2
  <2>3. CASE k \in 1..Len(s)
    BY <1>1, <1>5, <1>8, <2>1, <2>3 DEF ScanSoFar
  <2> QED
    BY <1>5, <2>2, <2>3
<1>9. Range(Append(s, x)) = Range(s) \cup {x}
  <2>1. Range(Append(s, x)) \subseteq Range(s) \cup {x}
    BY <1>5 DEF Range
  <2>2. Range(s) \subseteq Range(Append(s, x))
    BY <1>5 DEF Range
  <2>3. x \in Range(Append(s, x))
    BY <1>5 DEF Range
  <2> QED
    BY <2>1, <2>2, <2>3
<1>10. ASSUME NEW r \in steady[c] \ Range(Append(s, x)), NEW q \in Range(Append(s, x))
       PROVE  q < r
  <2>1. r \in steady[c] \ Range(s) /\ r # x
    BY <1>9, <1>10
  <2>2. \A p \in Range(s) : p < r
    BY <1>1, <2>1 DEF ScanSoFar
  <2>3. r \in Ahead(c)
    BY <1>1, <2>1, <2>2 DEF ScanSoFar, Ahead
  <2>4. x \in Nat /\ r \in Nat
    BY <1>3, <1>4, <2>3, RowKeysAssumption
  <2>5. x <= r
    BY <1>4, <2>3
  <2>6. x < r
    BY <2>1, <2>4, <2>5
  <2> QED
    BY <1>9, <1>10, <2>2, <2>6
<1> QED
  BY <1>2, <1>5, <1>8, <1>10

LEMMA ScanInvStep == TypeOK /\ ScanInv /\ [Next]_vars => ScanInv'
<1> SUFFICES ASSUME TypeOK, ScanInv, [Next]_vars, NEW c \in Clis, job'[c].step = "scan"
             PROVE  ScanSoFar(c)'
  BY DEF ScanInv, ScanSoFar
<1>0. /\ job \in [Clis -> Jobs] /\ steady \in [Clis -> SUBSET RowKeys]
      /\ shown \in [Clis -> Seq(RowKeys)]
  BY DEF TypeOK
<1>1. CASE job[c].step # "scan"
  <2>1. PICK t \in Tables, n \in Limits : StartScan(c, t, n) /\ t \in tables
    BY <1>1, ScanStarts
  <2>2. /\ shown'[c] = <<>> /\ job'[c].limit = n /\ job'[c].table = t
        /\ steady'[c] = RowsOf(t) /\ cells' = cells
    BY <1>0, <2>1 DEF StartScan, Scanning, emulator
  <2>3. n >= 1 => Len(shown'[c]) < n
    BY <2>2, RowKeysAssumption
  <2>4. steady'[c] = RowsOf(t)'
    BY <2>2 DEF RowsOf, RowsIn
  <2> QED
    BY <2>2, <2>3, <2>4 DEF ScanSoFar, Range, RowsOf
<1>2. CASE job[c].step = "scan" /\ Aside(c)
  <2>1. ScanSoFar(c) /\ job'[c] = job[c] /\ shown'[c] = shown[c]
    BY <1>2 DEF ScanInv, Aside
  <2>2. steady'[c] \subseteq steady[c]
    BY <1>2 DEF Aside
  <2>3. steady'[c] \subseteq RowsIn(cells', job[c].table)
    <3>1. CASE steady'[c] = steady[c] /\ cells \subseteq cells'
      BY <1>2, <2>1, <3>1 DEF ScanSoFar, RowsOf, RowsIn
    <3>2. CASE steady'[c] = steady[c] \cap RowsIn(cells', job[c].table)
      BY <3>2
    <3> QED
      BY <1>2, <3>1, <3>2 DEF Aside
  <2> QED
    BY <1>2, <2>1, <2>2, <2>3 DEF ScanSoFar, RowsOf
<1>3. CASE job[c].step = "scan" /\ Mine(c)
  <2>1. ASSUME NEW s, Finish(c, s) PROVE FALSE
    BY <1>0, <2>1 DEF Finish, Prompt
  <2>2. ScanRow(c) /\ UNCHANGED <<job, cells, steady>>
    BY <1>3, <2>1 DEF Mine, ScanRow, ScanEnd, ScanFails, emulator
  <2>3. Len(shown[c]) + 1 < job[c].limit
    BY <2>1, <2>2 DEF ScanRow
  <2>4. ScanSoFar(c)
    BY DEF ScanInv
  <2>5. Len(shown'[c]) < job'[c].limit
    <3>1. job[c].limit \in Int /\ Len(shown[c]) \in Nat
      BY <1>0, <1>3, ScanJob
    <3>2. Len(shown'[c]) = Len(shown[c]) + 1 /\ job'[c].limit = job[c].limit
      BY <2>2, <2>4, RowShown
    <3> QED
      BY <2>3, <3>1, <3>2
  <2>6. steady'[c] \subseteq RowsIn(cells', job'[c].table)
    BY <1>3, <2>2, <2>4 DEF ScanSoFar, RowsOf
  <2>7. /\ \A i, k \in DOMAIN shown'[c] : i < k => shown'[c][i] < shown'[c][k]
        /\ \A r \in steady'[c] \ Range(shown'[c]) : \A q \in Range(shown'[c]) : q < r
    BY <2>2, <2>4, RowShown
  <2> QED
    BY <2>5, <2>6, <2>7 DEF ScanSoFar, RowsOf
<1> QED
  BY <1>1, <1>2, <1>3, ScanUntouched

\* A scan that ends well: the row that fills the limit, or no row ahead.
LEMMA ScanEndsWell ==
  ASSUME TypeOK, ScanInv, [Next]_vars, NEW c \in Clis, Renders(c), job[c].limit >= 1
  PROVE  FirstRows(shown'[c], job[c].limit, steady[c])
<1>0. /\ job[c].step = "scan" /\ job'[c] = Prompt /\ told'[c] = "ok"
      /\ told \in [Clis -> {"none", "ok", "error"}]
      /\ shown \in [Clis -> Seq(RowKeys)] /\ job[c].limit \in Int
      /\ Len(shown[c]) \in Nat
  BY ScanJob DEF TypeOK, Renders
<1>1. ScanSoFar(c)
  BY DEF ScanInv
<1>2. Prompt.step # "scan"
  BY DEF Prompt
<1>3. Mine(c)
  BY <1>0, <1>2, ScanUntouched DEF Aside
<1>4. ~ScanFails(c)
  BY <1>0 DEF ScanFails, Finish
<1>5. CASE ScanRow(c)
  <2>1. ~(Len(shown[c]) + 1 < job[c].limit)
    BY <1>0, <1>2, <1>5 DEF ScanRow
  <2>2. Len(shown'[c]) = Len(shown[c]) + 1
    BY <1>0, <1>1, <1>5, RowShown
  <2>3. Len(shown'[c]) = job[c].limit
    BY <1>0, <1>1, <2>1, <2>2 DEF ScanSoFar
  <2> QED
    BY <1>0, <1>1, <1>5, <2>3, RowShown DEF FirstRows
<1>6. CASE ScanEnd(c)
  <2>1. shown'[c] = shown[c] /\ Ahead(c) = {}
    BY <1>6 DEF ScanEnd
  <2>2. steady[c] \ Range(shown[c]) = {}
    BY <1>0, <1>1, <2>1 DEF ScanSoFar, Ahead
  <2>3. Len(shown[c]) <= job[c].limit
    BY <1>0, <1>1 DEF ScanSoFar
  <2>4. \A i, k \in DOMAIN shown[c] : i < k => shown[c][i] < shown[c][k]
    BY <1>0, <1>1 DEF ScanSoFar
  <2> QED
    BY <2>1, <2>2, <2>3, <2>4 DEF FirstRows
<1> QED
  BY <1>3, <1>4, <1>5, <1>6 DEF Mine

\* ScansShowFirstRows: the rows a scan with a limit of at least 1 renders are
\* the first of the table in key order, none of the undisturbed ones missing,
\* whatever the other CLIs write, delete and create while they are streamed.
THEOREM ScansShowFirstRows == Spec => ScanShowsFirstRows
<1>1. Init => ScanInv
  BY DEF Init, ScanInv, ScanSoFar, Prompt
<1>2. TypeOK /\ ScanInv /\ [Next]_vars =>
        [\A c \in Clis :
           Renders(c) /\ job[c].limit >= 1 =>
             FirstRows(shown'[c], job[c].limit, steady[c])]_vars
  BY ScanEndsWell
<1> QED
  BY <1>1, <1>2, TypeOKInit, TypeOKStep, ScanInvStep, PTL DEF Spec, ScanShowsFirstRows
=============================================================================
