------------------------- MODULE WaitServicesProofs -------------------------
(* Proofs about WaitServices, for every list of services and every number  *)
(* of attempts.                                                            *)
EXTENDS WaitServices, SequenceTheorems, FiniteSetTheorems, TLAPS

Kinds == {"http", "tcp", "postgres"}

\* What the script is given.
LEMMA ServiceFacts ==
  /\ Len(Services) \in Nat /\ Len(Services) > 0
  /\ DOMAIN Services = 1..Len(Services)
  /\ \A n \in DOMAIN Services : Services[n] \in Range(Services)
  /\ \A s \in Range(Services) : Kind[s] \in Kinds /\ MaxWait[s] \in Nat /\ MaxWait[s] > 0
  /\ RestartLimit \in Nat /\ RestartLimit > 0
<1>1. \A n \in DOMAIN Services : Services[n] \in Range(Services)
  BY DEF Range
<1>2. \A s \in Range(Services) : Kind[s] \in Kinds /\ MaxWait[s] \in Nat /\ MaxWait[s] > 0
  BY ServicesAssumption DEF Kinds
<1>3. RestartLimit \in Nat /\ RestartLimit > 0
  BY ServicesAssumption
<1>4. /\ Len(Services) \in Nat /\ Len(Services) > 0
      /\ DOMAIN Services = 1..Len(Services)
  BY ServicesAssumption
<1> QED BY <1>1, <1>2, <1>3, <1>4

\* A service is in one of the states its probe can tell apart.
StateOK == /\ state \in [Range(Services) -> UNION Range(States)]
           /\ \A s \in Range(Services) : state[s] \in States[Kind[s]]

\* The states of each kind are among all states.
LEMMA StatesOfKind ==
  ASSUME NEW k \in Kinds
  PROVE  States[k] \subseteq UNION Range(States)
<1>1. k \in DOMAIN States
  BY DEF Kinds, States
<1> QED BY <1>1 DEF Range

LEMMA ChangeFacts ==
  ASSUME StateOK, NEW s \in Range(Services), Change(s)
  PROVE  /\ StateOK'
         /\ UNCHANGED <<cur, i, restarts, statuses, pc, why>>
         /\ \A x \in Range(Services) : x # s => state'[x] = state[x]
         /\ served \subseteq served' /\ served' \subseteq served \cup {s}
         /\ Serving(s, state'[s]) => s \in served'
<1>1. PICK st \in States[Kind[s]] :
        /\ state' = [state EXCEPT ![s] = st]
        /\ served' = IF Serving(s, st) THEN served \cup {s} ELSE served
  BY DEF Change
<1>2. st \in UNION Range(States)
  BY ServiceFacts, StatesOfKind
<1>3. /\ state' \in [Range(Services) -> UNION Range(States)] /\ state'[s] = st
      /\ \A x \in Range(Services) : x # s => state'[x] = state[x]
  BY <1>1, <1>2 DEF StateOK
<1>4. \A x \in Range(Services) : state'[x] \in States[Kind[x]]
  BY <1>1, <1>3 DEF StateOK
<1>5. UNCHANGED <<cur, i, restarts, statuses, pc, why>>
  BY DEF Change
<1>6. /\ served \subseteq served' /\ served' \subseteq served \cup {s}
      /\ Serving(s, state'[s]) => s \in served'
  BY <1>1, <1>3
<1> QED BY <1>3, <1>4, <1>5, <1>6 DEF StateOK

-----------------------------------------------------------------------------
(* The position of the script.                                             *)

Outcomes == {"running", "created", "stopped", "restarting"}

Position == /\ cur \in DOMAIN Services
            /\ i \in 1..MaxWait[Target]
            /\ restarts \in 0..RestartLimit
            /\ pc \in {"probe", "exec", "ready", "failed"}
            /\ why \in {"none", "timeout", "stopped", "loop"}

\* While it probes, the restarts counted are below the limit.
Counting == pc \in {"probe", "exec"} => restarts < RestartLimit

LEMMA SucceedFacts ==
  ASSUME Position, Succeed
  PROVE  /\ cur' \in DOMAIN Services /\ i' \in 1..MaxWait[Services[cur']]
         /\ pc' \in {"probe", "ready"} /\ why' = why
<1>1. CASE cur = Len(Services)
  <2>1. pc' = "ready" /\ cur' = cur /\ i' = i /\ why' = why
    BY <1>1 DEF Succeed
  <2> QED BY <2>1 DEF Position, Target
<1>2. CASE cur # Len(Services)
  <2>1. pc' = "probe" /\ cur' = cur + 1 /\ i' = 1 /\ why' = why
    BY <1>2 DEF Succeed
  <2>2. cur + 1 \in DOMAIN Services
    BY <1>2, ServiceFacts DEF Position
  <2>3. MaxWait[Services[cur + 1]] \in Nat /\ MaxWait[Services[cur + 1]] > 0
    BY <2>2, ServiceFacts
  <2> QED BY <2>1, <2>2, <2>3
<1> QED BY <1>1, <1>2

LEMMA MissFacts ==
  ASSUME Position, Miss
  PROVE  /\ cur' = cur /\ i' \in 1..MaxWait[Services[cur]]
         /\ pc' \in {"probe", "failed"} /\ why' \in {"none", "timeout", "stopped", "loop"}
<1>1. MaxWait[Services[cur]] \in Nat
  BY ServiceFacts DEF Position
<1>2. CASE i < MaxWait[Target]
  <2>1. pc' = "probe" /\ i' = i + 1 /\ cur' = cur /\ why' = why
    BY <1>2 DEF Miss
  <2> QED BY <1>1, <1>2, <2>1 DEF Position, Target
<1>3. CASE ~(i < MaxWait[Target])
  <2>1. pc' = "failed" /\ i' = i /\ cur' = cur /\ why' = "timeout"
    BY <1>3 DEF Miss, Fail
  <2> QED BY <2>1 DEF Position, Target
<1> QED BY <1>2, <1>3

\* A step of the script: the position moves, the services do not.
Moves == /\ cur' \in DOMAIN Services /\ i' \in 1..MaxWait[Services[cur']]
         /\ pc' \in {"probe", "exec", "ready", "failed"}
         /\ why' \in {"none", "timeout", "stopped", "loop"}

LEMMA ScriptMoves ==
  ASSUME Position, Counting, Script
  PROVE  Moves /\ restarts' \in 0..RestartLimit /\ Counting' /\ UNCHANGED service
<1> USE ServiceFacts DEF Counting
<1>1. restarts \in 0..RestartLimit /\ (restarts < RestartLimit \/ pc \notin {"probe", "exec"})
  BY DEF Position
<1>2. Succeed => Moves
  BY SucceedFacts DEF Moves, Position
<1>3. Miss => Moves
  BY MissFacts DEF Moves, Position
<1>4. ASSUME NEW reason \in {"stopped", "loop"}, Fail(reason) PROVE Moves /\ pc' = "failed"
  BY <1>4 DEF Fail, Moves, Position, Target
<1>5. CASE Probe
  <2>1. pc = "probe" /\ restarts' = restarts /\ UNCHANGED service /\ (Succeed \/ Miss)
    BY <1>5 DEF Probe
  <2> QED BY <1>1, <1>2, <1>3, <2>1
<1>6. CASE Inspect
  <2>1. pc = "probe" /\ UNCHANGED service
    BY <1>6 DEF Inspect
  <2>2. CASE pc' = "exec" /\ UNCHANGED <<cur, i, restarts, why>>
    BY <1>1, <2>1, <2>2 DEF Moves, Position, Target
  <2>3. CASE Miss /\ restarts' = restarts
    BY <1>1, <1>3, <2>1, <2>3
  <2>4. CASE Fail("stopped") /\ restarts' = restarts
    BY <1>1, <1>4, <2>1, <2>4
  <2>5. CASE restarts' = restarts + 1 /\ IF restarts' >= RestartLimit THEN Fail("loop") ELSE Miss
    <3>1. restarts' \in 0..RestartLimit
      BY <1>1, <2>1, <2>5
    <3>2. CASE restarts' >= RestartLimit
      BY <1>4, <2>1, <2>5, <3>1, <3>2
    <3>3. CASE ~(restarts' >= RestartLimit)
      BY <1>3, <2>1, <2>5, <3>1, <3>3
    <3> QED BY <3>2, <3>3
  <2> QED BY <1>6, <2>2, <2>3, <2>4, <2>5 DEF Inspect
<1>7. CASE PgIsReady
  <2>1. pc = "exec" /\ UNCHANGED service
    BY <1>7 DEF PgIsReady
  <2>2. CASE Succeed /\ restarts' = restarts
    BY <1>1, <1>2, <2>1, <2>2
  <2>3. CASE Miss /\ restarts' = 0
    BY <1>3, <2>1, <2>3
  <2> QED BY <1>7, <2>2, <2>3 DEF PgIsReady
<1> QED BY <1>5, <1>6, <1>7 DEF Script

\* What docker inspect says.
LEMMA StatusesStep ==
  ASSUME StateOK, Position, statuses \in Seq(Outcomes), Script
  PROVE  statuses' \in Seq(Outcomes)
<1>1. CASE Probe \/ PgIsReady
  BY <1>1 DEF Probe, PgIsReady
<1>2. CASE Inspect
  <2>1. Target \in Range(Services) /\ Kind[Target] = "postgres"
    BY <1>2, ServiceFacts DEF Inspect, Position, Target
  <2>2. state[Target] \in States["postgres"]
    BY <2>1 DEF StateOK
  <2>3. state[Target] \in {"created", "restarting", "stopped", "starting", "init", "up"}
    BY <2>2 DEF States
  <2>4. Status \in Outcomes
    BY <2>3 DEF Status, Outcomes
  <2>5. statuses' = Append(statuses, Status)
    BY <1>2 DEF Inspect
  <2> QED BY <2>4, <2>5
<1> QED BY <1>1, <1>2 DEF Script

TypeInv == /\ StateOK /\ served \in SUBSET Range(Services)
           /\ Position /\ Counting /\ statuses \in Seq(Outcomes)

LEMMA TypeInvInit == Init => TypeInv
<1> SUFFICES ASSUME Init PROVE TypeInv
  OBVIOUS
<1>1. StateOK /\ served \in SUBSET Range(Services)
  BY DEF Init, StateOK
<1>2. cur = 1 /\ i = 1 /\ restarts = 0 /\ pc = "probe" /\ why = "none" /\ statuses = <<>>
  BY DEF Init
<1>3. MaxWait[Target] \in Nat /\ MaxWait[Target] > 0
  BY <1>2, ServiceFacts DEF Target
<1>4. Position /\ Counting
  BY <1>2, <1>3, ServiceFacts DEF Position, Counting
<1> QED BY <1>1, <1>2, <1>4 DEF TypeInv

LEMMA TypeInvStep == TypeInv /\ [Next]_vars => TypeInv'
<1> SUFFICES ASSUME TypeInv, [Next]_vars PROVE TypeInv'
  OBVIOUS
<1>1. CASE Script
  <2>1. Moves /\ restarts' \in 0..RestartLimit /\ Counting' /\ UNCHANGED service
    BY <1>1, ScriptMoves DEF TypeInv
  <2>2. statuses' \in Seq(Outcomes)
    BY <1>1, StatusesStep DEF TypeInv
  <2>3. Position'
    BY <2>1 DEF Moves, Position, Target
  <2>4. StateOK' /\ served' \in SUBSET Range(Services)
    BY <2>1 DEF TypeInv, StateOK, service
  <2> QED BY <2>1, <2>2, <2>3, <2>4 DEF TypeInv
<1>2. ASSUME NEW s \in Range(Services), Change(s) PROVE TypeInv'
  BY <1>2, ChangeFacts DEF TypeInv, Position, Counting, Target
<1>3. CASE UNCHANGED vars
  BY <1>3 DEF vars, service, TypeInv, StateOK, Position, Counting, Target
<1> QED BY <1>1, <1>2, <1>3 DEF Next

\* TypeOK: the script stays within its list and its attempts, and the
\* restarts counted within their limit.
THEOREM TypeCorrect == Spec => []TypeOK
<1>1. TypeInv => TypeOK
  BY DEF TypeInv, StateOK, Position, Outcomes, TypeOK
<1> QED BY TypeInvInit, TypeInvStep, <1>1, PTL DEF Spec

-----------------------------------------------------------------------------
\* Services passed over were seen to serve; all were once the script is done.
Passed(n) == n < cur \/ pc = "ready"
ServedInv == /\ \A s \in Range(Services) : Serving(s, state[s]) => s \in served
             /\ \A n \in DOMAIN Services : Passed(n) => Services[n] \in served

\* A wait function returned 0 although not all services are passed, so the
\* one waited for is passed next; in every other step none is.
LEMMA PassedGrows ==
  ASSUME Position, pc # "ready", NEW n \in DOMAIN Services, Succeed \/ (cur' = cur /\ pc' # "ready"),
         Passed(n)'
  PROVE  Passed(n) \/ (Succeed /\ n = cur)
<1>1. n \in Nat /\ cur \in Nat /\ n <= Len(Services)
  BY ServiceFacts DEF Position
<1>2. CASE Succeed
  BY <1>1, <1>2 DEF Succeed, Passed
<1>3. CASE cur' = cur /\ pc' # "ready"
  BY <1>3 DEF Passed
<1> QED BY <1>2, <1>3

LEMMA ServedInvStep == TypeInv /\ ServedInv /\ [Next]_vars => ServedInv'
<1> SUFFICES ASSUME TypeInv, ServedInv, [Next]_vars PROVE ServedInv'
  OBVIOUS
<1>1. CASE Script
  <2>1. UNCHANGED service /\ pc # "ready" /\ Position
    BY <1>1, ScriptMoves DEF TypeInv, Script, Probe, Inspect, PgIsReady
  <2>2. (Succeed /\ Serving(Target, state[Target])) \/ (cur' = cur /\ pc' # "ready")
    BY <1>1 DEF Script, Probe, Inspect, PgIsReady, Miss, Fail
  <2>3. Target \in Range(Services) /\ Target = Services[cur]
    BY <2>1, ServiceFacts DEF Position, Target
  <2>4. \A n \in DOMAIN Services : Passed(n)' => Services[n] \in served
    <3> SUFFICES ASSUME NEW n \in DOMAIN Services, Passed(n)' PROVE Services[n] \in served
      OBVIOUS
    <3>1. Passed(n) \/ (Succeed /\ n = cur)
      BY <2>1, <2>2, PassedGrows
    <3>2. CASE Passed(n)
      BY <3>2 DEF ServedInv
    <3>3. CASE Succeed /\ n = cur
      <4>1. pc' # "failed" /\ (cur' # cur \/ pc' = "ready")
        BY <2>1, <3>3, ServiceFacts DEF Succeed, Position
      <4>2. Serving(Target, state[Target])
        BY <2>2, <4>1
      <4> QED BY <2>3, <3>3, <4>2 DEF ServedInv
    <3> QED BY <3>1, <3>2, <3>3
  <2> QED BY <2>1, <2>4 DEF ServedInv, service
<1>2. ASSUME NEW s \in Range(Services), Change(s) PROVE ServedInv'
  BY <1>2, ChangeFacts DEF TypeInv, ServedInv, Passed
<1>3. CASE UNCHANGED vars
  BY <1>3 DEF vars, service, ServedInv, Passed
<1> QED BY <1>1, <1>2, <1>3 DEF Next

\* ReadyMeansServed: the script reports success only if the probe of every
\* service could succeed at some moment since it began.
THEOREM ReadyWasServed == Spec => []ReadyMeansServed
<1>1. Init => ServedInv
  <2> SUFFICES ASSUME Init PROVE ServedInv
    OBVIOUS
  <2>1. \A n \in DOMAIN Services : ~Passed(n)
    BY ServiceFacts DEF Init, Passed
  <2> QED BY <2>1 DEF Init, ServedInv
<1>2. TypeInv /\ ServedInv => ReadyMeansServed
  <2> SUFFICES ASSUME TypeInv, ServedInv, pc = "ready" PROVE served = Range(Services)
    BY DEF ReadyMeansServed
  <2>1. \A n \in DOMAIN Services : Services[n] \in served
    BY DEF ServedInv, Passed
  <2> QED BY <2>1 DEF TypeInv, Range
<1> QED BY TypeInvInit, TypeInvStep, ServedInvStep, <1>1, <1>2, PTL DEF Spec

-----------------------------------------------------------------------------
\* What one more poll does to the streak.
LEMMA StreakFinite ==
  ASSUME statuses \in Seq(Outcomes)
  PROVE  IsFiniteSet(Streak) /\ Cardinality(Streak) \in Nat
<1>1. Streak \subseteq 1..Len(statuses) /\ Len(statuses) \in Nat
  BY DEF Streak
<1>2. IsFiniteSet(1..Len(statuses))
  BY <1>1, FS_Interval
<1> QED BY <1>1, <1>2, FS_Subset, FS_CardinalityType

LEMMA StreakStep ==
  ASSUME statuses \in Seq(Outcomes), NEW st \in Outcomes, statuses' = Append(statuses, st)
  PROVE  /\ st = "created" => Streak' = Streak
         /\ st = "restarting" => Cardinality(Streak') = Cardinality(Streak) + 1
         /\ st \notin {"created", "restarting"} => Streak' = {}
<1> DEFINE n == Len(statuses) + 1
<1>1. /\ Len(statuses) \in Nat /\ DOMAIN statuses = 1..Len(statuses)
      /\ Len(statuses') = n /\ DOMAIN statuses' = 1..n
      /\ statuses'[n] = st /\ \A k \in 1..Len(statuses) : statuses'[k] = statuses[k]
  BY AppendProperties
<1> HIDE DEF n
<1>2. n = Len(statuses) + 1
  BY DEF n
<1>3. ASSUME st \in {"created", "restarting"}
      PROVE  \A k \in 1..Len(statuses) : k \in Streak' <=> k \in Streak
  <2> SUFFICES ASSUME NEW k \in 1..Len(statuses) PROVE k \in Streak' <=> k \in Streak
    OBVIOUS
  <2>1. \A j \in k..n : j = n \/ j \in k..Len(statuses)
    BY <1>1, <1>2
  <2>2. \A j \in k..Len(statuses) : j \in k..n /\ statuses'[j] = statuses[j]
    BY <1>1, <1>2
  <2> QED BY <1>1, <1>2, <1>3, <2>1, <2>2 DEF Streak
<1>4. CASE st = "created"
  <2>1. n \notin Streak'
    BY <1>1, <1>4 DEF Streak
  <2> QED BY <1>1, <1>2, <1>3, <1>4, <2>1 DEF Streak
<1>5. CASE st = "restarting"
  <2>1. n \in Streak'
    BY <1>1, <1>2, <1>5 DEF Streak
  <2>2. n \notin Streak
    BY <1>1, <1>2 DEF Streak
  <2>3. Streak' = Streak \cup {n}
    BY <1>1, <1>2, <1>3, <1>5, <2>1 DEF Streak
  <2> QED BY <1>5, <2>2, <2>3, StreakFinite, FS_AddElement
<1>6. CASE st \notin {"created", "restarting"}
  BY <1>1, <1>2, <1>6 DEF Streak
<1> QED BY <1>4, <1>5, <1>6

-----------------------------------------------------------------------------
\* While postgres is probed the counter of the script is the length of the
\* streak; between docker inspect and pg_isready the streak is broken and the
\* counter not yet reset, and before postgres' turn there is nothing to count.
IsPostgres(n) == Kind[Services[n]] = "postgres"
LoopInv ==
  /\ pc \in {"probe", "exec"} => why = "none"
  /\ pc = "ready" => why = "none"
  /\ why = "loop" => Cardinality(Streak) = RestartLimit
  /\ why # "loop" => Cardinality(Streak) < RestartLimit
  /\ pc = "probe" /\ IsPostgres(cur) => restarts = Cardinality(Streak)
  /\ pc = "exec" => IsPostgres(cur) /\ Streak = {}
  /\ (\A n \in 1..cur : n < cur => ~IsPostgres(n)) /\ ~IsPostgres(cur)
       => statuses = <<>> /\ restarts = 0

\* There is one postgres.
LEMMA OnePostgres ==
  ASSUME NEW m \in DOMAIN Services, NEW n \in DOMAIN Services, IsPostgres(m), IsPostgres(n)
  PROVE  m = n
BY ServicesAssumption, ServiceFacts DEF IsPostgres

LEMMA NoStreak ==
  /\ IsFiniteSet({}) /\ Cardinality({}) = 0
  /\ statuses = <<>> => Streak = {}
BY FS_EmptySet DEF Streak

\* The script goes on to the next service with nothing counted yet.
LEMMA LoopInvNext ==
  ASSUME TypeInv, LoopInv, Succeed, UNCHANGED <<statuses, restarts>>,
         \/ pc = "probe" /\ ~IsPostgres(cur)
         \/ pc = "exec"
  PROVE  LoopInv'
<1> USE ServiceFacts
<1>1. cur \in DOMAIN Services /\ why = "none" /\ why' = "none" /\ Streak' = Streak
  BY DEF TypeInv, Position, LoopInv, Succeed, Streak
<1>2. Cardinality(Streak) < RestartLimit
  BY <1>1 DEF LoopInv
<1>3. CASE cur = Len(Services)
  BY <1>1, <1>2, <1>3, OnePostgres DEF Succeed, LoopInv, IsPostgres
<1>4. CASE cur # Len(Services)
  <2>1. pc' = "probe" /\ cur' = cur + 1
    BY <1>4 DEF Succeed
  <2>2. cur + 1 \in DOMAIN Services /\ cur \in 1..(cur + 1) /\ cur < cur + 1
        /\ \A n \in 1..cur : n \in 1..(cur + 1) /\ n < cur + 1 /\ n \in DOMAIN Services
    BY <1>1, <1>4
  <2>3. IsPostgres(cur + 1) => statuses = <<>> /\ restarts = 0
    <3>1. IsPostgres(cur + 1) => \A n \in 1..cur : ~IsPostgres(n)
      <4> SUFFICES ASSUME IsPostgres(cur + 1), NEW n \in 1..cur, IsPostgres(n) PROVE FALSE
        OBVIOUS
      <4>1. n = cur + 1
        BY <2>2, OnePostgres
      <4> QED BY <2>2, <4>1
    <3> QED BY <1>1, <2>2, <3>1 DEF LoopInv
  <2>4. IsPostgres(cur + 1) => restarts' = Cardinality(Streak')
    BY <1>1, <2>3, NoStreak
  <2>5. (\A n \in 1..(cur + 1) : n < cur + 1 => ~IsPostgres(n)) => statuses = <<>> /\ restarts = 0
    BY <1>1, <2>2 DEF LoopInv
  <2> QED BY <1>1, <1>2, <2>1, <2>4, <2>5 DEF LoopInv, IsPostgres
<1> QED BY <1>3, <1>4

\* The attempt failed, and the counter is the length of the streak.
LEMMA LoopInvMiss ==
  ASSUME TypeInv, LoopInv, Miss, pc \in {"probe", "exec"},
         IsPostgres(cur) \/ UNCHANGED <<statuses, restarts>>,
         IsPostgres(cur) => restarts' = Cardinality(Streak'),
         Cardinality(Streak') < RestartLimit
  PROVE  LoopInv'
<1>1. cur' = cur /\ cur \in DOMAIN Services /\ IsPostgres(cur)' = IsPostgres(cur)
  BY DEF Miss, Fail, TypeInv, Position, IsPostgres
<1>2. \/ pc' = "probe" /\ why' = "none"
      \/ pc' = "failed" /\ why' = "timeout"
  BY DEF Miss, Fail, LoopInv
<1> QED BY <1>1, <1>2 DEF LoopInv, IsPostgres

LEMMA LoopInvInspect ==
  ASSUME TypeInv, LoopInv, Inspect PROVE LoopInv'
<1> USE ServiceFacts
<1>1. /\ pc = "probe" /\ IsPostgres(cur) /\ statuses' = Append(statuses, Status)
      /\ why = "none" /\ restarts = Cardinality(Streak)
  BY DEF Inspect, LoopInv, IsPostgres, Target
<1>2. statuses \in Seq(Outcomes) /\ restarts < RestartLimit /\ cur \in DOMAIN Services
      /\ restarts \in Nat
  BY <1>1 DEF TypeInv, Counting, Position
<1>3. Status \in Outcomes
  <2>1. statuses' \in Seq(Outcomes)
    BY StatusesStep DEF TypeInv, Script
  <2>2. Len(statuses) + 1 \in DOMAIN Append(statuses, Status)
        /\ Append(statuses, Status)[Len(statuses) + 1] = Status
    BY <1>2
  <2> QED BY <1>1, <2>1, <2>2, ElementOfSeq
<1>4. /\ Status = "created" => Streak' = Streak
      /\ Status = "restarting" => Cardinality(Streak') = Cardinality(Streak) + 1
      /\ Status \notin {"created", "restarting"} => Streak' = {}
  BY <1>1, <1>2, <1>3, StreakStep
<1>5. CASE Status = "running" /\ pc' = "exec" /\ UNCHANGED <<cur, i, restarts, why>>
  BY <1>1, <1>4, <1>5, NoStreak DEF LoopInv, IsPostgres
<1>6. CASE Status = "created" /\ Miss /\ UNCHANGED restarts
  BY <1>1, <1>2, <1>4, <1>6, LoopInvMiss
<1>7. CASE Status = "stopped" /\ Fail("stopped") /\ UNCHANGED restarts
  BY <1>1, <1>4, <1>7, NoStreak DEF Fail, LoopInv, IsPostgres
<1>8. CASE /\ Status = "restarting"
           /\ restarts' = restarts + 1
           /\ IF restarts' >= RestartLimit THEN Fail("loop") ELSE Miss
  <2>1. restarts' = Cardinality(Streak')
    BY <1>1, <1>4, <1>8
  <2>2. CASE restarts' >= RestartLimit
    BY <1>1, <1>2, <1>8, <2>1, <2>2 DEF Fail, LoopInv, IsPostgres
  <2>3. CASE ~(restarts' >= RestartLimit)
    BY <1>1, <1>2, <1>8, <2>1, <2>3, LoopInvMiss
  <2> QED BY <2>2, <2>3
<1> QED BY <1>5, <1>6, <1>7, <1>8 DEF Inspect

LEMMA LoopInvStep == TypeInv /\ LoopInv /\ [Next]_vars => LoopInv'
<1> SUFFICES ASSUME TypeInv, LoopInv, [Next]_vars PROVE LoopInv'
  OBVIOUS
<1>1. CASE Probe
  <2>1. pc = "probe" /\ ~IsPostgres(cur) /\ UNCHANGED <<statuses, restarts>>
    BY <1>1 DEF Probe, IsPostgres, Target
  <2>2. Streak' = Streak /\ Cardinality(Streak) < RestartLimit
    BY <2>1 DEF Streak, LoopInv
  <2> QED BY <1>1, <2>1, <2>2, LoopInvNext, LoopInvMiss DEF Probe
<1>2. CASE Inspect
  BY <1>2, LoopInvInspect
<1>3. CASE PgIsReady
  <2>1. pc = "exec" /\ IsPostgres(cur) /\ Streak = {} /\ UNCHANGED statuses
    BY <1>3 DEF PgIsReady, LoopInv
  <2>2. Streak' = {} /\ Cardinality(Streak') = 0 /\ 0 < RestartLimit
    BY <2>1, NoStreak, ServiceFacts DEF Streak
  <2> QED BY <1>3, <2>1, <2>2, LoopInvNext, LoopInvMiss DEF PgIsReady
<1>4. CASE (\E s \in Range(Services) : Change(s)) \/ UNCHANGED vars
  BY <1>4 DEF Change, vars, LoopInv, IsPostgres, Streak
<1> QED BY <1>1, <1>2, <1>3, <1>4 DEF Next, Script

\* LoopMeansRestarts: a restart loop is reported if and only if as many polls
\* in a row saw postgres restarting as the script's limit.
THEOREM LoopsWereSeen == Spec => []LoopMeansRestarts
<1>1. Init => LoopInv
  BY NoStreak, ServiceFacts DEF Init, LoopInv, IsPostgres
<1>2. LoopInv => LoopMeansRestarts
  BY ServiceFacts DEF LoopInv, LoopMeansRestarts
<1> QED BY TypeInvInit, TypeInvStep, LoopInvStep, <1>1, <1>2, PTL DEF Spec
=============================================================================
