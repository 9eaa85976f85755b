---------------------------- MODULE WaitServices ----------------------------
(***************************************************************************)
(* scripts/wait-for-services.sh: one service after the other is probed     *)
(* once a second until it answers or its attempts are used up, while all   *)
(* of them start, stop, hang and restart as they like.                     *)
(***************************************************************************)
EXTENDS Naturals, SequencesExt

CONSTANTS Services,    \* the services in the order waited for
          Kind,        \* how each is probed: "http", "tcp" or "postgres"
          MaxWait,     \* attempts for each, the script's options
          RestartLimit \* 5 in the script

ASSUME ServicesAssumption ==
  /\ Services \in Seq(Range(Services)) /\ Services # <<>>
  /\ \A m, n \in DOMAIN Services : Services[m] = Services[n] => m = n
  /\ Kind \in [Range(Services) -> {"http", "tcp", "postgres"}]
  \* wait_postgres names its container, there is one
  /\ \A s, t \in Range(Services) : Kind[s] = "postgres" /\ Kind[t] = "postgres" => s = t
  /\ MaxWait \in [Range(Services) -> Nat \ {0}]
  /\ RestartLimit \in Nat \ {0}

\* What a probe can tell apart.  starting: runs and does not serve yet; hung:
\* takes the connection and never answers; init: the temporary server of
\* postgres' first start, which can be reached from within its container
\* only; created: never started, or paused.
States == [http     |-> {"down", "starting", "up", "hung"},
           tcp      |-> {"down", "starting", "up"},
           postgres |-> {"created", "restarting", "stopped", "starting", "init", "up"}]

VARIABLES state,    \* of each service
          served,   \* services whose probe could have succeeded since the start
          cur, i,   \* the service waited for, by number, and the attempt
          restarts, \* restart_count
          statuses, \* what docker inspect said of postgres (history)
          pc,       \* "probe", "exec" (pg_isready), "ready", "failed"
          why       \* of the failure: "timeout", "stopped", "loop"

service == <<state, served>>
vars == <<service, cur, i, restarts, statuses, pc, why>>

\* The probe of s can succeed.  An open port is all that wait_tcp asks for,
\* and a port published by docker may be open before the service listens.
Serving(s, st) == CASE Kind[s] = "http"     -> st = "up"
                    [] Kind[s] = "tcp"      -> st \in {"starting", "up"}
                    [] Kind[s] = "postgres" -> st \in {"init", "up"}

Init == /\ state \in {f \in [Range(Services) -> UNION Range(States)] :
                        \A s \in Range(Services) : f[s] \in States[Kind[s]]}
        /\ served = {s \in Range(Services) : Serving(s, state[s])}
        /\ cur = 1 /\ i = 1 /\ restarts = 0
        /\ statuses = <<>>
        /\ pc = "probe" /\ why = "none"

-----------------------------------------------------------------------------
Target == Services[cur]

\* A wait function returned 0; after the last one the script reports success.
Succeed == /\ IF cur = Len(Services)
              THEN pc' = "ready" /\ UNCHANGED <<cur, i>>
              ELSE pc' = "probe" /\ cur' = cur + 1 /\ i' = 1
           /\ UNCHANGED why

\* Mutation: the script goes on with the next service.
FailAndGoOn(reason) == Succeed

\* It returned 1, which ends the script (set -e).
Fail(reason) == /\ pc' = "failed" /\ why' = reason
                /\ UNCHANGED <<cur, i>>

\* Mutations: one attempt too many; the attempts are not counted.
MissTooOften == IF i <= MaxWait[Target]
                THEN pc' = "probe" /\ i' = i + 1 /\ UNCHANGED <<cur, why>>
                ELSE Fail("timeout")
MissUncounted == pc' = "probe" /\ UNCHANGED <<cur, i, why>>

\* sleep 1 and the next attempt, if there is one.
Miss == IF i < MaxWait[Target]
        THEN pc' = "probe" /\ i' = i + 1 /\ UNCHANGED <<cur, why>>
        ELSE Fail("timeout")

\* wait_http, wait_elasticsearch and wait_tcp.  curl has no time limit: the
\* probe of a hung service does not return.
Probe == /\ pc = "probe" /\ Kind[Target] # "postgres"
         /\ \/ Serving(Target, state[Target]) /\ Succeed
            \/ state[Target] \notin {"up", "hung"} /\ Miss
         /\ UNCHANGED <<service, restarts, statuses>>

\* docker inspect in wait_postgres.
Status == CASE state[Target] \in {"starting", "init", "up"} -> "running"
            [] OTHER                                        -> state[Target]

Inspect ==
  /\ pc = "probe" /\ Kind[Target] = "postgres"
  /\ statuses' = Append(statuses, Status)
  /\ \/ Status = "running" /\ pc' = "exec" /\ UNCHANGED <<cur, i, restarts, why>>
     \/ Status = "created" /\ Miss /\ UNCHANGED restarts
     \/ Status = "stopped" /\ Fail("stopped") /\ UNCHANGED restarts
     \/ /\ Status = "restarting"
        /\ restarts' = restarts + 1
        /\ IF restarts' >= RestartLimit THEN Fail("loop") ELSE Miss
  /\ UNCHANGED service

\* Mutation: the count is not reset.
PgIsReadyNoReset == /\ pc = "exec"
                    /\ IF Serving(Target, state[Target]) THEN Succeed ELSE Miss
                    /\ UNCHANGED <<service, restarts, statuses>>

\* docker exec pg_isready, when the container may have changed again.
PgIsReady == /\ pc = "exec"
             /\ IF Serving(Target, state[Target])
                THEN Succeed /\ UNCHANGED restarts
                ELSE Miss /\ restarts' = 0
             /\ UNCHANGED <<service, statuses>>

Script == Probe \/ Inspect \/ PgIsReady

-----------------------------------------------------------------------------
\* docker and the services themselves.
Change(s) == /\ \E st \in States[Kind[s]] \ {state[s]} :
                  /\ state' = [state EXCEPT ![s] = st]
                  /\ served' = IF Serving(s, st) THEN served \cup {s} ELSE served
             /\ UNCHANGED <<cur, i, restarts, statuses, pc, why>>

Next == Script \/ \E s \in Range(Services) : Change(s)

Spec == Init /\ [][Next]_vars

FairSpec == Spec /\ WF_vars(Script)

-----------------------------------------------------------------------------
TypeOK == /\ state \in [Range(Services) -> UNION Range(States)]
          /\ \A s \in Range(Services) : state[s] \in States[Kind[s]]
          /\ served \in SUBSET Range(Services)
          /\ cur \in DOMAIN Services
          /\ i \in 1..MaxWait[Target]
          /\ restarts \in 0..RestartLimit
          /\ statuses \in Seq({"running", "created", "stopped", "restarting"})
          /\ pc \in {"probe", "exec", "ready", "failed"}
          /\ why \in {"none", "timeout", "stopped", "loop"}

\* The script ends with success only if every service could serve at some
\* moment since it began: none that gave out its attempts is passed over.
\* (It need not serve any more: services are probed one after the other.)
ReadyMeansServed == pc = "ready" => served = Range(Services)

\* The polls that saw postgres restarting since the last one that saw it
\* running.  Those that saw it not started yet are left aside.
Streak ==
  {k \in DOMAIN statuses :
     /\ statuses[k] = "restarting"
     /\ \A j \in k..Len(statuses) : statuses[j] \in {"restarting", "created"}}

\* postgres is said to be in a restart loop exactly if that many polls in a
\* row saw it restarting: a poll that saw it running begins the count again,
\* and the count of one streak never runs on into the next.
LoopMeansRestarts == why = "loop" <=> Cardinality(Streak) = RestartLimit

\* The script ends, whatever the services do, unless one of them hangs.
Hanging == \E s \in Range(Services) : state[s] = "hung"
EndsUnlessHung == <>[]~Hanging => <>(pc \in {"ready", "failed"})
=============================================================================
