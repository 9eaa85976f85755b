------------------------------ MODULE RestRepl ------------------------------
(***************************************************************************)
(* qdrant-cli and elasticsearch-cli: a loop of reader.ReadString('\n'), a  *)
(* strings.Builder for a command typed over several lines, executeCommand  *)
(* that splits the command at blanks into method, path and body, and one   *)
(* HTTP request at a time with a client timeout.  After a PUT that creates *)
(* an index elasticsearch-cli polls the index's health; qdrant-cli's \l    *)
(* asks for the list of collections and then for each of them.             *)
(*                                                                         *)
(* A trimmed line is a sequence of words; a blank line is one empty word,  *)
(* which is what it leaves in the builder.  `semi` says that the last word *)
(* has a ";" at its end.                                                   *)
(***************************************************************************)
EXTENDS Naturals, SequencesExt

CONSTANTS Lines,        \* the trimmed lines that may be typed
          BadMethods,   \* first words that http.NewRequest refuses as a method
          BadPaths,     \* paths that it cannot parse after host:port
          Terminated,   \* for paths typed at the end of a line, the path with ";"
          NameIn,       \* for the paths "/{name}...", without "/_", their name
          MaxLines,     \* bound on the number of lines typed
          MaxTimeouts,  \* bound on the requests the client gives up on
          MaxPolls      \* maxRetries of waitForIndexReady, 60 in the code

\* slash: "none" or, for a line that starts with a backslash, what it does:
\* leave, list the collections or indices, show other data, or nothing that
\* needs the service (help, clear, unknown).
ASSUME LinesAssumption ==
  \A l \in Lines : /\ l.slash \in {"none", "quit", "list", "info", "local"}
                   /\ l.words \in Seq(STRING) /\ l.words # <<>>
                   /\ l.semi \in BOOLEAN
ASSUME PathsAssumption == \A p \in DOMAIN Terminated : Terminated[p] \in STRING
ASSUME BoundsAssumption ==
  MaxLines \in Nat /\ MaxTimeouts \in Nat /\ MaxPolls \in Nat \ {0}

Names == {NameIn[p] : p \in DOMAIN NameIn}

VARIABLES cli,         \* the program: "qdrant" or "elasticsearch"
          typed,       \* the lines ReadString has returned so far (history)
          builder,     \* multiLineQuery: numbers of the lines written to it
          text,        \* and their words
          inMultiLine,
          queries,     \* line numbers of the queries executed (history)
          requests,    \* the requests sent for them (history)
          replies,     \* what the user was told of each request
          applied,     \* numbers of the requests the server processed, in order
          accepted,    \* those it answered with a status below 400
          timeouts,    \* requests the client gave up on so far
          live,        \* the collections there are, or the indices that are
                       \* ready: yellow or green, no shard initializing
          gone,        \* names that ceased to be live (history): in qdrant-cli
                       \* since the listing under way was answered, in
                       \* elasticsearch-cli since they were last reported ready
          polls,       \* i of waitForIndexReady
          table,       \* the listing under way
          pc           \* "prompt", "waiting", "polling", "listing", "reading",
                       \* "done", "crashed"

loopVars == <<cli, typed, builder, text, inMultiLine, queries>>
httpVars == <<requests, replies, applied, accepted, timeouts>>
serviceVars == <<live, gone>>
readVars == <<serviceVars, polls, table>>
vars == <<loopVars, httpVars, readVars, pc>>

\* Names of the list, those still to be asked for, the rows of the table and
\* the lookups that failed although the collection was there.
NoTable == [listed |-> {}, todo |-> {}, rows |-> {}, skipped |-> {}]

Init == /\ cli \in {"qdrant", "elasticsearch"}
        /\ typed = <<>> /\ builder = <<>> /\ text = <<>> /\ queries = <<>>
        /\ inMultiLine = FALSE
        /\ requests = <<>> /\ replies = <<>> /\ applied = <<>>
        /\ accepted = {}
        /\ timeouts = 0 /\ polls = 0
        /\ live = {} /\ gone = {} /\ table = NoTable
        /\ pc = "prompt"

-----------------------------------------------------------------------------
Here == Len(typed) + 1
Blank(l) == l.words = <<"">> /\ ~l.semi

\* Mutation: the next line is read while a request is under way.
ReadAhead(l) == /\ pc \in {"prompt", "waiting"}
                /\ Len(typed) < MaxLines
                /\ typed' = Append(typed, l)

Read(l) == /\ pc = "prompt"
           /\ Len(typed) < MaxLines
           /\ typed' = Append(typed, l)

Special(l) == ~inMultiLine /\ l.slash # "none"

\* listCollections makes its first request; listIndices, showClusterInfo and
\* showClusterHealth make their only one.
BackslashCommand(l) ==
  /\ Read(l)
  /\ Special(l)
  /\ pc' = CASE l.slash = "quit" -> "done"
             [] l.slash = "list" -> IF cli = "qdrant" THEN "listing" ELSE "reading"
             [] l.slash = "info" -> "reading"
             [] OTHER            -> pc
  /\ UNCHANGED <<cli, builder, text, inMultiLine, queries, httpVars, readVars>>

SkipBlank(l) == /\ Read(l)
                /\ ~inMultiLine /\ Blank(l)
                /\ UNCHANGED <<cli, builder, text, inMultiLine, queries, httpVars, readVars, pc>>

AddLine(l) == /\ Read(l)
              /\ ~Special(l) /\ ~l.semi
              /\ inMultiLine \/ ~Blank(l)
              /\ builder' = Append(builder, Here)
              /\ text' = text \o l.words
              /\ inMultiLine' = TRUE
              /\ UNCHANGED <<cli, queries, httpVars, readVars, pc>>

-----------------------------------------------------------------------------
\* executeCommand and makeRequest, for a command of words w.  Lines in the
\* builder are separated, and followed, by a blank; SplitN(command, " ", 3)
\* then gives method, path and the rest, if there is one.  A terminator that
\* is still there belongs to the last word, which may be the path.
Path(w, semi) == IF semi /\ Len(w) = 2 /\ w[2] \in DOMAIN Terminated
                 THEN Terminated[w[2]] ELSE w[2]

Request(w, semi) ==
  [method |-> w[1], path |-> Path(w, semi), body |-> SubSeq(w, 3, Len(w)), semi |-> semi]

\* Fewer than two words: the usage is shown.
Usage(w) == Len(w) < 2 /\ pc' = pc /\ UNCHANGED httpVars

Unbuildable(w, semi) == w[1] \in BadMethods \/ Path(w, semi) \in BadPaths

\* http.NewRequest fails.  With a body the header is then set on a nil
\* request, unless the error is looked at first.
NoRequest(w, semi) == /\ Len(w) >= 2
                      /\ Unbuildable(w, semi)
                      /\ pc' = IF Len(w) = 2 \/ cli = "elasticsearch" THEN pc ELSE "crashed"
                      /\ UNCHANGED httpVars

Send(w, semi) == /\ Len(w) >= 2
                 /\ ~Unbuildable(w, semi)
                 /\ requests' = Append(requests, Request(w, semi))
                 /\ pc' = "waiting"
                 /\ UNCHANGED <<replies, applied, accepted, timeouts>>

\* The command is made of the lines q.
ExecuteCommand(q, w, semi) == /\ queries' = Append(queries, q)
                              /\ Usage(w) \/ NoRequest(w, semi) \/ Send(w, semi)
                              /\ UNCHANGED <<cli, readVars>>

\* The ";" of a single line is trimmed.
SingleLine(l) == /\ Read(l)
                 /\ ~Special(l) /\ ~inMultiLine /\ l.semi
                 /\ ExecuteCommand(<<Here>>, l.words, FALSE)
                 /\ UNCHANGED <<builder, text, inMultiLine>>

\* Mutation: the builder is not reset.
LastLineWithoutReset(l) ==
  /\ Read(l)
  /\ inMultiLine /\ l.semi
  /\ ExecuteCommand(Append(builder, Here), text \o l.words, TRUE)
  /\ inMultiLine' = FALSE
  /\ UNCHANGED <<builder, text>>

\* The ";" in the builder is followed by the blank written after every line,
\* so TrimSuffix does not find it and it stays at the end of the query.
LastLine(l) == /\ Read(l)
               /\ inMultiLine /\ l.semi
               /\ ExecuteCommand(Append(builder, Here), text \o l.words, TRUE)
               /\ builder' = <<>> /\ text' = <<>>
               /\ inMultiLine' = FALSE

\* ReadString returned io.EOF; a last line without a line break is not used.
EndOfInput == /\ pc = "prompt"
              /\ pc' = "done"
              /\ UNCHANGED <<loopVars, httpVars, readVars>>

-----------------------------------------------------------------------------
\* The service.  What a PUT of a name creates: a collection at once, an index
\* whose shards start later.
Created(r) == IF r.method = "PUT" /\ r.path \in DOMAIN NameIn
              THEN {NameIn[r.path]} ELSE {}

\* It processes a request, maybe after the client gave up on it.
Apply(n) == /\ n \in DOMAIN requests \ Range(applied)
            /\ applied' = Append(applied, n)
            /\ \/ /\ accepted' = accepted \cup {n}
                  /\ live' = IF cli = "qdrant" THEN live \cup Created(requests[n]) ELSE live
               \/ UNCHANGED <<accepted, live>>
            /\ UNCHANGED <<loopVars, requests, replies, timeouts, gone, polls, table, pc>>

\* Shards start, or another client creates a collection.
Appear(c) == /\ live' = live \cup {c}
             /\ UNCHANGED <<loopVars, httpVars, gone, polls, table, pc>>

\* Shards are lost, or another client deletes a collection or an index.
Vanish(c) == /\ c \in live
             /\ live' = live \ {c}
             /\ gone' = IF cli = "elasticsearch" \/ table # NoTable
                        THEN gone \cup {c} ELSE gone
             /\ UNCHANGED <<loopVars, httpVars, polls, table, pc>>

-----------------------------------------------------------------------------
Tell(reply) == /\ replies' = Append(replies, reply)
               /\ pc' = "prompt"

\* The index executeCommand waits for after a response.
Awaited(r) == IF cli = "elasticsearch" THEN Created(r) ELSE {}

\* client.Do returned a response; from 400 on it is shown as an error.
Reply == /\ pc = "waiting"
         /\ Len(requests) \in Range(applied)
         /\ \/ Len(requests) \notin accepted /\ Tell("error")
            \/ /\ Len(requests) \in accepted
               /\ IF Awaited(Last(requests)) = {}
                  THEN Tell("response")
                  ELSE pc' = "polling" /\ UNCHANGED replies
         /\ polls' = 0
         /\ UNCHANGED <<loopVars, requests, applied, accepted, timeouts, serviceVars, table>>

\* client.Do returned an error: no connection, or http.Client.Timeout.
Timeout == /\ pc = "waiting"
           /\ timeouts < MaxTimeouts
           /\ timeouts' = timeouts + 1
           /\ Tell("error")
           /\ UNCHANGED <<loopVars, requests, applied, accepted, readVars>>

\* The index waited for is reported ready: what was lost before is over.
TellReady == /\ Tell("response")
             /\ gone' = gone \ Awaited(Last(requests))

\* waitForIndexReady: the health request says that the index is ready.
PollReady == /\ pc = "polling"
             /\ Awaited(Last(requests)) \subseteq live
             /\ TellReady
             /\ UNCHANGED <<loopVars, requests, applied, accepted, timeouts, live, polls, table>>

\* Mutations: a poll that failed is not counted; it ends the wait; the polls
\* go on after the last one.
PollNotCounted == /\ pc = "polling"
                  /\ IF polls + 1 < MaxPolls THEN UNCHANGED <<replies, pc>> ELSE Tell("warned")
                  /\ UNCHANGED <<loopVars, requests, applied, accepted, timeouts, readVars>>
PollErrorIsReady == /\ pc = "polling"
                    /\ TellReady
                    /\ UNCHANGED <<loopVars, requests, applied, accepted, timeouts, live, polls, table>>
PollTooOften == /\ pc = "polling"
                /\ polls' = polls + 1
                /\ IF polls' <= MaxPolls THEN UNCHANGED <<replies, pc>> ELSE Tell("warned")
                /\ UNCHANGED <<loopVars, requests, applied, accepted, timeouts, serviceVars, table>>

\* It says that it is not, or fails, which it may at any time; the response
\* of the PUT is shown after the last poll, with a warning.
PollAgain == /\ pc = "polling"
             /\ polls' = polls + 1
             /\ IF polls' < MaxPolls THEN UNCHANGED <<replies, pc>> ELSE Tell("warned")
             /\ UNCHANGED <<loopVars, requests, applied, accepted, timeouts, serviceVars, table>>

\* listIndices, showClusterInfo, showClusterHealth: data or an error is shown.
ShowData == /\ pc = "reading"
            /\ pc' = "prompt"
            /\ UNCHANGED <<loopVars, httpVars, readVars>>

\* listCollections: the request for the list is answered.
List == /\ pc = "listing" /\ table = NoTable /\ live # {}
        /\ table' = [NoTable EXCEPT !.listed = live, !.todo = live]
        /\ gone' = {}
        /\ UNCHANGED <<loopVars, httpVars, live, polls, pc>>

\* It failed, or there are no collections.
ListNothing == /\ pc = "listing" /\ table = NoTable
               /\ pc' = "prompt"
               /\ UNCHANGED <<loopVars, httpVars, readVars>>

\* Mutation: the first lookup that fails ends the loop.
LookupOrStop(c) ==
  /\ pc = "listing" /\ c \in table.todo
  /\ table' = IF c \in live
              THEN [table EXCEPT !.todo = @ \ {c}, !.rows = @ \cup {c}]
              ELSE [table EXCEPT !.todo = {}]
  /\ UNCHANGED <<loopVars, httpVars, serviceVars, polls, pc>>

\* A collection is looked up; if that fails it has no row.
Lookup(c) ==
  /\ pc = "listing" /\ c \in table.todo
  /\ \/ /\ c \in live
        /\ table' = [table EXCEPT !.todo = @ \ {c}, !.rows = @ \cup {c}]
     \/ table' = [table EXCEPT !.todo = @ \ {c}, !.skipped = @ \cup ({c} \cap live)]
  /\ UNCHANGED <<loopVars, httpVars, serviceVars, polls, pc>>

\* table.Render
Render == /\ pc = "listing" /\ table # NoTable /\ table.todo = {}
          /\ table' = NoTable /\ gone' = {}
          /\ pc' = "prompt"
          /\ UNCHANGED <<loopVars, httpVars, live, polls>>

Loop == \/ \E l \in Lines : \/ BackslashCommand(l) \/ SkipBlank(l) \/ AddLine(l)
                            \/ SingleLine(l) \/ LastLine(l)
        \/ EndOfInput

\* The CLI in the middle of a command.
Client == \/ Reply \/ Timeout
          \/ PollReady \/ PollAgain
          \/ ShowData
          \/ List \/ ListNothing \/ (\E c \in Names : Lookup(c)) \/ Render

Service == \E n \in DOMAIN requests : Apply(n)

Others == \E c \in Names : Appear(c) \/ Vanish(c)

Next == Loop \/ Client \/ Service \/ Others

Spec == Init /\ [][Next]_vars

\* A command runs to its end, and the service answers what it was sent unless
\* the client gives up first.
FairSpec == Spec /\ WF_vars(Client) /\ WF_vars(Service)

-----------------------------------------------------------------------------
TypeOK == /\ typed \in Seq(Lines) /\ Len(typed) <= MaxLines
          /\ builder \in Seq(DOMAIN typed)
          /\ text \in Seq(STRING)
          /\ inMultiLine \in BOOLEAN
          /\ queries \in Seq(Seq(DOMAIN typed))
          /\ requests \in Seq([method : STRING, path : STRING,
                               body : Seq(STRING), semi : BOOLEAN])
          /\ replies \in Seq({"response", "error", "warned"})
          /\ applied \in Seq(DOMAIN requests)
          /\ accepted \subseteq Range(applied)
          /\ timeouts \in 0..MaxTimeouts
          /\ cli \in {"qdrant", "elasticsearch"}
          /\ live \in SUBSET Names /\ gone \in SUBSET Names
          /\ polls \in 0..MaxPolls
          /\ table \in [listed : SUBSET Names, todo : SUBSET Names,
                       rows : SUBSET Names, skipped : SUBSET Names]
          /\ pc \in {"prompt", "waiting", "polling", "listing", "reading",
                    "done", "crashed"}

\* The builder holds text exactly while a command is being typed, and each
\* query is an uninterrupted run of lines that ends at its first ";": no
\* line is executed twice, left out, or carried over into the next command.
QueriesAreRunsOfLines ==
  /\ inMultiLine <=> builder # <<>>
  /\ LET all == Append(queries, builder)
     IN  /\ \A k \in DOMAIN all : \A a \in 2..Len(all[k]) : all[k][a] = all[k][a - 1] + 1
         /\ \A k, m \in DOMAIN all : k < m =>
              \A i \in Range(all[k]), j \in Range(all[m]) : i < j
         /\ \A k \in DOMAIN all : \A a \in DOMAIN all[k] :
              typed[all[k][a]].semi <=> k <= Len(queries) /\ a = Len(all[k])
         /\ builder # <<>> => Last(builder) = Len(typed)

\* What is shown as a response was processed before anything typed after it;
\* only a request the client gave up on may come after later ones.
AppliedAsTyped ==
  \A i, j \in DOMAIN applied :
    /\ i < j
    /\ applied[j] \in DOMAIN replies /\ replies[applied[j]] = "response"
    => applied[i] < applied[j]

\* Once the prompt is back without a warning a new index is ready, whatever
\* polls failed on the way, and it is so for the commands typed next; only
\* one that was lost after it was last reported ready is not.  An index that
\* is created again is waited for again.
IndexReadyAtPrompt ==
  \A n \in DOMAIN replies :
    replies[n] = "response" => Awaited(requests[n]) \subseteq live \cup gone

\* The table of collections lacks none that was there all along, unless its
\* own lookup failed, and shows none that was not in the list: collections
\* that other clients create and delete while it is made change nothing else.
ListingComplete ==
  /\ table.rows \subseteq table.listed
  /\ table.listed \subseteq table.todo \cup table.rows \cup table.skipped \cup gone

\* Every command comes to an end, the wait for an index that never gets ready
\* included.
Busy == pc \in {"waiting", "polling", "listing", "reading"}
CommandEnds == Busy ~> ~Busy

=============================================================================
