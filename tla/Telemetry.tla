----------------------------- MODULE Telemetry -----------------------------
(***************************************************************************)
(* The telemetry store and its reader: the receiver stores batches of      *)
(* measured events (telemetry.py); the MCP server, another process on the  *)
(* same database, answers the five telemetry tools from it and keeps each  *)
(* answer as evidence (mcp_server.py).                                     *)
(*                                                                         *)
(* An answer takes one or two SQL statements, each of which sees the       *)
(* database as of one moment; the receiver may store and delete between    *)
(* them.  A record's id is the hash of its content, so that an event is    *)
(* its own identity and a batch received twice is stored once.             *)
(***************************************************************************)
EXTENDS Integers, FiniteSets, Sequences

CONSTANTS
    Events,      \* the events the services can measure, records as in Event below
    Batches,     \* the batches the exporters can post
    Queries,     \* the queries asked, records as in Query below
    Retention,   \* RETENTION_SECONDS
    Skew,        \* clock skew tolerated (60 seconds)
    MaxEvents,   \* MAX_EVENTS
    MaxRows,     \* MAX_QUERY_ROWS
    TraceSpans, TraceLogs,  \* the limits of get_trace (50 and 30)
    MaxRecords,  \* records that fit in MAX_RESPONSE_BYTES
    MaxNow,      \* bound on time
    MaxCalls     \* bound on the tool calls

ASSUME TelemetryAssumption ==
    /\ Batches \subseteq SUBSET Events
    /\ {Retention, Skew, MaxNow, MaxCalls} \subseteq Nat
    /\ {MaxEvents, MaxRows, TraceSpans, TraceLogs, MaxRecords} \subseteq Nat \ {0}

Services == {"orders-service", "inventory-service"}

\* What the reader looks at of an event; peer is set on client spans only, and
\* error stands for a status of 500 or more.
Event == [kind : {"span", "metric", "log"}, service : Services, at : Int,
          trace : STRING, span : STRING, parent : STRING,
          peer : Services \cup {"none"}, error : BOOLEAN]

Aggregates == {"query_metrics", "get_service_health", "get_service_map"}
Tools == Aggregates \cup {"search_logs", "get_trace"}

\* The canonical query of a call, with "any" for an absent filter.
Query == [tool : Tools, start : Int, end : Int, service : Services \cup {"any"},
          trace : STRING, level : {"any", "INFO", "ERROR"}, limit : Nat]

ASSUME EventsAssumption ==
    /\ IsFiniteSet(Events) /\ Events \subseteq Event
    /\ Queries \subseteq Query

NoCall == [query |-> [tool |-> "none"], done |-> <<>>, failed |-> FALSE]

VARIABLES
    now,       \* time
    stored,    \* the events table
    accepted,  \* history: the events of all batches stored so far
    call,      \* the tool call in progress and what its statements returned
    asked,     \* tool calls begun
    evidence   \* the answers saved, each with the history of its statements

store == <<stored, accepted>>
reader == <<call, asked, evidence>>
vars == <<now, store, reader>>

Init ==
    /\ now = 0
    /\ stored = {} /\ accepted = {}
    /\ call = NoCall /\ asked = 0 /\ evidence = {}
-----------------------------------------------------------------------------
(* TelemetryStore.ingest: one transaction.                                 *)

InBounds(e) == now - Retention <= e.at /\ e.at <= now + Skew

\* Mutant: an event exactly as old as the retention goes as well.
MutantUnexpired(S) == {e \in S : e.at > now - Retention}

Unexpired(S) == {e \in S : e.at >= now - Retention}

\* Mutant: the table has no bound.
MutantNewest(S) == {S}

\* The newest MaxEvents events of S; the database chooses among equally old ones.
Newest(S) ==
    IF Cardinality(S) <= MaxEvents THEN {S}
    ELSE {K \in SUBSET S : /\ Cardinality(K) = MaxEvents
                           /\ \A k \in K, d \in S \ K : d.at <= k.at}

\* A batch with an event out of bounds, or that fails to be stored, is refused
\* as a whole and changes nothing.
Ingest(batch) ==
    /\ \A e \in batch : InBounds(e)
    /\ stored' \in Newest(Unexpired(stored \cup batch))
    /\ accepted' = accepted \cup batch
    /\ UNCHANGED <<now, reader>>

Tick ==
    /\ now < MaxNow /\ now' = now + 1
    /\ UNCHANGED <<store, reader>>
-----------------------------------------------------------------------------
(* TelemetryReader._read: one statement.                                   *)

\* What the tools ask for; newest says which end of the window a limit keeps.
Select(kind, service, trace, limit) ==
    [kind |-> kind, service |-> service, trace |-> trace, level |-> "any",
     limit |-> limit, newest |-> FALSE]

Statements(q) ==
    CASE q.tool = "query_metrics" \/ (q.tool = "get_service_health" /\ q.service # "any") ->
            <<Select("metric", q.service, "any", MaxRows)>>
      [] q.tool = "get_service_health" /\ q.service = "any" ->
            <<Select("metric", "orders-service", "any", MaxRows),
              Select("metric", "inventory-service", "any", MaxRows)>>
      [] q.tool = "get_service_map" ->
            <<Select("span", "any", "any", MaxRows)>>
      [] q.tool = "search_logs" ->
            <<[Select("log", q.service, q.trace, q.limit) EXCEPT
                  !.level = q.level, !.newest = TRUE]>>
      [] q.tool = "get_trace" ->
            <<Select("span", "any", q.trace, TraceSpans),
              Select("log", "any", q.trace, TraceLogs)>>

InWindow(q, e) == q.start <= e.at /\ e.at < q.end

Matching(q, s) ==
    {e \in stored : /\ InWindow(q, e) /\ e.kind = s.kind
                    /\ s.service \in {"any", e.service}
                    /\ s.trace \in {"any", e.trace}
                    /\ s.level \in {"any", IF e.error THEN "ERROR" ELSE "INFO"}}

\* The first rows of S in the statement's order, up to its limit.
Fetched(S, s) ==
    IF Cardinality(S) <= s.limit THEN {S}
    ELSE {F \in SUBSET S :
             /\ Cardinality(F) = s.limit
             /\ \A f \in F, r \in S \ F : IF s.newest THEN f.at >= r.at ELSE f.at <= r.at}

\* Mutant: no row more than the limit is fetched, so that none is ever missing.
MutantTruncated(S, s) == FALSE

Truncated(S, s) == Cardinality(S) > s.limit

Ask(q) ==
    /\ call = NoCall /\ asked < MaxCalls
    /\ asked' = asked + 1
    /\ call' = [query |-> q, done |-> <<>>, failed |-> FALSE]
    /\ UNCHANGED <<now, store, evidence>>

Reading == call # NoCall /\ ~call.failed /\ Len(call.done) < Len(Statements(call.query))

\* A statistic over part of the rows is given up (TelemetryUnavailable).
Read ==
    /\ Reading
    /\ LET s == Statements(call.query)[Len(call.done) + 1]
           S == Matching(call.query, s)
       IN  \E F \in Fetched(S, s) :
              call' = [call EXCEPT
                  !.done = Append(@, [rows |-> F, truncated |-> Truncated(S, s), held |-> S]),
                  !.failed = call.query.tool \in Aggregates /\ Truncated(S, s)]
    /\ UNCHANGED <<now, store, asked, evidence>>

\* The database is missing, locked, or takes more than two seconds.
ReadFails ==
    /\ Reading
    /\ call' = [call EXCEPT !.failed = TRUE]
    /\ UNCHANGED <<now, store, asked, evidence>>
-----------------------------------------------------------------------------
(* The five tools.                                                         *)

\* counts without rows are null in the code, and absent here.
Blank == [summaries |-> <<>>, edges |-> {}, services |-> {}, records |-> {}, whole |-> FALSE]

Summary(rows) ==
    [requests |-> Cardinality(rows), errors |-> Cardinality({e \in rows : e.error})]

Calling(spans) == {e \in spans : e.peer # "none"}

\* The edges between services that client spans show.
Edges(spans, service) ==
    {LET calls == {e \in Calling(spans) : e.service = c.service /\ e.peer = c.peer}
     IN  [source |-> c.service, target |-> c.peer,
          requests |-> Summary(calls).requests, errors |-> Summary(calls).errors] :
     c \in {e \in Calling(spans) : service \in {"any", e.service, e.peer}}}

Observed(spans, service) ==
    {e.service : e \in {s \in spans : service \in {"any", s.service}}}
        \cup {e.source : e \in Edges(spans, service)}
        \cup {e.target : e \in Edges(spans, service)}

\* Every parent is there, and every call has a span of the service called.
Linked(spans) ==
    /\ \A e \in spans : e.parent # "none" => \E p \in spans : p.span = e.parent
    /\ \A c \in Calling(spans) : \E e \in spans : e.parent = c.span /\ e.service = c.peer

Data(q, done) ==
    CASE q.tool \in {"query_metrics", "get_service_health"} ->
            [Blank EXCEPT !.summaries = [i \in DOMAIN done |-> Summary(done[i].rows)]]
      [] q.tool = "get_service_map" ->
            [Blank EXCEPT !.edges = Edges(done[1].rows, q.service),
                          !.services = Observed(done[1].rows, q.service)]
      [] q.tool = "search_logs" ->
            [Blank EXCEPT !.records = done[1].rows, !.whole = ~done[1].truncated]
      [] q.tool = "get_trace" ->
            [Blank EXCEPT !.records = done[1].rows \cup done[2].rows,
                          !.whole = /\ done[1].rows # {} /\ Linked(done[1].rows)
                                    /\ ~done[1].truncated /\ ~done[2].truncated]

Available(data) ==
    \/ \E i \in DOMAIN data.summaries : data.summaries[i].requests > 0
    \/ data.services \cup data.records # {}

Saved(data, available) ==
    evidence' = evidence \cup
        {[query |-> call.query, data |-> data, available |-> available,
          held |-> [i \in DOMAIN call.done |-> call.done[i].held]]}

\* The answer, unless it is too large for a response, is saved and returned.
Answer ==
    /\ call # NoCall /\ ~call.failed /\ ~Reading
    /\ LET data == Data(call.query, call.done)
       IN  IF Cardinality(data.records) > MaxRecords
             THEN Saved(Blank, FALSE)
             ELSE Saved(data, Available(data))
    /\ call' = NoCall
    /\ UNCHANGED <<now, store, asked>>

\* An unavailable answer is evidence too.
AnswerUnavailable ==
    /\ call.failed
    /\ Saved(Blank, FALSE)
    /\ call' = NoCall
    /\ UNCHANGED <<now, store, asked>>

\* The evidence cannot be saved, or the process ends: the call is an error.
NoAnswer ==
    /\ call # NoCall
    /\ call' = NoCall
    /\ UNCHANGED <<now, store, asked, evidence>>

Next ==
    \/ \E batch \in Batches : Ingest(batch)
    \/ Tick
    \/ \E q \in Queries : Ask(q)
    \/ Read \/ ReadFails
    \/ Answer \/ AnswerUnavailable \/ NoAnswer

Spec == Init /\ [][Next]_vars
-----------------------------------------------------------------------------
Summaries == [requests : Nat, errors : Nat]
Results ==
    [summaries : Seq(Summaries),
     edges : SUBSET [source : Services, target : Services, requests : Nat, errors : Nat],
     services : SUBSET Services, records : SUBSET Events, whole : BOOLEAN]

\* Every variable stays in its range; the table never exceeds MAX_EVENTS
\* (telemetry.py:154-157).
TypeOK ==
    /\ now \in 0..MaxNow
    /\ stored \subseteq Events /\ Cardinality(stored) <= MaxEvents
    /\ accepted \subseteq Events
    /\ asked \in 0..MaxCalls
    /\ call = NoCall \/
         /\ call.query \in Queries /\ call.failed \in BOOLEAN
         /\ Len(call.done) <= Len(Statements(call.query))
    /\ \A a \in evidence :
         a.query \in Queries /\ a.data \in Results /\ a.available \in BOOLEAN

\* "Telemetry retention is 24 hours and at most 100,000 events" (architecture.md:41):
\* an accepted event is gone only if it is older than the retention, or as many
\* events as the table holds are at least as new, whatever was stored late, twice
\* or out of order (telemetry.py:142-157).
OnlyTheOldestAreLost ==
    \A e \in accepted \ stored :
        \/ e.at < now - Retention
        \/ Cardinality({f \in stored : f.at >= e.at}) >= MaxEvents

\* What an answer claims was so: its statistics cover all that the table held for
\* the window when they were read, never a part of it; logs that are not marked
\* truncated and a trace marked complete lack nothing that was held; and nothing
\* that was not held is claimed available, or counted (mcp_server.py:176-248,
\* architecture.md:55).
ResultsAreHonest ==
    \A a \in evidence :
        LET everything == UNION {a.held[i] : i \in DOMAIN a.held}
        IN  /\ \A i \in DOMAIN a.data.summaries : a.data.summaries[i] = Summary(a.held[i])
            /\ a.data.edges # {} => a.data.edges = Edges(a.held[1], a.query.service)
            /\ a.data.records \subseteq everything
            /\ a.data.whole => a.data.records = everything
            /\ a.available => everything # {}
=============================================================================
