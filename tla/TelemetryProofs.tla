-------------------------- MODULE TelemetryProofs --------------------------
(***************************************************************************)
(* What the store loses and what its answers claim, for any events,        *)
(* batches, queries, retention and limits.  An accepted event is gone only *)
(* when it is expired or the table is full of events at least as new; the  *)
(* difficulty is that the second reason has to survive later transactions, *)
(* which delete the events it refers to.  And an answer claims no more     *)
(* than what was held when its statements ran, with transactions between   *)
(* them.  Type correctness includes the answers: each is of the kind its   *)
(* tool gives, whatever its statements returned.                           *)
(***************************************************************************)
EXTENDS Telemetry, FiniteSetTheorems, SequenceTheorems, TLAPS

\* What the transactions keep true of the table and of the history.
StoreInv ==
    /\ now \in Int
    /\ stored \subseteq accepted /\ accepted \subseteq Events
    /\ Cardinality(stored) <= MaxEvents

LossInv == StoreInv /\ OnlyTheOldestAreLost

(* A set of events is finite, its events have times, its size is a number. *)
LEMMA SetsOfEvents ==
  ASSUME NEW S \in SUBSET Events
  PROVE  IsFiniteSet(S) /\ Cardinality(S) \in Nat /\ \A e \in S : e.at \in Int
<1>1. IsFiniteSet(S)
  BY EventsAssumption, FS_Subset
<1>2. Cardinality(S) \in Nat
  BY <1>1, FS_CardinalityType
<1>3. \A e \in S : e.at \in Int
  BY EventsAssumption DEF Event
<1> QED
  BY <1>1, <1>2, <1>3

(* A set of events that is no smaller than one it is part of is that set.  *)
LEMMA FullSubset ==
  ASSUME NEW S \in SUBSET Events, NEW T \in SUBSET S, Cardinality(T) >= Cardinality(S)
  PROVE  T = S
<1>1. IsFiniteSet(S) /\ Cardinality(S) \in Nat /\ T \in SUBSET Events
  BY SetsOfEvents
<1>2. Cardinality(T) \in Nat
  BY <1>1, SetsOfEvents
<1>3. Cardinality(T) <= Cardinality(S) /\ (Cardinality(S) = Cardinality(T) => S = T)
  BY <1>1, FS_Subset
<1> QED
  BY <1>1, <1>2, <1>3

(* What the bound keeps: a part, within the bound; and if anything is left *)
(* out, exactly the bound, and nothing older than what is left out.        *)
LEMMA NewestKeeps ==
  ASSUME NEW S \in SUBSET Events, NEW K \in Newest(S)
  PROVE  /\ K \subseteq S /\ Cardinality(K) <= MaxEvents
         /\ K # S => Cardinality(K) = MaxEvents /\ \A k \in K, d \in S \ K : d.at <= k.at
<1>1. MaxEvents \in Nat /\ Cardinality(S) \in Nat
  BY TelemetryAssumption, SetsOfEvents
<1>2. CASE Cardinality(S) <= MaxEvents
  BY <1>1, <1>2 DEF Newest
<1>3. CASE ~(Cardinality(S) <= MaxEvents)
  BY <1>1, <1>3 DEF Newest
<1> QED
  BY <1>2, <1>3

(* An event that a full table had displaced stays displaced: whatever the  *)
(* transaction deletes makes room only for events that are no older.       *)
LEMMA DisplacedStays ==
  ASSUME StoreInv, NEW batch \in Batches, NEW K \in Newest(Unexpired(stored \cup batch)),
         NEW e \in Events, e.at >= now - Retention,
         Cardinality({f \in stored : f.at >= e.at}) >= MaxEvents
  PROVE  Cardinality({f \in K : f.at >= e.at}) >= MaxEvents
<1> DEFINE X == Unexpired(stored \cup batch)
           N == {f \in stored : f.at >= e.at}
<1>1. /\ MaxEvents \in Nat /\ Retention \in Int /\ now \in Int
      /\ stored \in SUBSET Events /\ X \in SUBSET Events /\ batch \in SUBSET Events
  BY TelemetryAssumption DEF StoreInv, Unexpired
<1>2. /\ K \in SUBSET Events /\ K \subseteq X /\ Cardinality(K) <= MaxEvents
      /\ K # X => Cardinality(K) = MaxEvents /\ \A k \in K, d \in X \ K : d.at <= k.at
  BY <1>1, NewestKeeps
<1>3. Cardinality(stored) \in Nat /\ Cardinality(K) \in Nat /\ Cardinality(N) \in Nat
  BY <1>1, <1>2, SetsOfEvents
<1>4. N = stored
  <2>1. Cardinality(N) >= Cardinality(stored)
    BY <1>1, <1>3 DEF StoreInv
  <2> QED
    BY <1>1, <2>1, FullSubset
<1>5. Cardinality(stored) = MaxEvents
  BY <1>1, <1>3, <1>4 DEF StoreInv
<1>6. \A f \in stored : f.at >= e.at /\ f.at \in Int
  BY <1>1, <1>4, SetsOfEvents
<1>7. stored \subseteq X
  <2> SUFFICES ASSUME NEW f \in stored PROVE f.at >= now - Retention
    BY DEF Unexpired
  <2>1. e.at \in Int /\ f.at \in Int /\ f.at >= e.at
    BY <1>6, EventsAssumption DEF Event
  <2> QED
    BY <1>1, <2>1
<1>8. Cardinality(K) = MaxEvents
  <2>1. CASE K # X
    BY <1>2, <2>1
  <2>2. CASE K = X
    <3>1. Cardinality(stored) <= Cardinality(K)
      BY <1>1, <1>2, <1>7, <2>2, SetsOfEvents, FS_Subset
    <3> QED
      BY <1>1, <1>2, <1>3, <1>5, <3>1
  <2> QED
    BY <2>1, <2>2
<1>9. \A k \in K : k.at >= e.at
  <2> SUFFICES ASSUME NEW k \in K, ~(k.at >= e.at) PROVE FALSE
    OBVIOUS
  <2>1. k.at \in Int /\ e.at \in Int
    BY <1>2, EventsAssumption DEF Event
  <2>2. k \notin stored
    BY <1>6
  <2>3. PICK d \in stored : d \notin K
    <3>1. stored \subseteq K => stored = K
      BY <1>1, <1>2, <1>5, <1>8, FullSubset
    <3> QED
      BY <2>2, <3>1
  <2>4. d \in X \ K
    BY <1>7, <2>3
  <2>5. d.at <= k.at
    BY <1>2, <2>4
  <2> QED
    BY <1>6, <2>1, <2>3, <2>5
<1>10. {f \in K : f.at >= e.at} = K
  BY <1>9
<1>11. Cardinality({f \in K : f.at >= e.at}) = MaxEvents
  BY <1>8, <1>10, Zenon
<1> QED
  BY <1>1, <1>11

(* A transaction loses an event only for one of the two reasons.           *)
LEMMA IngestStep ==
  ASSUME LossInv, NEW batch \in Batches, Ingest(batch)
  PROVE  LossInv'
<1> DEFINE U == stored \cup batch
           X == Unexpired(U)
<1>1. /\ MaxEvents \in Nat /\ Retention \in Int /\ now \in Int /\ now' = now
      /\ U \in SUBSET Events /\ X \in SUBSET Events /\ X \subseteq U
      /\ accepted' = accepted \cup batch /\ stored' \in Newest(X)
  BY TelemetryAssumption DEF LossInv, StoreInv, Ingest, Unexpired
<1>2. /\ stored' \subseteq X /\ Cardinality(stored') <= MaxEvents
      /\ stored' # X => /\ Cardinality(stored') = MaxEvents
                        /\ \A k \in stored', d \in X \ stored' : d.at <= k.at
  BY <1>1, NewestKeeps
<1>3. StoreInv'
  BY <1>1, <1>2, TelemetryAssumption DEF LossInv, StoreInv
<1>4. OnlyTheOldestAreLost'
  <2> SUFFICES ASSUME NEW e \in accepted' \ stored', ~(e.at < now - Retention)
               PROVE  Cardinality({f \in stored' : f.at >= e.at}) >= MaxEvents
    BY <1>1 DEF OnlyTheOldestAreLost
  <2>1. e \in Events /\ e.at \in Int /\ e.at >= now - Retention
    BY <1>1, <1>3, EventsAssumption DEF StoreInv, Event
  <2>2. CASE e \in U
    <3>1. e \in X \ stored'
      BY <2>1, <2>2 DEF Unexpired
    <3>2. Cardinality(stored') = MaxEvents /\ \A k \in stored' : e.at <= k.at
      BY <1>2, <3>1
    <3>3. \A k \in stored' : k.at \in Int
      BY <1>1, <1>2, SetsOfEvents
    <3>4. {f \in stored' : f.at >= e.at} = stored'
      BY <2>1, <3>2, <3>3
    <3>5. Cardinality({f \in stored' : f.at >= e.at}) = MaxEvents
      BY <3>2, <3>4, Zenon
    <3> QED
      BY <1>1, <3>5
  <2>3. CASE e \notin U
    <3>1. e \in accepted \ stored
      BY <1>1, <2>3
    <3>2. Cardinality({f \in stored : f.at >= e.at}) >= MaxEvents
      BY <3>1 DEF LossInv, OnlyTheOldestAreLost
    <3> QED
      BY <1>1, <2>1, <3>2, DisplacedStays DEF LossInv
  <2> QED
    BY <2>2, <2>3
<1> QED
  BY <1>3, <1>4 DEF LossInv

LEMMA LossInit == Init => LossInv
  BY FS_EmptySet, TelemetryAssumption DEF Init, LossInv, StoreInv, OnlyTheOldestAreLost

LEMMA LossStep == LossInv /\ [Next]_vars => LossInv'
<1> SUFFICES ASSUME LossInv, [Next]_vars PROVE LossInv'
  OBVIOUS
<1>1. ASSUME UNCHANGED <<now, store>> PROVE LossInv'
  BY <1>1 DEF LossInv, StoreInv, OnlyTheOldestAreLost, store
<1>2. CASE Tick
  <2>1. now' = now + 1 /\ stored' = stored /\ accepted' = accepted
    BY <1>2 DEF Tick, store
  <2>2. \A e \in accepted : e.at < now - Retention => e.at < now' - Retention
    BY <2>1, EventsAssumption, TelemetryAssumption DEF LossInv, StoreInv, Event
  <2> QED
    BY <2>1, <2>2 DEF LossInv, StoreInv, OnlyTheOldestAreLost
<1>3. ASSUME NEW batch \in Batches, Ingest(batch) PROVE LossInv'
  BY <1>3, IngestStep
<1>4. ASSUME NEW q \in Queries, Ask(q) PROVE LossInv'
  BY <1>1, <1>4 DEF Ask
<1>5. CASE Read \/ ReadFails
  BY <1>1, <1>5 DEF Read, ReadFails
<1>6. CASE Answer \/ AnswerUnavailable \/ NoAnswer
  BY <1>1, <1>6 DEF Answer, AnswerUnavailable, NoAnswer
<1>7. CASE UNCHANGED vars
  BY <1>1, <1>7 DEF vars
<1> QED
  BY <1>2, <1>3, <1>4, <1>5, <1>6, <1>7 DEF Next

(* An accepted event is gone only if it is expired or displaced by a full  *)
(* table of events at least as new (telemetry.py:137-158), for every bound *)
(* and retention and every order in which batches arrive.                  *)
THEOREM LossesAreOld == Spec => []OnlyTheOldestAreLost
<1>1. LossInv => OnlyTheOldestAreLost
  BY DEF LossInv
<1> QED
  BY <1>1, LossInit, LossStep, PTL DEF Spec
\* A batch that is delivered again displaces nothing: if the table still holds it,
\* the transaction only removes what has expired (telemetry.py:144-157).
RepeatsDisplaceNothing ==
    [][\A batch \in Batches :
          batch \subseteq stored /\ Ingest(batch) => stored' = Unexpired(stored)]_vars

THEOREM RepeatsNeverDisplace == Spec => RepeatsDisplaceNothing
<1> DEFINE Harmless == \A batch \in Batches :
                          batch \subseteq stored /\ Ingest(batch) => stored' = Unexpired(stored)
<1>1. LossInv /\ [Next]_vars => [Harmless]_vars
  <2> SUFFICES ASSUME LossInv, NEW batch \in Batches, batch \subseteq stored, Ingest(batch)
               PROVE  stored' = Unexpired(stored)
    BY DEF Harmless
  <2> DEFINE X == Unexpired(stored)
  <2>1. stored \cup batch = stored /\ stored \in SUBSET Events /\ X \in SUBSET stored
    BY DEF LossInv, StoreInv, Unexpired
  <2>2. stored' \in Newest(X)
    BY <2>1 DEF Ingest
  <2>3. Cardinality(X) <= Cardinality(stored) /\ Cardinality(X) \in Nat
        /\ Cardinality(stored) \in Nat
    BY <2>1, SetsOfEvents, FS_Subset
  <2>4. Cardinality(X) <= MaxEvents
    BY <2>3, TelemetryAssumption DEF LossInv, StoreInv
  <2>5. QED
    BY <2>2, <2>4 DEF Newest
<1>2. QED
  BY <1>1, LossInit, LossStep, PTL DEF Spec, RepeatsDisplaceNothing
-----------------------------------------------------------------------------
(* What an answer claims.  A statement that is not truncated returned all  *)
(* that the table held; a statistic goes on only over such statements; and *)
(* an answer is made of no statement but its own, all of which were run.   *)

FetchedRows == [rows : SUBSET Events, truncated : BOOLEAN, held : SUBSET Events]

Sound(f) == f.rows \subseteq f.held /\ (~f.truncated => f.rows = f.held)

\* What one or two statements of the call in progress returned.
CallInv ==
    call # NoCall =>
        /\ call \in [query : Queries, done : Seq(FetchedRows), failed : BOOLEAN]
        /\ Len(call.done) <= Len(Statements(call.query))
        /\ \A i \in DOMAIN call.done : Sound(call.done[i])
        /\ call.query.tool \in Aggregates /\ ~call.failed =>
               \A i \in DOMAIN call.done : ~call.done[i].truncated

\* ResultsAreHonest, of one answer.
Honest(a) ==
    LET everything == UNION {a.held[i] : i \in DOMAIN a.held}
    IN  /\ \A i \in DOMAIN a.data.summaries : a.data.summaries[i] = Summary(a.held[i])
        /\ a.data.edges # {} => a.data.edges = Edges(a.held[1], a.query.service)
        /\ a.data.records \subseteq everything
        /\ a.data.whole => a.data.records = everything
        /\ a.available => everything # {}

HonestInv == LossInv /\ CallInv /\ ResultsAreHonest

(* A call takes one statement, or two; each of them has a limit.           *)
LEMMA StatementsOf ==
  ASSUME NEW q \in Queries
  PROVE  /\ Len(Statements(q)) \in {1, 2}
         /\ \A i \in 1..Len(Statements(q)) : Statements(q)[i].limit \in Nat
         /\ q.tool \in {"get_service_map", "search_logs"} => Len(Statements(q)) = 1
         /\ q.tool = "get_trace" => Len(Statements(q)) = 2
<1>1. q.tool \in Tools /\ q.limit \in Nat
  BY EventsAssumption DEF Query
<1>2. {MaxRows, TraceSpans, TraceLogs} \subseteq Nat
  BY TelemetryAssumption
<1>3. CASE q.tool = "query_metrics"
  BY <1>2, <1>3 DEF Statements, Select
<1>4. CASE q.tool = "get_service_health"
  <2>1. CASE q.service = "any"
    BY <1>2, <1>4, <2>1 DEF Statements, Select
  <2>2. CASE q.service # "any"
    BY <1>2, <1>4, <2>2 DEF Statements, Select
  <2> QED
    BY <2>1, <2>2
<1>5. CASE q.tool = "get_service_map"
  BY <1>2, <1>5 DEF Statements, Select
<1>6. CASE q.tool = "search_logs"
  <2> DEFINE s == [Select("log", q.service, q.trace, q.limit) EXCEPT
                      !.level = q.level, !.newest = TRUE]
  <2>1. s.limit = q.limit
    BY DEF Select
  <2>2. Statements(q) = <<s>>
    BY <1>6 DEF Statements
  <2> HIDE DEF s
  <2>3. Len(Statements(q)) = 1 /\ Statements(q)[1] = s
    BY <2>2
  <2> QED
    BY <1>1, <1>6, <2>1, <2>3
<1>7. CASE q.tool = "get_trace"
  BY <1>2, <1>7 DEF Statements, Select
<1> QED
  BY <1>1, <1>3, <1>4, <1>5, <1>6, <1>7 DEF Tools, Aggregates

(* What a statement returns is part of what is held; all of it, unless the *)
(* statement is truncated.                                                 *)
LEMMA FetchedIsSound ==
  ASSUME NEW S \in SUBSET Events, NEW s, s.limit \in Nat, NEW F \in Fetched(S, s)
  PROVE  F \subseteq S /\ (~Truncated(S, s) => F = S)
<1>1. Cardinality(S) \in Nat
  BY SetsOfEvents
<1>2. CASE Cardinality(S) <= s.limit
  BY <1>2 DEF Fetched
<1>3. CASE ~(Cardinality(S) <= s.limit)
  BY <1>1, <1>3 DEF Fetched, Truncated
<1> QED
  BY <1>2, <1>3

LEMMA AskCall ==
  ASSUME NEW q \in Queries, Ask(q)
  PROVE  CallInv'
<1>1. call' = [query |-> q, done |-> <<>>, failed |-> FALSE]
  BY DEF Ask
<1>2. call'.query = q /\ call'.done = <<>> /\ Len(call'.done) = 0 /\ call'.failed = FALSE
  BY <1>1
<1>3. Len(Statements(q)) \in {1, 2}
  BY StatementsOf
<1>4. call' \in [query : Queries, done : Seq(FetchedRows), failed : BOOLEAN]
  BY <1>1
<1>5. DOMAIN call'.done = {}
  BY <1>2
<1> QED
  BY <1>2, <1>3, <1>4, <1>5 DEF CallInv

LEMMA ReadCall ==
  ASSUME StoreInv, CallInv, Read
  PROVE  CallInv'
<1> DEFINE q == call.query
           s == Statements(q)[Len(call.done) + 1]
           S == Matching(q, s)
           aggregate == q.tool \in Aggregates
<1>1. /\ call \in [query : Queries, done : Seq(FetchedRows), failed : BOOLEAN]
      /\ ~call.failed /\ Len(call.done) < Len(Statements(q))
      /\ \A i \in DOMAIN call.done : Sound(call.done[i])
      /\ aggregate => \A i \in DOMAIN call.done : ~call.done[i].truncated
  BY DEF Read, Reading, CallInv
<1>2. q \in Queries /\ call.done \in Seq(FetchedRows) /\ Len(call.done) \in Nat
  BY <1>1
<1>3. Len(Statements(q)) \in {1, 2} /\ s.limit \in Nat
  BY <1>1, <1>2, StatementsOf
<1>4. S \in SUBSET Events
  BY DEF StoreInv, Matching
<1>5. PICK F \in Fetched(S, s) :
         call' = [call EXCEPT
             !.done = Append(@, [rows |-> F, truncated |-> Truncated(S, s), held |-> S]),
             !.failed = aggregate /\ Truncated(S, s)]
  BY DEF Read
<1> DEFINE f == [rows |-> F, truncated |-> Truncated(S, s), held |-> S]
<1>6. F \subseteq S /\ (~Truncated(S, s) => F = S)
  BY <1>3, <1>4, FetchedIsSound
<1>7. f \in FetchedRows /\ Sound(f)
  <2>1. f.rows = F /\ f.held = S /\ f.truncated = Truncated(S, s)
    OBVIOUS
  <2>2. F \in SUBSET Events /\ S \in SUBSET Events /\ Truncated(S, s) \in BOOLEAN
    BY <1>4, <1>6 DEF Truncated
  <2> HIDE DEF s, S
  <2>3. f \in FetchedRows
    BY <2>2 DEF FetchedRows
  <2> HIDE DEF f
  <2> QED
    BY <1>6, <2>1, <2>3 DEF Sound
<1>8. /\ call'.query = q /\ call'.done = Append(call.done, f)
      /\ call'.failed = (aggregate /\ Truncated(S, s))
      /\ call' \in [query : Queries, done : Seq(FetchedRows), failed : BOOLEAN]
  <2>1. Append(call.done, f) \in Seq(FetchedRows)
    BY <1>2, <1>7, AppendProperties
  <2>2. (aggregate /\ Truncated(S, s)) \in BOOLEAN
    BY DEF Truncated
  <2> HIDE DEF f, s, S, aggregate, q
  <2>3. call' = [call EXCEPT !.done = Append(@, f), !.failed = aggregate /\ Truncated(S, s)]
    BY <1>5 DEF f
  <2> QED
    BY <1>1, <2>1, <2>2, <2>3 DEF q
<1>9. /\ Len(call'.done) = Len(call.done) + 1
      /\ DOMAIN call'.done = 1..(Len(call.done) + 1)
      /\ \A i \in DOMAIN call'.done : call'.done[i] = f \/
             (i \in DOMAIN call.done /\ call'.done[i] = call.done[i])
  <2> HIDE DEF f
  <2>1. f \in FetchedRows
    BY <1>7
  <2> QED
    BY <1>2, <1>8, <2>1, AppendProperties
<1>10. \A i \in DOMAIN call'.done : Sound(call'.done[i])
  BY <1>1, <1>7, <1>9
<1>11. aggregate /\ ~call'.failed => \A i \in DOMAIN call'.done : ~call'.done[i].truncated
  BY <1>1, <1>8, <1>9
<1>12. Len(call'.done) <= Len(Statements(q))
  BY <1>1, <1>2, <1>3, <1>9
<1> QED
  BY <1>8, <1>10, <1>11, <1>12 DEF CallInv

LEMMA CallStep == StoreInv /\ CallInv /\ [Next]_vars => CallInv'
<1> SUFFICES ASSUME StoreInv, CallInv, [Next]_vars PROVE CallInv'
  OBVIOUS
<1>1. ASSUME UNCHANGED call PROVE CallInv'
  BY <1>1 DEF CallInv
<1>2. ASSUME NEW q \in Queries, Ask(q) PROVE CallInv'
  BY <1>2, AskCall
<1>3. CASE Read
  BY <1>3, ReadCall
<1>4. CASE ReadFails
  BY <1>4 DEF ReadFails, Reading, CallInv
<1>5. CASE Answer \/ AnswerUnavailable \/ NoAnswer
  BY <1>5 DEF Answer, AnswerUnavailable, NoAnswer, CallInv
<1>6. ASSUME NEW batch \in Batches, Ingest(batch) PROVE CallInv'
  BY <1>1, <1>6 DEF Ingest, reader
<1>7. CASE Tick \/ UNCHANGED vars
  BY <1>1, <1>7 DEF Tick, vars, reader
<1> QED
  BY <1>2, <1>3, <1>4, <1>5, <1>6, <1>7 DEF Next

LEMMA BlankHonest ==
  ASSUME NEW a, a.data = Blank, a.available = FALSE
  PROVE  Honest(a)
<1>1. /\ a.data.summaries = <<>> /\ a.data.edges = {} /\ a.data.records = {}
      /\ a.data.whole = FALSE
  BY DEF Blank
<1> QED
  BY <1>1 DEF Honest

(* Nothing is seen in no spans.                                            *)
LEMMA NothingObserved ==
  ASSUME NEW service
  PROVE  Observed({}, service) = {}
<1>1. Calling({}) = {}
  BY DEF Calling
<1>2. Edges({}, service) = {}
  BY <1>1 DEF Edges
<1> QED
  BY <1>2 DEF Observed

(* The answer that Answer saves, made of all its statements, is honest.    *)
LEMMA DataHonest ==
  ASSUME CallInv, call # NoCall, ~call.failed, ~Reading,
         NEW a,
         a = [query |-> call.query, data |-> Data(call.query, call.done),
              available |-> Available(Data(call.query, call.done)),
              held |-> [i \in DOMAIN call.done |-> call.done[i].held]]
  PROVE  Honest(a)
<1> DEFINE q == call.query
           done == call.done
           data == Data(q, done)
           everything == UNION {a.held[i] : i \in DOMAIN a.held}
<1>1. /\ q \in Queries /\ done \in Seq(FetchedRows)
      /\ Len(done) <= Len(Statements(q))
      /\ \A i \in DOMAIN done : Sound(done[i])
      /\ q.tool \in Aggregates => \A i \in DOMAIN done : ~done[i].truncated
  BY DEF CallInv
<1>2. Len(done) = Len(Statements(q)) /\ Len(done) \in {1, 2} /\ DOMAIN done = 1..Len(done)
  BY <1>1, StatementsOf DEF Reading
<1>3. \A i \in DOMAIN done : done[i] \in FetchedRows /\ done[i].rows \subseteq done[i].held
  BY <1>1 DEF Sound
<1>4. /\ DOMAIN a.held = DOMAIN done /\ \A i \in DOMAIN done : a.held[i] = done[i].held
      /\ a.query = q /\ a.data = data /\ a.available = Available(data)
  OBVIOUS
<1>5. \A i \in DOMAIN done : done[i].rows \subseteq everything
  BY <1>3, <1>4
<1>6. q.tool \in Tools
  BY <1>1, EventsAssumption DEF Query
<1>7. q.tool \in Aggregates => \A i \in DOMAIN done : done[i].rows = done[i].held
  BY <1>1 DEF Sound
<1> HIDE DEF q, done, data
<1>8. CASE q.tool \in {"query_metrics", "get_service_health"}
  <2>1. /\ data.summaries = [i \in DOMAIN done |-> Summary(done[i].rows)]
        /\ data.edges = {} /\ data.services = {} /\ data.records = {} /\ data.whole = FALSE
    BY <1>8 DEF data, Data, Blank
  <2>2. \A i \in DOMAIN done : done[i].rows = a.held[i]
    BY <1>4, <1>7, <1>8 DEF Aggregates
  <2>3. /\ DOMAIN data.summaries = DOMAIN done
        /\ \A i \in DOMAIN done : data.summaries[i] = Summary(a.held[i])
    BY <2>1, <2>2
  <2>4. a.available => everything # {}
    <3> SUFFICES ASSUME a.available PROVE everything # {}
      OBVIOUS
    <3>1. PICK i \in DOMAIN done : data.summaries[i].requests > 0
      BY <1>4, <2>1, <2>3 DEF Available
    <3>2. Cardinality(done[i].rows) > 0
      BY <2>1, <3>1 DEF Summary
    <3>3. done[i].rows # {}
      <4>1. Cardinality({}) = 0
        BY FS_EmptySet
      <4>2. ~(0 > 0)
        OBVIOUS
      <4> QED
        BY <3>2, <4>1, <4>2, Zenon
    <3> QED
      BY <1>5, <3>3
  <2> QED
    BY <1>4, <2>1, <2>3, <2>4 DEF Honest
<1>9. CASE q.tool = "get_service_map"
  <2>1. /\ data.summaries = <<>> /\ data.edges = Edges(done[1].rows, q.service)
        /\ data.services = Observed(done[1].rows, q.service)
        /\ data.records = {} /\ data.whole = FALSE
    BY <1>9 DEF data, Data, Blank
  <2>2. 1 \in DOMAIN done /\ done[1].rows = a.held[1]
    BY <1>2, <1>4, <1>7, <1>9 DEF Aggregates
  <2>3. a.available => everything # {}
    <3> SUFFICES ASSUME a.available PROVE everything # {}
      OBVIOUS
    <3>1. Observed(done[1].rows, q.service) # {}
      BY <1>4, <2>1 DEF Available
    <3>2. done[1].rows # {}
      BY <3>1, NothingObserved
    <3> QED
      BY <1>5, <2>2, <3>2
  <2>4. DOMAIN data.summaries = {}
    BY <2>1
  <2> QED
    BY <1>4, <2>1, <2>2, <2>3, <2>4 DEF Honest
<1>10. CASE q.tool = "search_logs"
  <2>1. /\ data.summaries = <<>> /\ data.edges = {} /\ data.services = {}
        /\ data.records = done[1].rows /\ data.whole = ~done[1].truncated
    BY <1>10 DEF data, Data, Blank
  <2>2. DOMAIN done = {1}
    BY <1>1, <1>2, <1>10, StatementsOf
  <2>3. everything = done[1].held /\ Sound(done[1])
    BY <1>1, <1>4, <2>2 DEF done
  <2>4. DOMAIN data.summaries = {}
    BY <2>1
  <2>5. a.available => data.records # {}
    BY <1>4, <2>1, <2>4 DEF Available
  <2> QED
    BY <1>4, <2>1, <2>3, <2>4, <2>5 DEF Honest, Sound
<1>11. CASE q.tool = "get_trace"
  <2>1. /\ data.summaries = <<>> /\ data.edges = {} /\ data.services = {}
        /\ data.records = done[1].rows \cup done[2].rows
        /\ data.whole => ~done[1].truncated /\ ~done[2].truncated
    BY <1>11 DEF data, Data, Blank
  <2>2. DOMAIN done = {1, 2}
    BY <1>1, <1>2, <1>11, StatementsOf
  <2>3. everything = done[1].held \cup done[2].held /\ Sound(done[1]) /\ Sound(done[2])
    BY <1>1, <1>4, <2>2 DEF done
  <2>4. DOMAIN data.summaries = {}
    BY <2>1
  <2>5. a.available => data.records # {}
    BY <1>4, <2>1, <2>4 DEF Available
  <2> QED
    BY <1>4, <2>1, <2>3, <2>4, <2>5 DEF Honest, Sound
<1> QED
  BY <1>6, <1>8, <1>9, <1>10, <1>11 DEF Tools, Aggregates

LEMMA HonestStep == CallInv /\ ResultsAreHonest /\ [Next]_vars => ResultsAreHonest'
<1> SUFFICES ASSUME CallInv, ResultsAreHonest, [Next]_vars PROVE ResultsAreHonest'
  OBVIOUS
<1>1. \A a \in evidence : Honest(a)
  BY DEF ResultsAreHonest, Honest
<1>2. ASSUME \A a \in evidence' : a \in evidence \/ Honest(a) PROVE ResultsAreHonest'
  BY <1>1, <1>2 DEF ResultsAreHonest, Honest
<1> DEFINE held == [i \in DOMAIN call.done |-> call.done[i].held]
           blank == [query |-> call.query, data |-> Blank, available |-> FALSE, held |-> held]
<1>3. Honest(blank)
  BY BlankHonest
<1>4. CASE Answer
  <2> DEFINE data == Data(call.query, call.done)
             full == [query |-> call.query, data |-> data, available |-> Available(data),
                      held |-> held]
  <2>1. Honest(full)
    BY <1>4, DataHonest DEF Answer
  <2>2. evidence' = evidence \cup {blank} \/ evidence' = evidence \cup {full}
    BY <1>4 DEF Answer, Saved
  <2> HIDE DEF blank, full
  <2> QED
    BY <1>2, <1>3, <2>1, <2>2
<1>5. CASE AnswerUnavailable
  <2>1. evidence' = evidence \cup {blank}
    BY <1>5 DEF AnswerUnavailable, Saved
  <2> HIDE DEF blank
  <2> QED
    BY <1>2, <1>3, <2>1
<1>6. ASSUME UNCHANGED evidence PROVE ResultsAreHonest'
  BY <1>2, <1>6
<1>7. ASSUME NEW batch \in Batches, Ingest(batch) PROVE ResultsAreHonest'
  BY <1>6, <1>7 DEF Ingest, reader
<1>8. ASSUME NEW q \in Queries, Ask(q) PROVE ResultsAreHonest'
  BY <1>6, <1>8 DEF Ask
<1>9. CASE Tick \/ Read \/ ReadFails \/ NoAnswer \/ UNCHANGED vars
  BY <1>6, <1>9 DEF Tick, Read, ReadFails, NoAnswer, vars, reader
<1> QED
  BY <1>4, <1>5, <1>7, <1>8, <1>9 DEF Next

(* Whatever the receiver stores and deletes between the statements of a    *)
(* call, no answer claims more than was held when it was read              *)
(* (mcp_server.py:155-290), for any queries and any limits.                *)
THEOREM ResultsAlwaysHonest == Spec => []ResultsAreHonest
<1>1. Init => HonestInv
  <2>1. Init => CallInv /\ ResultsAreHonest
    BY DEF Init, CallInv, ResultsAreHonest
  <2> QED
    BY <2>1, LossInit DEF HonestInv
<1>2. HonestInv /\ [Next]_vars => HonestInv'
  BY LossStep, CallStep, HonestStep DEF HonestInv, LossInv
<1>3. HonestInv => ResultsAreHonest
  BY DEF HonestInv
<1> QED
  BY <1>1, <1>2, <1>3, PTL DEF Spec
-----------------------------------------------------------------------------
(* What an answer is made of: counts are numbers, edges are between the    *)
(* two services, records are events.                                       *)

LEMMA SummaryTyped ==
  ASSUME NEW rows \in SUBSET Events
  PROVE  /\ Summary(rows) \in Summaries
         /\ Summary(rows).requests \in Nat /\ Summary(rows).errors \in Nat
<1>1. Cardinality(rows) \in Nat /\ Cardinality({e \in rows : e.error}) \in Nat
  BY SetsOfEvents
<1> QED
  BY <1>1 DEF Summary, Summaries

LEMMA EdgesTyped ==
  ASSUME NEW spans \in SUBSET Events, NEW service
  PROVE  /\ Edges(spans, service) \subseteq
               [source : Services, target : Services, requests : Nat, errors : Nat]
         /\ Observed(spans, service) \subseteq Services
<1> DEFINE Of(c) == {e \in Calling(spans) : e.service = c.service /\ e.peer = c.peer}
           Edge(c) == [source |-> c.service, target |-> c.peer,
                       requests |-> Summary(Of(c)).requests,
                       errors |-> Summary(Of(c)).errors]
           Typed == [source : Services, target : Services, requests : Nat, errors : Nat]
<1>1. \A c \in Calling(spans) : Edge(c) \in Typed
  <2> SUFFICES ASSUME NEW c \in Calling(spans) PROVE Edge(c) \in Typed
    OBVIOUS
  <2>1. c.service \in Services /\ c.peer \in Services
    BY EventsAssumption DEF Event, Calling
  <2>2. Of(c) \in SUBSET Events
    BY DEF Calling
  <2>3. Summary(Of(c)).requests \in Nat /\ Summary(Of(c)).errors \in Nat
    BY <2>2, SummaryTyped
  <2> HIDE DEF Of
  <2> QED
    BY <2>1, <2>3
<1>2. Edges(spans, service) \subseteq Typed
  <2>1. Edges(spans, service) =
            {Edge(c) : c \in {e \in Calling(spans) : service \in {"any", e.service, e.peer}}}
    BY DEF Edges
  <2> HIDE DEF Edge, Typed
  <2> QED
    BY <1>1, <2>1
<1>3. \A e \in spans : e.service \in Services
  BY EventsAssumption DEF Event
<1>4. \A e \in Edges(spans, service) : e.source \in Services /\ e.target \in Services
  BY <1>2
<1>5. Observed(spans, service) \subseteq Services
  BY <1>3, <1>4 DEF Observed
<1> QED
  BY <1>2, <1>5

LEMMA BlankTyped == Blank \in Results
<1>1. <<>> \in Seq(Summaries)
  OBVIOUS
<1> QED
  BY <1>1 DEF Blank, Results

(* The data of a call whose statements have all been run.                  *)
LEMMA DataTyped ==
  ASSUME NEW q \in Queries, NEW done \in Seq(FetchedRows), Len(done) = Len(Statements(q))
  PROVE  Data(q, done) \in Results /\ Available(Data(q, done)) \in BOOLEAN
<1>1. /\ Len(done) \in {1, 2} /\ DOMAIN done = 1..Len(done)
      /\ q.tool \in {"get_service_map", "search_logs"} => Len(done) = 1
      /\ q.tool = "get_trace" => Len(done) = 2
  BY StatementsOf
<1>2. \A i \in DOMAIN done : done[i].rows \in SUBSET Events /\ done[i].truncated \in BOOLEAN
  <2>1. \A i \in DOMAIN done : done[i] \in FetchedRows
    OBVIOUS
  <2> QED
    BY <2>1 DEF FetchedRows
<1>3. q.tool \in Tools
  BY EventsAssumption DEF Query
<1>4. CASE q.tool \in {"query_metrics", "get_service_health"}
  <2> DEFINE summaries == [i \in DOMAIN done |-> Summary(done[i].rows)]
  <2>1. \A i \in 1..Len(done) : Summary(done[i].rows) \in Summaries
    BY <1>1, <1>2, SummaryTyped
  <2>2. summaries \in Seq(Summaries)
    <3>1. summaries \in [1..Len(done) -> Summaries] /\ Len(done) \in Nat
      BY <1>1, <2>1
    <3> QED
      BY <3>1, SeqDef
  <2>3. Data(q, done) = [Blank EXCEPT !.summaries = summaries]
    BY <1>4 DEF Data
  <2> HIDE DEF summaries
  <2> QED
    BY <2>2, <2>3 DEF Blank, Results, Available
<1>5. CASE q.tool = "get_service_map"
  <2> DEFINE rows == done[1].rows
             edges == Edges(rows, q.service)
             services == Observed(rows, q.service)
  <2>1. rows \in SUBSET Events
    BY <1>1, <1>2
  <2>2. /\ edges \in SUBSET [source : Services, target : Services, requests : Nat, errors : Nat]
        /\ services \in SUBSET Services
    BY <2>1, EdgesTyped
  <2>3. Data(q, done) = [Blank EXCEPT !.edges = edges, !.services = services]
    BY <1>5 DEF Data
  <2> HIDE DEF edges, services
  <2> QED
    BY <2>2, <2>3, BlankTyped DEF Blank, Results, Available
<1>6. CASE q.tool = "search_logs"
  <2>1. done[1].rows \in SUBSET Events /\ done[1].truncated \in BOOLEAN
    BY <1>1, <1>2
  <2>2. Data(q, done) = [Blank EXCEPT !.records = done[1].rows, !.whole = ~done[1].truncated]
    BY <1>6 DEF Data
  <2> QED
    BY <2>1, <2>2, BlankTyped DEF Blank, Results, Available
<1>7. CASE q.tool = "get_trace"
  <2> DEFINE records == done[1].rows \cup done[2].rows
             whole == /\ done[1].rows # {} /\ Linked(done[1].rows)
                      /\ ~done[1].truncated /\ ~done[2].truncated
  <2>1. 1 \in DOMAIN done /\ 2 \in DOMAIN done
    <3>1. DOMAIN done = 1..2
      BY <1>1, <1>7, Zenon
    <3> QED
      BY <3>1
  <2>2. records \in SUBSET Events
    BY <1>2, <2>1
  <2>3. whole \in BOOLEAN
    OBVIOUS
  <2>4. Data(q, done) = [Blank EXCEPT !.records = records, !.whole = whole]
    BY <1>7 DEF Data
  <2> HIDE DEF records, whole
  <2> QED
    BY <2>2, <2>3, <2>4, BlankTyped DEF Blank, Results, Available
<1> QED
  BY <1>3, <1>4, <1>5, <1>6, <1>7 DEF Tools, Aggregates

\* TypeOK, of time, of the calls begun and of the answers.
EvidenceInv ==
    /\ now \in 0..MaxNow /\ asked \in 0..MaxCalls
    /\ \A a \in evidence :
           a.query \in Queries /\ a.data \in Results /\ a.available \in BOOLEAN

LEMMA EvidenceStep == CallInv /\ EvidenceInv /\ [Next]_vars => EvidenceInv'
<1> SUFFICES ASSUME CallInv, EvidenceInv, [Next]_vars PROVE EvidenceInv'
  OBVIOUS
<1> USE TelemetryAssumption DEF EvidenceInv
<1>1. CASE Tick
  BY <1>1 DEF Tick, reader
<1>2. ASSUME NEW batch \in Batches, Ingest(batch) PROVE EvidenceInv'
  BY <1>2 DEF Ingest, reader
<1>3. ASSUME NEW q \in Queries, Ask(q) PROVE EvidenceInv'
  BY <1>3 DEF Ask
<1>4. CASE Read \/ ReadFails \/ NoAnswer
  BY <1>4 DEF Read, ReadFails, NoAnswer
<1> DEFINE Saves(data, available) ==
               Saved(data, available) /\ UNCHANGED <<now, asked>>
<1>5. ASSUME call # NoCall, NEW data \in Results, NEW available \in BOOLEAN,
             Saves(data, available)
      PROVE  EvidenceInv'
  <2> DEFINE a == [query |-> call.query, data |-> data, available |-> available,
                   held |-> [i \in DOMAIN call.done |-> call.done[i].held]]
  <2>1. a.query \in Queries /\ a.data = data /\ a.available = available
    BY <1>5 DEF CallInv
  <2>2. evidence' = evidence \cup {a} /\ now' = now /\ asked' = asked
    BY <1>5 DEF Saved
  <2> HIDE DEF a
  <2> QED
    BY <1>5, <2>1, <2>2
<1>6. CASE Answer
  <2>1. /\ call.query \in Queries /\ call.done \in Seq(FetchedRows)
        /\ Len(call.done) = Len(Statements(call.query))
    <3>1. /\ call.query \in Queries /\ call.done \in Seq(FetchedRows)
          /\ Len(call.done) <= Len(Statements(call.query))
          /\ ~(Len(call.done) < Len(Statements(call.query)))
      BY <1>6 DEF CallInv, Answer, Reading
    <3>2. Len(call.done) \in Nat /\ Len(Statements(call.query)) \in Nat
      BY <3>1, StatementsOf
    <3> QED
      BY <3>1, <3>2
  <2> DEFINE data == Data(call.query, call.done)
  <2>2. data \in Results /\ Available(data) \in BOOLEAN
    BY <2>1, DataTyped
  <2>3. call # NoCall /\ (Saves(Blank, FALSE) \/ Saves(data, Available(data)))
    BY <1>6 DEF Answer, store
  <2> HIDE DEF data, Saves
  <2> QED
    BY <1>5, <2>2, <2>3, BlankTyped
<1>7. CASE AnswerUnavailable
  <2>1. call # NoCall
    <3>1. call.failed /\ NoCall.failed = FALSE
      BY <1>7 DEF AnswerUnavailable, NoCall
    <3> QED
      BY <3>1, Zenon
  <2>2. Saves(Blank, FALSE)
    BY <1>7 DEF AnswerUnavailable, store
  <2> HIDE DEF Saves
  <2> QED
    BY <1>5, <2>1, <2>2, BlankTyped
<1>8. CASE UNCHANGED vars
  BY <1>8 DEF vars, reader
<1> QED
  BY <1>1, <1>2, <1>3, <1>4, <1>6, <1>7, <1>8 DEF Next

(* The table never exceeds its bound and every answer has the shape its    *)
(* reader expects (telemetry.py:154-157, mcp_server.py:176-290), for any   *)
(* events, queries and limits.                                             *)
THEOREM TypeCorrect == Spec => []TypeOK
<1> DEFINE Inv == StoreInv /\ OnlyTheOldestAreLost /\ CallInv /\ EvidenceInv
<1>1. Init => Inv
  <2>1. Init => CallInv /\ EvidenceInv
    BY TelemetryAssumption DEF Init, CallInv, EvidenceInv
  <2> QED
    BY <2>1, LossInit DEF LossInv
<1>2. Inv /\ [Next]_vars => Inv'
  BY LossStep, CallStep, EvidenceStep DEF LossInv
<1>3. Inv => TypeOK
  BY DEF StoreInv, CallInv, EvidenceInv, TypeOK
<1> QED
  BY <1>1, <1>2, <1>3, PTL DEF Spec
=============================================================================
