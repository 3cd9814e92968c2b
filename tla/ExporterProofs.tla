--------------------------- MODULE ExporterProofs ---------------------------
(***************************************************************************)
(* Proofs about the telemetry exporter, for any requests, capacity and     *)
(* batch size: no observation is lost uncounted, none is stored twice, and *)
(* each step is one of module Delivery, or none.                           *)
(*                                                                         *)
(* The inductive invariant says where an observation can be: in the queue  *)
(* it is nowhere else; in the batch it is not counted; a batch given up on *)
(* is counted and, while it is under way, not stored.                      *)
(***************************************************************************)
EXTENDS Exporter, FiniteSetTheorems, FunctionTheorems, SequenceTheorems, TLAPS
-----------------------------------------------------------------------------
(* Sequences and the sets of their elements.                                *)

LEMMA Elements ==
  ASSUME NEW S, NEW s \in Seq(S)
  PROVE  /\ Len(s) \in Nat /\ DOMAIN s = 1..Len(s)
         /\ \A x : x \in ToSet(s) <=> \E i \in 1..Len(s) : x = s[i]
         /\ IsInjective(s) <=> \A i, j \in 1..Len(s) : s[i] = s[j] => i = j
         /\ ToSet(s) \subseteq S
<1>1. Len(s) \in Nat /\ DOMAIN s = 1..Len(s)
  BY LenProperties
<1>2. \A x : x \in ToSet(s) <=> \E i \in 1..Len(s) : x = s[i]
  BY <1>1 DEF ToSet
<1>3. IsInjective(s) <=> \A i, j \in 1..Len(s) : s[i] = s[j] => i = j
  BY <1>1 DEF IsInjective
<1>4. \A i \in 1..Len(s) : s[i] \in S
  BY ElementOfSeq
<1>5. QED
  BY <1>1, <1>2, <1>3, <1>4

LEMMA AppendedSet ==
  ASSUME NEW S, NEW s \in Seq(S), NEW e \in S
  PROVE  /\ Append(s, e) \in Seq(S) /\ Len(Append(s, e)) = Len(s) + 1
         /\ ToSet(Append(s, e)) = ToSet(s) \cup {e}
         /\ e \notin ToSet(s) /\ IsInjective(s) => IsInjective(Append(s, e))
<1>1. /\ Append(s, e) \in Seq(S) /\ Len(Append(s, e)) = Len(s) + 1 /\ Len(s) \in Nat
      /\ \A i \in 1..Len(s) : Append(s, e)[i] = s[i]
      /\ Append(s, e)[Len(s) + 1] = e
  BY AppendProperties, LenProperties
<1>2. \A x : x \in ToSet(Append(s, e)) <=> \E i \in 1..(Len(s) + 1) : x = Append(s, e)[i]
  <2>1. \A u \in Seq(S) : \A x : x \in ToSet(u) <=> \E i \in 1..Len(u) : x = u[i]
    BY Elements
  <2>2. Append(s, e) \in Seq(S) /\ Len(Append(s, e)) = Len(s) + 1
    BY <1>1
  <2>3. QED
    BY <2>1, <2>2, Zenon
<1>3. \A i \in 1..(Len(s) + 1) : i \in 1..Len(s) \/ i = Len(s) + 1
  BY <1>1
<1>4. \A i \in 1..Len(s) : i \in 1..(Len(s) + 1)
  BY <1>1
<1>5. ToSet(Append(s, e)) = ToSet(s) \cup {e}
  <2>1. Len(s) + 1 \in 1..(Len(s) + 1)
    BY <1>1
  <2>2. ASSUME NEW x PROVE x \in ToSet(Append(s, e)) <=> x \in ToSet(s) \/ x = e
    BY <1>1, <1>2, <1>3, <1>4, <2>1, Elements
  <2>3. QED
    BY <2>2
<1>6. ASSUME e \notin ToSet(s), IsInjective(s) PROVE IsInjective(Append(s, e))
  <2>1. \A i \in 1..Len(s) : s[i] # e
    BY <1>6, Elements
  <2>2. \A i, j \in 1..Len(s) : s[i] = s[j] => i = j
    BY <1>6, Elements
  <2>3. \A i, j \in 1..(Len(s) + 1) : Append(s, e)[i] = Append(s, e)[j] => i = j
    BY <1>1, <1>3, <2>1, <2>2
  <2>4. QED
    BY <1>1, <2>3, Elements
<1>7. QED
  BY <1>1, <1>5, <1>6

LEMMA ConcatenatedSet ==
  ASSUME NEW S, NEW s \in Seq(S), NEW t \in Seq(S)
  PROVE  /\ s \o t \in Seq(S) /\ ToSet(s \o t) = ToSet(s) \cup ToSet(t)
         /\ IsInjective(s \o t) <=> /\ IsInjective(s) /\ IsInjective(t)
                                    /\ ToSet(s) \cap ToSet(t) = {}
<1>1. /\ s \o t \in Seq(S) /\ Len(s \o t) = Len(s) + Len(t)
      /\ Len(s) \in Nat /\ Len(t) \in Nat
      /\ \A i \in 1..(Len(s) + Len(t)) : (s \o t)[i] = IF i <= Len(s) THEN s[i] ELSE t[i - Len(s)]
  BY ConcatProperties, LenProperties
<1>2. \A i \in 1..Len(s) : i \in 1..(Len(s) + Len(t)) /\ (s \o t)[i] = s[i]
  BY <1>1
<1>3. \A i \in 1..Len(t) : /\ i + Len(s) \in 1..(Len(s) + Len(t))
                           /\ (s \o t)[i + Len(s)] = t[i]
  BY <1>1
<1>4. \A i \in 1..(Len(s) + Len(t)) :
         \/ i \in 1..Len(s) /\ (s \o t)[i] = s[i]
         \/ i - Len(s) \in 1..Len(t) /\ (s \o t)[i] = t[i - Len(s)]
  BY <1>1
<1>5. \A x : x \in ToSet(s \o t) <=> \E i \in 1..(Len(s) + Len(t)) : x = (s \o t)[i]
  <2>1. \A u \in Seq(S) : \A x : x \in ToSet(u) <=> \E i \in 1..Len(u) : x = u[i]
    BY Elements
  <2>2. s \o t \in Seq(S) /\ Len(s \o t) = Len(s) + Len(t)
    BY <1>1
  <2>3. QED
    BY <2>1, <2>2, Zenon
<1>6. ToSet(s \o t) = ToSet(s) \cup ToSet(t)
  <2>1. ASSUME NEW x \in ToSet(s \o t) PROVE x \in ToSet(s) \cup ToSet(t)
    BY <1>4, <1>5, Elements
  <2>2. ASSUME NEW x \in ToSet(s) PROVE x \in ToSet(s \o t)
    BY <1>2, <1>5, Elements
  <2>3. ASSUME NEW x \in ToSet(t) PROVE x \in ToSet(s \o t)
    <3>1. PICK i \in 1..Len(t) : x = t[i]
      BY Elements
    <3>2. QED
      BY <1>3, <1>5, <3>1
  <2>4. QED
    BY <2>1, <2>2, <2>3
<1>7. ASSUME IsInjective(s), IsInjective(t), ToSet(s) \cap ToSet(t) = {}
      PROVE  IsInjective(s \o t)
  <2>1. \A i \in 1..Len(s), j \in 1..Len(t) : s[i] # t[j]
    BY <1>7, Elements
  <2>2. \A i, j \in 1..Len(s) : s[i] = s[j] => i = j
    BY <1>7, Elements
  <2>3. \A i, j \in 1..Len(t) : t[i] = t[j] => i = j
    BY <1>7, Elements
  <2>4. ASSUME NEW i \in 1..(Len(s) + Len(t)), NEW j \in 1..(Len(s) + Len(t)),
               (s \o t)[i] = (s \o t)[j]
        PROVE  i = j
    <3>1. CASE i \in 1..Len(s) /\ (s \o t)[i] = s[i]
      BY <1>1, <1>4, <2>1, <2>2, <2>4, <3>1
    <3>2. CASE i - Len(s) \in 1..Len(t) /\ (s \o t)[i] = t[i - Len(s)]
      <4>1. j - Len(s) \in 1..Len(t) /\ (s \o t)[j] = t[j - Len(s)]
        BY <1>4, <2>1, <2>4, <3>2
      <4>2. i - Len(s) = j - Len(s)
        BY <2>3, <2>4, <3>2, <4>1
      <4>3. QED
        BY <1>1, <4>2
    <3>3. QED
      BY <1>4, <3>1, <3>2
  <2>5. QED
    BY <1>1, <2>4, Elements
<1>8. ASSUME IsInjective(s \o t)
      PROVE  IsInjective(s) /\ IsInjective(t) /\ ToSet(s) \cap ToSet(t) = {}
  <2>1. \A i, j \in 1..(Len(s) + Len(t)) : (s \o t)[i] = (s \o t)[j] => i = j
    BY <1>1, <1>8, Elements
  <2>2. \A i, j \in 1..Len(s) : s[i] = s[j] => i = j
    BY <1>2, <2>1
  <2>3. ASSUME NEW i \in 1..Len(t), NEW j \in 1..Len(t), t[i] = t[j] PROVE i = j
    <3>1. i + Len(s) = j + Len(s)
      BY <1>3, <2>1, <2>3
    <3>2. QED
      BY <1>1, <3>1
  <2>4. ASSUME NEW i \in 1..Len(s), NEW j \in 1..Len(t), s[i] = t[j] PROVE FALSE
    <3>1. i = j + Len(s)
      BY <1>2, <1>3, <2>1, <2>4
    <3>2. QED
      BY <1>1, <3>1
  <2>5. ToSet(s) \cap ToSet(t) = {}
    BY <2>4, Elements
  <2>6. QED
    BY <2>2, <2>3, <2>5, Elements
<1>9. QED
  BY <1>1, <1>6, <1>7, <1>8

LEMMA PartOf ==
  ASSUME NEW S, NEW s \in Seq(S), NEW n \in 0..Len(s)
  PROVE  /\ SubSeq(s, 1, n) \in Seq(S) /\ Len(SubSeq(s, 1, n)) = n
         /\ SubSeq(s, n + 1, Len(s)) \in Seq(S) /\ Len(SubSeq(s, n + 1, Len(s))) = Len(s) - n
<1>1. Len(s) \in Nat /\ n \in Nat /\ n <= Len(s)
  BY LenProperties
<1>2. \A i \in 1..Len(s) : s[i] \in S
  BY ElementOfSeq
<1>3. SubSeq(s, 1, n) \in Seq(S) /\ Len(SubSeq(s, 1, n)) = n
  BY <1>1, <1>2, SubSeqProperties
<1>4. \A i \in (n + 1)..Len(s) : s[i] \in S
  BY <1>1, <1>2
<1>5. /\ SubSeq(s, n + 1, Len(s)) \in Seq(S)
      /\ Len(SubSeq(s, n + 1, Len(s))) = IF n + 1 <= Len(s) THEN Len(s) - (n + 1) + 1 ELSE 0
  BY <1>1, <1>4, SubSeqProperties
<1>6. QED
  BY <1>1, <1>3, <1>5

LEMMA EmptyIsSequence ==
  ASSUME NEW S
  PROVE  <<>> \in Seq(S) /\ Len(<<>>) = 0 /\ ToSet(<<>>) = {} /\ IsInjective(<<>>)
<1>1. <<>> \in Seq(S) /\ Len(<<>>) = 0 /\ 1..0 = {}
  OBVIOUS
<1>2. DOMAIN <<>> = {}
  BY <1>1
<1>3. ToSet(<<>>) = {} /\ IsInjective(<<>>)
  BY <1>2 DEF ToSet, IsInjective
<1>4. QED
  BY <1>1, <1>3

LEMMA SplitSets ==
  ASSUME NEW S, NEW s \in Seq(S), IsInjective(s), NEW n \in 0..Len(s)
  PROVE  LET front == SubSeq(s, 1, n)
             back  == SubSeq(s, n + 1, Len(s))
         IN  /\ front \in Seq(S) /\ Len(front) = n /\ IsInjective(front)
             /\ back \in Seq(S) /\ Len(back) = Len(s) - n /\ IsInjective(back)
             /\ ToSet(front) \cup ToSet(back) = ToSet(s)
             /\ ToSet(front) \cap ToSet(back) = {}
<1> DEFINE front == SubSeq(s, 1, n)
           back  == SubSeq(s, n + 1, Len(s))
<1>1. Len(s) \in Nat /\ n \in Nat /\ n <= Len(s)
  BY LenProperties
<1>2. \A i \in 1..Len(s) : s[i] \in S
  BY ElementOfSeq
<1>3. front \in Seq(S) /\ Len(front) = n /\ \A i \in 1..n : front[i] = s[i]
  BY <1>1, <1>2, SubSeqProperties
<1>4. /\ back \in Seq(S) /\ Len(back) = Len(s) - n
      /\ \A i \in 1..(Len(s) - n) : back[i] = s[n + i]
  <2>1. n + 1 \in 1..(Len(s) + 1) /\ Len(s) \in n..Len(s)
    BY <1>1
  <2>2. \A i \in (n + 1)..Len(s) : s[i] \in S
    BY <1>1, <1>2
  <2>3. back \in Seq(S)
    BY <1>1, <2>2, SubSeqProperties
  <2>4. Len(back) = IF n + 1 <= Len(s) THEN Len(s) - (n + 1) + 1 ELSE 0
    BY <1>1, <2>2, SubSeqProperties
  <2>5. \A i \in 1..(Len(s) - (n + 1) + 1) : back[i] = s[n + 1 + i - 1]
    BY <1>1, <2>2, SubSeqProperties
  <2>6. Len(back) = Len(s) - n
    BY <1>1, <2>4
  <2>7. ASSUME NEW i \in 1..(Len(s) - n) PROVE back[i] = s[n + i]
    <3>1. i \in 1..(Len(s) - (n + 1) + 1) /\ n + 1 + i - 1 = n + i
      BY <1>1
    <3>2. QED
      BY <2>5, <3>1
  <2>8. QED
    BY <2>3, <2>6, <2>7
<1> HIDE DEF front, back
<1>5. front \o back = s
  <2>1. /\ front \o back \in Seq(S) /\ Len(front \o back) = Len(s)
        /\ \A i \in 1..Len(s) : (front \o back)[i] = IF i <= n THEN front[i] ELSE back[i - n]
    BY <1>1, <1>3, <1>4, ConcatProperties
  <2>2. ASSUME NEW i \in 1..Len(s) PROVE (front \o back)[i] = s[i]
    <3>1. CASE i <= n
      BY <1>1, <1>3, <2>1, <3>1
    <3>2. CASE i > n
      <4>1. i - n \in 1..(Len(s) - n) /\ n + (i - n) = i
        BY <1>1, <3>2
      <4>2. QED
        BY <1>1, <1>4, <2>1, <3>2, <4>1
    <3>3. i <= n \/ i > n
      BY <1>1
    <3>4. QED
      BY <3>1, <3>2, <3>3
  <2>3. QED
    BY <2>1, <2>2, SeqEqual
<1>6. /\ ToSet(front) \cup ToSet(back) = ToSet(s) /\ ToSet(front) \cap ToSet(back) = {}
      /\ IsInjective(front) /\ IsInjective(back)
  BY <1>3, <1>4, <1>5, ConcatenatedSet
<1>7. QED
  BY <1>3, <1>4, <1>6 DEF front, back

LEMMA SizeOfSet ==
  ASSUME NEW S, NEW s \in Seq(S), IsInjective(s)
  PROVE  IsFiniteSet(ToSet(s)) /\ Cardinality(ToSet(s)) = Len(s)
<1>1. /\ DOMAIN s = 1..Len(s) /\ Len(s) \in Nat
      /\ \A i, j \in 1..Len(s) : s[i] = s[j] => i = j
      /\ \A x : x \in ToSet(s) <=> \E i \in 1..Len(s) : x = s[i]
  BY Elements
<1>2. s \in [1..Len(s) -> ToSet(s)]
  <2>1. s = [i \in 1..Len(s) |-> s[i]]
    BY <1>1, ElementOfSeq, SeqDef
  <2>2. QED
    BY <1>1, <2>1
<1>3. s \in Bijection(1..Len(s), ToSet(s))
  BY <1>1, <1>2, Fun_IsBij
<1>4. IsFiniteSet(1..Len(s)) /\ Cardinality(1..Len(s)) = Len(s)
  <2>1. 1 \in Int /\ Len(s) \in Int
    BY <1>1
  <2>2. Cardinality(1..Len(s)) = IF 1 > Len(s) THEN 0 ELSE Len(s) - 1 + 1
    BY <2>1, FS_Interval
  <2>3. QED
    BY <1>1, <2>1, <2>2, FS_Interval
<1>5. ExistsBijection(1..Len(s), ToSet(s))
  BY <1>3, Fun_ExistsBij
<1>6. QED
  BY <1>4, <1>5, FS_Bijection
-----------------------------------------------------------------------------
(* The observations of a request are different ones.                        *)

LEMMA KindsOf ==
  ASSUME NEW r \in Requests
  PROVE  /\ Len(Kinds(r)) \in 2..3
         /\ \A i, j \in 1..Len(Kinds(r)) : Kinds(r)[i] = Kinds(r)[j] => i = j
         /\ \A i \in 1..Len(Kinds(r)) : Event(r, i) \in Events
<1>1. CASE r \in ServerRequests
  <2>1. Kinds(r) = <<"span", "metric", "log">>
    BY <1>1 DEF Kinds
  <2>2. Len(Kinds(r)) = 3 /\ Kinds(r)[1] = "span" /\ Kinds(r)[2] = "metric" /\ Kinds(r)[3] = "log"
    BY <2>1
  <2>3. \A i, j \in 1..3 : Kinds(r)[i] = Kinds(r)[j] => i = j
    BY <2>2
  <2>4. \A i \in 1..3 : Event(r, i) \in Events
    BY <1>1 DEF Events
  <2>5. QED
    BY <2>2, <2>3, <2>4
<1>2. CASE r \notin ServerRequests
  <2>1. Kinds(r) = <<"span", "log">> /\ r \in ClientCalls
    BY <1>2 DEF Kinds, Requests
  <2>2. Len(Kinds(r)) = 2 /\ Kinds(r)[1] = "span" /\ Kinds(r)[2] = "log"
    BY <2>1
  <2>3. \A i, j \in 1..2 : Kinds(r)[i] = Kinds(r)[j] => i = j
    BY <2>2
  <2>4. \A i \in 1..2 : Event(r, i) \in Events
    BY <2>1 DEF Events
  <2>5. QED
    BY <2>2, <2>3, <2>4
<1>3. QED
  BY <1>1, <1>2

LEMMA EventsDiffer ==
  ASSUME NEW r \in Requests, NEW q \in Requests,
         NEW i \in 1..Len(Kinds(r)), NEW j \in 1..Len(Kinds(q)),
         Event(r, i) = Event(q, j)
  PROVE  r = q /\ i = j
<1>1. r = q /\ Kinds(r)[i] = Kinds(q)[j]
  BY DEF Event
<1>2. QED
  BY <1>1, KindsOf
-----------------------------------------------------------------------------
(* Every variable stays in its range.                                       *)

Typed == TypeOK /\ \A r \in refused : offered[r] > 0

LEMMA TypeInit == Init => Typed
<1>1. SUFFICES ASSUME Init PROVE Typed
  OBVIOUS
<1>2. \A r \in Requests : 0 <= Len(Kinds(r))
  BY KindsOf
<1>3. queue \in Seq(Events) /\ batch \in Seq(Events) /\ received \in Seq(Events)
  BY <1>1 DEF Init
<1>4. Len(queue) = 0 /\ Len(batch) = 0
  BY <1>1 DEF Init
<1>5. QED
  BY <1>1, <1>2, <1>3, <1>4, ExporterAssumption DEF Init, TypeOK, Typed

\* What flush() drains, and what it leaves.
LEMMA DrainCounted ==
  ASSUME TypeOK
  PROVE  DrainCount \in 0..Len(queue) /\ DrainCount <= BatchMax
<1>1. Len(queue) \in Nat /\ BatchMax \in Nat
  BY ExporterAssumption, LenProperties DEF TypeOK
<1>2. QED
  BY <1>1 DEF DrainCount, Smaller

LEMMA TypeStep ==
  ASSUME Typed, [Next]_vars
  PROVE  Typed'
<1> USE DEF Typed, TypeOK
<1>1. ASSUME NEW r \in Requests, Offer(r) PROVE Typed'
  <2>1. /\ offered[r] \in Nat /\ offered[r] + 1 \in 1..Len(Kinds(r)) /\ Len(Kinds(r)) \in 2..3
        /\ offered' = [offered EXCEPT ![r] = @ + 1] /\ offered[r] + 1 \in 0..3
    <3>1. Len(Kinds(r)) \in 2..3
      BY KindsOf
    <3>2. offered[r] \in 0..3 /\ offered[r] < Len(Kinds(r))
      <4>1. offered \in [Requests -> 0..3]
        OBVIOUS
      <4>2. offered[r] < Len(Kinds(r))
        BY <1>1 DEF Offer
      <4>3. QED
        BY <4>1, <4>2
    <3>3. offered' = [offered EXCEPT ![r] = @ + 1]
      BY <1>1 DEF Offer
    <3>4. offered[r] + 1 \in 1..Len(Kinds(r)) /\ offered[r] + 1 \in 0..3
      <4>1. \A n \in 0..3, m \in 2..3 : n < m => n + 1 \in 1..m /\ n + 1 \in 0..3
        OBVIOUS
      <4>2. QED
        BY <3>1, <3>2, <4>1
    <3>5. QED
      BY <3>1, <3>2, <3>3, <3>4
  <2>2. offered' \in [Requests -> 0..3]
    BY <2>1
  <2>3. \A q \in Requests : offered'[q] <= Len(Kinds(q))
    BY <2>1
  <2>4. Event(r, offered[r] + 1) \in Events
    BY <2>1, KindsOf
  <2>5. queue' \in Seq(Events) /\ Len(queue') <= Capacity /\ refused' \subseteq refused \cup {r}
    <3>1. CASE Len(queue) < Capacity
      <4>1. queue' = Append(queue, Event(r, offered[r] + 1)) /\ refused' = refused
        BY <1>1, <3>1 DEF Offer
      <4>2. QED
        BY <2>4, <3>1, <4>1, AppendedSet, LenProperties, ExporterAssumption
    <3>2. CASE ~(Len(queue) < Capacity)
      BY <1>1, <3>2 DEF Offer
    <3>3. QED
      BY <3>1, <3>2
  <2>6. refused' \subseteq Requests /\ \A q \in refused' : offered'[q] > 0
    BY <2>1, <2>5
  <2>7. UNCHANGED <<worker, batch, received, dropped, counted, phase, stray>>
    BY <1>1 DEF Offer
  <2>8. QED
    BY <2>2, <2>3, <2>5, <2>6, <2>7
<1>2. ASSUME NEW r \in Requests, ReportRefused(r) PROVE Typed'
  <2>1. r \in refused /\ offered[r] \in 1..Len(Kinds(r))
    BY <1>2, KindsOf DEF ReportRefused
  <2>2. UNCHANGED <<offered, queue, worker, batch, received, phase, stray>>
    BY <1>2 DEF ReportRefused
  <2>3. refused' \subseteq refused /\ dropped' \in Nat
    BY <1>2 DEF ReportRefused
  <2>4. counted' = counted \cup {Event(r, offered[r])}
    BY <1>2 DEF ReportRefused
  <2>5. Event(r, offered[r]) \in Events
    BY <2>1, KindsOf
  <2>6. QED
    BY <2>2, <2>3, <2>4, <2>5
<1>3. CASE Flush
  <2>1. /\ batch' = SubSeq(queue, 1, DrainCount)
        /\ queue' = SubSeq(queue, DrainCount + 1, Len(queue)) /\ worker' = "sending"
        /\ UNCHANGED <<offered, refused, received, dropped, counted, phase, stray>>
    BY <1>3 DEF Flush
  <2>2. /\ batch' \in Seq(Events) /\ Len(batch') <= BatchMax
        /\ queue' \in Seq(Events) /\ Len(queue') <= Capacity
    BY <2>1, DrainCounted, PartOf, LenProperties, ExporterAssumption
  <2>3. QED
    BY <2>1, <2>2
<1>4. CASE ReceiverStores
  <2>1. received' = received \o batch /\ worker' = "stored"
    BY <1>4 DEF ReceiverStores
  <2>2. UNCHANGED <<offered, refused, queue, batch, dropped, counted, phase, stray>>
    BY <1>4 DEF ReceiverStores
  <2>3. received' \in Seq(Events)
    BY <2>1, ConcatProperties
  <2>4. QED
    BY <2>1, <2>2, <2>3
<1>5. CASE Acknowledged
  BY <1>5, EmptyIsSequence, ExporterAssumption DEF Acknowledged
<1>6. CASE SendFailed
  <2>1. /\ worker' = "idle" /\ batch' = <<>> /\ stray' \subseteq stray \cup {batch}
        /\ dropped' = dropped + Len(batch) /\ counted' = counted \cup ToSet(batch)
        /\ UNCHANGED <<offered, refused, queue, received, phase>>
    BY <1>6 DEF SendFailed, GiveUp
  <2>2. ToSet(batch) \subseteq Events /\ Len(batch) \in Nat
    BY Elements
  <2>3. QED
    BY <2>1, <2>2, EmptyIsSequence, ExporterAssumption
<1>7. ASSUME NEW b \in stray, StrayStored(b) PROVE Typed'
  <2>1. received' = received \o b /\ stray' \subseteq stray
    BY <1>7 DEF StrayStored
  <2>2. UNCHANGED <<offered, refused, queue, worker, batch, dropped, counted, phase>>
    BY <1>7 DEF StrayStored
  <2>3. received' \in Seq(Events)
    BY <2>1, ConcatProperties
  <2>4. QED
    BY <2>1, <2>2, <2>3
<1>8. CASE Shutdown
  BY <1>8 DEF Shutdown
<1>9. CASE Closed
  BY <1>9 DEF Closed
<1>10. CASE UNCHANGED vars
  BY <1>10 DEF vars
<1>11. QED
  BY <1>1, <1>2, <1>3, <1>4, <1>5, <1>6, <1>7, <1>8, <1>9, <1>10 DEF Next, Record

\* Every variable of the exporter stays in its range, the queue within its
\* capacity and a batch within its maximum (TelemetryExporter.java:26, 84-85).
THEOREM TypeCorrect == Spec => []TypeOK
<1>1. Typed /\ [Next]_vars => Typed'
  BY TypeStep
<1>2. Typed => TypeOK
  BY DEF Typed
<1>3. QED
  BY TypeInit, <1>1, <1>2, PTL DEF Spec
-----------------------------------------------------------------------------
(* Where an observation can be.                                             *)

\* Queued, it is nowhere else; in the batch, it is not counted, and stored
\* only once the receiver has stored the batch; about to be counted, it is
\* neither stored nor counted.
Apart ==
    /\ ToSet(queue) \cap (ToSet(batch) \cup ToSet(received) \cup counted \cup Reporting) = {}
    /\ ToSet(batch) \cap (counted \cup Reporting) = {}
    /\ (ToSet(received) \cup counted) \cap Reporting = {}
    /\ worker = "idle" => batch = <<>>
    /\ worker = "sending" => ToSet(batch) \cap ToSet(received) = {}
    /\ worker = "stored" => ToSet(batch) \subseteq ToSet(received)

OnceEach == IsInjective(queue) /\ IsInjective(batch) /\ IsInjective(received)

\* A batch given up on was counted, and is stored no more than once.
StraysCounted ==
    /\ \A b \in stray : /\ IsInjective(b) /\ ToSet(b) \subseteq counted
                        /\ ToSet(b) \cap ToSet(received) = {}
    /\ \A b, c \in stray : b # c => ToSet(b) \cap ToSet(c) = {}

Accounted ==
    /\ Offered = ToSet(queue) \cup ToSet(batch) \cup ToSet(received) \cup counted \cup Reporting
    /\ IsFiniteSet(counted) /\ dropped = Cardinality(counted)

ExporterInv == Typed /\ Apart /\ OnceEach /\ StraysCounted /\ Accounted

LEMMA InvInit == Init => ExporterInv
<1>1. SUFFICES ASSUME Init PROVE ExporterInv
  OBVIOUS
<1>2. Typed
  BY <1>1, TypeInit
<1>3. /\ queue = <<>> /\ batch = <<>> /\ received = <<>> /\ counted = {} /\ stray = {}
      /\ dropped = 0 /\ worker = "idle" /\ refused = {} /\ offered = [r \in Requests |-> 0]
  BY <1>1 DEF Init
<1>4. ToSet(<<>>) = {} /\ IsInjective(<<>>)
  BY EmptyIsSequence
<1>5. Reporting = {} /\ Offered = {}
  <2>1. \A r \in Requests : offered[r] = 0
    BY <1>3
  <2>2. 1..0 = {}
    OBVIOUS
  <2>3. QED
    BY <1>3, <2>1, <2>2 DEF Reporting, Offered
<1>6. IsFiniteSet({}) /\ Cardinality({}) = 0
  BY FS_EmptySet
<1>7. Apart /\ OnceEach /\ StraysCounted
  BY <1>3, <1>4, <1>5 DEF Apart, OnceEach, StraysCounted
<1>8. Accounted
  BY <1>3, <1>4, <1>5, <1>6 DEF Accounted
<1>9. QED
  BY <1>2, <1>7, <1>8 DEF ExporterInv

\* The observation a thread offers next is a new one.
LEMMA NextIsNew ==
  ASSUME Typed, NEW r \in Requests, offered[r] < Len(Kinds(r)),
         offered' = [offered EXCEPT ![r] = @ + 1]
  PROVE  /\ Event(r, offered[r] + 1) \notin Offered
         /\ Offered' = Offered \cup {Event(r, offered[r] + 1)}
<1> DEFINE next == Event(r, offered[r] + 1)
<1>1. /\ \A q \in Requests : offered[q] \in 0..3 /\ offered[q] <= Len(Kinds(q))
      /\ \A q \in Requests : Len(Kinds(q)) \in 2..3
  BY KindsOf DEF Typed, TypeOK
<1>2. offered[r] + 1 \in 1..Len(Kinds(r))
  <2>1. \A n \in 0..3, m \in 2..3 : n < m => n + 1 \in 1..m
    OBVIOUS
  <2>2. QED
    BY <1>1, <2>1
<1>3. \A q \in Requests : \A i \in 1..offered[q] : i \in 1..Len(Kinds(q))
  <2>1. \A n \in 0..3, m \in 2..3 : n <= m => \A i \in 1..n : i \in 1..m
    OBVIOUS
  <2>2. QED
    BY <1>1, <2>1
<1>4. next \notin Offered
  <2>1. ASSUME NEW q \in Requests, NEW i \in 1..offered[q], next = Event(q, i) PROVE FALSE
    <3>1. r = q /\ offered[r] + 1 = i
      BY <1>2, <1>3, <2>1, EventsDiffer
    <3>2. QED
      BY <1>1, <3>1
  <2>2. QED
    BY <2>1 DEF Offered
<1>5. /\ \A q \in Requests : q # r => offered'[q] = offered[q]
      /\ offered'[r] = offered[r] + 1
  BY DEF Typed, TypeOK
<1>6. 1..(offered[r] + 1) = 1..offered[r] \cup {offered[r] + 1}
  BY <1>1
<1>7. \A q \in Requests : {Event(q, i) : i \in 1..offered'[q]}
          = IF q = r THEN {Event(q, i) : i \in 1..offered[q]} \cup {next}
                     ELSE {Event(q, i) : i \in 1..offered[q]}
  BY <1>5, <1>6
<1>8. Offered' = Offered \cup {next}
  BY <1>7 DEF Offered
<1>9. QED
  BY <1>4, <1>8

\* No two threads are about to count the same observation.
LEMMA ReportedEvents ==
  ASSUME Typed
  PROVE  \A r, q \in refused : Event(r, offered[r]) = Event(q, offered[q]) => r = q
<1>1. \A r \in refused : r \in Requests /\ offered[r] \in 1..Len(Kinds(r))
  <2>1. \A n \in 0..3, m \in 2..3 : n <= m /\ n > 0 => n \in 1..m
    OBVIOUS
  <2>2. \A r \in refused : /\ r \in Requests /\ offered[r] \in 0..3 /\ offered[r] > 0
                           /\ offered[r] <= Len(Kinds(r)) /\ Len(Kinds(r)) \in 2..3
    BY KindsOf DEF Typed, TypeOK
  <2>3. QED
    BY <2>1, <2>2
<1>2. QED
  BY <1>1, EventsDiffer
-----------------------------------------------------------------------------
(* Every step keeps the invariant.                                          *)

LEMMA OfferKeepsInv ==
  ASSUME ExporterInv, NEW r \in Requests, Offer(r), Typed'
  PROVE  ExporterInv'
<1> DEFINE next == Event(r, offered[r] + 1)
<1>1. /\ Typed /\ Apart /\ OnceEach /\ StraysCounted /\ Accounted
  BY DEF ExporterInv
<1>2. /\ r \notin refused /\ offered[r] < Len(Kinds(r))
      /\ offered' = [offered EXCEPT ![r] = @ + 1]
      /\ UNCHANGED <<worker, batch, received, dropped, counted, phase, stray>>
  BY DEF Offer
<1>3. next \notin Offered /\ Offered' = Offered \cup {next}
  BY <1>1, <1>2, NextIsNew
<1>4. /\ next \notin ToSet(queue) /\ next \notin ToSet(batch) /\ next \notin ToSet(received)
      /\ next \notin counted /\ next \notin Reporting
  BY <1>1, <1>3 DEF Accounted
<1>5. /\ offered \in [Requests -> 0..3] /\ refused \subseteq Requests
      /\ queue \in Seq(Events)
  BY <1>1 DEF Typed, TypeOK
<1>6. \A q \in refused : offered'[q] = offered[q]
  BY <1>2, <1>5
<1>7. CASE Len(queue) < Capacity
  <2>1. queue' = Append(queue, next) /\ refused' = refused
    BY <1>7 DEF Offer
  <2>2. next \in Events
    <3>1. \A n \in 0..3, m \in 2..3 : n < m => n + 1 \in 1..m
      OBVIOUS
    <3>2. offered[r] + 1 \in 1..Len(Kinds(r))
      BY <1>2, <1>5, <3>1, KindsOf
    <3>3. QED
      BY <3>2, KindsOf
  <2>3. Reporting' = Reporting
    BY <1>6, <2>1 DEF Reporting
  <2>4. ToSet(queue') = ToSet(queue) \cup {next}
    BY <1>5, <2>1, <2>2, AppendedSet
  <2>5. IsInjective(queue')
    BY <1>1, <1>4, <1>5, <2>1, <2>2, AppendedSet DEF OnceEach
  <2>6. Apart'
    BY <1>1, <1>2, <1>4, <2>3, <2>4 DEF Apart
  <2>7. OnceEach' /\ StraysCounted'
    BY <1>1, <1>2, <2>5 DEF OnceEach, StraysCounted
  <2>8. Accounted'
    BY <1>1, <1>2, <1>3, <2>3, <2>4 DEF Accounted
  <2>9. QED
    BY <2>6, <2>7, <2>8 DEF ExporterInv
<1>8. CASE ~(Len(queue) < Capacity)
  <2>1. refused' = refused \cup {r} /\ queue' = queue
    BY <1>8 DEF Offer
  <2>2. offered'[r] = offered[r] + 1
    BY <1>2, <1>5
  <2>3. Reporting' = Reporting \cup {next}
    BY <1>6, <2>1, <2>2 DEF Reporting
  <2>4. Apart'
    BY <1>1, <1>2, <1>4, <2>1, <2>3 DEF Apart
  <2>5. OnceEach' /\ StraysCounted'
    BY <1>1, <1>2, <2>1 DEF OnceEach, StraysCounted
  <2>6. Accounted'
    BY <1>1, <1>2, <1>3, <2>1, <2>3 DEF Accounted
  <2>7. QED
    BY <2>4, <2>5, <2>6 DEF ExporterInv
<1>9. QED
  BY <1>7, <1>8

LEMMA ReportKeepsInv ==
  ASSUME ExporterInv, NEW r \in Requests, ReportRefused(r), Typed'
  PROVE  ExporterInv'
<1> DEFINE last == Event(r, offered[r])
<1>1. /\ Typed /\ Apart /\ OnceEach /\ StraysCounted /\ Accounted
  BY DEF ExporterInv
<1>2. /\ r \in refused /\ refused' = refused \ {r} /\ dropped' = dropped + 1
      /\ counted' = counted \cup {last}
      /\ UNCHANGED <<offered, queue, worker, batch, received, phase, stray>>
  BY DEF ReportRefused
<1>3. last \in Reporting
  BY <1>2 DEF Reporting
<1>4. Reporting' = Reporting \ {last}
  BY <1>1, <1>2, ReportedEvents DEF Reporting
<1>5. last \notin counted /\ last \notin ToSet(queue) /\ last \notin ToSet(batch)
  BY <1>1, <1>3 DEF Apart
<1>6. IsFiniteSet(counted') /\ Cardinality(counted') = Cardinality(counted) + 1
  BY <1>1, <1>2, <1>5, FS_AddElement DEF Accounted
<1>7. Apart'
  BY <1>1, <1>2, <1>4, <1>5 DEF Apart
<1>8. OnceEach' /\ StraysCounted'
  BY <1>1, <1>2 DEF OnceEach, StraysCounted
<1>9. Accounted'
  <2>1. Offered' = Offered
    BY <1>2 DEF Offered
  <2>2. QED
    BY <1>1, <1>2, <1>3, <1>4, <1>6, <2>1 DEF Accounted
<1>10. QED
  BY <1>7, <1>8, <1>9 DEF ExporterInv

\* No request thread moved.
LEMMA ThreadsStay ==
  ASSUME UNCHANGED <<offered, refused>>
  PROVE  Offered' = Offered /\ Reporting' = Reporting
BY DEF Offered, Reporting

LEMMA FlushKeepsInv ==
  ASSUME ExporterInv, Flush, Typed'
  PROVE  ExporterInv'
<1>1. /\ Typed /\ Apart /\ OnceEach /\ StraysCounted /\ Accounted
  BY DEF ExporterInv
<1>2. /\ worker = "idle" /\ batch' = SubSeq(queue, 1, DrainCount)
      /\ queue' = SubSeq(queue, DrainCount + 1, Len(queue)) /\ worker' = "sending"
      /\ UNCHANGED <<offered, refused, received, dropped, counted, phase, stray>>
  BY DEF Flush
<1>3. batch = <<>> /\ ToSet(batch) = {}
  BY <1>1, <1>2, EmptyIsSequence DEF Apart
<1>4. DrainCount \in 0..Len(queue) /\ queue \in Seq(Events)
  BY <1>1, DrainCounted DEF Typed, TypeOK
<1>5. /\ ToSet(batch') \cup ToSet(queue') = ToSet(queue)
      /\ ToSet(batch') \cap ToSet(queue') = {}
      /\ IsInjective(batch') /\ IsInjective(queue')
  BY <1>1, <1>2, <1>4, SplitSets DEF OnceEach
<1>6. Offered' = Offered /\ Reporting' = Reporting
  BY <1>2, ThreadsStay
<1>7. Apart'
  BY <1>1, <1>2, <1>5, <1>6 DEF Apart
<1>8. OnceEach' /\ StraysCounted'
  BY <1>1, <1>2, <1>5 DEF OnceEach, StraysCounted
<1>9. Accounted'
  BY <1>1, <1>2, <1>3, <1>5, <1>6 DEF Accounted
<1>10. QED
  BY <1>7, <1>8, <1>9 DEF ExporterInv

LEMMA StoresKeepsInv ==
  ASSUME ExporterInv, ReceiverStores, Typed'
  PROVE  ExporterInv'
<1>1. /\ Typed /\ Apart /\ OnceEach /\ StraysCounted /\ Accounted
  BY DEF ExporterInv
<1>2. /\ worker = "sending" /\ received' = received \o batch /\ worker' = "stored"
      /\ UNCHANGED <<offered, refused, queue, batch, dropped, counted, phase, stray>>
  BY DEF ReceiverStores
<1>3. received \in Seq(Events) /\ batch \in Seq(Events)
  BY <1>1 DEF Typed, TypeOK
<1>4. ToSet(received') = ToSet(received) \cup ToSet(batch)
  BY <1>2, <1>3, ConcatenatedSet
<1>5. IsInjective(received')
  BY <1>1, <1>2, <1>3, ConcatenatedSet DEF OnceEach, Apart
<1>6. Offered' = Offered /\ Reporting' = Reporting
  BY <1>2, ThreadsStay
<1>7. Apart'
  BY <1>1, <1>2, <1>4, <1>6 DEF Apart
<1>8. OnceEach' /\ StraysCounted'
  <2>1. \A b \in stray : ToSet(b) \cap ToSet(batch) = {}
    BY <1>1 DEF Apart, StraysCounted
  <2>2. QED
    BY <1>1, <1>2, <1>4, <1>5, <2>1 DEF OnceEach, StraysCounted
<1>9. Accounted'
  BY <1>1, <1>2, <1>4, <1>6 DEF Accounted
<1>10. QED
  BY <1>7, <1>8, <1>9 DEF ExporterInv

LEMMA AcknowledgedKeepsInv ==
  ASSUME ExporterInv, Acknowledged, Typed'
  PROVE  ExporterInv'
<1>1. /\ Typed /\ Apart /\ OnceEach /\ StraysCounted /\ Accounted
  BY DEF ExporterInv
<1>2. /\ worker = "stored" /\ worker' = "idle" /\ batch' = <<>>
      /\ UNCHANGED <<offered, refused, queue, received, dropped, counted, phase, stray>>
  BY DEF Acknowledged
<1>3. ToSet(batch') = {} /\ IsInjective(batch')
  BY <1>2, EmptyIsSequence
<1>4. ToSet(batch) \subseteq ToSet(received)
  BY <1>1, <1>2 DEF Apart
<1>5. Offered' = Offered /\ Reporting' = Reporting
  BY <1>2, ThreadsStay
<1>6. Apart'
  BY <1>1, <1>2, <1>3, <1>5 DEF Apart
<1>7. OnceEach' /\ StraysCounted'
  BY <1>1, <1>2, <1>3 DEF OnceEach, StraysCounted
<1>8. Accounted'
  BY <1>1, <1>2, <1>3, <1>4, <1>5 DEF Accounted
<1>9. QED
  BY <1>6, <1>7, <1>8 DEF ExporterInv

LEMMA FailedKeepsInv ==
  ASSUME ExporterInv, SendFailed, Typed'
  PROVE  ExporterInv'
<1>1. /\ Typed /\ Apart /\ OnceEach /\ StraysCounted /\ Accounted
  BY DEF ExporterInv
<1>2. /\ worker \in {"sending", "stored"} /\ worker' = "idle" /\ batch' = <<>>
      /\ dropped' = dropped + Len(batch) /\ counted' = counted \cup ToSet(batch)
      /\ UNCHANGED <<offered, refused, queue, received, phase>>
  BY DEF SendFailed
<1>3. stray' = stray \/ (worker = "sending" /\ stray' = stray \cup {batch})
  BY DEF SendFailed, GiveUp
<1>4. ToSet(batch') = {} /\ IsInjective(batch')
  BY <1>2, EmptyIsSequence
<1>5. Offered' = Offered /\ Reporting' = Reporting
  BY <1>2, ThreadsStay
<1>6. IsFiniteSet(counted') /\ dropped' = Cardinality(counted')
  <2>1. batch \in Seq(Events) /\ Len(batch) \in Nat
    BY <1>1, LenProperties DEF Typed, TypeOK
  <2>2. IsFiniteSet(ToSet(batch)) /\ Cardinality(ToSet(batch)) = Len(batch)
    BY <1>1, <2>1, SizeOfSet DEF OnceEach
  <2>3. counted \cap ToSet(batch) = {}
    BY <1>1 DEF Apart
  <2>4. IsFiniteSet(counted) /\ dropped = Cardinality(counted) /\ Cardinality(counted) \in Nat
    BY <1>1, FS_CardinalityType DEF Accounted
  <2>5. /\ IsFiniteSet(counted \cup ToSet(batch))
        /\ Cardinality(counted \cup ToSet(batch))
             = Cardinality(counted) + Cardinality(ToSet(batch))
    <3>1. /\ IsFiniteSet(counted \cup ToSet(batch))
          /\ Cardinality(counted \cup ToSet(batch)) = Cardinality(counted)
               + Cardinality(ToSet(batch)) - Cardinality(counted \cap ToSet(batch))
      BY <2>2, <2>4, FS_Union
    <3>2. Cardinality(counted \cap ToSet(batch)) = 0
      BY <2>3, FS_EmptySet
    <3>3. Cardinality(counted) \in Nat /\ Cardinality(ToSet(batch)) \in Nat
      BY <2>1, <2>2, <2>4
    <3>4. QED
      BY <3>1, <3>2, <3>3
  <2>6. QED
    BY <1>2, <2>2, <2>4, <2>5
<1>7. Apart'
  BY <1>1, <1>2, <1>4, <1>5 DEF Apart
<1>8. OnceEach' /\ StraysCounted'
  <2>1. \A b \in stray : ToSet(b) \cap ToSet(batch) = {}
    BY <1>1 DEF Apart, StraysCounted
  <2>2. worker = "sending" => ToSet(batch) \cap ToSet(received) = {}
    BY <1>1 DEF Apart
  <2>3. \A b \in stray' : b \in stray \/ (b = batch /\ worker = "sending")
    BY <1>3
  <2>4. \A b \in stray' : /\ IsInjective(b) /\ ToSet(b) \subseteq counted'
                          /\ ToSet(b) \cap ToSet(received') = {}
    BY <1>1, <1>2, <2>2, <2>3 DEF OnceEach, StraysCounted
  <2>5. \A b, c \in stray' : b # c => ToSet(b) \cap ToSet(c) = {}
    BY <1>1, <2>1, <2>3 DEF StraysCounted
  <2>6. QED
    BY <1>1, <1>2, <1>4, <2>4, <2>5 DEF OnceEach, StraysCounted
<1>9. Accounted'
  BY <1>1, <1>2, <1>4, <1>5, <1>6 DEF Accounted
<1>10. QED
  BY <1>7, <1>8, <1>9 DEF ExporterInv

LEMMA StrayKeepsInv ==
  ASSUME ExporterInv, NEW b \in stray, StrayStored(b), Typed'
  PROVE  ExporterInv'
<1>1. /\ Typed /\ Apart /\ OnceEach /\ StraysCounted /\ Accounted
  BY DEF ExporterInv
<1>2. /\ stray' = stray \ {b} /\ received' = received \o b
      /\ UNCHANGED <<offered, refused, queue, worker, batch, dropped, counted, phase>>
  BY DEF StrayStored
<1>3. /\ IsInjective(b) /\ ToSet(b) \subseteq counted /\ ToSet(b) \cap ToSet(received) = {}
      /\ \A c \in stray : b # c => ToSet(b) \cap ToSet(c) = {}
  BY <1>1 DEF StraysCounted
<1>4. received \in Seq(Events) /\ b \in Seq(Events)
  BY <1>1 DEF Typed, TypeOK
<1>5. ToSet(received') = ToSet(received) \cup ToSet(b)
  BY <1>2, <1>4, ConcatenatedSet
<1>6. IsInjective(received')
  BY <1>1, <1>2, <1>3, <1>4, ConcatenatedSet DEF OnceEach
<1>7. Offered' = Offered /\ Reporting' = Reporting
  BY <1>2, ThreadsStay
<1>8. Apart'
  BY <1>1, <1>2, <1>3, <1>5, <1>7 DEF Apart
<1>9. OnceEach' /\ StraysCounted'
  BY <1>1, <1>2, <1>3, <1>5, <1>6 DEF OnceEach, StraysCounted
<1>10. Accounted'
  BY <1>1, <1>2, <1>3, <1>5, <1>7 DEF Accounted
<1>11. QED
  BY <1>8, <1>9, <1>10 DEF ExporterInv

LEMMA InvInductive ==
  ASSUME ExporterInv, [Next]_vars
  PROVE  ExporterInv'
<1>1. Typed'
  BY TypeStep DEF ExporterInv
<1>2. ASSUME NEW r \in Requests, Record(r) PROVE ExporterInv'
  BY <1>1, <1>2, OfferKeepsInv, ReportKeepsInv DEF Record
<1>3. CASE Flush
  BY <1>1, <1>3, FlushKeepsInv
<1>4. CASE ReceiverStores
  BY <1>1, <1>4, StoresKeepsInv
<1>5. CASE Acknowledged
  BY <1>1, <1>5, AcknowledgedKeepsInv
<1>6. CASE SendFailed
  BY <1>1, <1>6, FailedKeepsInv
<1>7. ASSUME NEW b \in stray, StrayStored(b) PROVE ExporterInv'
  BY <1>1, <1>7, StrayKeepsInv
<1>8. CASE Shutdown \/ Closed \/ UNCHANGED vars
  <2>1. UNCHANGED <<offered, refused, queue, worker, batch, stray, received, dropped, counted>>
    BY <1>8 DEF Shutdown, Closed, vars
  <2>2. Offered' = Offered /\ Reporting' = Reporting
    BY <2>1, ThreadsStay
  <2>3. Apart' /\ OnceEach' /\ StraysCounted' /\ Accounted'
    BY <2>1, <2>2 DEF ExporterInv, Apart, OnceEach, StraysCounted, Accounted
  <2>4. QED
    BY <1>1, <2>3 DEF ExporterInv
<1>9. QED
  BY <1>2, <1>3, <1>4, <1>5, <1>6, <1>7, <1>8 DEF Next

\* A queue of distinct observations holds as many of them as it is long.
LEMMA OnlyTheQueueIsLost == ExporterInv => OnlyCloseLosesSilently
<1>1. SUFFICES ASSUME ExporterInv PROVE OnlyCloseLosesSilently
  OBVIOUS
<1>2. /\ Typed /\ Apart /\ OnceEach /\ Accounted
  BY <1>1 DEF ExporterInv
<1>3. LostSilently = IF phase = "open" THEN {} ELSE ToSet(queue)
  BY <1>2 DEF Apart, Accounted, LostSilently
<1>4. Cardinality(ToSet(queue)) <= Capacity
  <2>1. queue \in Seq(Events) /\ Len(queue) <= Capacity
    BY <1>2 DEF Typed, TypeOK
  <2>2. Cardinality(ToSet(queue)) = Len(queue)
    BY <1>2, <2>1, SizeOfSet DEF OnceEach
  <2>3. QED
    BY <2>1, <2>2
<1>5. Cardinality({}) <= Capacity
  BY ExporterAssumption, FS_EmptySet
<1>6. QED
  BY <1>2, <1>3, <1>4, <1>5 DEF Accounted, OnlyCloseLosesSilently

\* While the export is open no observation is lost without being counted, and
\* the counter counts each lost one once; close() loses what is in the queue and
\* what is added to it later, and no more (TelemetryExporter.java:26,73-113).
THEOREM OnlyCloseEverLosesSilently == Spec => []OnlyCloseLosesSilently
<1>1. ExporterInv /\ [Next]_vars => ExporterInv'
  BY InvInductive
<1>2. QED
  BY InvInit, <1>1, OnlyTheQueueIsLost, PTL DEF Spec

LEMMA StoredOnce ==
  ASSUME ExporterInv
  PROVE  SentAtMostOnce
<1> DEFINE underway == IF worker = "sending" THEN batch ELSE <<>>
<1>1. /\ Typed /\ Apart /\ OnceEach /\ StraysCounted
  BY DEF ExporterInv
<1>2. received \in Seq(Events) /\ queue \in Seq(Events) /\ underway \in Seq(Events)
  BY <1>1, EmptyIsSequence DEF Typed, TypeOK
<1>3. IsInjective(underway) /\ ToSet(underway) \subseteq ToSet(batch)
      /\ ToSet(underway) \cap ToSet(received) = {}
  BY <1>1, EmptyIsSequence DEF OnceEach, Apart
<1> HIDE DEF underway
<1>4. /\ received \o underway \in Seq(Events) /\ IsInjective(received \o underway)
      /\ ToSet(received \o underway) = ToSet(received) \cup ToSet(underway)
  BY <1>1, <1>2, <1>3, ConcatenatedSet DEF OnceEach
<1>5. ToSet(received \o underway) \cap ToSet(queue) = {}
  BY <1>1, <1>3, <1>4 DEF Apart
<1>6. /\ IsInjective((received \o underway) \o queue)
      /\ ToSet((received \o underway) \o queue) = ToSet(received \o underway) \cup ToSet(queue)
  BY <1>1, <1>2, <1>4, <1>5, ConcatenatedSet DEF OnceEach
<1>7. \A b \in stray : ToSet(b) \cap ToSet((received \o underway) \o queue) = {}
  <2>1. ASSUME NEW b \in stray PROVE ToSet(b) \cap ToSet((received \o underway) \o queue) = {}
    <3>1. ToSet(b) \subseteq counted /\ ToSet(b) \cap ToSet(received) = {}
      BY <1>1 DEF StraysCounted
    <3>2. counted \cap (ToSet(queue) \cup ToSet(batch)) = {}
      BY <1>1 DEF Apart
    <3>3. QED
      BY <1>3, <1>4, <1>6, <3>1, <3>2
  <2>2. QED
    BY <2>1
<1>8. QED
  BY <1>6, <1>7 DEF SentAtMostOnce, underway

\* What is stored, under way and queued never overlaps, also when a post was
\* given up on and arrived all the same (TelemetryExporter.java:84-99).
THEOREM SentAlwaysOnce == Spec => []SentAtMostOnce
<1>1. ExporterInv /\ [Next]_vars => ExporterInv'
  BY InvInductive
<1>2. ExporterInv => SentAtMostOnce
  BY StoredOnce
<1>3. QED
  BY InvInit, <1>1, <1>2, PTL DEF Spec
-----------------------------------------------------------------------------
(* The exporter implements module Delivery: every step of a thread, of the *)
(* worker and of the receiver is one of its steps, or leaves it alone.     *)

LEMMA PrefixOfConcat ==
  ASSUME NEW S, NEW s \in Seq(S), NEW t \in Seq(S)
  PROVE  IsPrefix(s, s \o t)
<1>1. /\ s \o t \in Seq(S) /\ Len(s \o t) = Len(s) + Len(t)
      /\ Len(s) \in Nat /\ Len(t) \in Nat
      /\ \A i \in 1..(Len(s) + Len(t)) : (s \o t)[i] = IF i <= Len(s) THEN s[i] ELSE t[i - Len(s)]
  BY ConcatProperties, LenProperties
<1>2. Len(s) <= Len(s \o t)
  BY <1>1
<1>3. \A i \in 1..Len(s) : (s \o t)[i] = s[i] /\ s[i] \in S
  BY <1>1, ElementOfSeq
<1>4. SubSeq(s \o t, 1, Len(s)) = SubSeq(s, 1, Len(s))
  <2>1. /\ SubSeq(s \o t, 1, Len(s)) = [i \in 1..Len(s) |-> (s \o t)[i]]
        /\ SubSeq(s, 1, Len(s)) = [i \in 1..Len(s) |-> s[i]]
    BY <1>1
  <2> QED
    BY <1>3, <2>1
<1> QED
  BY <1>2, <1>4 DEF IsPrefix

\* Observations stored together come after those stored before, once each.
LEMMA StoreImplements ==
  ASSUME ExporterInv, NEW b \in Seq(Events), IsInjective(b),
         ToSet(b) \cap ToSet(received) = {}, ToSet(b) \subseteq Offered,
         received' = received \o b,
         UNCHANGED <<Offered, counted, dropped, phase>>
  PROVE  Promise!Store
<1>1. received \in Seq(Events) /\ IsInjective(received) /\ ToSet(received) \subseteq Offered
  BY DEF ExporterInv, Typed, TypeOK, OnceEach, Accounted
<1>2. IsPrefix(received, received')
  BY <1>1, PrefixOfConcat
<1>3. IsInjective(received') /\ ToSet(received') = ToSet(received) \cup ToSet(b)
  BY <1>1, ConcatenatedSet
<1>4. Promise!ToSet(received') = ToSet(received')
  BY DEF Promise!ToSet, ToSet
<1>5. Promise!IsInjective(received')
  BY <1>3 DEF Promise!IsInjective, IsInjective
<1>6. Promise!IsPrefix(received, received')
  BY <1>2 DEF Promise!IsPrefix, IsPrefix
<1> QED
  BY <1>1, <1>3, <1>4, <1>5, <1>6 DEF Promise!Store

\* Observations given up together are counted one by one.
LEMMA LoseImplements ==
  ASSUME ExporterInv, NEW lostNow \in SUBSET Offered, lostNow \cap counted = {},
         counted' = counted \cup lostNow, dropped' = dropped + Cardinality(lostNow),
         UNCHANGED <<Offered, received, phase>>
  PROVE  Promise!Lose
<1>1. counted' \ counted = lostNow
  OBVIOUS
<1>2. counted \subseteq Offered
  BY DEF ExporterInv, Accounted
<1>3. Promise!Cardinality(lostNow) = Cardinality(lostNow)
  BY DEF Promise!Cardinality, Cardinality
<1> QED
  BY <1>1, <1>2, <1>3 DEF Promise!Lose

LEMMA PromiseStep ==
  ASSUME ExporterInv, [Next]_vars
  PROVE  Promise!Next \/ UNCHANGED <<Offered, received, counted, dropped, phase = "open">>
<1>1. /\ Typed /\ Apart /\ OnceEach /\ StraysCounted /\ Accounted
      /\ received \in Seq(Events) /\ batch \in Seq(Events) /\ stray \subseteq Seq(Events)
  BY DEF ExporterInv, Typed, TypeOK
<1>2. ASSUME NEW r \in Requests, Offer(r) PROVE Promise!Next
  <2> DEFINE next == Event(r, offered[r] + 1)
  <2>1. next \notin Offered /\ Offered' = Offered \cup {next}
    BY <1>1, <1>2, NextIsNew DEF Offer
  <2>2. next \in Events
    <3>1. \A n \in 0..3, m \in 2..3 : n < m => n + 1 \in 1..m
      OBVIOUS
    <3>2. offered[r] + 1 \in 1..Len(Kinds(r))
      BY <1>1, <1>2, <3>1, KindsOf DEF Offer, Typed, TypeOK
    <3> QED
      BY <3>2, KindsOf
  <2>3. UNCHANGED <<received, counted, dropped, phase>>
    BY <1>2 DEF Offer
  <2>4. Promise!Record(next)
    BY <2>1, <2>3 DEF Promise!Record
  <2> QED
    BY <2>2, <2>4 DEF Promise!Next
<1>3. ASSUME NEW r \in Requests, ReportRefused(r) PROVE Promise!Next
  <2> DEFINE last == Event(r, offered[r])
  <2>1. last \in Reporting /\ last \in Offered /\ last \notin counted
    <3>1. last \in Reporting
      BY <1>3 DEF ReportRefused, Reporting
    <3> QED
      BY <1>1, <3>1 DEF Accounted, Apart
  <2>2. Cardinality({last}) = 1
    BY FS_Singleton
  <2>3. /\ counted' = counted \cup {last} /\ dropped' = dropped + 1
        /\ Offered' = Offered /\ UNCHANGED <<received, phase>>
    BY <1>3 DEF ReportRefused, Offered
  <2>4. Promise!Lose
    <3> HIDE DEF last
    <3> QED
      BY <2>1, <2>2, <2>3, LoseImplements
  <2> QED
    BY <2>4 DEF Promise!Next
<1>4. CASE ReceiverStores
  <2>1. ToSet(batch) \cap ToSet(received) = {} /\ ToSet(batch) \subseteq Offered
    BY <1>1, <1>4 DEF ReceiverStores, Apart, Accounted
  <2>2. /\ received' = received \o batch /\ Offered' = Offered
        /\ UNCHANGED <<counted, dropped, phase>>
    BY <1>4 DEF ReceiverStores, Offered
  <2>3. Promise!Store
    BY <1>1, <2>1, <2>2, StoreImplements DEF OnceEach
  <2> QED
    BY <2>3 DEF Promise!Next
<1>5. ASSUME NEW b \in stray, StrayStored(b) PROVE Promise!Next
  <2>1. /\ b \in Seq(Events) /\ IsInjective(b)
        /\ ToSet(b) \cap ToSet(received) = {} /\ ToSet(b) \subseteq Offered
    BY <1>1, <1>5 DEF StraysCounted, Accounted
  <2>2. /\ received' = received \o b /\ Offered' = Offered
        /\ UNCHANGED <<counted, dropped, phase>>
    BY <1>5 DEF StrayStored, Offered
  <2>3. Promise!Store
    BY <2>1, <2>2, StoreImplements
  <2> QED
    BY <2>3 DEF Promise!Next
<1>6. CASE SendFailed
  <2>1. ToSet(batch) \subseteq Offered /\ ToSet(batch) \cap counted = {}
    BY <1>1 DEF Apart, Accounted
  <2>2. Cardinality(ToSet(batch)) = Len(batch)
    BY <1>1, SizeOfSet DEF OnceEach
  <2>3. /\ counted' = counted \cup ToSet(batch) /\ dropped' = dropped + Len(batch)
        /\ Offered' = Offered /\ UNCHANGED <<received, phase>>
    BY <1>6 DEF SendFailed, Offered
  <2>4. Promise!Lose
    BY <2>1, <2>2, <2>3, LoseImplements
  <2> QED
    BY <2>4 DEF Promise!Next
<1>7. CASE Shutdown
  <2>1. /\ phase = "open" /\ phase' = "closing" /\ Offered' = Offered
        /\ UNCHANGED <<received, counted, dropped>>
    BY <1>7 DEF Shutdown, Offered
  <2>2. Promise!Close
    BY <2>1 DEF Promise!Close
  <2> QED
    BY <2>2 DEF Promise!Next
<1>8. CASE Flush \/ Acknowledged \/ Closed \/ UNCHANGED vars
  <2>1. UNCHANGED <<offered, received, counted, dropped>>
    BY <1>8 DEF Flush, Acknowledged, Closed, vars
  <2>2. (phase = "open") = (phase' = "open")
    BY <1>8 DEF Flush, Acknowledged, Closed, vars
  <2> QED
    BY <2>1, <2>2 DEF Offered
<1> QED
  BY <1>2, <1>3, <1>4, <1>5, <1>6, <1>7, <1>8 DEF Next, Record

\* Whatever the interleaving of request threads, losses and shutdown, and for
\* any requests, capacity and batch size, the export does what module Delivery
\* promises (TelemetryExporter.java:23,73-115); that it settles each observation
\* is left to the run.
THEOREM DeliveryKept == Spec => Promise!Safety
<1>1. Init => Promise!Init
  <2> SUFFICES ASSUME Init PROVE Promise!Init
    OBVIOUS
  <2>1. /\ received = <<>> /\ counted = {} /\ dropped = 0 /\ phase = "open"
        /\ \A r \in Requests : offered[r] = 0
    BY DEF Init
  <2>2. Offered = {}
    BY <2>1 DEF Offered
  <2> QED
    BY <2>1, <2>2 DEF Promise!Init
<1>2. ExporterInv /\ [Next]_vars
        => [Promise!Next]_<<Offered, received, counted, dropped, phase = "open">>
  BY PromiseStep
<1>3. ExporterInv /\ [Next]_vars => ExporterInv'
  BY InvInductive
<1> QED
  BY <1>1, <1>2, <1>3, InvInit, PTL DEF Spec, Promise!Safety
=============================================================================
