------------------------- MODULE AgentSessionProofs -------------------------
(***************************************************************************)
(* Proofs about the parts of AgentSession and their composition, for any   *)
(* number of clients, queries, calls and services, any interval and burst, *)
(* any order of calls and clock readings, and any number of faults.        *)
(***************************************************************************)
EXTENDS AgentSession, SequenceTheorems, TLAPS

-----------------------------------------------------------------------------
(***************************************************************************)
(* The limiter.                                                            *)
(***************************************************************************)

\* What the limiter let through from the i-th call on, and the tokens left, are
\* covered by the burst and the time up to the bucket's clock.
Covered ==
  \A i \in 1..Len(granted) :
    (Len(granted) - i + 1) * Interval + tokens <= Burst * Interval + (last - granted[i])

LimiterInv == PacingTypeOK /\ Covered /\ Paced

LEMMA Capacity == Burst * Interval \in Nat /\ Interval <= Burst * Interval
  BY PacingAssumption

\* One more call costs one more interval.
LEMMA OneMore ==
  ASSUME NEW n \in Int PROVE (n + 1) * Interval = n * Interval + Interval
  BY PacingAssumption

LEMMA NoTime == \A t \in Nat : t - t = 0
  OBVIOUS

LEMMA LimiterInit == PacingInit => LimiterInv
<1>. SUFFICES ASSUME PacingInit PROVE LimiterInv
  OBVIOUS
<1>1. PacingTypeOK
  BY Capacity DEF PacingInit, PacingTypeOK, NotWaiting
<1>. QED  BY <1>1 DEF PacingInit, LimiterInv, Covered, Paced

\* The bucket is never overdrawn, and a wait ends when the missing part of a
\* token has grown.
LEMMA TakeStep ==
  ASSUME LimiterInv, Take
  PROVE  /\ tokens' \in 0..(Burst * Interval)
         /\ last' \in Nat
         /\ granted' = Append(granted, last')
         /\ \A n \in Int : \A g \in Nat :
              n * Interval + tokens <= Burst * Interval + (last - g)
                => (n + 1) * Interval + tokens' <= Burst * Interval + (last' - g)
         /\ Interval + tokens' <= Burst * Interval
<1>. DEFINE B == Burst * Interval
<1>1. /\ now \in Nat /\ tokens \in 0..B /\ last \in Nat /\ Interval \in Nat \ {0}
      /\ B \in Nat /\ Interval <= B
  BY Capacity, PacingAssumption DEF LimiterInv, PacingTypeOK
<1>2. Refilled \in Int /\ Refilled <= B /\ Refilled <= tokens + (now - last)
  BY <1>1 DEF Refilled
<1>. HIDE DEF B
<1>3. granted' = Append(granted, last')
  BY DEF Take
<1>4. CASE Refilled >= Interval
  <2>1. tokens' = Refilled - Interval /\ last' = now
    BY <1>4 DEF Take
  <2>2. tokens' \in 0..B /\ Interval + tokens' <= B
    BY <1>1, <1>2, <1>4, <2>1
  <2>3. ASSUME NEW n \in Int, NEW g \in Nat, n * Interval + tokens <= B + (last - g)
        PROVE  (n + 1) * Interval + tokens' <= B + (last' - g)
    <3>. DEFINE m == n * Interval
    <3>1. m \in Int /\ (n + 1) * Interval = m + Interval
      BY <1>1, OneMore
    <3>. HIDE DEF m
    <3>. QED  BY <1>1, <1>2, <2>1, <2>3, <3>1 DEF m
  <2>. QED  BY <1>1, <1>3, <2>1, <2>2, <2>3 DEF B
<1>5. CASE ~(Refilled >= Interval)
  <2>1. tokens' = 0 /\ last' = now + (Interval - Refilled)
    BY <1>5 DEF Take
  <2>2. tokens' \in 0..B /\ Interval + tokens' <= B /\ last' \in Nat
    BY <1>1, <1>2, <1>5, <2>1
  <2>3. ASSUME NEW n \in Int, NEW g \in Nat, n * Interval + tokens <= B + (last - g)
        PROVE  (n + 1) * Interval + tokens' <= B + (last' - g)
    <3>. DEFINE m == n * Interval
    <3>1. m \in Int /\ (n + 1) * Interval = m + Interval
      BY <1>1, OneMore
    <3>. HIDE DEF m
    <3>. QED  BY <1>1, <1>2, <2>1, <2>3, <3>1 DEF m
  <2>. QED  BY <1>1, <1>3, <2>1, <2>2, <2>3 DEF B
<1>. QED  BY <1>4, <1>5

\* A call that is let through keeps the promise for every stretch it ends.
LEMMA TakeKeepsPace ==
  ASSUME LimiterInv, Take
  PROVE  Covered' /\ Paced' /\ granted' \in Seq(Nat)
<1>. DEFINE N == Len(granted)
<1>1. /\ granted \in Seq(Nat) /\ N \in Nat
      /\ \A i \in 1..N : granted[i] \in Nat
  BY DEF LimiterInv, PacingTypeOK
<1>2. /\ tokens' \in Nat /\ last' \in Nat /\ granted' = Append(granted, last')
      /\ Interval + tokens' <= Burst * Interval
  BY TakeStep, Capacity
<1>3. /\ Len(granted') = N + 1 /\ granted'[N + 1] = last'
      /\ \A i \in 1..N : granted'[i] = granted[i]
      /\ granted' \in Seq(Nat)
  BY <1>1, <1>2
<1>4. ASSUME NEW i \in 1..N
      PROVE  ((N + 1) - i + 1) * Interval + tokens' <= Burst * Interval + (last' - granted[i])
  <2>1. (N - i + 1) * Interval + tokens <= Burst * Interval + (last - granted[i])
    BY DEF LimiterInv, Covered
  <2>2. ((N - i + 1) + 1) * Interval + tokens' <= Burst * Interval + (last' - granted[i])
    BY <1>1, <2>1, TakeStep
  <2>3. (N - i + 1) + 1 = (N + 1) - i + 1
    BY <1>1
  <2>. QED  BY <2>2, <2>3
<1>5. ((N + 1) - (N + 1) + 1) * Interval + tokens' <= Burst * Interval + (last' - last')
  <2>1. (N + 1) - (N + 1) + 1 = 1
    BY <1>1
  <2>2. 1 * Interval = Interval
    BY PacingAssumption
  <2>3. last' - last' = 0
    BY <1>2, NoTime
  <2>4. Burst * Interval + 0 = Burst * Interval
    BY Capacity
  <2>. QED  BY <1>2, <2>1, <2>2, <2>3, <2>4
<1>6. Covered'
  <2>1. SUFFICES ASSUME NEW i \in 1..(N + 1)
                 PROVE  ((N + 1) - i + 1) * Interval + tokens'
                          <= Burst * Interval + (last' - granted'[i])
    BY <1>3, PacingAssumption DEF Covered
  <2>2. CASE i = N + 1
    BY <1>3, <1>5, <2>2
  <2>3. CASE i # N + 1
    <3>1. i \in 1..N
      BY <1>1, <2>3
    <3>2. ((N + 1) - i + 1) * Interval + tokens' <= Burst * Interval + (last' - granted[i])
      BY <1>4, <3>1
    <3>3. granted'[i] = granted[i]
      BY <1>3, <3>1
    <3>. QED  BY <3>2, <3>3, Zenon
  <2>. QED  BY <2>2, <2>3
<1>7. Paced'
  <2>1. SUFFICES ASSUME NEW i \in 1..(N + 1), NEW j \in 1..(N + 1), i <= j
                 PROVE  (j - i + 1) * Interval <= Burst * Interval + (granted'[j] - granted'[i])
    BY <1>3, PacingAssumption DEF Paced
  <2>2. CASE j = N + 1
    <3>1. ((N + 1) - i + 1) * Interval + tokens' <= Burst * Interval + (last' - granted'[i])
      BY <1>3, <1>6, PacingAssumption DEF Covered
    <3>2. ((N + 1) - i + 1) * Interval \in Int /\ granted'[i] \in Nat
      BY <1>1, <1>3, PacingAssumption
    <3>. DEFINE m == ((N + 1) - i + 1) * Interval
    <3>. HIDE DEF m
    <3>3. m \in Int /\ m + tokens' <= Burst * Interval + (last' - granted'[i])
      BY <3>1, <3>2 DEF m
    <3>4. m <= Burst * Interval + (last' - granted'[i])
      <4>. DEFINE C == Burst * Interval
      <4>1. C \in Int /\ tokens' \in Nat /\ last' \in Nat /\ granted'[i] \in Nat
        BY <1>2, <3>2, Capacity
      <4>2. m + tokens' <= C + (last' - granted'[i])
        BY <3>3
      <4>. HIDE DEF C
      <4>3. m <= C + (last' - granted'[i])
        BY <3>3, <4>1, <4>2
      <4>. QED  BY <4>3 DEF C
    <3>. QED  BY <1>3, <2>2, <3>4 DEF m
  <2>3. CASE j # N + 1
    <3>1. i \in 1..N /\ j \in 1..N
      BY <1>1, <2>1, <2>3
    <3>2. granted'[i] = granted[i] /\ granted'[j] = granted[j]
      BY <1>3, <3>1
    <3>3. DOMAIN granted = 1..N
      BY <1>1
    <3>. QED  BY <2>1, <3>1, <3>2, <3>3 DEF LimiterInv, Paced
  <2>. QED  BY <2>2, <2>3
<1>. QED  BY <1>3, <1>6, <1>7

LEMMA LimiterStep == LimiterInv /\ [PacingNext]_pacingVars => LimiterInv'
<1>. SUFFICES ASSUME LimiterInv, [PacingNext]_pacingVars PROVE LimiterInv'
  OBVIOUS
<1>1. ASSUME NEW c \in Callers, Wait(c)
      PROVE  LimiterInv'
  <2>1. Take /\ now' = now
    BY <1>1 DEF Wait
  <2>2. Covered' /\ Paced' /\ granted' \in Seq(Nat)
    BY <2>1, TakeKeepsPace
  <2>3. tokens' \in 0..(Burst * Interval) /\ last' \in Nat /\ granted' = Append(granted, last')
    BY <2>1, TakeStep
  <2>4. granted'[Len(granted')] = last'
    BY <2>3 DEF LimiterInv, PacingTypeOK
  <2>5. due' \in [Callers -> Nat \union {NotWaiting}]
    BY <1>1, <2>3, <2>4 DEF Wait, LimiterInv, PacingTypeOK
  <2>. QED  BY <2>1, <2>2, <2>3, <2>5, Capacity DEF LimiterInv, PacingTypeOK
<1>2. ASSUME NEW c \in Callers, LetThrough(c) \/ GivesUp(c)
      PROVE  LimiterInv'
  BY <1>2 DEF LetThrough, GivesUp, LimiterInv, PacingTypeOK, Covered, Paced
<1>3. ASSUME Tick
      PROVE  LimiterInv'
  BY <1>3 DEF Tick, LimiterInv, PacingTypeOK, Covered, Paced
<1>4. ASSUME UNCHANGED pacingVars
      PROVE  LimiterInv'
  BY <1>4 DEF pacingVars, LimiterInv, PacingTypeOK, Covered, Paced
<1>. QED  BY <1>1, <1>2, <1>3, <1>4 DEF PacingNext

\* The invariant of the limiter: what was let through and what is left never
\* exceed the burst and the time.
THEOREM LimiterInvariance == PacingSpec => []LimiterInv
<1>. QED  BY LimiterInit, LimiterStep, PTL DEF PacingSpec

-----------------------------------------------------------------------------
(***************************************************************************)
(* The queries.                                                            *)
(***************************************************************************)

\* What is asked for, and the queries and arrays that hold it.
Wishes == [tags: Seq(Tags), meta: Tags \union {NoMeta}, filter: SUBSET Tags, passing: BOOLEAN]

Values ==
  [tags: [array: Nat, len: Nat], meta: Nat, filter: SUBSET Tags,
   expr: [meta: Tags \union {NoMeta}, filter: SUBSET Tags], passing: BOOLEAN]

Arrays == [cap: Nat, elems: Seq(Tags)]

\* A query holds what was asked for: its array holds its tags and no others.
Holds(q, a) ==
  /\ q.tags.array \in 0..Len(arrays) /\ q.meta \in 0..Len(maps)
  /\ q.tags.len = Len(a.tags) /\ q.tags.len <= calls
  /\ q.tags.array = Nil => a.tags = <<>>
  /\ q.tags.array # Nil => arrays[q.tags.array].elems = a.tags
  /\ a.meta = IF q.meta = Nil THEN NoMeta ELSE maps[q.meta]
  /\ q.expr.meta = a.meta
  /\ q.filter = a.filter /\ q.expr.filter = a.filter
  /\ q.passing = a.passing

QueryInv ==
  /\ queries \in [Names -> Values] /\ asked \in [Names -> Wishes]
  /\ arrays \in Seq(Arrays) /\ maps \in Seq(Tags) /\ calls \in Nat
  /\ \A n \in Names : Holds(queries[n], asked[n])

LEMMA QueryInvImplies == QueryInv => QueriesTypeOK /\ AskedAsBuilt
<1>. SUFFICES ASSUME QueryInv PROVE QueriesTypeOK /\ AskedAsBuilt
  OBVIOUS
<1>1. QueriesTypeOK
  BY DEF QueryInv, Holds, QueriesTypeOK
<1>2. ASSUME NEW n \in Names PROVE Sent(n) = asked[n]
  <2>. DEFINE q == queries[n]
              a == asked[n]
  <2>1. Holds(q, a) /\ q \in Values /\ a \in Wishes
    BY DEF QueryInv
  <2>2. Elements(q.tags) = a.tags
    <3>1. CASE q.tags.array = Nil
      BY <2>1, <3>1 DEF Holds, Elements
    <3>2. CASE q.tags.array # Nil
      BY <2>1, <3>2, SubSeqFull DEF Holds, Elements, Wishes
    <3>. QED  BY <3>1, <3>2
  <2>3. a = [tags |-> a.tags, meta |-> a.meta, filter |-> a.filter, passing |-> a.passing]
    BY <2>1 DEF Wishes
  <2>. QED  BY <2>1, <2>2, <2>3 DEF Sent, Holds
<1>. QED  BY <1>1, <1>2 DEF AskedAsBuilt

LEMMA QueryInit == QueriesInit => QueryInv
<1>. SUFFICES ASSUME QueriesInit PROVE QueryInv
  OBVIOUS
<1>1. Service \in Values /\ Everything \in Wishes
  BY DEF Service, Everything, Values, Wishes, Nil
<1>2. arrays = <<>> /\ maps = <<>> /\ Len(<<>>) = 0 /\ calls = 0
  BY DEF QueriesInit
<1>3. Holds(Service, Everything)
  BY <1>2 DEF Holds, Service, Everything, Nil
<1>. QED  BY <1>1, <1>2, <1>3 DEF QueriesInit, QueryInv

\* Arrays and maps are only added.
LEMMA HoldsOn ==
  ASSUME QueryInv, NEW q \in Values, NEW a \in Wishes, Holds(q, a), calls' = calls + 1,
         Len(arrays') >= Len(arrays), \A i \in 1..Len(arrays) : arrays'[i] = arrays[i],
         Len(maps') >= Len(maps), \A i \in 1..Len(maps) : maps'[i] = maps[i],
         Len(arrays') \in Nat, Len(maps') \in Nat
  PROVE  Holds(q, a)'
<1>1. Len(arrays) \in Nat /\ Len(maps) \in Nat /\ calls \in Nat
  BY DEF QueryInv
<1>2. q.tags.array \in Nat /\ q.tags.len \in Nat /\ q.meta \in Nat
  BY DEF Values
<1>3. /\ q.tags.array \in 0..Len(arrays)' /\ q.meta \in 0..Len(maps)'
      /\ q.tags.len <= calls'
  BY <1>1, <1>2 DEF Holds
<1>4. ASSUME q.tags.array # Nil
      PROVE  arrays'[q.tags.array].elems = arrays[q.tags.array].elems
  BY <1>1, <1>2, <1>4 DEF Holds, Nil
<1>5. ASSUME q.meta # Nil
      PROVE  maps'[q.meta] = maps[q.meta]
  BY <1>1, <1>2, <1>5 DEF Holds, Nil
<1>. QED  BY <1>3, <1>4, <1>5 DEF Holds

LEMMA Appending ==
  ASSUME NEW S, NEW s \in Seq(S), NEW e \in S
  PROVE  /\ Append(s, e) \in Seq(S) /\ Len(Append(s, e)) = Len(s) + 1
         /\ Append(s, e)[Len(s) + 1] = e
         /\ \A i \in 1..Len(s) : Append(s, e)[i] = s[i]
  OBVIOUS

LEMMA TaggedOK ==
  ASSUME QueryInv, NEW b \in Names, NEW t \in Tags
  PROVE  LET result == Tagged(queries[b].tags, t)
             slice  == result[1]
         IN  /\ result[2] \in Seq(Arrays)
             /\ Len(result[2]) > Len(arrays)
             /\ \A i \in 1..Len(arrays) : result[2][i] = arrays[i]
             /\ slice \in [array: Nat, len: Nat]
             /\ slice.array \in 1..Len(result[2])
             /\ slice.len = queries[b].tags.len + 1
             /\ result[2][slice.array].elems = Append(asked[b].tags, t)
<1>. DEFINE s == queries[b].tags
            a == asked[b].tags
            n == Len(a)
            N == Len(arrays)
<1>1. /\ s \in [array: Nat, len: Nat] /\ s.len = n /\ a \in Seq(Tags) /\ n \in Nat
      /\ arrays \in Seq(Arrays) /\ N \in Nat /\ s.array \in 0..N
      /\ s.array = Nil => a = <<>>
      /\ s.array # Nil => arrays[s.array].elems = a
  BY DEF QueryInv, Holds, Values, Wishes
<1>. DEFINE e == [cap |-> IF n = 0 THEN 1 ELSE 2 * n, elems |-> Append(a, t)]
<1>2. e \in Arrays
  BY <1>1 DEF Arrays
<1>3. SubSeq(a, 1, n) = a
  BY <1>1, SubSeqFull
<1>4. CASE s.array = Nil
  <2>1. SubSeq(<<>>, 1, s.len) = a
    BY <1>1, <1>3, <1>4
  <2>2. Clone(s) = <<s, arrays>>
    BY <1>4 DEF Clone
  <2>3. Tagged(s, t) = <<[array |-> N + 1, len |-> n + 1], Append(arrays, e)>>
    <3>1. Clone(s)[1] = s /\ Clone(s)[2] = arrays
      BY <2>2
    <3>2. s.len = n /\ s.array = Nil
      BY <1>1, <1>4
    <3>. HIDE DEF s, a
    <3>3. Appended(s, arrays, t) = <<[array |-> N + 1, len |-> n + 1], Append(arrays, e)>>
      BY <2>1, <3>2 DEF Appended
    <3>. QED  BY <3>1, <3>3 DEF Tagged
  <2>. DEFINE longer == Append(arrays, e)
              slice  == [array |-> N + 1, len |-> n + 1]
  <2>4. e.elems = Append(a, t)
    BY DEF e
  <2>5. Tagged(s, t)[1] = slice /\ Tagged(s, t)[2] = longer
    BY <2>3
  <2>. HIDE DEF e
  <2>6. longer \in Seq(Arrays) /\ Len(longer) = N + 1 /\ longer[N + 1] = e
        /\ \A i \in 1..N : longer[i] = arrays[i]
    BY <1>1, <1>2, Appending
  <2>. HIDE DEF longer
  <2>7. /\ slice \in [array: Nat, len: Nat] /\ slice.array = N + 1 /\ slice.len = s.len + 1
        /\ N + 1 \in 1..Len(longer) /\ Len(longer) > N
    BY <1>1, <2>6
  <2>. HIDE DEF slice, N, n
  <2>. QED  BY <2>4, <2>5, <2>6, <2>7 DEF N
<1>5. CASE s.array # Nil
  <2>. DEFINE d  == [cap |-> n, elems |-> a]
              arr == Append(arrays, d)
              c  == [array |-> N + 1, len |-> n]
  <2>1. Elements(s) = a
    BY <1>1, <1>3, <1>5 DEF Elements
  <2>2. Clone(s) = <<c, arr>>
    BY <1>1, <1>5, <2>1 DEF Clone
  <2>3. d \in Arrays /\ arr \in Seq(Arrays) /\ Len(arr) = N + 1 /\ arr[N + 1] = d
        /\ \A i \in 1..N : arr[i] = arrays[i]
    BY <1>1 DEF Arrays
  <2>4. c.array # Nil /\ arr[c.array].cap = n /\ arr[c.array].elems = a /\ c.len = n
        /\ Len(arr) + 1 = N + 2 /\ ~(n + 1 <= n)
    BY <1>1, <2>3 DEF Nil
  <2>. HIDE DEF arr, c
  <2>6. Appended(c, arr, t) = <<[array |-> N + 2, len |-> n + 1], Append(arr, e)>>
    BY <1>3, <2>4 DEF Appended
  <2>5. Tagged(s, t) = <<[array |-> N + 2, len |-> n + 1], Append(arr, e)>>
    <3>1. Clone(s)[1] = c /\ Clone(s)[2] = arr
      BY <2>2
    <3>. QED  BY <2>6, <3>1 DEF Tagged
  <2>. HIDE DEF e
  <2>. DEFINE both == Append(arr, e)
  <2>. HIDE DEF both
  <2>7. both \in Seq(Arrays) /\ Len(both) = N + 2 /\ both[N + 2] = e
        /\ \A i \in 1..N : both[i] = arrays[i]
    <3>. HIDE DEF d, e
    <3>1. /\ both \in Seq(Arrays) /\ Len(both) = Len(arr) + 1 /\ both[Len(arr) + 1] = e
          /\ \A i \in 1..Len(arr) : both[i] = arr[i]
      <4>1. e \in Arrays /\ arr \in Seq(Arrays)
        BY <1>2, <2>3
      <4>. QED  BY <4>1, Appending DEF both
    <3>2. N \in Nat /\ Len(arr) = N + 1 /\ \A i \in 1..N : arr[i] = arrays[i]
      BY <1>1, <2>3
    <3>. HIDE DEF both, N, s, a, n
    <3>3. Len(arr) + 1 = N + 2
      BY <3>2
    <3>4. \A i \in 1..N : i \in 1..Len(arr)
      BY <3>2
    <3>5. \A i \in 1..N : both[i] = arrays[i]
      BY <3>1, <3>2, <3>4
    <3>. QED  BY <3>1, <3>3, <3>5
  <2>8. e.elems = Append(a, t)
    BY DEF e
  <2>9. Tagged(s, t) = <<[array |-> N + 2, len |-> n + 1], both>>
    BY <2>5 DEF both
  <2>. DEFINE slice == [array |-> N + 2, len |-> n + 1]
  <2>10. Tagged(s, t)[1] = slice /\ Tagged(s, t)[2] = both
    BY <2>9
  <2>11. /\ slice \in [array: Nat, len: Nat] /\ slice.array = N + 2 /\ slice.len = s.len + 1
         /\ N + 2 \in 1..Len(both) /\ Len(both) > N
    BY <1>1, <2>7
  <2>. HIDE DEF slice, e, N, n
  <2>. QED  BY <2>7, <2>8, <2>10, <2>11 DEF N
<1>. QED  BY <1>4, <1>5

\* Only the variable n changes, to a query that holds what was asked for.
LEMMA DerivesOK ==
  ASSUME QueryInv, NEW n \in Names, NEW b \in Names, NEW q \in Values, NEW a \in Wishes,
         Derives(n, b, q, a), Holds(q, a)',
         arrays' \in Seq(Arrays), maps' \in Seq(Tags),
         Len(arrays') >= Len(arrays), \A i \in 1..Len(arrays) : arrays'[i] = arrays[i],
         Len(maps') >= Len(maps), \A i \in 1..Len(maps) : maps'[i] = maps[i]
  PROVE  QueryInv'
<1>1. calls' = calls + 1 /\ calls' \in Nat
  BY DEF Derives, Called, QueryInv
<1>2. /\ queries' = [queries EXCEPT ![n] = q] /\ asked' = [asked EXCEPT ![n] = a]
      /\ queries' \in [Names -> Values] /\ asked' \in [Names -> Wishes]
  BY DEF Derives, QueryInv
<1>3. ASSUME NEW m \in Names PROVE Holds(queries[m], asked[m])'
  <2>1. CASE m = n
    <3>1. queries'[m] = q /\ asked'[m] = a
      BY <1>2, <2>1 DEF QueryInv
    <3>. QED  BY <3>1 DEF Holds
  <2>2. CASE m # n
    <3>1. queries'[m] = queries[m] /\ asked'[m] = asked[m]
      BY <1>2, <2>2 DEF QueryInv
    <3>2. queries[m] \in Values /\ asked[m] \in Wishes /\ Holds(queries[m], asked[m])
      BY DEF QueryInv
    <3>3. Len(arrays') \in Nat /\ Len(maps') \in Nat
      OBVIOUS
    <3>4. \A v \in Values, w \in Wishes : Holds(v, w) => Holds(v, w)'
      BY <1>1, <3>3, HoldsOn
    <3>5. PICK v \in Values, w \in Wishes : v = queries[m] /\ w = asked[m]
      BY <3>2
    <3>6. Holds(v, w)'
      BY <3>2, <3>4, <3>5
    <3>. QED  BY <3>1, <3>5, <3>6 DEF Holds
  <2>. QED  BY <2>1, <2>2
<1>. QED  BY <1>1, <1>2, <1>3 DEF QueryInv

LEMMA QueryStep == QueryInv /\ QueriesNext => QueryInv'
<1>. SUFFICES ASSUME QueryInv, QueriesNext PROVE QueryInv'
  OBVIOUS
<1>1. PICK n \in Names, b \in Names :
        \/ \E t \in Tags : Tag(n, b, t) \/ Meta(n, b, t) \/ Filter(n, b, t)
        \/ \E passing \in BOOLEAN : Status(n, b, passing)
  BY DEF QueriesNext
<1>0. PICK q \in Values, a \in Wishes : q = queries[b] /\ a = asked[b]
  BY DEF QueryInv
<1>2. /\ Holds(q, a)
      /\ arrays \in Seq(Arrays) /\ maps \in Seq(Tags) /\ Len(arrays) \in Nat /\ Len(maps) \in Nat
      /\ calls \in Nat
  BY <1>0 DEF QueryInv
<1>3. ASSUME NEW t \in Tags, Tag(n, b, t) PROVE QueryInv'
  <2>0. PICK result : result = Tagged(q.tags, t)
    OBVIOUS
  <2>. DEFINE q1 == [q EXCEPT !.tags = result[1]]
              a1 == [a EXCEPT !.tags = Append(@, t)]
  <2>1. /\ result[2] \in Seq(Arrays) /\ Len(result[2]) > Len(arrays)
        /\ \A i \in 1..Len(arrays) : result[2][i] = arrays[i]
        /\ result[1] \in [array: Nat, len: Nat]
        /\ result[1].array \in 1..Len(result[2])
        /\ result[1].len = q.tags.len + 1
        /\ result[2][result[1].array].elems = Append(a.tags, t)
    BY <1>0, <2>0, TaggedOK
  <2>2. Derives(n, b, q1, a1) /\ arrays' = result[2] /\ maps' = maps /\ calls' = calls + 1
    BY <1>0, <1>3, <2>0 DEF Tag, Derives, Called
  <2>3. /\ q1 \in Values /\ q1.tags = result[1] /\ q1.meta = q.meta /\ q1.expr = q.expr
        /\ q1.filter = q.filter /\ q1.passing = q.passing
    BY <1>2, <2>1 DEF Values
  <2>a. Append(a.tags, t) \in Seq(Tags) /\ Len(Append(a.tags, t)) = Len(a.tags) + 1
    BY Appending DEF Wishes
  <2>4. /\ a1 \in Wishes /\ a1.tags = Append(a.tags, t) /\ a1.meta = a.meta
        /\ a1.filter = a.filter /\ a1.passing = a.passing
    BY <2>a DEF Wishes
  <2>. HIDE DEF q1, a1
  <2>5. Holds(q1, a1)'
    <3>1. /\ q1.tags.array \in 0..Len(arrays)' /\ q1.tags.array # Nil
          /\ q1.tags.len = Len(a1.tags)
          /\ arrays'[q1.tags.array].elems = a1.tags
      BY <1>2, <2>a, <2>1, <2>2, <2>3, <2>4 DEF Holds, Nil
    <3>2. q1.tags.len <= calls'
      BY <1>2, <2>1, <2>2, <2>3 DEF Holds, Values
    <3>3. /\ q1.meta \in 0..Len(maps)'
          /\ a1.meta = IF q1.meta = Nil THEN NoMeta ELSE maps'[q1.meta]
          /\ q1.expr.meta = a1.meta /\ q1.filter = a1.filter /\ q1.expr.filter = a1.filter
          /\ q1.passing = a1.passing
      BY <1>2, <2>2, <2>3, <2>4 DEF Holds
    <3>. QED  BY <3>1, <3>2, <3>3 DEF Holds
  <2>6. arrays' \in Seq(Arrays) /\ maps' \in Seq(Tags) /\ Len(arrays') >= Len(arrays)
        /\ Len(maps') >= Len(maps)
    BY <1>2, <2>1, <2>2
  <2>. QED  BY <2>1, <2>2, <2>3, <2>4, <2>5, <2>6, DerivesOK
<1>4. ASSUME NEW v \in Tags, Meta(n, b, v) PROVE QueryInv'
  <2>0. PICK k \in Nat : k = Len(maps) + 1
    BY <1>2
  <2>. DEFINE q1 == [q EXCEPT !.meta = k, !.expr = FilterExpr(v, q.filter)]
              a1 == [a EXCEPT !.meta = v]
  <2>1. Derives(n, b, q1, a1) /\ arrays' = arrays /\ maps' = Append(maps, v) /\ calls' = calls + 1
    BY <1>0, <1>4, <2>0 DEF Meta, Derives, Called
  <2>2. /\ maps' \in Seq(Tags) /\ Len(maps') = Len(maps) + 1 /\ maps'[Len(maps) + 1] = v
        /\ \A i \in 1..Len(maps) : maps'[i] = maps[i]
    BY <1>2, <2>1, Appending
  <2>3. /\ q1 \in Values /\ q1.tags = q.tags /\ q1.meta = k
        /\ q1.expr.meta = v /\ q1.expr.filter = q.filter
        /\ q1.filter = q.filter /\ q1.passing = q.passing
    BY <1>2 DEF Values, FilterExpr
  <2>4. /\ a1 \in Wishes /\ a1.tags = a.tags /\ a1.meta = v
        /\ a1.filter = a.filter /\ a1.passing = a.passing
    BY <1>2 DEF Wishes
  <2>. HIDE DEF q1, a1
  <2>5. Holds(q1, a1)'
    BY <1>2, <2>0, <2>1, <2>2, <2>3, <2>4 DEF Holds, Nil, Values, Wishes
  <2>. QED  BY <1>2, <2>1, <2>2, <2>3, <2>4, <2>5, DerivesOK
<1>5. ASSUME NEW f \in Tags, Filter(n, b, f) PROVE QueryInv'
  <2>0. PICK meta : meta = IF q.meta = Nil THEN NoMeta ELSE maps[q.meta]
    OBVIOUS
  <2>. DEFINE filter == q.filter \union {f}
              q1 == [q EXCEPT !.filter = filter, !.expr = FilterExpr(meta, filter)]
              a1 == [a EXCEPT !.filter = filter]
  <2>1. Derives(n, b, q1, a1) /\ arrays' = arrays /\ maps' = maps /\ calls' = calls + 1
    BY <1>0, <1>5, <2>0 DEF Filter, Derives, Called
  <2>2. meta = a.meta /\ meta \in Tags \union {NoMeta} /\ filter \in SUBSET Tags
    BY <1>2, <2>0 DEF Holds, Wishes, Values
  <2>. HIDE DEF filter
  <2>3. /\ q1 \in Values /\ q1.tags = q.tags /\ q1.meta = q.meta
        /\ q1.expr.meta = meta /\ q1.expr.filter = filter
        /\ q1.filter = filter /\ q1.passing = q.passing
    BY <1>2, <2>2 DEF Values, FilterExpr
  <2>4. /\ a1 \in Wishes /\ a1.tags = a.tags /\ a1.meta = a.meta
        /\ a1.filter = filter /\ a1.passing = a.passing
    BY <1>2, <2>2 DEF Wishes, Holds
  <2>. HIDE DEF q1, a1
  <2>5. Holds(q1, a1)'
    BY <1>2, <2>1, <2>2, <2>3, <2>4 DEF Holds, Nil, Values, Wishes
  <2>. QED  BY <1>2, <2>1, <2>3, <2>4, <2>5, DerivesOK
<1>6. ASSUME NEW passing \in BOOLEAN, Status(n, b, passing) PROVE QueryInv'
  <2>. DEFINE q1 == [q EXCEPT !.passing = passing]
              a1 == [a EXCEPT !.passing = passing]
  <2>1. Derives(n, b, q1, a1) /\ arrays' = arrays /\ maps' = maps /\ calls' = calls + 1
    BY <1>0, <1>6 DEF Status, Derives, Called
  <2>2. /\ q1 \in Values /\ q1.tags = q.tags /\ q1.meta = q.meta /\ q1.expr = q.expr
        /\ q1.filter = q.filter /\ q1.passing = passing
    BY <1>2 DEF Values
  <2>3. /\ a1 \in Wishes /\ a1.tags = a.tags /\ a1.meta = a.meta
        /\ a1.filter = a.filter /\ a1.passing = passing
    BY <1>2 DEF Wishes
  <2>. HIDE DEF q1, a1
  <2>4. Holds(q1, a1)'
    BY <1>2, <2>1, <2>2, <2>3 DEF Holds, Nil, Values, Wishes
  <2>. QED  BY <1>2, <2>1, <2>2, <2>3, <2>4, DerivesOK
<1>. QED  BY <1>1, <1>3, <1>4, <1>5, <1>6

-----------------------------------------------------------------------------
(***************************************************************************)
(* The agent, and the clients that ask it.                                 *)
(***************************************************************************)

\* What holds of every request: a registration names a service, no request from
\* before an outage is still served, and one that waits has a reason to.
RequestOK(r) ==
  /\ r \in Requests
  /\ r.step = "decoded" \/ (r.ask.kind = "register" /\ r.step \in {"arrived", "serving"})
       => r.ask.id \in ServiceIDs /\ r.ask.def \in Definitions
  /\ failing /\ ~breaking
       => r.step \in {"none", "answered"} \/ (r.step = "arrived" /\ r.fail)
  /\ r.step = "parked" => r.ask.kind # "register" /\ (~r.changed => NothingNew(r.ask))

AgentInv == AgentTypeOK /\ \A c \in Clients : RequestOK(requests[c])

LEMMA AgentInvImplies == AgentInv => NobodyWaitsInVain
  BY DEF AgentInv, RequestOK, NobodyWaitsInVain, AgentTypeOK

LEMMA NothingIn == 0 \in Indexes /\ NoHang \in 0..MaxFaults /\ NoHash \in Hashes
  BY AgentAssumption DEF Indexes, Hashes, NoHang

LEMMA NoRequestOK == RequestOK(NoRequest)
  BY AgentAssumption DEF RequestOK, NoRequest, Nothing, Requests, Questions, Kinds, Indexes, Hashes, NoHang

LEMMA AgentInitOK == AgentInit => AgentInv
<1>1. ASSUME AgentInit PROVE AgentTypeOK
  <2>1. DOMAIN services = {} /\ Range(services) = {}
    <3>1. services = <<>> /\ DOMAIN <<>> = {}
      BY <1>1 DEF AgentInit
    <3>. QED  BY <3>1 DEF Range
  <2>2. requests \in [Clients -> Requests]
    BY <1>1, NoRequestOK DEF AgentInit, RequestOK
  <2>3. DOMAIN services \subseteq ServiceIDs /\ Range(services) \subseteq Definitions
    BY <2>1
  <2>4. /\ maintained \subseteq ServiceIDs /\ hasKeys \in BOOLEAN /\ failing \in BOOLEAN
        /\ breaking \in BOOLEAN
    BY <1>1 DEF AgentInit
  <2>5. index \in 1..(MaxWrites + 1) /\ hanging \in 0..MaxFaults /\ failNext \in 0..1
        /\ faults \in 0..MaxFaults
    BY <1>1, AgentAssumption DEF AgentInit, NoHang
  <2>. QED  BY <2>2, <2>3, <2>4, <2>5 DEF AgentTypeOK
<1>. QED  BY <1>1, NoRequestOK DEF AgentInit, AgentInv

\* One request goes on, and nothing else changes that it depends on.
LEMMA ContinueOK ==
  ASSUME AgentInv, NEW c \in Clients, NEW r, RequestOK(r), Continue(c, r),
         UNCHANGED <<services, index, failing, breaking>>
  PROVE  requests' \in [Clients -> Requests] /\ \A d \in Clients : RequestOK(requests[d])'
<1>1. requests \in [Clients -> Requests] /\ r \in Requests
  BY DEF AgentInv, AgentTypeOK, RequestOK
<1>2. \A d \in Clients : requests'[d] = IF d = c THEN r ELSE requests[d]
  BY <1>1 DEF Continue
<1>3. \A d \in Clients : RequestOK(requests'[d])
  BY <1>2 DEF AgentInv
<1>. QED  BY <1>1, <1>3 DEF Continue, RequestOK, NothingNew

\* The channel is closed: all that are parked will look again.
LEMMA NotifyOK ==
  ASSUME AgentInv, NEW c \in Clients, NEW r \in Requests, r.step = "answered",
         requests' = Notify \/ requests' = [Notify EXCEPT ![c] = r],
         UNCHANGED <<failing, breaking>>
  PROVE  requests' \in [Clients -> Requests] /\ \A d \in Clients : RequestOK(requests[d])'
<1>1. requests \in [Clients -> Requests] /\ \A d \in Clients : RequestOK(requests[d])
  BY DEF AgentInv, AgentTypeOK
<1>2. \A d \in Clients : requests'[d] = r \/ requests'[d] = Woken(requests[d])
  BY DEF Notify
<1>3. ASSUME NEW d \in Clients
      PROVE  Woken(requests[d]) \in Requests /\ RequestOK(Woken(requests[d]))
             /\ (Woken(requests[d]).step = "parked" => Woken(requests[d]).changed)
  BY <1>1 DEF Woken, RequestOK, Requests
<1>4. requests' \in [Clients -> Requests]
  BY <1>2, <1>3 DEF Notify
<1>5. ASSUME NEW d \in Clients PROVE RequestOK(requests[d])'
  <2>1. CASE requests'[d] = r
    BY <2>1, <1>4 DEF RequestOK
  <2>2. CASE requests'[d] = Woken(requests[d])
    BY <2>2, <1>3, <1>4 DEF RequestOK
  <2>. QED  BY <1>2, <2>1, <2>2
<1>. QED  BY <1>4, <1>5

\* An answer is a request like any other.
LEMMA AnsweredOK ==
  ASSUME AgentInv, NEW c \in Clients, NEW status \in {"ok", "failed", "unknown"}
  PROVE  /\ Answered(c, status) \in Requests
         /\ Answered(c, status).step = "answered"
         /\ RequestOK(Answered(c, status))
<1>1. requests[c].ask.kind \in Kinds
  BY DEF AgentInv, RequestOK, Requests, Questions
<1>2. [Nothing EXCEPT !.kind = requests[c].ask.kind]
        \in Questions
  BY <1>1, AgentAssumption DEF Nothing, Questions, Indexes, Hashes
<1>3. Answered(c, status) = [NoRequest EXCEPT !.step = "answered", !.status = status,
                               !.ask = [Nothing EXCEPT !.kind = requests[c].ask.kind]]
  BY DEF Answered, NoRequest
<1>4. NoRequest \in Requests
  BY NoRequestOK DEF RequestOK
<1>. QED  BY <1>2, <1>3, <1>4 DEF RequestOK, Requests

LEMMA IndexIn == AgentInv => index \in Indexes
  BY AgentAssumption DEF AgentInv, AgentTypeOK, Indexes

LEMMA HashIn == ASSUME AgentInv, NEW id \in DOMAIN services PROVE services[id] \in Hashes
  BY DEF AgentInv, AgentTypeOK, Hashes, Range

LEMMA ArriveOK ==
  ASSUME AgentInv, NEW c \in Clients, NEW ask, Arrive(c, ask),
         [NoRequest EXCEPT !.step = "arrived", !.ask = ask] \in Requests,
         ask.kind = "register" => ask.id \in ServiceIDs /\ ask.def \in Definitions
  PROVE  AgentInv'
<1>. DEFINE r == [NoRequest EXCEPT !.step = "arrived", !.ask = ask, !.fail = failing, !.hang = hanging]
<1>1. RequestOK(r)
  BY DEF AgentInv, AgentTypeOK, RequestOK, NoRequest, Requests
<1>2. Continue(c, r) /\ UNCHANGED <<Rest, Injected>>
  BY DEF Arrive
<1>. HIDE DEF r
<1>3. requests' \in [Clients -> Requests] /\ \A d \in Clients : RequestOK(requests[d])'
  BY <1>1, <1>2, ContinueOK DEF Rest, Data, Injected
<1>. QED  BY <1>2, <1>3 DEF AgentInv, AgentTypeOK, Rest, Data, Injected

\* Steps of a request that change nothing else.
LEMMA GoesOn ==
  ASSUME AgentInv, NEW c \in Clients, NEW r, RequestOK(r), Continue(c, r),
         UNCHANGED <<Rest, Injected>>
  PROVE  AgentInv'
<1>1. requests' \in [Clients -> Requests] /\ \A d \in Clients : RequestOK(requests[d])'
  BY ContinueOK DEF Rest, Data, Injected
<1>. QED  BY <1>1 DEF AgentInv, AgentTypeOK, Rest, Data, Injected

LEMMA ServeOK == ASSUME AgentInv, NEW c \in Clients, Serve(c) PROVE AgentInv'
<1>1. requests[c] \in Requests /\ RequestOK(requests[c])
  BY DEF AgentInv, AgentTypeOK
<1>2. CASE Dispatch(c)
  <2>1. CASE requests[c].fail
    BY <2>1, <1>2, AnsweredOK, GoesOn DEF Dispatch, Answer
  <2>2. CASE ~requests[c].fail
    <3>. DEFINE r == [requests[c] EXCEPT !.step = "serving", !.hang = NoHang]
    <3>0. r \in Requests /\ r.step = "serving" /\ r.ask = requests[c].ask
      BY <1>1, NothingIn DEF Requests
    <3>1. RequestOK(r)
      BY <1>1, <1>2, <2>2, <3>0 DEF Dispatch, RequestOK
    <3>. QED  BY <1>2, <2>2, <3>1, GoesOn DEF Dispatch
  <2>. QED  BY <2>1, <2>2
<1>3. CASE FailRegister(c)
  <2>1. requests' \in [Clients -> Requests] /\ \A d \in Clients : RequestOK(requests[d])'
    BY <1>3, AnsweredOK, ContinueOK DEF FailRegister, Answer, Data, Injected
  <2>2. failNext' \in 0..1
    BY <1>3 DEF FailRegister, AgentInv, AgentTypeOK
  <2>. QED  BY <1>3, <2>1, <2>2 DEF FailRegister, AgentInv, AgentTypeOK, Data, Injected
<1>4. CASE DecodeRegister(c)
  <2>1. RequestOK([requests[c] EXCEPT !.step = "decoded"])
    BY <1>1, <1>4 DEF DecodeRegister, Serving, RequestOK, Requests
  <2>. QED  BY <1>4, <2>1, GoesOn DEF DecodeRegister
<1>5. CASE Register(c)
  <2>1. requests' \in [Clients -> Requests] /\ \A d \in Clients : RequestOK(requests[d])'
    BY <1>5, AnsweredOK, NotifyOK DEF Register, Injected
  <2>2. DOMAIN services' \subseteq ServiceIDs /\ Range(services') \subseteq Definitions
    BY <1>1, <1>5 DEF Register, RequestOK, AgentInv, AgentTypeOK, Range
  <2>. QED  BY <1>5, <2>1, <2>2 DEF Register, AgentInv, AgentTypeOK, Injected
<1>6. CASE Deregister(c)
  <2>1. CASE Known(c)
    <3>1. requests' \in [Clients -> Requests] /\ \A d \in Clients : RequestOK(requests[d])'
      BY <1>6, <2>1, AnsweredOK, NotifyOK DEF Deregister, Injected
    <3>2. DOMAIN services' \subseteq ServiceIDs /\ Range(services') \subseteq Definitions
      BY <1>6, <2>1 DEF Deregister, Restrict, AgentInv, AgentTypeOK, Range
    <3>. QED  BY <1>6, <3>1, <3>2 DEF Deregister, AgentInv, AgentTypeOK, Injected
  <2>2. CASE ~Known(c)
    BY <1>6, <2>2, AnsweredOK, GoesOn DEF Deregister, Answer, Rest, Data
  <2>. QED  BY <2>1, <2>2
<1>7. CASE SetMaintenance(c)
  <2>1. requests' \in [Clients -> Requests] /\ \A d \in Clients : RequestOK(requests[d])'
    BY <1>7, AnsweredOK, ContinueOK DEF SetMaintenance, Answer, Injected
  <2>2. maintained' \subseteq ServiceIDs
    BY <1>7 DEF SetMaintenance, Known, AgentInv, AgentTypeOK
  <2>. QED  BY <1>7, <2>1, <2>2 DEF SetMaintenance, AgentInv, AgentTypeOK, Injected
<1>8. CASE UpdateTTL(c)
  BY <1>8, AnsweredOK, GoesOn DEF UpdateTTL, Answer
<1>9. ASSUME requests[c].step = "serving", requests[c].ask.kind # "register",
             NothingNew(requests[c].ask)
      PROVE  RequestOK([requests[c] EXCEPT !.step = "parked"])
  BY <1>1, <1>9 DEF RequestOK, Requests
<1>10. ASSUME NEW status \in {"ok", "unknown"}
       PROVE  RequestOK([Answered(c, status) EXCEPT !.index = index])
  BY AnsweredOK, IndexIn DEF RequestOK, Requests
<1>11. ASSUME Known(c)
       PROVE  RequestOK([Answered(c, "ok") EXCEPT !.hash = services[requests[c].ask.id]])
  BY <1>11, AnsweredOK, HashIn DEF RequestOK, Requests, Known
<1>12. CASE GetService(c)
  <2>1. CASE NothingNew(requests[c].ask)
    BY <1>9, <1>12, <2>1, GoesOn DEF GetService, Serving, Park
  <2>2. CASE ~NothingNew(requests[c].ask) /\ Known(c)
    BY <1>11, <1>12, <2>2, GoesOn DEF GetService, AnswerAs
  <2>3. CASE ~NothingNew(requests[c].ask) /\ ~Known(c)
    BY <1>12, <2>3, AnsweredOK, GoesOn DEF GetService, Answer
  <2>. QED  BY <2>1, <2>2, <2>3
<1>13. CASE HealthService(c)
  <2>1. CASE NothingNew(requests[c].ask)
    BY <1>9, <1>13, <2>1, GoesOn DEF HealthService, Serving, Park
  <2>2. CASE ~NothingNew(requests[c].ask)
    BY <1>10, <1>13, <2>2, GoesOn DEF HealthService, AnswerAt
  <2>. QED  BY <2>1, <2>2
<1>14. CASE KVRead(c)
  <2>1. CASE NothingNew(requests[c].ask)
    BY <1>9, <1>14, <2>1, GoesOn DEF KVRead, Serving, Park
  <2>2. CASE ~NothingNew(requests[c].ask)
    BY <1>10, <1>14, <2>2, GoesOn DEF KVRead, AnswerAt
  <2>. QED  BY <2>1, <2>2
<1>15. CASE Wake(c)
  <2>. DEFINE r == [requests[c] EXCEPT !.step = "serving", !.changed = FALSE]
  <2>0. r \in Requests /\ r.step = "serving" /\ r.ask = requests[c].ask
    BY <1>1 DEF Requests
  <2>1. RequestOK(r)
    BY <1>1, <1>15, <2>0 DEF Wake, RequestOK
  <2>. QED  BY <1>15, <2>1, GoesOn DEF Wake
<1>16. CASE Deadline(c)
  <2>. DEFINE r == [requests[c] EXCEPT !.step = "serving", !.changed = FALSE,
                                       !.ask.want = 0, !.ask.hash = NoHash]
  <2>. DEFINE ask == [requests[c].ask EXCEPT !.want = 0, !.hash = NoHash]
  <2>a. r = [requests[c] EXCEPT !.step = "serving", !.changed = FALSE, !.ask = ask]
    BY <1>1 DEF Requests
  <2>b. /\ ask \in Questions
        /\ ask.kind = requests[c].ask.kind
    BY <1>1, NothingIn DEF Requests, Questions
  <2>. HIDE DEF ask
  <2>0. r \in Requests /\ r.step = "serving" /\ r.ask.kind = requests[c].ask.kind
    BY <1>1, <2>a, <2>b DEF Requests
  <2>1. RequestOK(r)
    BY <1>1, <1>16, <2>0 DEF Deadline, RequestOK
  <2>. QED  BY <1>16, <2>1, GoesOn DEF Deadline
<1>. QED  BY <1>2, <1>3, <1>4, <1>5, <1>6, <1>7, <1>8, <1>12, <1>13, <1>14, <1>15, <1>16 DEF Serve

LEMMA DoneOK == ASSUME AgentInv, NEW c \in Clients, Done(c) PROVE AgentInv'
  BY NoRequestOK, GoesOn DEF Done

LEMMA TestOK == ASSUME AgentInv, Clients # {}, TestStep PROVE AgentInv'
<1>1. PICK c \in Clients : TRUE
  OBVIOUS
<1>2. requests \in [Clients -> Requests] /\ \A d \in Clients : RequestOK(requests[d])
  BY DEF AgentInv, AgentTypeOK
<1>3. ASSUME Write, hasKeys' \in BOOLEAN PROVE AgentInv'
  <2>1. requests' \in [Clients -> Requests] /\ \A d \in Clients : RequestOK(requests[d])'
    BY <1>1, <1>3, AnsweredOK, NotifyOK DEF Write, Injected
  <2>2. index' \in 1..(MaxWrites + 1)
    BY <1>3, AgentAssumption DEF Write, AgentInv, AgentTypeOK
  <2>. QED  BY <1>3, <2>1, <2>2 DEF Write, AgentInv, AgentTypeOK, Injected
<1>4. CASE BumpIndex \/ PutKV \/ DeleteKV
  BY <1>3, <1>4 DEF BumpIndex, PutKV, DeleteKV, AgentInv, AgentTypeOK
<1>5. ASSUME Fault PROVE faults' \in 0..MaxFaults
  BY <1>5, AgentAssumption DEF Fault, AgentInv, AgentTypeOK
<1>6. CASE Forget
  <2>1. requests' \in [Clients -> Requests] /\ \A d \in Clients : RequestOK(requests[d])'
    BY <1>1, <1>6, AnsweredOK, NotifyOK DEF Forget
  <2>2. DOMAIN services' = {} /\ Range(services') = {}
    <3>1. services' = <<>> /\ DOMAIN <<>> = {}
      BY <1>6 DEF Forget
    <3>. QED  BY <3>1 DEF Range
  <2>3. DOMAIN services' \subseteq ServiceIDs /\ Range(services') \subseteq Definitions
    BY <2>2
  <2>. QED  BY <1>5, <1>6, <2>1, <2>3 DEF Forget, AgentInv, AgentTypeOK
<1>7. ASSUME UNCHANGED <<requests, services, index>>,
             failing' /\ ~breaking' => failing /\ ~breaking
      PROVE  requests' \in [Clients -> Requests] /\ \A d \in Clients : RequestOK(requests[d])'
  BY <1>2, <1>7 DEF RequestOK, NothingNew
<1>8. CASE FailNextRegisters
  <2>1. requests' \in [Clients -> Requests] /\ \A d \in Clients : RequestOK(requests[d])'
    BY <1>7, <1>8 DEF FailNextRegisters, Data
  <2>. QED  BY <1>5, <1>8, <2>1 DEF FailNextRegisters, Data, AgentInv, AgentTypeOK
<1>9. CASE StartFailing
  <2>1. requests' \in [Clients -> Requests] /\ \A d \in Clients : RequestOK(requests[d])'
    BY <1>7, <1>9 DEF StartFailing, Rest, Data
  <2>. QED  BY <1>5, <1>9, <2>1 DEF StartFailing, Rest, Data, AgentInv, AgentTypeOK
<1>10. CASE BreakConnections
  <2>1. \A d \in Clients : \/ /\ requests'[d] = requests[d]
                              /\ requests[d].step \in {"none", "answered"}
                           \/ requests'[d] = Answered(d, "failed")
    BY <1>10 DEF BreakConnections
  <2>2. \A d \in Clients : requests'[d] \in Requests /\ requests'[d].step \in {"none", "answered"}
    BY <1>2, <2>1, AnsweredOK
  <2>3. requests' \in [Clients -> Requests]
    BY <1>10, <2>2 DEF BreakConnections
  <2>4. \A d \in Clients : RequestOK(requests[d])'
    BY <2>2 DEF RequestOK
  <2>. QED  BY <1>10, <2>3, <2>4 DEF BreakConnections, Rest, Data, AgentInv, AgentTypeOK
<1>11. CASE StopFailing
  <2>1. requests' \in [Clients -> Requests] /\ \A d \in Clients : RequestOK(requests[d])'
    BY <1>7, <1>11 DEF StopFailing, Rest, Data
  <2>. QED  BY <1>11, <2>1 DEF StopFailing, Rest, Data, AgentInv, AgentTypeOK
<1>12. CASE StartHanging
  <2>1. requests' \in [Clients -> Requests] /\ \A d \in Clients : RequestOK(requests[d])'
    BY <1>7, <1>12 DEF StartHanging, Rest, Data
  <2>. QED  BY <1>5, <1>12, <2>1 DEF StartHanging, Rest, Data, AgentInv, AgentTypeOK
<1>13. CASE StopHanging
  <2>1. requests' \in [Clients -> Requests] /\ \A d \in Clients : RequestOK(requests[d])'
    BY <1>7, <1>13 DEF StopHanging, Rest, Data
  <2>. QED  BY <1>13, <2>1, NothingIn DEF StopHanging, Rest, Data, AgentInv, AgentTypeOK
<1>. QED  BY <1>4, <1>6, <1>8, <1>9, <1>10, <1>11, <1>12, <1>13 DEF TestStep

\* What a client knows is what an answer has told it.
KnownInv ==
  /\ known = [c \in Clients |-> known[c]]
  /\ \A c \in Callers : known[c] \in Indexes
  /\ known[Registrar] \in Hashes \union {Lost}

SessionInv == AgentInv /\ KnownInv

LEMMA Everyone == Clients # {} /\ Callers \subseteq Clients /\ Registrar \in Clients /\ Registrar \notin Callers
  BY SessionAssumption

LEMMA SessionInit == Init => SessionInv
<1>. SUFFICES ASSUME Init PROVE SessionInv
  OBVIOUS
<1>1. AgentInv
  BY AgentInitOK DEF Init
<1>2. KnownInv
  BY Everyone, NothingIn DEF Init, KnownInv
<1>. QED  BY <1>1, <1>2 DEF SessionInv

LEMMA QuestionsIn ==
  ASSUME NEW kind \in Kinds, NEW id \in ServiceIDs, NEW def \in Definitions,
         NEW want \in Indexes, NEW hash \in Hashes
  PROVE  /\ [Nothing EXCEPT !.kind = kind, !.want = want] \in Questions
         /\ [Nothing EXCEPT !.kind = kind, !.id = id, !.def = def] \in Questions
         /\ [Nothing EXCEPT !.kind = kind, !.id = id, !.hash = hash] \in Questions
         /\ [Nothing EXCEPT !.kind = kind, !.id = id] \in Questions
<1>1. Nothing = [kind |-> "none", id |-> NoID, def |-> NoHash, want |-> 0, hash |-> NoHash]
      /\ 0 \in Indexes /\ NoHash \in Hashes
  BY NothingIn DEF Nothing
<1>2. def \in Hashes
  BY DEF Hashes
<1>. QED  BY <1>1, <1>2 DEF Questions

LEMMA AskOK ==
  ASSUME AgentInv, NEW c \in Clients, NEW ask \in Questions, Arrive(c, ask),
         ask.kind = "register" => ask.id \in ServiceIDs /\ ask.def \in Definitions
  PROVE  AgentInv'
<1>1. [NoRequest EXCEPT !.step = "arrived", !.ask = ask] \in Requests
  BY NoRequestOK DEF RequestOK, Requests
<1>. QED  BY <1>1, ArriveOK

LEMMA CallerOK == ASSUME SessionInv, NEW c \in Callers, CallerStep(c) PROVE SessionInv'
<1>1. c \in Clients /\ Asks[c] \in {"health", "kv"} /\ known[c] \in Indexes
  BY SessionAssumption DEF SessionInv, KnownInv
<1>2. CASE UNCHANGED <<known, agentVars>>
  BY <1>2 DEF SessionInv, AgentInv, KnownInv, agentVars, AgentTypeOK, RequestOK, NothingNew
<1>3. ASSUME Arrive(c, [Nothing EXCEPT !.kind = Asks[c], !.want = known[c]]), UNCHANGED known
      PROVE  SessionInv'
  <2>. DEFINE ask == [Nothing EXCEPT !.kind = Asks[c], !.want = known[c]]
  <2>1. ask \in Questions /\ ask.kind # "register"
    BY <1>1, NothingIn DEF Questions, Nothing, Kinds
  <2>. HIDE DEF ask
  <2>2. AgentInv'
    BY <1>1, <1>3, <2>1, AskOK DEF ask, SessionInv
  <2>. QED  BY <1>3, <2>2 DEF SessionInv, KnownInv
<1>4. ASSUME Hear(c), known' = [known EXCEPT ![c] = requests[c].index]
      PROVE  SessionInv'
  <2>1. AgentInv'
    BY <1>1, <1>4, DoneOK DEF Hear, SessionInv
  <2>2. requests[c].index \in Indexes
    BY <1>1 DEF SessionInv, AgentInv, RequestOK, Requests
  <2>3. KnownInv'
    BY <1>1, <1>4, <2>2, Everyone DEF SessionInv, KnownInv
  <2>. QED  BY <2>1, <2>3 DEF SessionInv
<1>. QED  BY <1>2, <1>3, <1>4 DEF CallerStep

LEMMA RegistrarOK == ASSUME SessionInv, RegistrarStep(Registrar) PROVE SessionInv'
<1>. DEFINE c == Registrar
<1>1. c \in Clients /\ known[c] \in Hashes \union {Lost}
  BY Everyone DEF SessionInv, KnownInv
<1>2. ASSUME UNCHANGED known, AgentInv'
      PROVE  SessionInv'
  BY <1>2 DEF SessionInv, KnownInv
<1>3. ASSUME NEW id \in ServiceIDs, NEW def \in Definitions, UNCHANGED known,
             Arrive(c, [Nothing EXCEPT !.kind = "register", !.id = id, !.def = def])
      PROVE  SessionInv'
  <2>. DEFINE ask == [Nothing EXCEPT !.kind = "register", !.id = id, !.def = def]
  <2>1. ask \in Questions /\ ask.id = id /\ ask.def = def
    BY NothingIn DEF Questions, Nothing, Kinds, Hashes
  <2>. HIDE DEF ask
  <2>. QED  BY <1>1, <1>2, <1>3, <2>1, AskOK DEF ask, SessionInv
<1>4. ASSUME NEW id \in ServiceIDs, UNCHANGED known, known[c] # Lost,
             Arrive(c, [Nothing EXCEPT !.kind = "service", !.id = id, !.hash = known[c]])
      PROVE  SessionInv'
  <2>. DEFINE ask == [Nothing EXCEPT !.kind = "service", !.id = id, !.hash = known[c]]
  <2>1. ask \in Questions /\ ask.kind # "register"
    BY <1>1, <1>4, NothingIn DEF Questions, Nothing, Kinds
  <2>. HIDE DEF ask
  <2>. QED  BY <1>1, <1>2, <1>4, <2>1, AskOK DEF ask, SessionInv
<1>5. ASSUME NEW id \in ServiceIDs, NEW kind \in {"ttl", "maintain", "resume", "deregister"},
             UNCHANGED known, Arrive(c, [Nothing EXCEPT !.kind = kind, !.id = id])
      PROVE  SessionInv'
  <2>. DEFINE ask == [Nothing EXCEPT !.kind = kind, !.id = id]
  <2>1. ask \in Questions /\ ask.kind # "register"
    BY NothingIn DEF Questions, Nothing, Kinds
  <2>. HIDE DEF ask
  <2>. QED  BY <1>1, <1>2, <1>5, <2>1, AskOK DEF ask, SessionInv
<1>6. ASSUME Hear(c), \E mark \in {Lost, requests[c].hash} : known' = [known EXCEPT ![c] = mark]
      PROVE  SessionInv'
  <2>1. AgentInv'
    BY <1>1, <1>6, DoneOK DEF Hear, SessionInv
  <2>2. requests[c].hash \in Hashes
    BY <1>1 DEF SessionInv, AgentInv, RequestOK, Requests
  <2>3. KnownInv'
    BY <1>1, <1>6, <2>2, Everyone DEF SessionInv, KnownInv
  <2>. QED  BY <2>1, <2>3 DEF SessionInv
<1>. QED  BY <1>3, <1>4, <1>5, <1>6 DEF RegistrarStep

LEMMA SessionStep == SessionInv /\ [Next]_vars => SessionInv'
<1>. SUFFICES ASSUME SessionInv, [Next]_vars PROVE SessionInv'
  OBVIOUS
<1>1. ASSUME UNCHANGED <<known, agentVars>> PROVE SessionInv'
  BY <1>1 DEF SessionInv, AgentInv, KnownInv, agentVars, AgentTypeOK, RequestOK, NothingNew
<1>2. ASSUME NEW c \in Clients, Leave(c) PROVE SessionInv'
  <2>1. AgentInv'
    BY <1>2, DoneOK DEF Leave, SessionInv
  <2>2. KnownInv'
    BY <1>2, Everyone, NothingIn DEF Leave, SessionInv, KnownInv
  <2>. QED  BY <2>1, <2>2 DEF SessionInv
<1>3. ASSUME NEW c \in Clients, Serve(c), UNCHANGED known PROVE SessionInv'
  BY <1>3, ServeOK DEF SessionInv, KnownInv
<1>4. ASSUME TestStep, UNCHANGED known PROVE SessionInv'
  BY <1>4, TestOK, Everyone DEF SessionInv, KnownInv
<1>. QED  BY <1>1, <1>2, <1>3, <1>4, CallerOK, RegistrarOK DEF Next, Build, Use, vars

-----------------------------------------------------------------------------
(***************************************************************************)
(* The composition.                                                        *)
(***************************************************************************)

CompositionInv == LimiterInv /\ QueryInv /\ SessionInv /\ asking \in BOOLEAN

LEMMA CompositionInit == Init => CompositionInv
  BY LimiterInit, QueryInit, SessionInit DEF Init, CompositionInv

LEMMA QueriesRest == QueryInv /\ UNCHANGED queryVars => QueryInv'
  BY DEF QueryInv, queryVars, Holds

\* Each part takes a step of its own or rests.
LEMMA Parts ==
  ASSUME [Next]_vars
  PROVE  /\ [PacingNext]_pacingVars
         /\ QueriesNext \/ QueriesInit' \/ UNCHANGED queryVars
         /\ asking \in BOOLEAN => asking' \in BOOLEAN
<1>1. CASE Build
  <2>1. UNCHANGED pacingVars /\ QueriesNext /\ asking' = asking
    BY <1>1 DEF Build
  <2>. QED  BY <2>1
<1>2. CASE Use
  <2>1. UNCHANGED pacingVars /\ asking' = TRUE
    BY <1>2 DEF Use
  <2>2. QueriesInit'
    BY <1>2 DEF Use, QueriesInit
  <2>. QED  BY <2>1, <2>2
<1>3. CASE UNCHANGED vars
  <2>1. UNCHANGED pacingVars /\ UNCHANGED queryVars /\ asking' = asking
    BY <1>3 DEF vars
  <2>. QED  BY <2>1
<1>4. CASE ~(Build \/ Use \/ UNCHANGED vars)
  <2>1. UNCHANGED queryVars /\ asking' = asking
    BY <1>4 DEF Next, Asking
  <2>2. ASSUME NEW c \in Callers, CallerStep(c) PROVE [PacingNext]_pacingVars
    BY <2>2 DEF CallerStep, PacingNext
  <2>3. Tick \/ (\E c \in Callers : GivesUp(c)) => PacingNext
    BY DEF PacingNext
  <2>4. [PacingNext]_pacingVars
    BY <1>4, <2>2, <2>3 DEF Next, RegistrarStep, Leave
  <2>. QED  BY <2>1, <2>4
<1>. QED  BY <1>1, <1>2, <1>3, <1>4

LEMMA CompositionStep == CompositionInv /\ [Next]_vars => CompositionInv'
<1>. SUFFICES ASSUME CompositionInv, [Next]_vars PROVE CompositionInv'
  OBVIOUS
<1>1. LimiterInv'
  BY Parts, LimiterStep DEF CompositionInv
<1>2. QueryInv'
  <2>1. QueriesInit' => QueryInv'
    BY QueryInit, PTL
  <2>. QED  BY <2>1, Parts, QueryStep, QueriesRest DEF CompositionInv
<1>3. SessionInv'
  BY SessionStep DEF CompositionInv
<1>. QED  BY <1>1, <1>2, <1>3, Parts DEF CompositionInv

\* The inductive invariant of the composition.
THEOREM SessionInvariance == Spec => []CompositionInv
<1>. QED  BY CompositionInit, CompositionStep, PTL DEF Spec

\* Every variable keeps its type.
THEOREM TypeCorrect == Spec => []TypeOK
<1>1. CompositionInv => TypeOK
  BY QueryInvImplies
     DEF CompositionInv, LimiterInv, SessionInv, AgentInv, KnownInv, TypeOK, Indexes, Hashes
<1>. QED  BY <1>1, SessionInvariance, PTL

\* In any stretch of time the limiter lets through at most the burst and one
\* call for each interval, however many callers wait at once.
THEOREM AlwaysPaced == Spec => []Paced
<1>1. CompositionInv => Paced
  BY DEF CompositionInv, LimiterInv
<1>. QED  BY <1>1, SessionInvariance, PTL

\* No request waits at the agent although there is something newer than its
\* client knows, or through an outage that SetFailing has announced.
THEOREM NobodyEverWaitsInVain == Spec => []NobodyWaitsInVain
<1>1. CompositionInv => NobodyWaitsInVain
  BY AgentInvImplies DEF CompositionInv, SessionInv
<1>. QED  BY <1>1, SessionInvariance, PTL

\* Whatever is derived from a query, before or after it was derived itself, it
\* asks for what was asked of it.
THEOREM AlwaysAsksAsBuilt == Spec => []AskedAsBuilt
<1>1. CompositionInv => AskedAsBuilt
  BY QueryInvImplies DEF CompositionInv
<1>. QED  BY <1>1, SessionInvariance, PTL

=============================================================================
