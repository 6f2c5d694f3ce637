-------------------------- MODULE PrefetcherProofs --------------------------
(***************************************************************************)
(* Proofs about Prefetcher, for any number of callers, chunks, slots and   *)
(* retries.                                                                *)
(*                                                                         *)
(* The chunk cache keeps its limit because the order of last use is a      *)
(* strict order, so that there is always an oldest chunk to evict.  Close  *)
(* leaves nothing behind because every flight has a waiter, every slot a   *)
(* holder, and every waiter and holder is registered with the WaitGroup.   *)
(***************************************************************************)
EXTENDS Prefetcher, TLAPS, FiniteSetTheorems

Running   == {"validate", "schedule", "copy", "fetch", "exit", "failed"}
OpStates  == [at : Running \cup {"idle", "refused", "error", "eof", "ok"},
              first : Chunks, last : Chunks, kind : {"inside", "beyond", "invalid"},
              index : 0 .. (MaxIndex + 1)]
Tasks     == {OpTask(o) : o \in Ops} \cup {NeedTask(o, i) : o \in Ops, i \in Chunks}
FlightStates ==
  [at : {"none", "check", "acquire", "reading", "backoff", "finish"}, attempt : Nat,
   ok : BOOLEAN, waiters : SUBSET Tasks]

TypeInv ==
  /\ op \in [Ops -> OpStates]
  /\ need \in [Ops \X Chunks -> {"none", "start", "fetch", "fetched", "done"}]
  /\ ahead \in [Ops \X Chunks -> {"none", "start", "reading", "exit", "done"}]
  /\ flight \in [Chunks -> FlightStates]
  /\ closed \in BOOLEAN
  /\ closer \in [Closers -> {"idle", "redundant", "waiting", "returned"}]

\* r orders members of c, strictly.
Order(c, r) ==
  /\ \A a, b \in Chunks : <<a, b>> \in r => a \in c /\ b \in c /\ a # b
  /\ \A a, b, d \in Chunks : <<a, b>> \in r /\ <<b, d>> \in r => <<a, d>> \in r

CacheInv ==
  /\ cache \subseteq Chunks /\ minIndex \in Nat
  /\ older \subseteq cache \X cache /\ Order(cache, older)
  /\ CacheHolds

\* The loop of copyChunks stays within the chunks of its read.
RangeInv ==
  \A o \in Ops : /\ op[o].first <= op[o].last
                 /\ op[o].at \in {"copy", "fetch"} => op[o].index \in op[o].first .. op[o].last

\* Caller o has not come to the chunk j in its scheduling loops.
Unscheduled(o, j) ==
  \/ op[o].at \in {"idle", "validate"}
  \/ op[o].at = "schedule" /\ op[o].index <= j

\* A goroutine of a caller is started once.
FreshInv ==
  \A o \in Ops, j \in Chunks :
    Unscheduled(o, j) => need[<<o, j>>] = "none" /\ ahead[<<o, j>>] = "none"

\* Who is registered with the WaitGroup.
WgInv ==
  /\ \A o \in Ops : OpTask(o) \in wg <=> op[o].at \in Running
  /\ \A o \in Ops, i \in Chunks : NeedTask(o, i) \in wg <=> need[<<o, i>>] \in {"start", "fetch", "fetched"}
  /\ \A o \in Ops, i \in Chunks : AheadTask(o, i) \in wg <=> ahead[<<o, i>>] \in {"start", "reading", "exit"}

\* Who waits for the flight of chunk i.
Waits(t, i) ==
  \E o \in Ops : \/ t = OpTask(o) /\ op[o].at = "fetch" /\ op[o].index = i
                 \/ t = NeedTask(o, i) /\ need[<<o, i>>] = "fetch"

FlightInv ==
  /\ \A i \in Chunks : flight[i].at = "none" <=> flight[i].waiters = {}
  /\ \A i \in Chunks : \A t \in flight[i].waiters : Waits(t, i)
  /\ WaitersKnown

\* Who holds a slot of the semaphore.
Holds(s) ==
  \/ \E i \in Chunks : s = FlightSlot(i) /\ flight[i].at \in {"reading", "backoff", "finish"}
  \/ \E o \in Ops, i \in Chunks : s = AheadTask(o, i) /\ ahead[<<o, i>>] \in {"reading", "exit"}

SlotInv == \A s \in slots : Holds(s)

CloseInv ==
  \A k \in Closers :
    /\ closer[k] \in {"waiting", "returned"} => closed
    /\ closer[k] = "returned" => wg = {} /\ cache = {}

\* Everything but the chunk cache.
CoreInv == TypeInv /\ RangeInv /\ FreshInv /\ WgInv /\ FlightInv /\ SlotInv /\ CloseInv

IInv == CacheInv /\ CoreInv

-----------------------------------------------------------------------------
(***************************************************************************)
(* The chunk cache.                                                        *)
(***************************************************************************)

LEMMA ChunksFinite ==
  /\ MaxIndex \in Nat /\ Chunks = 0 .. MaxIndex /\ IsFiniteSet(Chunks)
  /\ \A c \in SUBSET Chunks : IsFiniteSet(c) /\ Cardinality(c) \in Nat
<1>1. MaxIndex \in Nat /\ Chunks = 0 .. MaxIndex
  BY ConstantsOK DEF Chunks
<1>2. IsFiniteSet(Chunks)
  BY <1>1, FS_Interval
<1>3. \A c \in SUBSET Chunks : IsFiniteSet(c) /\ Cardinality(c) \in Nat
  BY <1>2, FS_Subset, FS_CardinalityType
<1> QED
  BY <1>1, <1>2, <1>3

\* evictOldest finds something to evict: a set of chunks has a least recently used one.
LEMMA OldestExists ==
  ASSUME NEW c \in SUBSET Chunks, c # {}, NEW r, Order(c, r)
  PROVE  Oldest(c, r) # {}
<1> DEFINE Before(i) == {a \in c : <<a, i>> \in r}
<1> DEFINE All == {Before(i) : i \in c}
<1>1. IsFiniteSet(c) /\ FiniteSubsetsOf(c) = SUBSET c
  BY ChunksFinite, FS_FiniteSubsetsOfFinite
<1>2. All \subseteq FiniteSubsetsOf(c) /\ All # {}
  <2>1. All \subseteq SUBSET c
    BY Zenon
  <2>2. PICK j : j \in c
    OBVIOUS
  <2>3. Before(j) \in All
    BY <2>2
  <2> QED
    BY <1>1, <2>1, <2>3, Zenon
<1>3. IsWellFoundedOn(StrictSubsetOrdering(c), FiniteSubsetsOf(c))
  BY FS_StrictSubsetOrderingWellFounded
<1> HIDE DEF All
<1>4. PICK least \in All : \A b \in All : ~(<<b, least>> \in StrictSubsetOrdering(c))
  BY <1>2, <1>3, WFMin
<1>5. PICK i \in c : least = Before(i)
  BY <1>4 DEF All
<1>6. ASSUME NEW a \in Before(i) PROVE FALSE
  <2>1. a \in c /\ <<a, i>> \in r /\ a \in Chunks /\ i \in Chunks
    BY <1>6
  <2>2. Before(a) \subseteq Before(i)
    BY <2>1 DEF Order
  <2>3. a \notin Before(a)
    BY <2>1 DEF Order
  <2>4. Before(a) # Before(i)
    BY <1>6, <2>3
  <2>5. Before(a) \in SUBSET c /\ Before(i) \in SUBSET c
    OBVIOUS
  <2> HIDE DEF Before
  <2>6. <<Before(a), Before(i)>> \in StrictSubsetOrdering(c)
    BY <2>2, <2>4, <2>5 DEF StrictSubsetOrdering
  <2>7. Before(a) \in All
    BY <2>1 DEF All
  <2> QED
    BY <1>4, <1>5, <2>6, <2>7
<1>7. {a \in c : <<a, i>> \in r} = {}
  BY <1>6
<1>8. Cardinality({a \in c : <<a, i>> \in r}) < EvictCount
  <2>1. Cardinality({a \in c : <<a, i>> \in r}) = 0
    BY <1>7, FS_EmptySet, Zenon
  <2>2. 0 < EvictCount
    BY ConstantsOK
  <2> QED
    BY <2>1, <2>2
<1>9. i \in Oldest(c, r)
  BY <1>8 DEF Oldest
<1> QED
  BY <1>9

\* Using a chunk makes it the most recent one and keeps the order of the others.
LEMMA TouchedOrder ==
  ASSUME NEW c \in SUBSET Chunks, NEW i \in c, Order(cache, older), older \subseteq cache \X cache,
         cache \subseteq Chunks
  PROVE  Order(c, Touched(i, c)) /\ Touched(i, c) \subseteq c \X c
<1> DEFINE r == Touched(i, c)
<1>1. \A a, b \in Chunks : <<a, b>> \in r <=>
        \/ <<a, b>> \in older /\ a # i /\ b # i /\ a \in c /\ b \in c
        \/ a \in c /\ a # i /\ b = i
  <2> DEFINE before == {p \in older : p[1] # i /\ p[2] # i /\ {p[1], p[2]} \subseteq c}
  <2> DEFINE now == {<<a, i>> : a \in c \ {i}}
  <2>1. \A a, b : <<a, b>> \in before <=> <<a, b>> \in older /\ a # i /\ b # i /\ a \in c /\ b \in c
    OBVIOUS
  <2>2. \A a, b : <<a, b>> \in now <=> a \in c /\ a # i /\ b = i
    OBVIOUS
  <2>3. r = before \cup now
    BY DEF Touched
  <2> HIDE DEF r, before, now
  <2>4. \A a, b : <<a, b>> \in r <=> (<<a, b>> \in before \/ <<a, b>> \in now)
    BY <2>3
  <2> QED
    BY <2>1, <2>2, <2>4, Zenon
<1>2. r \subseteq c \X c
  BY DEF Touched
<1> HIDE DEF r
<1>3. \A a, b \in Chunks : <<a, b>> \in r => a \in c /\ b \in c /\ a # b
  BY <1>1 DEF Order
<1>4. \A a, b, d \in Chunks : <<a, b>> \in r /\ <<b, d>> \in r => <<a, d>> \in r
  BY <1>1 DEF Order
<1>5. Order(c, r)
  BY <1>3, <1>4 DEF Order
<1> QED
  BY <1>2, <1>5 DEF r

\* The part of an order that lies in a smaller set.
LEMMA OrderWithin ==
  ASSUME NEW c \in SUBSET Chunks, NEW d \in SUBSET c, NEW r, Order(c, r), r \subseteq c \X c
  PROVE  LET q == {p \in r : p[1] \in d /\ p[2] \in d}
         IN  Order(d, q) /\ q \subseteq d \X d
BY DEF Order

LEMMA UseStep ==
  ASSUME CacheInv, NEW i, UseChunk(i)
  PROVE  CacheInv'
<1>1. i \in cache /\ cache' = cache /\ minIndex' = minIndex /\ older' = Touched(i, cache)
  BY DEF UseChunk
<1>2. Order(cache, older') /\ older' \subseteq cache \X cache
  BY <1>1, TouchedOrder DEF CacheInv
<1> QED
  BY <1>1, <1>2 DEF CacheInv, CacheHolds

LEMMA CacheStays ==
  ASSUME CacheInv, UNCHANGED cacheVars
  PROVE  CacheInv'
BY DEF CacheInv, CacheHolds, cacheVars

LEMMA EvictStep ==
  ASSUME CacheInv, NEW m \in Chunks, EvictBefore(m)
  PROVE  CacheInv'
<1>1. CASE m <= minIndex
  BY <1>1 DEF EvictBefore, cacheVars, CacheInv, CacheHolds
<1>2. CASE ~(m <= minIndex)
  <2> DEFINE d == {i \in cache : i >= m}
  <2>1. minIndex' = m /\ cache' = d /\ older' = {p \in older : p[1] >= m /\ p[2] >= m}
    BY <1>2 DEF EvictBefore
  <2>2. older' = {p \in older : p[1] \in d /\ p[2] \in d}
    BY <2>1 DEF CacheInv
  <2>3. d \in SUBSET cache /\ cache \in SUBSET Chunks /\ m \in Nat
    BY ChunksFinite DEF CacheInv
  <2>4. Order(d, older') /\ older' \subseteq d \X d
    <3>1. LET q == {p \in older : p[1] \in d /\ p[2] \in d}
          IN  Order(d, q) /\ q \subseteq d \X d
      BY <2>3, OrderWithin DEF CacheInv
    <3> QED
      BY <2>2, <3>1
  <2>5. Cardinality(d) <= CacheMax
    <3>1. Cardinality(d) <= Cardinality(cache) /\ Cardinality(d) \in Nat /\ Cardinality(cache) \in Nat
      BY <2>3, ChunksFinite, FS_Subset
    <3> HIDE DEF d
    <3> QED
      BY <3>1, ConstantsOK DEF CacheInv, CacheHolds
  <2> QED
    BY <2>1, <2>3, <2>4, <2>5, Zenon DEF CacheInv, CacheHolds
<1> QED
  BY <1>1, <1>2

LEMMA AddStep ==
  ASSUME CacheInv, NEW i \in Chunks, AddChunk(i)
  PROVE  CacheInv'
<1>1. CASE i < minIndex
  BY <1>1 DEF AddChunk, BehindWindow, cacheVars, CacheInv, CacheHolds
<1>2. CASE ~(i < minIndex)
  <2> DEFINE c == cache \cup {i}
  <2> DEFINE r == Touched(i, c)
  <2> DEFINE gone == IF Cardinality(c) > CacheMax THEN Oldest(c, r) ELSE {}
  <2> DEFINE d == c \ gone
  <2>1. /\ minIndex' = minIndex /\ cache' = d
        /\ older' = {p \in r : p[1] \notin gone /\ p[2] \notin gone}
    BY <1>2 DEF AddChunk, BehindWindow
  <2>2. c \in SUBSET Chunks /\ i \in c /\ cache \in SUBSET Chunks
    BY DEF CacheInv
  <2>3. Order(c, r) /\ r \subseteq c \X c
    BY <2>2, TouchedOrder DEF CacheInv
  <2>4. Order(d, older') /\ older' \subseteq d \X d
    <3> HIDE DEF c, r, gone
    <3>1. older' = {p \in r : p[1] \in d /\ p[2] \in d}
      BY <2>1, <2>3
    <3>2. d \in SUBSET c
      OBVIOUS
    <3> HIDE DEF d
    <3>3. LET q == {p \in r : p[1] \in d /\ p[2] \in d}
          IN  Order(d, q) /\ q \subseteq d \X d
      BY <2>2, <2>3, <3>2, OrderWithin
    <3> QED
      BY <3>1, <3>3
  <2>5. Cardinality(c) <= CacheMax + 1 /\ Cardinality(c) \in Nat
    <3>1. Cardinality(c) = IF i \in cache THEN Cardinality(cache) ELSE Cardinality(cache) + 1
      BY <2>2, ChunksFinite, FS_AddElement
    <3>2. Cardinality(cache) \in Nat /\ Cardinality(cache) <= CacheMax
      BY <2>2, ChunksFinite DEF CacheInv, CacheHolds
    <3> QED
      BY <3>1, <3>2, ConstantsOK
  <2>6. Cardinality(d) <= CacheMax
    <3> HIDE DEF c, r
    <3>1. CASE Cardinality(c) > CacheMax
      <4>1. gone = Oldest(c, r) /\ gone # {}
        BY <2>2, <2>3, <3>1, OldestExists
      <4>2. gone \subseteq c
        BY <4>1 DEF Oldest
      <4> HIDE DEF gone
      <4>3. d \in SUBSET c /\ d # c
        BY <4>1, <4>2
      <4>4. IsFiniteSet(c) /\ Cardinality(d) \in Nat
        BY <2>2, <4>3, ChunksFinite
      <4> HIDE DEF d
      <4>5. Cardinality(d) <= Cardinality(c) /\ Cardinality(d) # Cardinality(c)
        BY <4>3, <4>4, FS_Subset
      <4> QED
        BY <2>5, <4>4, <4>5, ConstantsOK
    <3>2. CASE ~(Cardinality(c) > CacheMax)
      <4>1. d = c
        BY <3>2
      <4> HIDE DEF d
      <4> QED
        BY <2>5, <3>2, <4>1, ConstantsOK
    <3> QED
      BY <3>1, <3>2
  <2>7. \A j \in d : j >= minIndex
    BY <1>2, ChunksFinite DEF CacheInv, CacheHolds
  <2>8. d \subseteq Chunks
    BY <2>2
  <2> HIDE DEF d
  <2>9. CacheHolds'
    BY <2>1, <2>6, <2>7 DEF CacheHolds
  <2> QED
    BY <2>1, <2>4, <2>8, <2>9, Zenon DEF CacheInv
<1> QED
  BY <1>1, <1>2
-----------------------------------------------------------------------------
(***************************************************************************)
(* What the other parts of the invariant rest on, by the state they read.  *)
(***************************************************************************)

\* The names of callers and slots are all different.
LEMMA Names ==
  /\ \A o, p : OpTask(o) = OpTask(p) => o = p
  /\ \A o, p, i, j : NeedTask(o, i) = NeedTask(p, j) => o = p /\ i = j
  /\ \A o, p, i, j : AheadTask(o, i) = AheadTask(p, j) => o = p /\ i = j
  /\ \A i, j : FlightSlot(i) = FlightSlot(j) => i = j
  /\ \A o, p, i : OpTask(o) # NeedTask(p, i) /\ OpTask(o) # AheadTask(p, i)
  /\ \A o, p, i, j : NeedTask(o, i) # AheadTask(p, j)
  /\ \A o, i, j : FlightSlot(j) # AheadTask(o, i)
<1>1. \A o : OpTask(o)[1] = "op" /\ OpTask(o)[2] = o
  BY DEF OpTask
<1>2. \A o, i : NeedTask(o, i)[1] = "need" /\ NeedTask(o, i)[2] = o /\ NeedTask(o, i)[3] = i
  BY DEF NeedTask
<1>3. \A o, i : AheadTask(o, i)[1] = "ahead" /\ AheadTask(o, i)[2] = o /\ AheadTask(o, i)[3] = i
  BY DEF AheadTask
<1>4. \A i : FlightSlot(i)[1] = "flight" /\ FlightSlot(i)[2] = i
  BY DEF FlightSlot
<1>5. \A o, p : OpTask(o) = OpTask(p) => o = p
  BY <1>1
<1>6. \A o, p, i, j : NeedTask(o, i) = NeedTask(p, j) => o = p /\ i = j
  BY <1>2
<1>7. \A o, p, i, j : AheadTask(o, i) = AheadTask(p, j) => o = p /\ i = j
  BY <1>3
<1>8. \A i, j : FlightSlot(i) = FlightSlot(j) => i = j
  BY <1>4
<1>9. \A o, p, i : OpTask(o) # NeedTask(p, i) /\ OpTask(o) # AheadTask(p, i)
  BY <1>1, <1>2, <1>3
<1>10. \A o, p, i, j : NeedTask(o, i) # AheadTask(p, j)
  BY <1>2, <1>3
<1>11. \A o, i, j : FlightSlot(j) # AheadTask(o, i)
  BY <1>3, <1>4
<1> QED
  BY <1>5, <1>6, <1>7, <1>8, <1>9, <1>10, <1>11

\* A flight that is under way has a waiter, and the WaitGroup knows it.
LEMMA FlightBusy ==
  ASSUME WgInv, FlightInv, NEW i \in Chunks, flight[i].at # "none"
  PROVE  wg # {}
<1>1. PICK t : t \in flight[i].waiters
  BY DEF FlightInv
<1>2. PICK o \in Ops : \/ t = OpTask(o) /\ op[o].at = "fetch" /\ op[o].index = i
                       \/ t = NeedTask(o, i) /\ need[<<o, i>>] = "fetch"
  BY <1>1 DEF FlightInv, Waits
<1> QED
  BY <1>2 DEF WgInv, Running

\* Close has not returned while the WaitGroup counts anything.
LEMMA StillOpen ==
  ASSUME CloseInv, wg # {}, closed' = closed, closer' = closer
  PROVE  CloseInv'
BY DEF CloseInv

\* Nobody joins or leaves a flight.
SameWaiters ==
  /\ \A o \in Ops : /\ op'[o].at = "fetch" <=> op[o].at = "fetch"
                    /\ op[o].at = "fetch" => op'[o].index = op[o].index
  /\ \A o \in Ops, i \in Chunks : need'[<<o, i>>] = "fetch" <=> need[<<o, i>>] = "fetch"
  /\ \A i \in Chunks : /\ flight'[i].waiters = flight[i].waiters
                       /\ flight'[i].at = "none" <=> flight[i].at = "none"

LEMMA FlightsKept ==
  ASSUME FlightInv, RangeInv, TypeInv, SameWaiters
  PROVE  FlightInv'
<1>1. \A i \in Chunks : flight'[i].at = "none" <=> flight'[i].waiters = {}
  BY DEF FlightInv, SameWaiters
<1>2. ASSUME NEW i \in Chunks, NEW t \in flight'[i].waiters
      PROVE  Waits(t, i)'
  <2>1. t \in flight[i].waiters
    BY <1>2 DEF SameWaiters
  <2>2. Waits(t, i)
    BY <2>1 DEF FlightInv
  <2> QED
    BY <2>2 DEF Waits, SameWaiters
<1>3. ASSUME NEW o \in Ops, op'[o].at = "fetch"
      PROVE  OpTask(o) \in flight'[op'[o].index].waiters
  <2>1. op[o].at = "fetch" /\ op'[o].index = op[o].index
    BY <1>3 DEF SameWaiters
  <2>2. OpTask(o) \in flight[op[o].index].waiters
    BY <2>1 DEF FlightInv, WaitersKnown
  <2>3. op[o].index \in Chunks
    BY <2>1, ChunksFinite DEF RangeInv, TypeInv, OpStates
  <2> QED
    BY <2>1, <2>2, <2>3 DEF SameWaiters
<1>4. ASSUME NEW o \in Ops, NEW i \in Chunks, need'[<<o, i>>] = "fetch"
      PROVE  NeedTask(o, i) \in flight'[i].waiters
  BY <1>4 DEF SameWaiters, FlightInv, WaitersKnown
<1>5. WaitersKnown'
  BY <1>3, <1>4 DEF WaitersKnown
<1> QED
  BY <1>1, <1>2, <1>5 DEF FlightInv
-----------------------------------------------------------------------------
(***************************************************************************)
(* The flight of one chunk goes on: the steps of fetchChunk up to its end. *)
(***************************************************************************)

SlotHolding == {"reading", "backoff", "finish"}

FlightMoves(i, v) ==
  /\ flight[i].at # "none" /\ v.at # "none"
  /\ flight' = [flight EXCEPT ![i] = v]
  /\ v.waiters = flight[i].waiters
  /\ flight[i].at \in SlotHolding => v.at \in SlotHolding
  /\ \/ slots' = slots
     \/ slots' = slots \cup {FlightSlot(i)} /\ v.at \in SlotHolding
  /\ UNCHANGED <<op, need, ahead, wg, closed, closer>>

LEMMA FlightMoveStep ==
  ASSUME CoreInv, NEW i \in Chunks, NEW v \in FlightStates, FlightMoves(i, v)
  PROVE  CoreInv'
<1>0. TypeInv /\ RangeInv /\ FreshInv /\ WgInv /\ FlightInv /\ SlotInv /\ CloseInv
  BY DEF CoreInv
<1>1. /\ op' = op /\ need' = need /\ ahead' = ahead /\ wg' = wg
      /\ closed' = closed /\ closer' = closer
      /\ flight' = [flight EXCEPT ![i] = v]
  BY DEF FlightMoves
<1>2. flight \in [Chunks -> FlightStates]
  BY <1>0 DEF TypeInv
<1>3. TypeInv'
  BY <1>0, <1>1, <1>2 DEF TypeInv
<1>4. RangeInv' /\ FreshInv' /\ WgInv'
  BY <1>0, <1>1 DEF RangeInv, FreshInv, Unscheduled, WgInv
<1>5. /\ flight'[i] = v
      /\ \A j \in Chunks : j # i => flight'[j] = flight[j]
  BY <1>1, <1>2
<1>6. SameWaiters
  BY <1>1, <1>5 DEF SameWaiters, FlightMoves
<1>7. FlightInv'
  BY <1>0, <1>6, FlightsKept
<1>8. ASSUME NEW s \in slots' PROVE Holds(s)'
  <2>1. CASE s = FlightSlot(i) /\ v.at \in SlotHolding
    BY <1>5, <2>1 DEF Holds, SlotHolding
  <2>2. CASE s \in slots
    <3>1. Holds(s)
      BY <1>0, <2>2 DEF SlotInv
    <3>2. CASE \E j \in Chunks : s = FlightSlot(j) /\ flight[j].at \in SlotHolding
      BY <1>5, <3>2 DEF Holds, SlotHolding, FlightMoves
    <3>3. CASE \E o \in Ops, j \in Chunks : s = AheadTask(o, j) /\ ahead[<<o, j>>] \in {"reading", "exit"}
      BY <1>1, <3>3 DEF Holds
    <3> QED
      BY <3>1, <3>2, <3>3, SMTT(20) DEF Holds, SlotHolding
  <2> QED
    BY <1>8, <2>1, <2>2 DEF FlightMoves
<1>9. SlotInv'
  BY <1>8 DEF SlotInv
<1>10. CloseInv'
  BY <1>0, <1>1, FlightBusy, StillOpen DEF FlightMoves
<1> QED
  BY <1>3, <1>4, <1>7, <1>9, <1>10 DEF CoreInv

\* Flight i goes on as v, and the cache does not change.
LEMMA FlightGoesOn ==
  ASSUME IInv, NEW i \in Chunks, NEW v \in FlightStates, FlightMoves(i, v), UNCHANGED cacheVars
  PROVE  IInv'
BY CacheStays, FlightMoveStep DEF IInv

\* The record of flight i with another state, and another result or attempt.
LEMMA FlightRecord ==
  ASSUME TypeInv, NEW i \in Chunks, NEW a \in {"acquire"} \cup SlotHolding
  PROVE  /\ [flight[i] EXCEPT !.at = a] \in FlightStates
         /\ [flight[i] EXCEPT !.at = a].at = a
         /\ [flight[i] EXCEPT !.at = a].waiters = flight[i].waiters
BY Zenon DEF TypeInv, FlightStates, SlotHolding

LEMMA FlightResult ==
  ASSUME TypeInv, NEW i \in Chunks, NEW ok \in BOOLEAN
  PROVE  LET v == [flight[i] EXCEPT !.at = "finish", !.ok = ok]
         IN  v \in FlightStates /\ v.at = "finish" /\ v.waiters = flight[i].waiters
BY Zenon DEF TypeInv, FlightStates

LEMMA FlightAgain ==
  ASSUME TypeInv, NEW i \in Chunks
  PROVE  LET v == [flight[i] EXCEPT !.at = "backoff", !.attempt = @ + 1]
         IN  v \in FlightStates /\ v.at = "backoff" /\ v.waiters = flight[i].waiters
<1>1. flight[i].attempt + 1 \in Nat
  BY DEF TypeInv, FlightStates
<1> QED
  BY <1>1, Zenon DEF TypeInv, FlightStates

LEMMA FlightCheckStep ==
  ASSUME IInv, NEW i \in Chunks, FlightCheck(i)
  PROVE  IInv'
<1>1. TypeInv /\ flight[i].at = "check" /\ slots' = slots
  BY DEF FlightCheck, IInv, CoreInv
<1>2. UNCHANGED <<op, need, ahead, wg, closed, closer>>
  BY DEF FlightCheck, lifeVars
<1>3. CASE i \in cache
  <2> DEFINE v == [flight[i] EXCEPT !.at = "finish", !.ok = TRUE]
  <2>1. UseChunk(i) /\ flight' = [flight EXCEPT ![i] = v]
    BY <1>3, Zenon DEF FlightCheck, FlightEnds
  <2>2. v \in FlightStates /\ v.at = "finish" /\ v.waiters = flight[i].waiters
    BY <1>1, FlightResult, Zenon
  <2> HIDE DEF v
  <2>3. FlightMoves(i, v)
    BY <1>1, <1>2, <2>1, <2>2 DEF FlightMoves, SlotHolding
  <2> QED
    BY <2>1, <2>2, <2>3, UseStep, FlightMoveStep DEF IInv
<1>4. CASE i \notin cache
  <2> DEFINE v == [flight[i] EXCEPT !.at = "acquire"]
  <2>1. UNCHANGED cacheVars /\ flight' = [flight EXCEPT ![i] = v]
    BY <1>4, Zenon DEF FlightCheck, FlightGoes
  <2>2. v \in FlightStates /\ v.at = "acquire" /\ v.waiters = flight[i].waiters
    BY <1>1, FlightRecord
  <2> HIDE DEF v
  <2>3. FlightMoves(i, v)
    BY <1>1, <1>2, <2>1, <2>2 DEF FlightMoves, SlotHolding
  <2> QED
    BY <2>1, <2>2, <2>3, FlightGoesOn
<1> QED
  BY <1>3, <1>4

LEMMA FlightAcquireStep ==
  ASSUME IInv, NEW i \in Chunks, FlightAcquire(i)
  PROVE  IInv'
<1> DEFINE v == [flight[i] EXCEPT !.at = "reading"]
<1>1. /\ flight[i].at = "acquire" /\ flight' = [flight EXCEPT ![i] = v]
      /\ slots' = slots \cup {FlightSlot(i)}
      /\ UNCHANGED <<op, need, ahead, wg, closed, closer>> /\ UNCHANGED cacheVars
  BY Zenon DEF FlightAcquire, FlightGoes, lifeVars
<1>2. v \in FlightStates /\ v.at = "reading" /\ v.waiters = flight[i].waiters
  BY FlightRecord, Zenon DEF SlotHolding, IInv, CoreInv
<1> HIDE DEF v
<1>3. FlightMoves(i, v)
  BY <1>1, <1>2 DEF FlightMoves, SlotHolding
<1> QED
  BY <1>1, <1>2, <1>3, FlightGoesOn

LEMMA FlightRetryStep ==
  ASSUME IInv, NEW i \in Chunks, FlightRetry(i)
  PROVE  IInv'
<1> DEFINE v == [flight[i] EXCEPT !.at = "reading"]
<1>1. /\ flight[i].at = "backoff" /\ flight' = [flight EXCEPT ![i] = v] /\ slots' = slots
      /\ UNCHANGED <<op, need, ahead, wg, closed, closer>> /\ UNCHANGED cacheVars
  BY Zenon DEF FlightRetry, FlightGoes, lifeVars
<1>2. v \in FlightStates /\ v.at = "reading" /\ v.waiters = flight[i].waiters
  BY FlightRecord, Zenon DEF SlotHolding, IInv, CoreInv
<1> HIDE DEF v
<1>3. FlightMoves(i, v)
  BY <1>1, <1>2 DEF FlightMoves, SlotHolding
<1> QED
  BY <1>1, <1>2, <1>3, FlightGoesOn

\* A flight gets its result, wherever it was.
LEMMA FlightEndsStep ==
  ASSUME IInv, NEW i \in Chunks, flight[i].at # "none", NEW ok \in BOOLEAN, FlightEnds(i, ok),
         UNCHANGED <<op, need, ahead, slots>>, UNCHANGED lifeVars
  PROVE  CoreInv'
<1> DEFINE v == [flight[i] EXCEPT !.at = "finish", !.ok = ok]
<1>1. flight' = [flight EXCEPT ![i] = v]
  BY Zenon DEF FlightEnds
<1>2. v \in FlightStates /\ v.at = "finish" /\ v.waiters = flight[i].waiters
  BY FlightResult, Zenon DEF IInv, CoreInv
<1> HIDE DEF v
<1>3. FlightMoves(i, v)
  BY <1>1, <1>2 DEF FlightMoves, SlotHolding, lifeVars
<1> QED
  BY <1>2, <1>3, FlightMoveStep DEF IInv

LEMMA FlightNoSlotStep ==
  ASSUME IInv, NEW i \in Chunks, FlightNoSlot(i) \/ FlightRetryCancelled(i)
  PROVE  IInv'
<1>1. /\ flight[i].at # "none" /\ FlightEnds(i, FALSE)
      /\ UNCHANGED <<op, need, ahead, slots>> /\ UNCHANGED lifeVars /\ UNCHANGED cacheVars
  BY Zenon DEF FlightNoSlot, FlightRetryCancelled
<1>2. CoreInv'
  BY <1>1, FlightEndsStep, Zenon
<1> QED
  BY <1>1, <1>2, CacheStays DEF IInv

LEMMA FlightReadStep ==
  ASSUME IInv, NEW i \in Chunks, FlightRead(i)
  PROVE  IInv'
<1>1. /\ flight[i].at # "none" /\ FlightEnds(i, TRUE) /\ AddChunk(i)
      /\ UNCHANGED <<op, need, ahead, slots>> /\ UNCHANGED lifeVars
  BY Zenon DEF FlightRead
<1>2. CoreInv'
  BY <1>1, FlightEndsStep, Zenon
<1> QED
  BY <1>1, <1>2, AddStep DEF IInv

\* A failed or abandoned read: another attempt, or the end of the flight.
LEMMA FlightFailsStep ==
  ASSUME IInv, NEW i \in Chunks, FlightReadError(i) \/ FlightReadAbandoned(i)
  PROVE  IInv'
<1>1. /\ flight[i].at = "reading" /\ NextAttempt(i)
      /\ UNCHANGED <<op, need, ahead, slots>> /\ UNCHANGED lifeVars /\ UNCHANGED cacheVars
  BY Zenon DEF FlightReadError, FlightReadAbandoned
<1>2. CASE flight[i].attempt < MaxRetries
  <2> DEFINE v == [flight[i] EXCEPT !.at = "backoff", !.attempt = @ + 1]
  <2>1. flight' = [flight EXCEPT ![i] = v]
    BY <1>1, <1>2, Zenon DEF NextAttempt
  <2>2. v \in FlightStates /\ v.at = "backoff" /\ v.waiters = flight[i].waiters
    BY FlightAgain, Zenon DEF IInv, CoreInv
  <2> HIDE DEF v
  <2>3. FlightMoves(i, v)
    BY <1>1, <2>1, <2>2 DEF FlightMoves, SlotHolding, lifeVars
  <2> QED
    BY <1>1, <2>2, <2>3, FlightGoesOn
<1>3. CASE ~(flight[i].attempt < MaxRetries)
  <2>1. FlightEnds(i, FALSE)
    BY <1>1, <1>3, Zenon DEF NextAttempt
  <2>2. CoreInv'
    BY <1>1, <2>1, FlightEndsStep, Zenon
  <2> QED
    BY <1>1, <2>2, CacheStays DEF IInv
<1> QED
  BY <1>2, <1>3

\* The waiters of the flight of chunk i are the callers inside fetchChunk for it.
LEMMA WaitersAre ==
  ASSUME FlightInv, NEW i \in Chunks
  PROVE  /\ \A o \in Ops : OpTask(o) \in flight[i].waiters <=> op[o].at = "fetch" /\ op[o].index = i
         /\ \A o \in Ops, j \in Chunks :
              NeedTask(o, j) \in flight[i].waiters <=> need[<<o, j>>] = "fetch" /\ j = i
<1>1. ASSUME NEW o \in Ops, OpTask(o) \in flight[i].waiters
      PROVE  op[o].at = "fetch" /\ op[o].index = i
  <2>1. PICK p \in Ops : \/ OpTask(o) = OpTask(p) /\ op[p].at = "fetch" /\ op[p].index = i
                         \/ OpTask(o) = NeedTask(p, i) /\ need[<<p, i>>] = "fetch"
    BY <1>1 DEF FlightInv, Waits
  <2>2. OpTask(o) # NeedTask(p, i) /\ (OpTask(o) = OpTask(p) => o = p)
    BY Names
  <2> QED
    BY <2>1, <2>2
<1>2. ASSUME NEW o \in Ops, NEW j \in Chunks, NeedTask(o, j) \in flight[i].waiters
      PROVE  need[<<o, j>>] = "fetch" /\ j = i
  <2>1. PICK p \in Ops : \/ NeedTask(o, j) = OpTask(p) /\ op[p].at = "fetch" /\ op[p].index = i
                         \/ NeedTask(o, j) = NeedTask(p, i) /\ need[<<p, i>>] = "fetch"
    BY <1>2 DEF FlightInv, Waits
  <2>2. OpTask(p) # NeedTask(o, j) /\ (NeedTask(o, j) = NeedTask(p, i) => o = p /\ j = i)
    BY Names
  <2> QED
    BY <2>1, <2>2
<1>3. \A o \in Ops : op[o].at = "fetch" /\ op[o].index = i => OpTask(o) \in flight[i].waiters
  BY DEF FlightInv, WaitersKnown
<1>4. \A o \in Ops, j \in Chunks : need[<<o, j>>] = "fetch" /\ j = i => NeedTask(o, j) \in flight[i].waiters
  BY DEF FlightInv, WaitersKnown
<1> QED
  BY <1>1, <1>2, <1>3, <1>4

LEMMA FlightFinishStep ==
  ASSUME IInv, NEW i \in Chunks, FlightFinish(i)
  PROVE  IInv'
<1> DEFINE w == flight[i].waiters
<1>0. /\ TypeInv /\ CacheInv /\ RangeInv /\ FreshInv /\ WgInv /\ FlightInv /\ SlotInv /\ CloseInv
      /\ op \in [Ops -> OpStates] /\ flight \in [Chunks -> FlightStates]
  BY DEF IInv, CoreInv, TypeInv
<1>1. /\ flight[i].at = "finish"
      /\ slots' = slots \ {FlightSlot(i)}
      /\ flight' = [flight EXCEPT ![i] = NoFlight]
      /\ need' = [p \in Ops \X Chunks |-> IF NeedTask(p[1], p[2]) \in w THEN "fetched" ELSE need[p]]
      /\ UNCHANGED <<ahead, cacheVars, lifeVars>>
  BY Zenon DEF FlightFinish
<1>2. op' = [o \in Ops |-> CASE OpTask(o) \notin w -> op[o]
                             [] OpTask(o) \in w /\ flight[i].ok -> AfterCopy(o, i)[o]
                             [] OTHER -> [op[o] EXCEPT !.at = "failed"]]
  BY Zenon DEF FlightFinish
<1>3. \A o \in Ops : OpTask(o) \in w <=> op[o].at = "fetch" /\ op[o].index = i
  BY <1>0, WaitersAre
<1>4. \A o \in Ops, j \in Chunks : NeedTask(o, j) \in w <=> need[<<o, j>>] = "fetch" /\ j = i
  BY <1>0, WaitersAre, Zenon
<1>5. /\ flight'[i] = NoFlight
      /\ \A j \in Chunks : j # i => flight'[j] = flight[j]
  BY <1>0, <1>1
<1>6. \A o \in Ops, j \in Chunks :
        need'[<<o, j>>] = IF need[<<o, j>>] = "fetch" /\ j = i THEN "fetched" ELSE need[<<o, j>>]
  BY <1>1, <1>4, Zenon
<1>7. ASSUME NEW o \in Ops, OpTask(o) \notin w
      PROVE  op'[o] = op[o]
  BY <1>2, <1>7
<1>8. ASSUME NEW o \in Ops, OpTask(o) \in w
      PROVE  /\ op'[o] \in OpStates /\ op'[o].at \in {"exit", "copy", "failed"}
             /\ op'[o].first = op[o].first /\ op'[o].last = op[o].last
             /\ op'[o].at = "copy" => op'[o].index \in op[o].first .. op[o].last
  <2>0. op[o] \in OpStates /\ op[o].index = i /\ i \in op[o].first .. op[o].last
    BY <1>0, <1>3, <1>8 DEF RangeInv
  <2>1. CASE flight[i].ok /\ (i > LastChunk \/ i = op[o].last)
    <3>1. op'[o] = [op[o] EXCEPT !.at = "exit"]
      BY <1>0, <1>2, <1>8, <2>1, Zenon DEF AfterCopy
    <3> QED
      BY <2>0, <3>1 DEF OpStates, Running
  <2>2. CASE flight[i].ok /\ ~(i > LastChunk \/ i = op[o].last)
    <3>1. op'[o] = [op[o] EXCEPT !.at = "copy", !.index = i + 1]
      BY <1>0, <1>2, <1>8, <2>2, Zenon DEF AfterCopy
    <3>2. i + 1 \in op[o].first .. op[o].last /\ i + 1 \in 0 .. (MaxIndex + 1)
      BY <2>0, <2>2, ChunksFinite DEF OpStates
    <3> QED
      BY <2>0, <3>1, <3>2, Zenon DEF OpStates, Running
  <2>3. CASE ~flight[i].ok
    <3>1. op'[o] = [op[o] EXCEPT !.at = "failed"]
      BY <1>2, <1>8, <2>3, Zenon
    <3> QED
      BY <2>0, <3>1 DEF OpStates, Running
  <2> QED
    BY <2>1, <2>2, <2>3
<1> HIDE DEF w
<1>9. TypeInv'
  <2>1. op' \in [Ops -> OpStates]
    <3>1. op' = [o \in Ops |-> op'[o]]
      BY <1>2
    <3>2. \A o \in Ops : op'[o] \in OpStates
      BY <1>0, <1>7, <1>8
    <3> QED
      BY <3>1, <3>2
  <2>2. need' \in [Ops \X Chunks -> {"none", "start", "fetch", "fetched", "done"}]
    BY <1>0, <1>1 DEF TypeInv
  <2>3. flight' \in [Chunks -> FlightStates]
    BY <1>0, <1>1 DEF NoFlight, FlightStates
  <2> QED
    BY <1>0, <1>1, <2>1, <2>2, <2>3 DEF TypeInv, lifeVars
<1>10. RangeInv'
  BY <1>0, <1>7, <1>8 DEF RangeInv
<1>11. WgInv'
  <2>1. wg' = wg /\ ahead' = ahead
    BY <1>1 DEF lifeVars
  <2>2. \A o \in Ops : op'[o].at \in Running <=> op[o].at \in Running
    BY <1>3, <1>7, <1>8 DEF Running
  <2>3. \A o \in Ops, j \in Chunks : need'[<<o, j>>] \in {"start", "fetch", "fetched"}
                                       <=> need[<<o, j>>] \in {"start", "fetch", "fetched"}
    BY <1>6, Zenon
  <2> QED
    BY <1>0, <2>1, <2>2, <2>3 DEF WgInv
<1>12. FlightInv'
  <2>1. \A j \in Chunks : flight'[j].at = "none" <=> flight'[j].waiters = {}
    BY <1>0, <1>5 DEF FlightInv, NoFlight
  <2>2. ASSUME NEW j \in Chunks, NEW t \in flight'[j].waiters
        PROVE  Waits(t, j)'
    <3>1. j # i /\ t \in flight[j].waiters
      BY <1>5, <2>2 DEF NoFlight
    <3>2. PICK o \in Ops : \/ t = OpTask(o) /\ op[o].at = "fetch" /\ op[o].index = j
                           \/ t = NeedTask(o, j) /\ need[<<o, j>>] = "fetch"
      BY <1>0, <3>1 DEF FlightInv, Waits
    <3> QED
      BY <1>3, <1>6, <1>7, <3>1, <3>2 DEF Waits
  <2>3. ASSUME NEW o \in Ops, op'[o].at = "fetch"
        PROVE  OpTask(o) \in flight'[op'[o].index].waiters
    <3>1. op'[o] = op[o] /\ OpTask(o) \notin w
      BY <1>7, <1>8, <2>3
    <3>2. OpTask(o) \in flight[op[o].index].waiters /\ op[o].index # i
      BY <1>0, <1>3, <2>3, <3>1 DEF FlightInv, WaitersKnown
    <3>3. op[o].index \in Chunks
      BY <1>0, <2>3, <3>1, ChunksFinite DEF RangeInv, OpStates
    <3> QED
      BY <1>5, <3>1, <3>2, <3>3
  <2>4. ASSUME NEW o \in Ops, NEW j \in Chunks, need'[<<o, j>>] = "fetch"
        PROVE  NeedTask(o, j) \in flight'[j].waiters
    BY <1>0, <1>5, <1>6, <2>4 DEF FlightInv, WaitersKnown
  <2>5. WaitersKnown'
    BY <2>3, <2>4 DEF WaitersKnown
  <2> QED
    BY <2>1, <2>2, <2>5 DEF FlightInv
<1>13. SlotInv'
  <2>1. ASSUME NEW s \in slots' PROVE Holds(s)'
    <3>1. Holds(s) /\ s # FlightSlot(i) /\ ahead' = ahead
      BY <1>0, <1>1, <2>1 DEF SlotInv
    <3> QED
      BY <1>5, <3>1 DEF Holds
  <2> QED
    BY <2>1 DEF SlotInv
<1>14. CloseInv'
  BY <1>0, <1>1, FlightBusy, StillOpen DEF lifeVars
<1>15. CacheInv'
  BY <1>0, <1>1, CacheStays
<1>16. FreshInv'
  <2>1. ASSUME NEW o \in Ops, NEW j \in Chunks, Unscheduled(o, j)'
        PROVE  need'[<<o, j>>] = "none" /\ ahead'[<<o, j>>] = "none"
    <3>1. Unscheduled(o, j)
      BY <1>7, <1>8, <2>1 DEF Unscheduled
    <3> QED
      BY <1>0, <1>1, <1>6, <3>1, Zenon DEF FreshInv
  <2> QED
    BY <2>1 DEF FreshInv
<1> QED
  BY <1>16, <1>9, <1>10, <1>11, <1>12, <1>13, <1>14, <1>15 DEF IInv, CoreInv

-----------------------------------------------------------------------------
(***************************************************************************)
(* The steps of ReadAt.                                                    *)
(***************************************************************************)

\* Caller o goes on as v, outside fetchChunk, and may join or leave the WaitGroup.
OpMoves(o, v) ==
  /\ op' = [op EXCEPT ![o] = v]
  /\ op[o].at # "fetch" /\ v.at # "fetch"
  /\ v.first <= v.last
  /\ v.at = "copy" => v.index \in v.first .. v.last
  /\ v.at \in {"idle", "validate", "schedule"} => op[o].at \in {"idle", "validate"}
  /\ wg' \in {wg, wg \cup {OpTask(o)}, wg \ {OpTask(o)}}
  /\ OpTask(o) \in wg' <=> v.at \in Running
  /\ op[o].at \in Running \/ ~closed \/ UNCHANGED <<cache, wg>>
  /\ UNCHANGED <<need, ahead, flight, slots, closed, closer>>

LEMMA OpMoveStep ==
  ASSUME CoreInv, NEW o \in Ops, NEW v \in OpStates, OpMoves(o, v)
  PROVE  CoreInv'
<1>0. /\ TypeInv /\ RangeInv /\ FreshInv /\ WgInv /\ FlightInv /\ SlotInv /\ CloseInv
      /\ op \in [Ops -> OpStates]
  BY DEF CoreInv, TypeInv
<1>1. /\ op' = [op EXCEPT ![o] = v] /\ need' = need /\ ahead' = ahead /\ flight' = flight
      /\ slots' = slots /\ closed' = closed /\ closer' = closer
  BY DEF OpMoves
<1>2. op'[o] = v /\ \A p \in Ops : p # o => op'[p] = op[p]
  BY <1>0, <1>1
<1>3. TypeInv'
  BY <1>0, <1>1 DEF TypeInv
<1>4. RangeInv'
  BY <1>0, <1>2 DEF RangeInv, OpMoves
<1>5. WgInv'
  <2>1. ASSUME NEW p \in Ops, p # o PROVE OpTask(p) \in wg' <=> OpTask(p) \in wg
    <3>1. OpTask(p) # OpTask(o)
      BY <2>1, Names
    <3> QED
      BY <3>1 DEF OpMoves
  <2>2. \A p \in Ops : OpTask(p) \in wg' <=> op'[p].at \in Running
    BY <1>0, <1>2, <2>1 DEF WgInv, OpMoves
  <2>3. ASSUME NEW p \in Ops, NEW i \in Chunks
        PROVE  /\ NeedTask(p, i) \in wg' <=> NeedTask(p, i) \in wg
               /\ AheadTask(p, i) \in wg' <=> AheadTask(p, i) \in wg
    <3>1. NeedTask(p, i) # OpTask(o) /\ AheadTask(p, i) # OpTask(o)
      BY Names
    <3> QED
      BY <3>1 DEF OpMoves
  <2> QED
    BY <1>0, <1>1, <2>2, <2>3 DEF WgInv
<1>6. FlightInv'
  <2>1. SameWaiters
    BY <1>1, <1>2 DEF SameWaiters, OpMoves
  <2> QED
    BY <1>0, <2>1, FlightsKept
<1>7. SlotInv'
  BY <1>0, <1>1 DEF SlotInv, Holds
<1>8. CloseInv'
  <2>1. CASE op[o].at \in Running
    <3>1. wg # {}
      BY <1>0, <2>1 DEF WgInv
    <3> QED
      BY <1>0, <1>1, <3>1, StillOpen
  <2>2. CASE ~closed
    BY <1>0, <1>1, <2>2 DEF CloseInv
  <2>3. CASE UNCHANGED <<cache, wg>>
    BY <1>0, <1>1, <2>3 DEF CloseInv
  <2> QED
    BY <2>1, <2>2, <2>3 DEF OpMoves
<1>9. FreshInv'
  <2>1. ASSUME NEW p \in Ops, NEW j \in Chunks, Unscheduled(p, j)'
        PROVE  Unscheduled(p, j)
    BY <1>2, <2>1 DEF Unscheduled, OpMoves
  <2> QED
    BY <1>0, <1>1, <2>1 DEF FreshInv
<1> QED
  BY <1>3, <1>4, <1>5, <1>6, <1>7, <1>8, <1>9 DEF CoreInv

\* The record of caller o in another place.
LEMMA OpRecord ==
  ASSUME CoreInv, NEW o \in Ops, NEW a \in Running \cup {"refused", "error", "eof", "ok"}
  PROVE  LET v == [op[o] EXCEPT !.at = a]
         IN  /\ v \in OpStates /\ v.at = a /\ v.index = op[o].index
             /\ v.first = op[o].first /\ v.last = op[o].last /\ v.first <= v.last
<1>1. op[o] \in OpStates /\ op[o].first <= op[o].last
  BY DEF CoreInv, TypeInv, RangeInv
<1> QED
  BY <1>1 DEF OpStates

LEMMA OpRecordAt ==
  ASSUME CoreInv, NEW o \in Ops, NEW n \in 0 .. (MaxIndex + 1)
  PROVE  LET v == [op[o] EXCEPT !.at = "copy", !.index = n]
         IN  /\ v \in OpStates /\ v.at = "copy" /\ v.index = n
             /\ v.first = op[o].first /\ v.last = op[o].last /\ v.first <= v.last
<1>1. op[o] \in OpStates /\ op[o].first <= op[o].last
  BY DEF CoreInv, TypeInv, RangeInv
<1> QED
  BY <1>1, Zenon DEF OpStates, Running

LEMMA ReadAtStep ==
  ASSUME IInv, NEW o \in Ops, NEW r \in Requests, ReadAt(o, r.first, r.last, r.kind)
  PROVE  IInv'
<1>0. CoreInv /\ CacheInv /\ WgInv /\ op \in [Ops -> OpStates]
  BY DEF IInv, CoreInv, TypeInv
<1>1. /\ op[o].at = "idle"
      /\ UNCHANGED <<need, ahead, flight, slots, closed, closer>> /\ UNCHANGED cacheVars
  BY DEF ReadAt
<1>2. OpTask(o) \notin wg
  BY <1>0, <1>1 DEF WgInv, Running
<1>3. CASE closed
  <2> DEFINE v == [op[o] EXCEPT !.at = "refused"]
  <2>1. op' = [op EXCEPT ![o] = v] /\ wg' = wg
    BY <1>3, Zenon DEF ReadAt
  <2>2. v \in OpStates /\ v.at = "refused" /\ v.first <= v.last
    BY <1>0, OpRecord
  <2> HIDE DEF v
  <2>3. OpMoves(o, v)
    BY <1>1, <1>2, <2>1, <2>2 DEF OpMoves, cacheVars, Running
  <2> QED
    BY <1>0, <1>1, <2>2, <2>3, OpMoveStep, CacheStays DEF IInv
<1>4. CASE ~closed
  <2> DEFINE v == [at |-> "validate", first |-> r.first, last |-> r.last,
                   kind |-> r.kind, index |-> r.first]
  <2>1. op' = [op EXCEPT ![o] = v] /\ wg' = wg \cup {OpTask(o)}
    BY <1>4, Zenon DEF ReadAt
  <2>2. /\ r.first \in Chunks /\ r.last \in Chunks /\ r.kind \in {"inside", "beyond", "invalid"}
        /\ r.first <= r.last /\ r.first \in 0 .. (MaxIndex + 1)
    BY ConstantsOK, ChunksFinite DEF Request
  <2>3. v \in OpStates /\ v.at = "validate" /\ v.first <= v.last
    BY <2>2 DEF OpStates, Running
  <2> HIDE DEF v
  <2>4. OpMoves(o, v)
    BY <1>1, <1>4, <2>1, <2>3 DEF OpMoves, Running
  <2> QED
    BY <1>0, <1>1, <2>3, <2>4, OpMoveStep, CacheStays DEF IInv
<1> QED
  BY <1>3, <1>4

LEMMA ReadValidateStep ==
  ASSUME IInv, NEW o \in Ops, ReadValidate(o)
  PROVE  IInv'
<1>0. CoreInv /\ CacheInv /\ WgInv /\ op \in [Ops -> OpStates] /\ op[o].first \in Chunks
  BY DEF IInv, CoreInv, TypeInv, OpStates
<1>1. op[o].at = "validate" /\ UNCHANGED <<need, ahead, flight, slots, closed, closer>>
  BY DEF ReadValidate
<1>2. OpTask(o) \in wg
  BY <1>0, <1>1 DEF WgInv, Running
<1>3. PICK a \in {"error", "eof", "schedule"} :
        /\ op' = [op EXCEPT ![o].at = a]
        /\ wg' = IF a = "schedule" THEN wg ELSE wg \ {OpTask(o)}
        /\ UNCHANGED cacheVars \/ EvictBefore(op[o].first)
  BY Zenon DEF ReadValidate
<1> DEFINE v == [op[o] EXCEPT !.at = a]
<1>4. op' = [op EXCEPT ![o] = v]
  BY <1>3, Zenon
<1>5. v \in OpStates /\ v.at = a /\ v.first <= v.last
  BY <1>0, OpRecord, Zenon DEF Running
<1> HIDE DEF v
<1>6. OpMoves(o, v)
  BY <1>1, <1>2, <1>3, <1>4, <1>5, Zenon DEF OpMoves, Running
<1>7. CacheInv'
  BY <1>0, <1>3, CacheStays, EvictStep
<1> QED
  BY <1>0, <1>5, <1>6, <1>7, OpMoveStep DEF IInv

LEMMA ReadScheduledStep ==
  ASSUME IInv, NEW o \in Ops, ReadScheduled(o)
  PROVE  IInv'
<1>0. CoreInv /\ CacheInv /\ WgInv /\ op[o] \in OpStates /\ op[o].first <= op[o].last
  BY DEF IInv, CoreInv, TypeInv, RangeInv
<1> DEFINE v == [op[o] EXCEPT !.at = "copy", !.index = op[o].first]
<1>1. /\ op[o].at = "schedule" /\ op' = [op EXCEPT ![o] = v]
      /\ UNCHANGED <<need, ahead, flight, slots>> /\ UNCHANGED lifeVars /\ UNCHANGED cacheVars
  BY Zenon DEF ReadScheduled
<1>2. OpTask(o) \in wg
  BY <1>0, <1>1 DEF WgInv, Running
<1>3. /\ op[o].first \in op[o].first .. op[o].last
      /\ op[o].first \in 0 .. (MaxIndex + 1)
  BY <1>0, ChunksFinite DEF OpStates
<1>4. /\ v \in OpStates /\ v.at = "copy" /\ v.index \in v.first .. v.last /\ v.first <= v.last
  BY <1>0, <1>3, OpRecordAt, Zenon
<1> HIDE DEF v
<1>5. OpMoves(o, v)
  BY <1>1, <1>2, <1>4 DEF OpMoves, lifeVars, Running
<1> QED
  BY <1>0, <1>1, <1>4, <1>5, OpMoveStep, CacheStays DEF IInv

LEMMA CopyCachedStep ==
  ASSUME IInv, NEW o \in Ops, CopyCached(o)
  PROVE  IInv'
<1> DEFINE i == op[o].index
<1>0. /\ CoreInv /\ CacheInv /\ WgInv /\ op[o] \in OpStates /\ op[o].first <= op[o].last
  BY DEF IInv, CoreInv, TypeInv, RangeInv
<1>1. /\ op[o].at = "copy" /\ UseChunk(i) /\ op' = AfterCopy(o, i)
      /\ UNCHANGED <<need, ahead, flight, slots>> /\ UNCHANGED lifeVars
  BY Zenon DEF CopyCached
<1>2. OpTask(o) \in wg /\ i \in op[o].first .. op[o].last
  BY <1>1 DEF WgInv, Running, IInv, CoreInv, RangeInv
<1>3. PICK v \in OpStates :
        /\ op' = [op EXCEPT ![o] = v] /\ v.at \in {"exit", "copy"} /\ v.first <= v.last
        /\ v.at = "copy" => v.index \in v.first .. v.last
  <2>1. CASE i > LastChunk \/ i = op[o].last
    <3> DEFINE v == [op[o] EXCEPT !.at = "exit"]
    <3>1. op' = [op EXCEPT ![o] = v]
      BY <1>1, <2>1, Zenon DEF AfterCopy
    <3>2. v \in OpStates /\ v.at = "exit" /\ v.first <= v.last
      BY <1>0, OpRecord, Zenon DEF Running
    <3> HIDE DEF v
    <3> QED
      BY <3>1, <3>2, Zenon
  <2>2. CASE ~(i > LastChunk \/ i = op[o].last)
    <3> DEFINE v == [op[o] EXCEPT !.at = "copy", !.index = i + 1]
    <3>1. op' = [op EXCEPT ![o] = v]
      BY <1>1, <2>2, Zenon DEF AfterCopy
    <3>2. i + 1 \in op[o].first .. op[o].last /\ i + 1 \in 0 .. (MaxIndex + 1)
      BY <1>0, <1>2, <2>2, ChunksFinite DEF OpStates
    <3>3. /\ v \in OpStates /\ v.at = "copy" /\ v.index = i + 1
          /\ v.first = op[o].first /\ v.last = op[o].last /\ v.first <= v.last
      BY <1>0, <3>2, OpRecordAt, Zenon
    <3> HIDE DEF v
    <3> QED
      BY <3>1, <3>2, <3>3, Zenon
  <2> QED
    BY <2>1, <2>2
<1>4. OpMoves(o, v)
  BY <1>1, <1>2, <1>3 DEF OpMoves, lifeVars, Running
<1> QED
  BY <1>0, <1>1, <1>4, OpMoveStep, UseStep DEF IInv

LEMMA ReadReturnStep ==
  ASSUME IInv, NEW o \in Ops, ReadReturn(o)
  PROVE  IInv'
<1>0. CoreInv /\ CacheInv
  BY DEF IInv
<1>1. /\ op[o].at \in {"exit", "failed"} /\ OpTask(o) \in wg /\ wg' = wg \ {OpTask(o)}
      /\ op' = [op EXCEPT ![o].at = IF op[o].at = "exit" THEN "ok" ELSE "error"]
      /\ UNCHANGED <<need, ahead, flight, slots, closed, closer>> /\ UNCHANGED cacheVars
  BY Zenon DEF ReadReturn
<1>2. PICK a \in {"ok", "error"} : op' = [op EXCEPT ![o].at = a]
  BY <1>1, Zenon
<1> DEFINE v == [op[o] EXCEPT !.at = a]
<1>3. op' = [op EXCEPT ![o] = v]
  BY <1>2, Zenon
<1>4. v \in OpStates /\ v.at = a /\ v.first <= v.last
  BY <1>0, OpRecord
<1> HIDE DEF v
<1>5. OpMoves(o, v)
  BY <1>1, <1>3, <1>4, Zenon DEF OpMoves, Running
<1> QED
  BY <1>0, <1>1, <1>4, <1>5, OpMoveStep, CacheStays DEF IInv

\* The loops of scheduleRequiredChunks and scheduleReadAhead stay within the chunks.
LEMMA ScheduleRange ==
  ASSUME CoreInv, NEW o \in Ops, ReadSchedule(o)
  PROVE  op[o].index \in Chunks /\ op[o].index + 1 \in 0 .. (MaxIndex + 1)
<1>1. op[o] \in OpStates
  BY DEF CoreInv, TypeInv
<1>2. /\ op[o].index \in Nat /\ op[o].index <= MaxIndex + 1
      /\ op[o].last \in Nat /\ op[o].last <= MaxIndex /\ op[o].first \in Nat
  BY <1>1, ChunksFinite DEF OpStates
<1>3. op[o].index <= op[o].last \/ op[o].index <= WindowEnd(op[o].first)
  BY Zenon DEF ReadSchedule
<1>4. WindowEnd(op[o].first) \in Int /\ WindowEnd(op[o].first) <= MaxIndex
  BY <1>2, ConstantsOK DEF WindowEnd
<1> QED
  BY <1>2, <1>3, <1>4, ChunksFinite

LEMMA ReadScheduleStep ==
  ASSUME IInv, NEW o \in Ops, ReadSchedule(o)
  PROVE  IInv'
<1>0. /\ CoreInv /\ CacheInv /\ TypeInv /\ RangeInv /\ FreshInv /\ WgInv /\ FlightInv /\ SlotInv
      /\ CloseInv /\ op \in [Ops -> OpStates]
  BY DEF IInv, CoreInv, TypeInv
<1>1. PICK i : i = op[o].index
  OBVIOUS
<1>2. i \in Chunks /\ i + 1 \in 0 .. (MaxIndex + 1)
  BY <1>0, <1>1, ScheduleRange
<1>3. /\ op[o].at = "schedule" /\ op' = [op EXCEPT ![o] = [op[o] EXCEPT !.index = i + 1]]
      /\ UNCHANGED <<flight, slots, closed, closer>> /\ UNCHANGED cacheVars
  BY <1>1, Zenon DEF ReadSchedule
<1>4. \/ UNCHANGED <<need, ahead, wg>>
      \/ /\ need' = [need EXCEPT ![<<o, i>>] = "start"]
         /\ wg' = wg \cup {NeedTask(o, i)}
         /\ ahead' = ahead
      \/ /\ ahead' = [ahead EXCEPT ![<<o, i>>] = "start"]
         /\ wg' = wg \cup {AheadTask(o, i)}
         /\ need' = need
  BY <1>1, Zenon DEF ReadSchedule
<1>5. OpTask(o) \in wg
  BY <1>0, <1>3 DEF WgInv, Running
<1>6. /\ op'[o] \in OpStates /\ op'[o].at = "schedule" /\ op'[o].index = i + 1
      /\ op'[o].first = op[o].first /\ op'[o].last = op[o].last
      /\ op' \in [Ops -> OpStates]
      /\ \A p \in Ops : p # o => op'[p] = op[p]
  <2> DEFINE v == [op[o] EXCEPT !.index = i + 1]
  <2>1. op[o] \in OpStates
    BY <1>0
  <2>2. /\ v \in OpStates /\ v.at = op[o].at /\ v.index = i + 1
        /\ v.first = op[o].first /\ v.last = op[o].last
    BY <1>2, <2>1 DEF OpStates
  <2>3. op' = [op EXCEPT ![o] = v]
    BY <1>3
  <2> HIDE DEF v
  <2> QED
    BY <1>0, <1>3, <2>2, <2>3
<1>7. need[<<o, i>>] = "none" /\ ahead[<<o, i>>] = "none"
  <2>1. Unscheduled(o, i)
    BY <1>1, <1>2, <1>3, ChunksFinite DEF Unscheduled
  <2> QED
    BY <1>0, <1>2, <2>1 DEF FreshInv
<1>8. /\ need' \in [Ops \X Chunks -> {"none", "start", "fetch", "fetched", "done"}]
      /\ ahead' \in [Ops \X Chunks -> {"none", "start", "reading", "exit", "done"}]
      /\ \A p \in Ops, j \in Chunks : <<p, j>> # <<o, i>> =>
           need'[<<p, j>>] = need[<<p, j>>] /\ ahead'[<<p, j>>] = ahead[<<p, j>>]
      /\ need'[<<o, i>>] \in {"none", "start"} /\ ahead'[<<o, i>>] \in {"none", "start"}
  <2>1. CASE UNCHANGED <<need, ahead, wg>>
    BY <1>0, <1>7, <2>1 DEF TypeInv
  <2>2. CASE need' = [need EXCEPT ![<<o, i>>] = "start"] /\ ahead' = ahead
    BY <1>0, <1>2, <1>7, <2>2 DEF TypeInv
  <2>3. CASE ahead' = [ahead EXCEPT ![<<o, i>>] = "start"] /\ need' = need
    BY <1>0, <1>2, <1>7, <2>3 DEF TypeInv
  <2> QED
    BY <1>4, <2>1, <2>2, <2>3
<1>9. TypeInv'
  BY <1>0, <1>3, <1>6, <1>8 DEF TypeInv
<1>10. RangeInv'
  BY <1>0, <1>6 DEF RangeInv
<1>11. FreshInv'
  <2>1. ASSUME NEW p \in Ops, NEW j \in Chunks, Unscheduled(p, j)'
        PROVE  need'[<<p, j>>] = "none" /\ ahead'[<<p, j>>] = "none"
    <3>1. CASE p # o
      <4>1. Unscheduled(p, j) /\ <<p, j>> # <<o, i>>
        BY <1>6, <2>1, <3>1 DEF Unscheduled
      <4> QED
        BY <1>0, <1>8, <4>1 DEF FreshInv
    <3>2. CASE p = o
      <4>1. i + 1 <= j
        BY <1>6, <2>1, <3>2 DEF Unscheduled
      <4>2. i <= j /\ i # j
        BY <1>2, <4>1, ChunksFinite
      <4>3. Unscheduled(p, j) /\ <<p, j>> # <<o, i>>
        BY <1>1, <1>3, <3>2, <4>2 DEF Unscheduled
      <4> QED
        BY <1>0, <1>8, <4>3 DEF FreshInv
    <3> QED
      BY <3>1, <3>2
  <2> QED
    BY <2>1 DEF FreshInv
<1>12. WgInv'
  <2>1. \A p \in Ops : OpTask(p) \in wg' <=> OpTask(p) \in wg
    <3>1. \A p : OpTask(p) # NeedTask(o, i) /\ OpTask(p) # AheadTask(o, i)
      BY Names
    <3> QED
      BY <1>4, <3>1
  <2>2. \A p \in Ops : OpTask(p) \in wg' <=> op'[p].at \in Running
    BY <1>0, <1>3, <1>6, <2>1 DEF WgInv
  <2>3. ASSUME NEW p \in Ops, NEW j \in Chunks
        PROVE  /\ NeedTask(p, j) \in wg' <=> need'[<<p, j>>] \in {"start", "fetch", "fetched"}
               /\ AheadTask(p, j) \in wg' <=> ahead'[<<p, j>>] \in {"start", "reading", "exit"}
    <3>0. /\ NeedTask(p, j) \in wg <=> need[<<p, j>>] \in {"start", "fetch", "fetched"}
          /\ AheadTask(p, j) \in wg <=> ahead[<<p, j>>] \in {"start", "reading", "exit"}
      BY <1>0 DEF WgInv
    <3>1. NeedTask(p, j) # AheadTask(o, i) /\ AheadTask(p, j) # NeedTask(o, i)
      BY Names
    <3>2. CASE <<p, j>> # <<o, i>>
      <4>1. NeedTask(p, j) # NeedTask(o, i) /\ AheadTask(p, j) # AheadTask(o, i)
        BY <3>2, Names
      <4> QED
        BY <1>4, <1>8, <3>0, <3>1, <3>2, <4>1
    <3>3. CASE p = o /\ j = i
      <4>1. CASE UNCHANGED <<need, ahead, wg>>
        BY <3>0, <4>1
      <4>2. CASE /\ need' = [need EXCEPT ![<<o, i>>] = "start"]
                 /\ wg' = wg \cup {NeedTask(o, i)} /\ ahead' = ahead
        <5>1. need'[<<o, i>>] = "start"
          BY <1>0, <1>2, <4>2 DEF TypeInv
        <5> QED
          BY <3>0, <3>1, <3>3, <4>2, <5>1
      <4>3. CASE /\ ahead' = [ahead EXCEPT ![<<o, i>>] = "start"]
                 /\ wg' = wg \cup {AheadTask(o, i)} /\ need' = need
        <5>1. ahead'[<<o, i>>] = "start"
          BY <1>0, <1>2, <4>3 DEF TypeInv
        <5> QED
          BY <3>0, <3>1, <3>3, <4>3, <5>1
      <4> QED
        BY <1>4, <4>1, <4>2, <4>3
    <3> QED
      BY <3>2, <3>3
  <2> QED
    BY <2>2, <2>3 DEF WgInv
<1>13. FlightInv'
  <2>1. SameWaiters
    <3>1. ASSUME NEW p \in Ops, NEW j \in Chunks
          PROVE  need'[<<p, j>>] = "fetch" <=> need[<<p, j>>] = "fetch"
      BY <1>7, <1>8
    <3> QED
      BY <1>3, <1>6, <3>1 DEF SameWaiters
  <2> QED
    BY <1>0, <2>1, FlightsKept
<1>14. SlotInv'
  <2>1. ASSUME NEW s \in slots' PROVE Holds(s)'
    <3>1. Holds(s) /\ flight' = flight
      BY <1>0, <1>3, <2>1 DEF SlotInv
    <3>2. ASSUME NEW p \in Ops, NEW j \in Chunks, ahead[<<p, j>>] \in {"reading", "exit"}
          PROVE  ahead'[<<p, j>>] = ahead[<<p, j>>]
      BY <1>7, <1>8, <3>2
    <3> QED
      BY <3>1, <3>2 DEF Holds
  <2> QED
    BY <2>1 DEF SlotInv
<1>15. CloseInv'
  BY <1>0, <1>3, <1>5, StillOpen
<1> QED
  BY <1>0, <1>3, <1>9, <1>10, <1>11, <1>12, <1>13, <1>14, <1>15, CacheStays DEF IInv, CoreInv

-----------------------------------------------------------------------------
(***************************************************************************)
(* A caller enters group.Do.                                               *)
(***************************************************************************)

\* t is one of the waiters of flight i now.
Joins(t, i, v) ==
  /\ flight' = [flight EXCEPT ![i] = v]
  /\ v.at # "none" /\ v.waiters = flight[i].waiters \cup {t}
  /\ flight[i].at \in SlotHolding => v.at \in SlotHolding

\* The first caller starts the flight, a later one shares it.
LEMMA JoinFlight ==
  ASSUME TypeInv, FlightInv, NEW t \in Tasks, NEW i \in Chunks, Join(t, i)
  PROVE  \E v \in FlightStates : Joins(t, i, v)
<1>1. flight[i] \in FlightStates
  BY DEF TypeInv
<1>2. CASE flight[i].at = "none"
  <2> DEFINE v == [at |-> "check", attempt |-> 0, ok |-> FALSE, waiters |-> {t}]
  <2>1. flight' = [flight EXCEPT ![i] = v]
    BY <1>2 DEF Join
  <2>2. v \in FlightStates /\ v.at = "check" /\ v.waiters = {t}
    BY DEF FlightStates
  <2>3. flight[i].waiters = {}
    BY <1>2 DEF FlightInv
  <2> HIDE DEF v
  <2>4. Joins(t, i, v)
    BY <1>2, <2>1, <2>2, <2>3 DEF Joins, SlotHolding
  <2> QED
    BY <2>2, <2>4
<1>3. CASE flight[i].at # "none"
  <2> DEFINE w == flight[i].waiters \cup {t}
  <2> DEFINE v == [flight[i] EXCEPT !.waiters = w]
  <2>1. flight' = [flight EXCEPT ![i] = v]
    <3>1. flight' = [flight EXCEPT ![i] = [flight[i] EXCEPT !.waiters = Joined(flight[i].waiters, t)]]
      BY <1>3, Zenon DEF Join
    <3> QED
      BY <3>1, Zenon DEF Joined
  <2>2. w \in SUBSET Tasks
    BY <1>1 DEF FlightStates
  <2>3. v \in FlightStates /\ v.at = flight[i].at /\ v.waiters = w
    <3> HIDE DEF w
    <3> QED
      BY <1>1, <2>2 DEF FlightStates
  <2>4. w = flight[i].waiters \cup {t}
    OBVIOUS
  <2> HIDE DEF v, w
  <2>5. Joins(t, i, v)
    BY <1>3, <2>1, <2>3, <2>4 DEF Joins
  <2> QED
    BY <2>3, <2>5
<1> QED
  BY <1>2, <1>3

LEMMA JoinStep ==
  ASSUME TypeInv, RangeInv, FlightInv, NEW t, NEW i \in Chunks, NEW v \in FlightStates, Joins(t, i, v),
         Waits(t, i)',
         \A u : \A j \in Chunks : Waits(u, j) => Waits(u, j)',
         \A o \in Ops : op'[o].at = "fetch" =>
           \/ op[o].at = "fetch" /\ op'[o].index = op[o].index
           \/ t = OpTask(o) /\ op'[o].index = i,
         \A o \in Ops, j \in Chunks : need'[<<o, j>>] = "fetch" =>
           \/ need[<<o, j>>] = "fetch"
           \/ t = NeedTask(o, j) /\ j = i
  PROVE  FlightInv'
<1>1. /\ flight'[i] = v /\ v.at # "none" /\ v.waiters = flight[i].waiters \cup {t}
      /\ \A j \in Chunks : j # i => flight'[j] = flight[j]
  BY DEF Joins, TypeInv
<1>2. \A j \in Chunks : flight'[j].at = "none" <=> flight'[j].waiters = {}
  BY <1>1 DEF FlightInv
<1>3. ASSUME NEW j \in Chunks, NEW u \in flight'[j].waiters
      PROVE  Waits(u, j)'
  <2>1. u \in flight[j].waiters \/ (j = i /\ u = t)
    BY <1>1, <1>3
  <2> QED
    BY <2>1 DEF FlightInv
<1>4. \A j \in Chunks : flight[j].waiters \subseteq flight'[j].waiters
  BY <1>1
<1>5. ASSUME NEW o \in Ops, op'[o].at = "fetch"
      PROVE  OpTask(o) \in flight'[op'[o].index].waiters
  <2>1. CASE op[o].at = "fetch" /\ op'[o].index = op[o].index
    <3>1. op[o].index \in Chunks
      BY <2>1, ChunksFinite DEF RangeInv, TypeInv, OpStates
    <3>2. OpTask(o) \in flight[op[o].index].waiters
      BY <2>1 DEF FlightInv, WaitersKnown
    <3> QED
      BY <1>4, <2>1, <3>1, <3>2
  <2>2. CASE t = OpTask(o) /\ op'[o].index = i
    BY <1>1, <2>2
  <2> QED
    BY <1>5, <2>1, <2>2
<1>6. ASSUME NEW o \in Ops, NEW j \in Chunks, need'[<<o, j>>] = "fetch"
      PROVE  NeedTask(o, j) \in flight'[j].waiters
  <2>1. CASE need[<<o, j>>] = "fetch"
    BY <1>4, <2>1 DEF FlightInv, WaitersKnown
  <2>2. CASE t = NeedTask(o, j) /\ j = i
    BY <1>1, <2>2
  <2> QED
    BY <1>6, <2>1, <2>2
<1>7. WaitersKnown'
  BY <1>5, <1>6 DEF WaitersKnown
<1> QED
  BY <1>2, <1>3, <1>7 DEF FlightInv

\* What a join leaves alone: slots keep their holders.
LEMMA JoinSlots ==
  ASSUME TypeInv, SlotInv, NEW t, NEW i \in Chunks, NEW v \in FlightStates, Joins(t, i, v),
         slots' = slots, ahead' = ahead
  PROVE  SlotInv'
<1>1. /\ flight'[i] = v /\ \A j \in Chunks : j # i => flight'[j] = flight[j]
      /\ flight[i].at \in SlotHolding => v.at \in SlotHolding
  BY DEF Joins, TypeInv
<1>2. ASSUME NEW s \in slots' PROVE Holds(s)'
  <2>1. Holds(s)
    BY <1>2 DEF SlotInv
  <2> QED
    BY <1>1, <2>1 DEF Holds, SlotHolding
<1> QED
  BY <1>2 DEF SlotInv

LEMMA CopyFetchStep ==
  ASSUME IInv, NEW o \in Ops, CopyFetch(o)
  PROVE  IInv'
<1>0. /\ CacheInv /\ TypeInv /\ RangeInv /\ FreshInv /\ WgInv /\ FlightInv /\ SlotInv
      /\ CloseInv /\ op \in [Ops -> OpStates] /\ CoreInv
  BY DEF IInv, CoreInv, TypeInv
<1>1. PICK i : i = op[o].index
  OBVIOUS
<1> DEFINE w == [op[o] EXCEPT !.at = "fetch"]
<1>2. /\ op[o].at = "copy" /\ Join(OpTask(o), i) /\ op' = [op EXCEPT ![o] = w]
      /\ UNCHANGED <<need, ahead, slots>> /\ UNCHANGED cacheVars /\ UNCHANGED lifeVars
  BY <1>1, Zenon DEF CopyFetch
<1>3. /\ w \in OpStates /\ w.at = "fetch" /\ w.index = i
      /\ w.first = op[o].first /\ w.last = op[o].last
  BY <1>0, <1>1, OpRecord, Zenon DEF Running
<1> HIDE DEF w
<1>4. op'[o] = w /\ \A p \in Ops : p # o => op'[p] = op[p]
  BY <1>0, <1>2
<1>5. i \in Chunks /\ OpTask(o) \in Tasks /\ OpTask(o) \in wg
  BY <1>0, <1>1, <1>2, ChunksFinite DEF RangeInv, OpStates, Tasks, WgInv, Running
<1>6. PICK v \in FlightStates : Joins(OpTask(o), i, v)
  BY <1>0, <1>2, <1>5, JoinFlight
<1>7. TypeInv'
  <2>1. op' \in [Ops -> OpStates]
    BY <1>0, <1>2, <1>3
  <2>2. flight' \in [Chunks -> FlightStates]
    BY <1>0, <1>6, Zenon DEF Joins, TypeInv
  <2> QED
    BY <1>0, <1>2, <2>1, <2>2 DEF TypeInv, lifeVars
<1>8. RangeInv'
  BY <1>0, <1>1, <1>2, <1>3, <1>4 DEF RangeInv
<1>9. FreshInv'
  BY <1>0, <1>2, <1>3, <1>4 DEF FreshInv, Unscheduled
<1>10. WgInv'
  <2>1. \A p \in Ops : op'[p].at \in Running <=> op[p].at \in Running
    BY <1>2, <1>3, <1>4 DEF Running
  <2> QED
    BY <1>0, <1>2, <2>1 DEF WgInv, lifeVars
<1>11. FlightInv'
  <2>1. Waits(OpTask(o), i)'
    BY <1>3, <1>4 DEF Waits
  <2>2. ASSUME NEW u, NEW j \in Chunks, Waits(u, j) PROVE Waits(u, j)'
    <3>1. \A p \in Ops : op[p].at = "fetch" => op'[p] = op[p]
      BY <1>2, <1>4
    <3> QED
      BY <1>2, <2>2, <3>1, Zenon DEF Waits
  <2>3. \A p \in Ops : op'[p].at = "fetch" =>
           \/ op[p].at = "fetch" /\ op'[p].index = op[p].index
           \/ OpTask(o) = OpTask(p) /\ op'[p].index = i
    BY <1>3, <1>4
  <2> QED
    BY <1>0, <1>2, <1>5, <1>6, <2>1, <2>2, <2>3, JoinStep
<1>12. SlotInv'
  BY <1>0, <1>2, <1>5, <1>6, JoinSlots
<1>13. CloseInv'
  BY <1>0, <1>2, <1>5, StillOpen DEF lifeVars
<1> QED
  BY <1>0, <1>2, <1>7, <1>8, <1>9, <1>10, <1>11, <1>12, <1>13, CacheStays DEF IInv, CoreInv

-----------------------------------------------------------------------------
(***************************************************************************)
(* The goroutines a read starts.                                           *)
(***************************************************************************)

\* The goroutine of a required chunk enters fetchChunk.
LEMMA NeedJoinStep ==
  ASSUME IInv, NEW o \in Ops, NEW i \in Chunks, need[<<o, i>>] = "start", Join(NeedTask(o, i), i),
         need' = [need EXCEPT ![<<o, i>>] = "fetch"],
         UNCHANGED <<op, ahead, slots, wg, closed, closer>>, UNCHANGED cacheVars
  PROVE  IInv'
<1>0. /\ CacheInv /\ TypeInv /\ RangeInv /\ FreshInv /\ WgInv /\ FlightInv /\ SlotInv /\ CloseInv
      /\ need \in [Ops \X Chunks -> {"none", "start", "fetch", "fetched", "done"}]
  BY DEF IInv, CoreInv, TypeInv
<1>1. /\ need'[<<o, i>>] = "fetch"
      /\ \A p \in Ops, j \in Chunks : <<p, j>> # <<o, i>> => need'[<<p, j>>] = need[<<p, j>>]
  BY <1>0
<1>2. NeedTask(o, i) \in Tasks /\ NeedTask(o, i) \in wg
  BY <1>0 DEF Tasks, WgInv
<1>3. PICK v \in FlightStates : Joins(NeedTask(o, i), i, v)
  BY <1>0, <1>2, JoinFlight
<1>4. TypeInv'
  <2>1. need' \in [Ops \X Chunks -> {"none", "start", "fetch", "fetched", "done"}]
    BY <1>0
  <2>2. flight' \in [Chunks -> FlightStates]
    BY <1>0, <1>3 DEF Joins, TypeInv
  <2> QED
    BY <1>0, <2>1, <2>2 DEF TypeInv
<1>5. RangeInv'
  BY <1>0 DEF RangeInv
<1>6. FreshInv'
  <2>1. ~Unscheduled(o, i)
    BY <1>0 DEF FreshInv
  <2>2. ASSUME NEW p \in Ops, NEW j \in Chunks, Unscheduled(p, j)'
        PROVE  need'[<<p, j>>] = "none" /\ ahead'[<<p, j>>] = "none"
    <3>1. Unscheduled(p, j)
      BY <2>2 DEF Unscheduled
    <3>2. <<p, j>> # <<o, i>>
      BY <2>1, <3>1
    <3> QED
      BY <1>0, <1>1, <3>1, <3>2 DEF FreshInv
  <2> QED
    BY <2>2 DEF FreshInv
<1>7. WgInv'
  <2>1. \A p \in Ops, j \in Chunks : need'[<<p, j>>] \in {"start", "fetch", "fetched"}
                                       <=> need[<<p, j>>] \in {"start", "fetch", "fetched"}
    BY <1>1, Zenon
  <2> QED
    BY <1>0, <2>1 DEF WgInv
<1>8. FlightInv'
  <2>1. Waits(NeedTask(o, i), i)'
    BY <1>1 DEF Waits
  <2>2. ASSUME NEW u, NEW j \in Chunks, Waits(u, j) PROVE Waits(u, j)'
    <3>1. \A p \in Ops : need[<<p, j>>] = "fetch" => need'[<<p, j>>] = "fetch"
      BY <1>1
    <3> QED
      BY <2>2, <3>1 DEF Waits
  <2>3. ASSUME NEW p \in Ops, NEW j \in Chunks, need'[<<p, j>>] = "fetch"
        PROVE  need[<<p, j>>] = "fetch" \/ (NeedTask(o, i) = NeedTask(p, j) /\ j = i)
    BY <1>1, <2>3
  <2> QED
    BY <1>0, <1>3, <2>1, <2>2, <2>3, JoinStep
<1>9. SlotInv'
  BY <1>0, <1>3, JoinSlots
<1>10. CloseInv'
  BY <1>0, <1>2, StillOpen
<1> QED
  BY <1>0, <1>4, <1>5, <1>6, <1>7, <1>8, <1>9, <1>10, CacheStays DEF IInv, CoreInv

\* The goroutine of a required chunk ends.
LEMMA NeedEndStep ==
  ASSUME IInv, NEW o \in Ops, NEW i \in Chunks, need[<<o, i>>] \in {"start", "fetched"},
         need' = [need EXCEPT ![<<o, i>>] = "done"], wg' = wg \ {NeedTask(o, i)},
         UNCHANGED <<op, ahead, flight, slots, closed, closer>>, UNCHANGED cacheVars
  PROVE  IInv'
<1>0. /\ CacheInv /\ TypeInv /\ RangeInv /\ FreshInv /\ WgInv /\ FlightInv /\ SlotInv /\ CloseInv
      /\ need \in [Ops \X Chunks -> {"none", "start", "fetch", "fetched", "done"}]
  BY DEF IInv, CoreInv, TypeInv
<1>1. /\ need'[<<o, i>>] = "done"
      /\ \A p \in Ops, j \in Chunks : <<p, j>> # <<o, i>> => need'[<<p, j>>] = need[<<p, j>>]
  BY <1>0
<1>2. TypeInv'
  BY <1>0 DEF TypeInv
<1>3. RangeInv' /\ SlotInv'
  BY <1>0 DEF RangeInv, SlotInv, Holds
<1>4. FreshInv'
  <2>1. ~Unscheduled(o, i)
    BY <1>0 DEF FreshInv
  <2>2. ASSUME NEW p \in Ops, NEW j \in Chunks, Unscheduled(p, j)'
        PROVE  need'[<<p, j>>] = "none" /\ ahead'[<<p, j>>] = "none"
    <3>1. Unscheduled(p, j)
      BY <2>2 DEF Unscheduled
    <3>2. <<p, j>> # <<o, i>>
      BY <2>1, <3>1
    <3> QED
      BY <1>0, <1>1, <3>1, <3>2 DEF FreshInv
  <2> QED
    BY <2>2 DEF FreshInv
<1>5. WgInv'
  <2>1. \A p \in Ops : OpTask(p) \in wg' <=> OpTask(p) \in wg
    BY Names
  <2>2. \A p \in Ops, j \in Chunks : AheadTask(p, j) \in wg' <=> AheadTask(p, j) \in wg
    BY Names
  <2>3. ASSUME NEW p \in Ops, NEW j \in Chunks
        PROVE  NeedTask(p, j) \in wg' <=> need'[<<p, j>>] \in {"start", "fetch", "fetched"}
    <3>1. CASE <<p, j>> = <<o, i>>
      BY <1>1, <3>1
    <3>2. CASE <<p, j>> # <<o, i>>
      <4>1. NeedTask(p, j) # NeedTask(o, i)
        BY <3>2, Names
      <4> QED
        BY <1>0, <1>1, <3>2, <4>1 DEF WgInv
    <3> QED
      BY <3>1, <3>2
  <2> QED
    BY <1>0, <2>1, <2>2, <2>3 DEF WgInv
<1>6. FlightInv'
  <2>1. \A p \in Ops, j \in Chunks : need'[<<p, j>>] = "fetch" <=> need[<<p, j>>] = "fetch"
    BY <1>1, Zenon
  <2>2. SameWaiters
    BY <2>1 DEF SameWaiters
  <2> QED
    BY <1>0, <2>2, FlightsKept
<1>7. CloseInv'
  <2>1. wg # {}
    BY <1>0 DEF WgInv
  <2> QED
    BY <1>0, <2>1, StillOpen
<1> QED
  BY <1>0, <1>2, <1>3, <1>4, <1>5, <1>6, <1>7, CacheStays DEF IInv, CoreInv

LEMMA NeedStepKeeps ==
  ASSUME IInv, NEW o \in Ops, NEW i \in Chunks, NeedStep(o, i)
  PROVE  IInv'
<1>1. CASE NeedStart(o, i)
  <2>1. need[<<o, i>>] = "start" /\ UNCHANGED <<op, ahead, slots, closed, closer>> /\ UNCHANGED cacheVars
    BY <1>1 DEF NeedStart
  <2>2. CASE ~closed /\ i \notin cache
    <3>1. Join(NeedTask(o, i), i) /\ need' = [need EXCEPT ![<<o, i>>] = "fetch"] /\ wg' = wg
      BY <1>1, <2>2, Zenon DEF NeedStart
    <3> QED
      BY <2>1, <3>1, NeedJoinStep, Zenon
  <2>3. CASE ~(~closed /\ i \notin cache)
    <3>1. /\ need' = [need EXCEPT ![<<o, i>>] = "done"] /\ wg' = wg \ {NeedTask(o, i)}
          /\ flight' = flight
      BY <1>1, <2>3, Zenon DEF NeedStart
    <3> QED
      BY <2>1, <3>1, NeedEndStep, Zenon
  <2> QED
    BY <2>2, <2>3
<1>2. CASE NeedReturn(o, i)
  <2>1. /\ need[<<o, i>>] = "fetched" /\ need' = [need EXCEPT ![<<o, i>>] = "done"]
        /\ wg' = wg \ {NeedTask(o, i)} /\ UNCHANGED cacheVars
        /\ UNCHANGED <<op, ahead, flight, slots, closed, closer>>
    BY <1>2, Zenon DEF NeedReturn
  <2> QED
    BY <2>1, NeedEndStep, Zenon
<1> QED
  BY <1>1, <1>2 DEF NeedStep

\* The read-ahead of chunk i for caller o goes on; it holds a slot only while it reads.
AheadMoves(o, i, a) ==
  /\ ahead[<<o, i>>] \in {"start", "reading", "exit"} /\ a \in {"reading", "exit", "done"}
  /\ ahead' = [ahead EXCEPT ![<<o, i>>] = a]
  /\ wg' = IF a = "done" THEN wg \ {AheadTask(o, i)} ELSE wg
  /\ slots' \subseteq slots \cup {AheadTask(o, i)}
  /\ a = "done" => AheadTask(o, i) \notin slots'
  /\ UNCHANGED <<op, need, flight, closed, closer>>

LEMMA AheadMoveStep ==
  ASSUME CoreInv, NEW o \in Ops, NEW i \in Chunks, NEW a, AheadMoves(o, i, a)
  PROVE  CoreInv'
<1>0. /\ TypeInv /\ RangeInv /\ FreshInv /\ WgInv /\ FlightInv /\ SlotInv /\ CloseInv
      /\ ahead \in [Ops \X Chunks -> {"none", "start", "reading", "exit", "done"}]
  BY DEF CoreInv, TypeInv
<1>1. /\ ahead[<<o, i>>] \in {"start", "reading", "exit"} /\ a \in {"reading", "exit", "done"}
      /\ ahead' = [ahead EXCEPT ![<<o, i>>] = a]
      /\ UNCHANGED <<op, need, flight, closed, closer>>
  BY DEF AheadMoves
<1>2. /\ ahead'[<<o, i>>] = a
      /\ \A p \in Ops, j \in Chunks : <<p, j>> # <<o, i>> => ahead'[<<p, j>>] = ahead[<<p, j>>]
  BY <1>0, <1>1
<1>3. TypeInv'
  BY <1>0, <1>1 DEF TypeInv
<1>4. RangeInv'
  BY <1>0, <1>1 DEF RangeInv
<1>5. FreshInv'
  <2>1. ~Unscheduled(o, i)
    BY <1>0, <1>1 DEF FreshInv
  <2>2. ASSUME NEW p \in Ops, NEW j \in Chunks, Unscheduled(p, j)'
        PROVE  need'[<<p, j>>] = "none" /\ ahead'[<<p, j>>] = "none"
    <3>1. Unscheduled(p, j)
      BY <1>1, <2>2 DEF Unscheduled
    <3>2. <<p, j>> # <<o, i>>
      BY <2>1, <3>1
    <3> QED
      BY <1>0, <1>1, <1>2, <3>1, <3>2 DEF FreshInv
  <2> QED
    BY <2>2 DEF FreshInv
<1>6. WgInv'
  <2>1. wg' = wg \/ wg' = wg \ {AheadTask(o, i)}
    BY DEF AheadMoves
  <2>2. \A p \in Ops : OpTask(p) \in wg' <=> OpTask(p) \in wg
    BY <2>1, Names
  <2>3. \A p \in Ops, j \in Chunks : NeedTask(p, j) \in wg' <=> NeedTask(p, j) \in wg
    BY <2>1, Names
  <2>4. ASSUME NEW p \in Ops, NEW j \in Chunks
        PROVE  AheadTask(p, j) \in wg' <=> ahead'[<<p, j>>] \in {"start", "reading", "exit"}
    <3>1. CASE <<p, j>> = <<o, i>>
      <4>1. AheadTask(o, i) \in wg
        BY <1>0, <1>1 DEF WgInv
      <4>2. AheadTask(o, i) \in wg' <=> a # "done"
        BY <4>1 DEF AheadMoves
      <4> QED
        BY <1>1, <1>2, <3>1, <4>2
    <3>2. CASE <<p, j>> # <<o, i>>
      <4>1. AheadTask(p, j) # AheadTask(o, i)
        BY <3>2, Names
      <4>2. AheadTask(p, j) \in wg' <=> AheadTask(p, j) \in wg
        BY <2>1, <4>1
      <4> QED
        BY <1>0, <1>2, <3>2, <4>2 DEF WgInv
    <3> QED
      BY <3>1, <3>2
  <2> QED
    BY <1>0, <1>1, <2>2, <2>3, <2>4 DEF WgInv
<1>7. FlightInv'
  <2>1. SameWaiters
    BY <1>1 DEF SameWaiters
  <2> QED
    BY <1>0, <2>1, FlightsKept
<1>8. SlotInv'
  <2>1. ASSUME NEW s \in slots' PROVE Holds(s)'
    <3>1. CASE s = AheadTask(o, i)
      <4>1. a \in {"reading", "exit"}
        BY <1>1, <2>1, <3>1 DEF AheadMoves
      <4> QED
        BY <1>2, <3>1, <4>1 DEF Holds
    <3>2. CASE s # AheadTask(o, i)
      <4>1. Holds(s)
        BY <1>0, <2>1, <3>2 DEF AheadMoves, SlotInv
      <4>2. CASE \E j \in Chunks : s = FlightSlot(j) /\ flight[j].at \in {"reading", "backoff", "finish"}
        BY <1>1, <4>2 DEF Holds
      <4>3. ASSUME NEW p \in Ops, NEW j \in Chunks, s = AheadTask(p, j), ahead[<<p, j>>] \in {"reading", "exit"}
            PROVE  Holds(s)'
        <5>1. <<p, j>> # <<o, i>>
          BY <3>2, <4>3
        <5>2. ahead'[<<p, j>>] \in {"reading", "exit"}
          BY <1>2, <4>3, <5>1
        <5> QED
          BY <4>3, <5>2 DEF Holds
      <4> QED
        BY <4>1, <4>2, <4>3, Zenon DEF Holds
    <3> QED
      BY <3>1, <3>2
  <2> QED
    BY <2>1 DEF SlotInv
<1>9. CloseInv'
  <2>1. wg # {}
    BY <1>0, <1>1 DEF WgInv
  <2> QED
    BY <1>0, <1>1, <2>1, StillOpen
<1> QED
  BY <1>3, <1>4, <1>5, <1>6, <1>7, <1>8, <1>9 DEF CoreInv

\* A read-ahead that has not started holds no slot.
LEMMA NoSlotYet ==
  ASSUME SlotInv, NEW o \in Ops, NEW i \in Chunks, ahead[<<o, i>>] = "start"
  PROVE  AheadTask(o, i) \notin slots
<1> SUFFICES ASSUME AheadTask(o, i) \in slots PROVE FALSE
  OBVIOUS
<1>1. Holds(AheadTask(o, i))
  BY DEF SlotInv
<1>2. \A j : AheadTask(o, i) # FlightSlot(j)
  BY Names
<1>3. PICK p \in Ops, j \in Chunks : AheadTask(o, i) = AheadTask(p, j) /\ ahead[<<p, j>>] \in {"reading", "exit"}
  BY <1>1, <1>2 DEF Holds
<1>4. p = o /\ j = i
  BY <1>3, Names
<1> QED
  BY <1>3, <1>4

LEMMA AheadStepKeeps ==
  ASSUME IInv, NEW o \in Ops, NEW i \in Chunks, AheadStep(o, i) \/ AheadIO(o, i)
  PROVE  IInv'
<1>0. CacheInv /\ CoreInv /\ SlotInv
  BY DEF IInv, CoreInv
<1>1. CASE AheadStart(o, i)
  <2>1. /\ ahead[<<o, i>>] = "start" /\ UNCHANGED cacheVars
        /\ UNCHANGED <<op, need, flight, closed, closer>>
    BY <1>1 DEF AheadStart
  <2>2. \/ /\ ahead' = [ahead EXCEPT ![<<o, i>>] = "reading"]
           /\ slots' = slots \cup {AheadTask(o, i)} /\ wg' = wg
        \/ /\ ahead' = [ahead EXCEPT ![<<o, i>>] = "done"]
           /\ wg' = wg \ {AheadTask(o, i)} /\ slots' = slots
    BY <1>1, Zenon DEF AheadStart
  <2>3. AheadMoves(o, i, "reading") \/ AheadMoves(o, i, "done")
    BY <1>0, <2>1, <2>2, NoSlotYet DEF AheadMoves
  <2> QED
    BY <1>0, <2>1, <2>3, AheadMoveStep, CacheStays DEF IInv
<1>2. CASE AheadIO(o, i)
  <2>1. PICK ok \in BOOLEAN : AheadRead(o, i, ok)
    BY <1>2 DEF AheadIO
  <2>2. AddChunk(i) \/ UNCHANGED cacheVars
    BY <2>1, Zenon DEF AheadRead
  <2>3. CacheInv'
    BY <1>0, <2>2, AddStep, CacheStays
  <2>4. AheadMoves(o, i, "exit")
    BY <2>1 DEF AheadRead, AheadMoves, lifeVars
  <2> QED
    BY <1>0, <2>3, <2>4, AheadMoveStep DEF IInv
<1>3. CASE AheadReturn(o, i)
  <2>1. AheadMoves(o, i, "done") /\ UNCHANGED cacheVars
    BY <1>3 DEF AheadReturn, AheadMoves, AheadDone
  <2> QED
    BY <1>0, <2>1, AheadMoveStep, CacheStays DEF IInv
<1> QED
  BY <1>1, <1>2, <1>3 DEF AheadStep

-----------------------------------------------------------------------------
(***************************************************************************)
(* Close, and the theorems.                                                *)
(***************************************************************************)

LEMMA CloseBeginStep ==
  ASSUME IInv, NEW k \in Closers, CloseBegin(k)
  PROVE  IInv'
<1>0. CacheInv /\ TypeInv /\ RangeInv /\ FreshInv /\ WgInv /\ FlightInv /\ SlotInv /\ CloseInv
  BY DEF IInv, CoreInv
<1>1. /\ closer[k] = "idle" /\ closed' = TRUE /\ UNCHANGED cacheVars
      /\ closer' = [closer EXCEPT ![k] = IF closed THEN "redundant" ELSE "waiting"]
      /\ UNCHANGED <<op, need, ahead, flight, slots, wg>>
  BY DEF CloseBegin
<1>2. TypeInv'
  BY <1>0, <1>1 DEF TypeInv
<1>3. RangeInv' /\ FreshInv' /\ WgInv' /\ SlotInv'
  BY <1>0, <1>1 DEF RangeInv, FreshInv, Unscheduled, WgInv, SlotInv, Holds
<1>4. FlightInv'
  <2>1. SameWaiters
    BY <1>1 DEF SameWaiters
  <2> QED
    BY <1>0, <2>1, FlightsKept
<1>5. CloseInv'
  <2>1. \A m \in Closers : closer'[m] = "returned" => closer[m] = "returned"
    BY <1>0, <1>1 DEF TypeInv
  <2> QED
    BY <1>0, <1>1, <2>1 DEF CloseInv, cacheVars
<1> QED
  BY <1>0, <1>1, <1>2, <1>3, <1>4, <1>5, CacheStays DEF IInv, CoreInv

LEMMA CloseEndStep ==
  ASSUME IInv, NEW k \in Closers, CloseEnd(k)
  PROVE  IInv'
<1>0. CacheInv /\ TypeInv /\ RangeInv /\ FreshInv /\ WgInv /\ FlightInv /\ SlotInv /\ CloseInv
  BY DEF IInv, CoreInv
<1>1. /\ closer[k] = "waiting" /\ wg = {} /\ closer' = [closer EXCEPT ![k] = "returned"]
      /\ cache' = {} /\ older' = {} /\ minIndex' = minIndex
      /\ UNCHANGED <<op, need, ahead, flight, slots, wg, closed>>
  BY DEF CloseEnd, WaitOver
<1>2. TypeInv'
  BY <1>0, <1>1 DEF TypeInv
<1>3. RangeInv' /\ FreshInv' /\ WgInv' /\ SlotInv'
  BY <1>0, <1>1, SMTT(20) DEF RangeInv, FreshInv, Unscheduled, WgInv, SlotInv, Holds
<1>4. FlightInv'
  <2>1. SameWaiters
    BY <1>1 DEF SameWaiters
  <2> QED
    BY <1>0, <2>1, FlightsKept
<1>5. CloseInv'
  BY <1>0, <1>1 DEF CloseInv, TypeInv
<1>6. CacheInv'
  <2>1. Cardinality({}) <= CacheMax
    BY FS_EmptySet, ConstantsOK
  <2> QED
    BY <1>0, <1>1, <2>1 DEF CacheInv, CacheHolds, Order
<1> QED
  BY <1>2, <1>3, <1>4, <1>5, <1>6 DEF IInv, CoreInv

\* Steps of the orphaned reads, and steps of nobody.
LEMMA OtherStep ==
  ASSUME IInv, UNCHANGED <<op, need, ahead, flight, slots>>, UNCHANGED cacheVars, UNCHANGED lifeVars
  PROVE  IInv'
<1>0. CacheInv /\ TypeInv /\ RangeInv /\ FreshInv /\ WgInv /\ FlightInv /\ SlotInv /\ CloseInv
  BY DEF IInv, CoreInv
<1>1. TypeInv'
  BY <1>0 DEF TypeInv, lifeVars
<1>2. RangeInv' /\ FreshInv' /\ WgInv' /\ SlotInv'
  BY <1>0 DEF RangeInv, FreshInv, Unscheduled, WgInv, SlotInv, Holds, lifeVars
<1>3. FlightInv'
  <2>1. SameWaiters
    BY DEF SameWaiters
  <2> QED
    BY <1>0, <2>1, FlightsKept
<1>4. CloseInv'
  BY <1>0 DEF CloseInv, lifeVars, cacheVars
<1> QED
  BY <1>0, <1>1, <1>2, <1>3, <1>4, CacheStays DEF IInv, CoreInv

LEMMA IInvInit == Init => IInv
<1> SUFFICES ASSUME Init PROVE IInv
  OBVIOUS
<1>1. TypeInv
  <2>1. 0 \in Chunks /\ 0 \in 0 .. (MaxIndex + 1)
    BY ChunksFinite
  <2>2. op \in [Ops -> OpStates]
    BY <2>1 DEF Init, OpStates
  <2>3. flight \in [Chunks -> FlightStates]
    BY DEF Init, FlightStates, NoFlight
  <2> QED
    BY <2>2, <2>3, Zenon DEF Init, TypeInv
<1>2. CacheInv
  <2>1. Cardinality({}) <= CacheMax
    BY FS_EmptySet, ConstantsOK
  <2> QED
    BY <2>1 DEF Init, CacheInv, CacheHolds, Order
<1>3. \A o \in Ops : op[o].at = "idle" /\ op[o].first = 0 /\ op[o].last = 0
  BY DEF Init
<1>4. \A o \in Ops, i \in Chunks : need[<<o, i>>] = "none" /\ ahead[<<o, i>>] = "none"
  BY DEF Init
<1>5. RangeInv /\ FreshInv
  BY <1>3, <1>4 DEF RangeInv, FreshInv
<1>6. WgInv
  BY <1>3, <1>4 DEF Init, WgInv, Running
<1>7. FlightInv
  BY <1>3, <1>4 DEF Init, FlightInv, WaitersKnown, NoFlight
<1>8. SlotInv /\ CloseInv
  BY DEF Init, SlotInv, CloseInv
<1> QED
  BY <1>1, <1>2, <1>5, <1>6, <1>7, <1>8 DEF IInv, CoreInv

LEMMA IInvStep == IInv /\ [Next]_vars => IInv'
<1> SUFFICES ASSUME IInv, [Next]_vars PROVE IInv'
  OBVIOUS
<1>1. ASSUME NEW o \in Ops, StartRead(o) \/ ReadStep(o) PROVE IInv'
  <2>1. CASE StartRead(o)
    BY <2>1, ReadAtStep DEF StartRead
  <2>2. CASE ReadValidate(o)
    BY <2>2, ReadValidateStep
  <2>3. CASE ReadSchedule(o)
    BY <2>3, ReadScheduleStep
  <2>4. CASE ReadScheduled(o)
    BY <2>4, ReadScheduledStep
  <2>5. CASE CopyCached(o)
    BY <2>5, CopyCachedStep
  <2>6. CASE CopyFetch(o)
    BY <2>6, CopyFetchStep
  <2>7. CASE ReadReturn(o)
    BY <2>7, ReadReturnStep
  <2> QED
    BY <1>1, <2>1, <2>2, <2>3, <2>4, <2>5, <2>6, <2>7 DEF ReadStep
<1>2. ASSUME NEW o \in Ops, NEW i \in Chunks, NeedStep(o, i) \/ AheadStep(o, i) \/ AheadIO(o, i)
      PROVE  IInv'
  BY <1>2, NeedStepKeeps, AheadStepKeeps
<1>3. ASSUME NEW i \in Chunks, FlightStep(i) PROVE IInv'
  <2>1. CASE FlightCheck(i)
    BY <2>1, FlightCheckStep
  <2>2. CASE FlightAcquire(i)
    BY <2>2, FlightAcquireStep
  <2>3. CASE FlightNoSlot(i) \/ FlightRetryCancelled(i)
    BY <2>3, FlightNoSlotStep
  <2>4. CASE FlightRead(i)
    BY <2>4, FlightReadStep
  <2>5. CASE FlightReadError(i) \/ FlightReadAbandoned(i)
    BY <2>5, FlightFailsStep
  <2>6. CASE FlightRetry(i)
    BY <2>6, FlightRetryStep
  <2>7. CASE FlightFinish(i)
    BY <2>7, FlightFinishStep
  <2> QED
    BY <1>3, <2>1, <2>2, <2>3, <2>4, <2>5, <2>6, <2>7 DEF FlightStep
<1>4. ASSUME OrphanReturns \/ UNCHANGED vars PROVE IInv'
  <2>1. UNCHANGED <<op, need, ahead, flight, slots>> /\ UNCHANGED cacheVars /\ UNCHANGED lifeVars
    BY <1>4, Zenon DEF OrphanReturns, vars
  <2> QED
    BY <2>1, OtherStep
<1>5. ASSUME NEW k \in Closers, CloseBegin(k) \/ CloseEnd(k) PROVE IInv'
  BY <1>5, CloseBeginStep, CloseEndStep
<1> QED
  BY <1>1, <1>2, <1>3, <1>4, <1>5 DEF Next

LEMMA Invariance == Spec => []IInv
BY IInvInit, IInvStep, PTL DEF Spec

\* Whatever a closed prefetcher still held would be registered with its WaitGroup.
LEMMA NothingHeld ==
  ASSUME IInv PROVE Quiescent
<1>0. WgInv /\ FlightInv /\ SlotInv /\ CloseInv
  BY DEF IInv, CoreInv
<1> SUFFICES ASSUME NEW k \in Closers, closer[k] = "returned"
             PROVE  wg = {} /\ slots = {} /\ cache = {} /\ \A i \in Chunks : flight[i].at = "none"
  BY DEF Quiescent
<1>1. wg = {} /\ cache = {}
  BY <1>0 DEF CloseInv
<1>2. \A i \in Chunks : flight[i].at = "none"
  BY <1>0, <1>1, FlightBusy
<1>3. ASSUME NEW s \in slots PROVE FALSE
  <2>1. Holds(s)
    BY <1>0 DEF SlotInv
  <2>2. PICK o \in Ops, i \in Chunks : ahead[<<o, i>>] \in {"reading", "exit"}
    BY <1>2, <2>1 DEF Holds
  <2>3. AheadTask(o, i) \in wg
    BY <1>0, <2>2 DEF WgInv
  <2> QED
    BY <1>1, <2>3
<1> QED
  BY <1>1, <1>2, <1>3

(* The chunk map stays within maxCacheSize and never holds a chunk behind  *)
(* the window: with any number of ReadAt callers, read-aheads and flights  *)
(* that add to it while evictBefore moves the window, because evictOldest  *)
(* always finds a least recently used chunk to drop.                       *)
THEOREM CacheKept == Spec => []CacheHolds
<1>1. IInv => CacheHolds
  BY DEF IInv, CacheInv
<1> QED
  BY <1>1, Invariance, PTL

(* After Close has returned nothing runs, holds a slot of the semaphore or *)
(* is cached, and no later ReadAt changes that: every flight has a waiter, *)
(* every slot a holder, and both are counted by the WaitGroup Close awaits.*)
THEOREM ClosedQuiet == Spec => []Quiescent
<1>1. IInv => Quiescent
  BY NothingHeld
<1> QED
  BY <1>1, Invariance, PTL

(* Every caller inside fetchChunk is one of the waiters of the singleflight *)
(* call of its chunk, so the end of that call reaches it, however arrivals  *)
(* and ends of flights of the same chunk interleave.                        *)
THEOREM AllWaitersKnown == Spec => []WaitersKnown
<1>1. IInv => WaitersKnown
  BY DEF IInv, CoreInv, FlightInv
<1> QED
  BY <1>1, Invariance, PTL
=============================================================================
