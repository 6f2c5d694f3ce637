----------------------------- MODULE Prefetcher -----------------------------
(***************************************************************************)
(* The prefetching reader (pkg/prefetch) at the granularity of chunks: the *)
(* ReadAt callers, the goroutines they start (one per required chunk, one  *)
(* per read-ahead chunk), the singleflight group that fetches a chunk, the *)
(* semaphore on reads of the underlying reader, the chunk cache with its   *)
(* sliding window, and Close.                                              *)
(*                                                                         *)
(* The cache's timestamps are abstracted to the order in which chunks were *)
(* last used. Its interval tree, which no operation reads, is left out.    *)
(***************************************************************************)
EXTENDS Integers, FiniteSets

CONSTANTS
  Ops,          \* ReadAt calls
  Closers,      \* Close calls
  LastChunk,    \* index of the last chunk of the content
  MaxIndex,     \* bound: index of the last chunk a read may touch
  Requests,     \* the reads callers ask for
  Window,       \* WindowSize in chunks
  MaxParallel,  \* MaxParallelReads
  MaxRetries,
  CacheMax,     \* maxCacheSize (1024 in the code)
  EvictCount    \* evictCount (102 in the code)

Chunks == 0..MaxIndex

(* A read of chunks first..last: within the content, reaching beyond its   *)
(* end, or rejected by validateRead.                                       *)
Request ==
  {r \in [first : Chunks, last : Chunks, kind : {"inside", "beyond", "invalid"}] :
     /\ r.first <= r.last
     /\ r.kind = "inside" => r.last <= LastChunk
     /\ r.kind = "beyond" => r.first <= LastChunk /\ LastChunk <= r.last}

ASSUME ConstantsOK ==
  /\ LastChunk \in Nat /\ MaxIndex \in Nat /\ LastChunk <= MaxIndex
  /\ Window \in Nat \ {0} /\ MaxParallel \in Nat \ {0}
  /\ MaxRetries \in Nat /\ Requests \subseteq Request
  /\ CacheMax \in Nat \ {0} /\ EvictCount \in 1..CacheMax
  /\ IsFiniteSet(Ops) /\ IsFiniteSet(Closers)

VARIABLES
  op,         \* each ReadAt call: where it is, its chunks and its loop index
  need,       \* goroutines of scheduleRequiredChunks, per call and chunk
  ahead,      \* goroutines of scheduleReadAhead, per call and chunk
  flight,     \* the singleflight call of each chunk
  slots,      \* who holds a slot of the semaphore channel
  orphans,    \* underlying reads readChunkOnce no longer waits for
  cache,      \* indices in chunkMap
  older,      \* pairs <<a, b>> of cached chunks, a last used before b
  minIndex,
  wg,         \* operations registered with the WaitGroup
  closed,     \* the closed flag; the context is cancelled with it
  closer      \* each Close call

cacheVars == <<cache, older, minIndex>>
lifeVars  == <<wg, closed, closer>>
vars == <<op, need, ahead, flight, slots, orphans, cacheVars, lifeVars>>

\* What an operation registers as with the WaitGroup.
OpTask(o)       == <<"op", o>>
NeedTask(o, i)  == <<"need", o, i>>
AheadTask(o, i) == <<"ahead", o, i>>
FlightSlot(i)   == <<"flight", i>>

NoFlight == [at |-> "none", attempt |-> 0, ok |-> FALSE, waiters |-> {}]

\* windowEndChunk: the read-ahead window, cut at the end of the content.
WindowEnd(first) ==
  IF first + Window - 1 > LastChunk THEN LastChunk ELSE first + Window - 1

Init ==
  /\ op = [o \in Ops |-> [at |-> "idle", first |-> 0, last |-> 0, kind |-> "inside", index |-> 0]]
  /\ need = [p \in Ops \X Chunks |-> "none"]
  /\ ahead = [p \in Ops \X Chunks |-> "none"]
  /\ flight = [i \in Chunks |-> NoFlight]
  /\ slots = {}
  /\ orphans = 0
  /\ cache = {} /\ older = {} /\ minIndex = 0
  /\ wg = {} /\ closed = FALSE
  /\ closer = [k \in Closers |-> "idle"]

-----------------------------------------------------------------------------
(***************************************************************************)
(* chunkCache.                                                             *)
(***************************************************************************)

\* The recency order after chunk i of the cached set c is used.
Touched(i, c) ==
  {p \in older : p[1] # i /\ p[2] # i /\ {p[1], p[2]} \subseteq c}
    \cup {<<a, i>> : a \in c \ {i}}

\* getChunk of a chunk that is present: it becomes the most recently used.
UseChunk(i) ==
  /\ i \in cache
  /\ older' = Touched(i, cache)
  /\ UNCHANGED <<cache, minIndex>>

\* The EvictCount least recently used members of c, in the order r.
Oldest(c, r) ==
  {i \in c : Cardinality({a \in c : <<a, i>> \in r}) < EvictCount}

\* Mutant: addChunk does not look at the window.
BehindWindowNever(i) == FALSE

BehindWindow(i) == i < minIndex

(* addChunk: a chunk behind the window is not stored; one too many makes   *)
(* evictOldest drop the least recently used ones.                          *)
AddChunk(i) ==
  IF BehindWindow(i)
  THEN UNCHANGED cacheVars
  ELSE LET c == cache \cup {i}
           r == Touched(i, c)
           gone == IF Cardinality(c) > CacheMax THEN Oldest(c, r) ELSE {}
       IN /\ cache' = c \ gone
          /\ older' = {p \in r : p[1] \notin gone /\ p[2] \notin gone}
          /\ UNCHANGED minIndex

\* evictBefore: the window moved to start at chunk m.
EvictBefore(m) ==
  IF m <= minIndex
  THEN UNCHANGED cacheVars
  ELSE /\ minIndex' = m
       /\ cache' = {i \in cache : i >= m}
       /\ older' = {p \in older : p[1] >= m /\ p[2] >= m}

-----------------------------------------------------------------------------
(***************************************************************************)
(* ReadAt.                                                                 *)
(***************************************************************************)

\* beginOperation: work is registered only while shutdown has not started.
ReadAt(o, first, last, kind) ==
  /\ op[o].at = "idle"
  /\ IF closed
     THEN /\ op' = [op EXCEPT ![o].at = "refused"]
          /\ UNCHANGED wg
     ELSE /\ op' = [op EXCEPT ![o] = [at |-> "validate", first |-> first, last |-> last,
                                      kind |-> kind, index |-> first]]
          /\ wg' = wg \cup {OpTask(o)}
  /\ UNCHANGED <<need, ahead, flight, slots, orphans, cacheVars, closed, closer>>

(* validateRead, then the window moves to the first chunk of the read.  A  *)
(* read that lies in one chunk and reaches past the end of the content     *)
(* returns at once with io.EOF.                                            *)
ReadValidate(o) ==
  /\ op[o].at = "validate"
  /\ CASE op[o].kind = "invalid" ->
            /\ op' = [op EXCEPT ![o].at = "error"]
            /\ wg' = wg \ {OpTask(o)}
            /\ UNCHANGED cacheVars
       [] op[o].kind = "beyond" /\ op[o].first = op[o].last ->
            /\ op' = [op EXCEPT ![o].at = "eof"]
            /\ wg' = wg \ {OpTask(o)}
            /\ EvictBefore(op[o].first)
       [] OTHER ->
            /\ op' = [op EXCEPT ![o].at = "schedule"]
            /\ EvictBefore(op[o].first)
            /\ UNCHANGED wg
  /\ UNCHANGED <<need, ahead, flight, slots, orphans, closed, closer>>

(* One iteration of scheduleRequiredChunks (up to last) or of              *)
(* scheduleReadAhead (from there to the end of the window).                *)
ReadSchedule(o) ==
  LET i == op[o].index
      skip == i \in cache \/ closed
  IN /\ op[o].at = "schedule"
     /\ i <= op[o].last \/ i <= WindowEnd(op[o].first)
     /\ op' = [op EXCEPT ![o].index = i + 1]
     /\ CASE skip ->
               UNCHANGED <<need, ahead, wg>>
          [] ~skip /\ i <= op[o].last ->
               /\ need' = [need EXCEPT ![<<o, i>>] = "start"]
               /\ wg' = wg \cup {NeedTask(o, i)}
               /\ UNCHANGED ahead
          [] OTHER ->
               /\ ahead' = [ahead EXCEPT ![<<o, i>>] = "start"]
               /\ wg' = wg \cup {AheadTask(o, i)}
               /\ UNCHANGED need
     /\ UNCHANGED <<flight, slots, orphans, cacheVars, closed, closer>>

ReadScheduled(o) ==
  LET i == op[o].index
  IN /\ op[o].at = "schedule"
     /\ i > op[o].last /\ i > WindowEnd(op[o].first)
     /\ op' = [op EXCEPT ![o].at = "copy", ![o].index = op[o].first]
     /\ UNCHANGED <<need, ahead, flight, slots, orphans, cacheVars, lifeVars>>

(* Where copyChunks goes once it has chunk i: on to the next one, or out   *)
(* of the loop, at the last chunk or at one past the content, which has no *)
(* bytes.                                                                  *)
AfterCopy(o, i) ==
  IF i > LastChunk \/ i = op[o].last
  THEN [op EXCEPT ![o].at = "exit"]
  ELSE [op EXCEPT ![o].at = "copy", ![o].index = i + 1]

\* copyChunks: the chunk is cached.
CopyCached(o) ==
  /\ op[o].at = "copy"
  /\ UseChunk(op[o].index)
  /\ op' = AfterCopy(o, op[o].index)
  /\ UNCHANGED <<need, ahead, flight, slots, orphans, lifeVars>>

\* Mutant: the later caller takes the place of the earlier ones.
JoinedAlone(waiters, t) == {t}

Joined(waiters, t) == waiters \cup {t}

\* Caller t enters group.Do for chunk i: it starts the flight or joins it.
Join(t, i) ==
  LET f == flight[i]
  IN flight' = [flight EXCEPT ![i] =
       IF f.at = "none"
       THEN [at |-> "check", attempt |-> 0, ok |-> FALSE, waiters |-> {t}]
       ELSE [f EXCEPT !.waiters = Joined(f.waiters, t)]]

\* copyChunks: the chunk is not cached, so it is fetched.
CopyFetch(o) ==
  /\ op[o].at = "copy"
  /\ op[o].index \notin cache
  /\ Join(OpTask(o), op[o].index)
  /\ op' = [op EXCEPT ![o].at = "fetch"]
  /\ UNCHANGED <<need, ahead, slots, orphans, cacheVars, lifeVars>>

ReadReturn(o) ==
  /\ op[o].at \in {"exit", "failed"}
  /\ OpTask(o) \in wg
  /\ wg' = wg \ {OpTask(o)}
  /\ op' = [op EXCEPT ![o].at = IF @ = "exit" THEN "ok" ELSE "error"]
  /\ UNCHANGED <<need, ahead, flight, slots, orphans, cacheVars, closed, closer>>

-----------------------------------------------------------------------------
(***************************************************************************)
(* The goroutines a read starts.                                           *)
(***************************************************************************)

\* A required chunk: fetched unless it arrived or shutdown began meanwhile.
NeedStart(o, i) ==
  /\ need[<<o, i>>] = "start"
  /\ IF ~closed /\ i \notin cache
     THEN /\ Join(NeedTask(o, i), i)
          /\ need' = [need EXCEPT ![<<o, i>>] = "fetch"]
          /\ UNCHANGED wg
     ELSE /\ need' = [need EXCEPT ![<<o, i>>] = "done"]
          /\ wg' = wg \ {NeedTask(o, i)}
          /\ UNCHANGED flight
  /\ UNCHANGED <<op, ahead, slots, orphans, cacheVars, closed, closer>>

\* The flight is over; the result is ignored.
NeedReturn(o, i) ==
  /\ need[<<o, i>>] = "fetched"
  /\ need' = [need EXCEPT ![<<o, i>>] = "done"]
  /\ wg' = wg \ {NeedTask(o, i)}
  /\ UNCHANGED <<op, ahead, flight, slots, orphans, cacheVars, closed, closer>>

SlotFree == Cardinality(slots) < MaxParallel

\* readAhead after its pause: it reads only if a slot is free right now.
AheadStart(o, i) ==
  /\ ahead[<<o, i>>] = "start"
  /\ IF ~closed /\ i \notin cache /\ SlotFree
     THEN /\ ahead' = [ahead EXCEPT ![<<o, i>>] = "reading"]
          /\ slots' = slots \cup {AheadTask(o, i)}
          /\ UNCHANGED wg
     ELSE /\ ahead' = [ahead EXCEPT ![<<o, i>>] = "done"]
          /\ wg' = wg \ {AheadTask(o, i)}
          /\ UNCHANGED slots
  /\ UNCHANGED <<op, need, flight, orphans, cacheVars, closed, closer>>

\* The underlying read of readAhead returns, with a chunk or an error.
AheadRead(o, i, ok) ==
  /\ ahead[<<o, i>>] = "reading"
  /\ IF ok THEN AddChunk(i) ELSE UNCHANGED cacheVars
  /\ ahead' = [ahead EXCEPT ![<<o, i>>] = "exit"]
  /\ UNCHANGED <<op, need, flight, slots, orphans, lifeVars>>

\* Mutant: readAhead returns without wg.Done.
AheadForgotten(o, i) == wg

AheadDone(o, i) == wg \ {AheadTask(o, i)}

AheadReturn(o, i) ==
  /\ ahead[<<o, i>>] = "exit"
  /\ ahead' = [ahead EXCEPT ![<<o, i>>] = "done"]
  /\ slots' = slots \ {AheadTask(o, i)}
  /\ wg' = AheadDone(o, i)
  /\ UNCHANGED <<op, need, flight, orphans, cacheVars, closed, closer>>

-----------------------------------------------------------------------------
(***************************************************************************)
(* fetchChunk: the function the singleflight leader runs.                  *)
(***************************************************************************)

FlightGoes(i, from, to) ==
  /\ flight[i].at = from
  /\ flight' = [flight EXCEPT ![i].at = to]

FlightEnds(i, ok) ==
  flight' = [flight EXCEPT ![i].at = "finish", ![i].ok = ok]

\* The chunk arrived since the caller looked, or a slot is needed.
FlightCheck(i) ==
  /\ flight[i].at = "check"
  /\ IF i \in cache
     THEN UseChunk(i) /\ FlightEnds(i, TRUE)
     ELSE FlightGoes(i, "check", "acquire") /\ UNCHANGED cacheVars
  /\ UNCHANGED <<op, need, ahead, slots, orphans, lifeVars>>

\* The semaphore has a free slot; readChunkOnce starts the first read.
FlightAcquire(i) ==
  /\ FlightGoes(i, "acquire", "reading")
  /\ SlotFree
  /\ slots' = slots \cup {FlightSlot(i)}
  /\ UNCHANGED <<op, need, ahead, orphans, cacheVars, lifeVars>>

\* Mutant: only the context ends the wait for a slot.
SlotRefusedByCtx == closed

SlotRefused == closed \/ ~SlotFree

\* The context is done, or no slot came free within ReadTimeout.
FlightNoSlot(i) ==
  /\ flight[i].at = "acquire"
  /\ SlotRefused
  /\ FlightEnds(i, FALSE)
  /\ UNCHANGED <<op, need, ahead, slots, orphans, cacheVars, lifeVars>>

\* readChunkOnce got its bytes (or io.EOF); the chunk is added to the cache.
FlightRead(i) ==
  /\ flight[i].at = "reading"
  /\ AddChunk(i)
  /\ FlightEnds(i, TRUE)
  /\ UNCHANGED <<op, need, ahead, slots, orphans, lifeVars>>

\* After a failed attempt: wait for another one, or give up.
NextAttempt(i) ==
  IF flight[i].attempt < MaxRetries
  THEN flight' = [flight EXCEPT ![i].at = "backoff", ![i].attempt = @ + 1]
  ELSE FlightEnds(i, FALSE)

\* readChunkOnce: the underlying read failed.
FlightReadError(i) ==
  /\ flight[i].at = "reading"
  /\ NextAttempt(i)
  /\ UNCHANGED <<op, need, ahead, slots, orphans, cacheVars, lifeVars>>

(* readChunkOnce: ReadTimeout passed or the context is done.  The          *)
(* goroutine inside the underlying ReadAt is left behind.                  *)
FlightReadAbandoned(i) ==
  /\ flight[i].at = "reading"
  /\ orphans' = orphans + 1
  /\ NextAttempt(i)
  /\ UNCHANGED <<op, need, ahead, slots, cacheVars, lifeVars>>

\* waitForRetry.
FlightRetry(i) ==
  /\ FlightGoes(i, "backoff", "reading")
  /\ UNCHANGED <<op, need, ahead, slots, orphans, cacheVars, lifeVars>>

FlightRetryCancelled(i) ==
  /\ flight[i].at = "backoff"
  /\ closed
  /\ FlightEnds(i, FALSE)
  /\ UNCHANGED <<op, need, ahead, slots, orphans, cacheVars, lifeVars>>

(* The leader releases its slot and singleflight hands the result to       *)
(* everyone who waited for this chunk.                                     *)
FlightFinish(i) ==
  LET f == flight[i]
  IN /\ f.at = "finish"
     /\ slots' = slots \ {FlightSlot(i)}
     /\ flight' = [flight EXCEPT ![i] = NoFlight]
     /\ op' = [o \in Ops |->
          CASE OpTask(o) \notin f.waiters -> op[o]
            [] OpTask(o) \in f.waiters /\ f.ok -> AfterCopy(o, i)[o]
            [] OTHER -> [op[o] EXCEPT !.at = "failed"]]
     /\ need' = [p \in Ops \X Chunks |->
          IF NeedTask(p[1], p[2]) \in f.waiters THEN "fetched" ELSE need[p]]
     /\ UNCHANGED <<ahead, orphans, cacheVars, lifeVars>>

\* The underlying ReadAt of an abandoned read returns into its own buffer.
OrphanReturns ==
  /\ orphans > 0
  /\ orphans' = orphans - 1
  /\ UNCHANGED <<op, need, ahead, flight, slots, cacheVars, lifeVars>>

-----------------------------------------------------------------------------
(***************************************************************************)
(* Close.                                                                  *)
(***************************************************************************)

\* Under the lifecycle lock: the first Close marks, cancels and goes on to wait.
CloseBegin(k) ==
  /\ closer[k] = "idle"
  /\ closer' = [closer EXCEPT ![k] = IF closed THEN "redundant" ELSE "waiting"]
  /\ closed' = TRUE
  /\ UNCHANGED <<op, need, ahead, flight, slots, orphans, cacheVars, wg>>

\* Mutant: Close does not wait for the WaitGroup.
WaitSkipped == TRUE

WaitOver == wg = {}

\* The WaitGroup reached zero: the cache is cleared and Close returns.
CloseEnd(k) ==
  /\ closer[k] = "waiting"
  /\ WaitOver
  /\ closer' = [closer EXCEPT ![k] = "returned"]
  /\ cache' = {} /\ older' = {}
  /\ UNCHANGED <<op, need, ahead, flight, slots, orphans, minIndex, wg, closed>>

-----------------------------------------------------------------------------
StartRead(o) == \E r \in Requests : ReadAt(o, r.first, r.last, r.kind)

ReadStep(o) == ReadValidate(o) \/ ReadSchedule(o) \/ ReadScheduled(o)
                 \/ CopyCached(o) \/ CopyFetch(o) \/ ReadReturn(o)
NeedStep(o, i)  == NeedStart(o, i) \/ NeedReturn(o, i)
AheadStep(o, i) == AheadStart(o, i) \/ AheadReturn(o, i)
AheadIO(o, i)   == \E ok \in BOOLEAN : AheadRead(o, i, ok)
FlightStep(i) == \/ FlightCheck(i) \/ FlightAcquire(i) \/ FlightNoSlot(i)
                 \/ FlightRead(i) \/ FlightReadError(i) \/ FlightReadAbandoned(i)
                 \/ FlightRetry(i) \/ FlightRetryCancelled(i) \/ FlightFinish(i)

Next ==
  \/ \E o \in Ops : StartRead(o) \/ ReadStep(o)
  \/ \E o \in Ops, i \in Chunks : NeedStep(o, i) \/ AheadStep(o, i) \/ AheadIO(o, i)
  \/ \E i \in Chunks : FlightStep(i)
  \/ OrphanReturns
  \/ \E k \in Closers : CloseBegin(k) \/ CloseEnd(k)

Spec == Init /\ [][Next]_vars

\* Goroutines and timers make progress; the underlying reader may hang.
GoroutineFairness ==
  /\ \A o \in Ops : WF_vars(ReadStep(o))
  /\ \A o \in Ops, i \in Chunks : WF_vars(NeedStep(o, i)) /\ WF_vars(AheadStep(o, i))
  /\ \A i \in Chunks : WF_vars(FlightStep(i))
  /\ \A k \in Closers : WF_vars(CloseEnd(k))

FairSpec == Spec /\ GoroutineFairness

\* An underlying reader that returns from the reads readAhead waits for.
ReaderFairness == \A o \in Ops, i \in Chunks : WF_vars(AheadIO(o, i))

-----------------------------------------------------------------------------
(* A chunk behind the reader's window never comes back, and the chunk map *)
(* never grows past its limit: the fetches and read-aheads still under way *)
(* when evictBefore moves the window do not put an evicted chunk into the  *)
(* cache again, whoever adds to it meanwhile.                              *)
CacheHolds == (\A i \in cache : i >= minIndex) /\ Cardinality(cache) <= CacheMax

(* Once Close has returned nothing is left running that Close knows of: no *)
(* read, no scheduled goroutine, no flight, no slot in use; the cache is   *)
(* empty and stays empty, also when ReadAt is called again.                *)
Quiescent ==
  (\E k \in Closers : closer[k] = "returned") =>
    /\ wg = {} /\ slots = {} /\ cache = {}
    /\ \A i \in Chunks : flight[i].at = "none"

(* Nobody waits for a flight that is not there: a caller inside fetchChunk *)
(* is among the waiters of its chunk's flight, however its arrival and the *)
(* end of the previous flight interleave.                                  *)
WaitersKnown ==
  /\ \A o \in Ops : op[o].at = "fetch" => OpTask(o) \in flight[op[o].index].waiters
  /\ \A o \in Ops, i \in Chunks : need[<<o, i>>] = "fetch" => NeedTask(o, i) \in flight[i].waiters

(* A ReadAt that was admitted returns, even if the underlying reader never *)
(* answers, all slots are held by hanging read-aheads, or Close is called. *)
ReadsReturn ==
  \A o \in Ops : op[o].at = "validate" ~> op[o].at \in {"ok", "error", "eof"}

(* The Close that started the shutdown returns, provided the underlying    *)
(* reader answers the read-aheads.                                         *)
CloseReturns ==
  ReaderFairness => \A k \in Closers : closer[k] = "waiting" ~> closer[k] = "returned"
=============================================================================
