----------------------------- MODULE ReadRange ------------------------------
(***************************************************************************)
(* The bytes a reader of remote content returns, over a host whose answers *)
(* may fall short.  A prefetching ReadAt (validateRead, ReadAt and         *)
(* copyChunks) visits chunks, which Prefetcher fetches; the cursors of     *)
(* readerAt and of fssync's File read where they stand and move on (Open   *)
(* sets neither rs nor buf of a File).  A byte of the content is its       *)
(* position.                                                               *)
(***************************************************************************)
EXTENDS Integers, Sequences

CONSTANTS
  Sizes,       \* of the content
  ChunkSize,
  MaxLen       \* bound: longest read, farthest Seek

ASSUME ConstantsOK == Sizes \subseteq Nat /\ ChunkSize \in Nat \ {0} /\ MaxLen \in Nat

Least(a, b) == IF a < b THEN a ELSE b
Most(a, b)  == IF a > b THEN a ELSE b

VARIABLES
  reader, \* "closed", "prefetcher", "readerAt" or "File"
  size,   \* of the content
  told,   \* the size the host told
  read,   \* the ReadAt under way: at, off, len, the loop's index and the first
          \* chunk that fell short (-1 if none did)
  buffer, \* bytes copied so far; since the last Seek, for a cursor
  err,    \* what the last call returned: "nil", "EOF", "range" or "failed"
  chunk,  \* sizes of the cached chunks, -1 if not cached
  index,  \* the position of a cursor
  base    \* where its last Seek put it

vars == <<reader, size, told, read, buffer, err, chunk, index, base>>
cursorVars == <<index, base>>

Indices == 0..((size + MaxLen) \div ChunkSize)

Init ==
  /\ reader = "closed" /\ size \in Sizes /\ told = size
  /\ read = [at |-> "idle", off |-> 0, len |-> 0, index |-> 0, short |-> -1]
  /\ buffer = <<>> /\ err = "nil"
  /\ chunk = [i \in Indices |-> -1]
  /\ index = 0 /\ base = 0

\* TransformSize: for a File a missing size is 0; readerAt fails without one.
TransformSize(kind) == IF kind = "File" THEN {0, size} ELSE {size}

\* Open or ReaderAt: the first request tells the size, or fails.
Open(kind) ==
  /\ reader = "closed"
  /\ reader' = kind /\ told' \in TransformSize(kind)
  /\ UNCHANGED <<size, read, buffer, err, chunk, cursorVars>>

OpenFails ==
  /\ reader = "closed"
  /\ err' = "failed"
  /\ UNCHANGED <<reader, size, told, read, buffer, chunk, cursorVars>>

\* How many bytes the host may answer a request with: it may fall short.
Answers(off, len) ==
  LET rest == Least(len, Most(0, size - off)) IN IF rest = 0 THEN {0} ELSE 1..rest

-----------------------------------------------------------------------------
(***************************************************************************)
(* The prefetcher's ReadAt.                                                *)
(***************************************************************************)

\* Mutant: the last chunk is missed unless the read ends at its end.
LastComplete == (read.off + read.len) \div ChunkSize - 1

First == read.off \div ChunkSize
Last  == (read.off + read.len - 1) \div ChunkSize

(* ReadAt begins.  A read that ends past the content within one chunk      *)
(* returns nothing and io.EOF.                                             *)
ReadAt(off, len) ==
  /\ reader = "prefetcher" /\ read.at = "idle"
  /\ buffer' = <<>>
  /\ LET first == off \div ChunkSize
         last  == (off + len - 1) \div ChunkSize
     IN CASE off < 0 -> err' = "range" /\ UNCHANGED read
          [] off >= 0 /\ len = 0 -> err' = "nil" /\ UNCHANGED read
          [] off >= 0 /\ len > 0 /\ size = 0 -> err' = "EOF" /\ UNCHANGED read
          [] off >= size /\ len > 0 /\ size > 0 -> err' = "range" /\ UNCHANGED read
          [] off \in 0..(size - 1) /\ len > 0 /\ off + len > size /\ first = last ->
               err' = "EOF" /\ UNCHANGED read
          [] OTHER ->
               /\ read' = [at |-> "copy", off |-> off, len |-> len, index |-> first, short |-> -1]
               /\ UNCHANGED err
  /\ UNCHANGED <<reader, size, told, chunk, cursorVars>>

\* Mutant: every chunk is copied from where the read starts in the first.
CopiedFromOffset(i) == read.off % ChunkSize

\* Where in chunk i the copy starts.
CopiedFrom(i) == IF i = First THEN read.off % ChunkSize ELSE 0

Looping == read.at = "copy" /\ read.index <= Last /\ Len(buffer) < read.len

\* One round of the loop in copyChunks; the chunk has n bytes.
CopyChunk(n) ==
  LET i == read.index
      from == CopiedFrom(i)
      count == Least(n - from, read.len - Len(buffer))
      whole == Least(ChunkSize, Most(0, size - i * ChunkSize))
  IN /\ Looping
     /\ n \in IF chunk[i] = -1 THEN Answers(i * ChunkSize, ChunkSize) ELSE {chunk[i]}
     /\ chunk' = [chunk EXCEPT ![i] = n]
     /\ buffer' = IF n > from THEN buffer \o [k \in 1..count |-> i * ChunkSize + from + k - 1]
                  ELSE buffer
     /\ read' = [read EXCEPT !.at = IF n > from THEN "copy" ELSE "done", !.index = i + 1,
                             !.short = IF @ = -1 /\ n < whole THEN i ELSE @]
     /\ UNCHANGED <<reader, size, told, err, cursorVars>>

\* The loop ends, or a chunk cannot be had, and ReadAt returns.
ReadReturns ==
  /\ read.at # "idle" /\ ~Looping
  /\ read' = [read EXCEPT !.at = "idle"]
  /\ err' = IF size > 0 /\ read.off + Len(buffer) >= size THEN "EOF" ELSE "nil"
  /\ UNCHANGED <<reader, size, told, buffer, chunk, cursorVars>>

ReadFails ==
  /\ Looping /\ chunk[read.index] = -1
  /\ read' = [read EXCEPT !.at = "idle"] /\ err' = "failed"
  /\ UNCHANGED <<reader, size, told, buffer, chunk, cursorVars>>

\* The cache drops a chunk.
Evict(i) ==
  /\ chunk[i] # -1
  /\ chunk' = [chunk EXCEPT ![i] = -1]
  /\ UNCHANGED <<reader, size, told, read, buffer, err, cursorVars>>

-----------------------------------------------------------------------------
(***************************************************************************)
(* The cursors of readerAt and File.                                       *)
(***************************************************************************)

Cursor == reader \in {"readerAt", "File"}
CursorUnchanged == UNCHANGED <<reader, size, told, read, chunk>>

\* Mutant: the cursor moves by what was asked for.
MovedByRequest(len, n) == index + len

Moved(len, n) == index + n

\* Read: the bytes the host answers with, or io.EOF if there are none.
CursorRead(len) ==
  /\ Cursor
  /\ \E n \in Answers(index, len) :
       /\ index' = IF n = 0 THEN index ELSE Moved(len, n)
       /\ buffer' = buffer \o [k \in 1..n |-> index + k - 1]
       /\ err' = IF n = 0 THEN "EOF" ELSE "nil"
  /\ UNCHANGED base /\ CursorUnchanged

\* ReadAt leaves the cursor alone; File's takes a short answer for the end.
CursorReadAt(off, len) ==
  /\ Cursor
  /\ \E n \in Answers(off, len) :
       err' = IF n = 0 \/ (n < len /\ reader = "File") THEN "EOF" ELSE "nil"
  /\ UNCHANGED <<buffer, cursorVars>> /\ CursorUnchanged

\* The host answers with an error.
CursorFails ==
  /\ Cursor
  /\ err' = "failed"
  /\ UNCHANGED <<buffer, cursorVars>> /\ CursorUnchanged

\* A File whose size the host does not tell has no end that Seek knows of.
SeekAllowed(pos) == pos >= 0 /\ (pos <= told \/ (reader = "File" /\ told = 0))

Seek(offset, whence) ==
  LET pos == offset + (CASE whence = "start" -> 0 [] whence = "current" -> index [] OTHER -> told)
  IN /\ Cursor /\ pos <= MaxLen
     /\ IF SeekAllowed(pos)
        THEN index' = pos /\ base' = pos /\ buffer' = <<>> /\ err' = "nil"
        ELSE err' = "range" /\ UNCHANGED <<buffer, cursorVars>>
     /\ CursorUnchanged

-----------------------------------------------------------------------------
Next ==
  \/ (\E kind \in {"prefetcher", "readerAt", "File"} : Open(kind)) \/ OpenFails
  \/ \E off \in -1..(size + 1), len \in 0..MaxLen : ReadAt(off, len) \/ CursorReadAt(off, len)
  \/ \E n \in 0..ChunkSize : CopyChunk(n)
  \/ ReadReturns \/ ReadFails
  \/ \E i \in Indices : Evict(i)
  \/ \E len \in 0..MaxLen : CursorRead(len)
  \/ CursorFails
  \/ \E offset \in -1..1, whence \in {"start", "current", "end"} : Seek(offset, whence)

Spec == Init /\ [][Next]_vars

-----------------------------------------------------------------------------
(* What has been copied are the bytes from the offset on, without a gap,   *)
(* whatever chunks were cached before and up to the first chunk that fell  *)
(* short.  The host's protocol lets an answer be short, "number of bytes   *)
(* actually read can be obtained by len(Data), if 0, then EOF"             *)
(* (pkg/content/readerat.go:72), and behind a short chunk copyChunks goes  *)
(* on with the next one: the bytes after it are out of place.              *)
Contiguous ==
  read.at # "idle" => \A k \in DOMAIN buffer :
    \/ buffer[k] = read.off + k - 1
    \/ read.short # -1 /\ buffer[k] \div ChunkSize > read.short

(* A ReadAt that is about to return without an error has all it was asked  *)
(* for, up to the end of the content, unless a chunk fell short.           *)
ReadsAll ==
  read.at # "idle" /\ ~Looping /\ read.short = -1
    => Len(buffer) = Least(read.len, size - read.off)

(* Reading on with a cursor yields the content from where Seek put it, in  *)
(* order, nothing skipped or twice, however short the answers are and      *)
(* whatever failed or was read elsewhere in between.                       *)
CursorExact ==
  Cursor => /\ index = base + Len(buffer)
            /\ \A k \in DOMAIN buffer : buffer[k] = base + k - 1
=============================================================================
