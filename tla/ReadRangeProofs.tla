--------------------------- MODULE ReadRangeProofs ---------------------------
(***************************************************************************)
(* Proofs about ReadRange, for contents, chunks and reads of any size, and *)
(* about ContentStore, which comes last.                                   *)
(***************************************************************************)
EXTENDS ReadRange, ContentStore, TLAPS, SequenceTheorems

\* How many bytes of the content lie in chunk i.
Whole(i) == Least(ChunkSize, Most(0, size - i * ChunkSize))

Reads == [at : {"idle", "copy", "done"}, off : Nat, len : Nat, index : Nat, short : Int]

TypeInv ==
  /\ reader \in {"closed", "prefetcher", "readerAt", "File"}
  /\ size \in Nat /\ told \in Nat /\ index \in Nat /\ base \in Nat
  /\ read \in Reads
  /\ buffer \in Seq(Nat)
  /\ chunk \in [Indices -> Int]

\* No chunk in the cache is longer than the content it is part of.
ChunkInv == \A i \in Indices : chunk[i] # -1 => chunk[i] \in 0 .. Whole(i)

\* The ReadAt under way starts inside the content, and visits its chunks in order.
RangeInv ==
  read.at # "idle" =>
    /\ reader = "prefetcher"
    /\ read.off < size /\ read.len \in 1 .. MaxLen
    /\ read.index \in First .. (Last + 1)
    /\ read.short # -1 => read.short < read.index

\* As long as no chunk fell short, all is there up to the chunk that comes next.
UpTo(i) == IF i = First THEN 0 ELSE Least(read.len, Least(size, i * ChunkSize) - read.off)

ProgressInv ==
  read.at # "idle" /\ read.short = -1 =>
    /\ read.at = "copy" => Len(buffer) = UpTo(read.index)
    /\ read.at = "done" => Len(buffer) = Least(read.len, size - read.off)

\* A reader that is not open has read nothing.
ClosedInv == reader = "closed" => index = 0 /\ base = 0 /\ buffer = <<>>

IInv ==
  /\ TypeInv /\ ChunkInv /\ RangeInv /\ ProgressInv /\ ClosedInv
  /\ Contiguous /\ CursorExact

-----------------------------------------------------------------------------
(***************************************************************************)
(* Chunks and bytes.                                                       *)
(***************************************************************************)

LEMMA DivMod ==
  ASSUME NEW a \in Nat, NEW c \in Nat \ {0}
  PROVE  /\ a = (a \div c) * c + (a % c)
         /\ a % c \in 0 .. (c - 1) /\ a \div c \in Nat
<1>1. a = (a \div c) * c + (a % c)
  OBVIOUS
<1>2. a % c \in 0 .. (c - 1) /\ a \div c \in Int
  OBVIOUS
<1>3. a \div c >= 0
  OBVIOUS
<1> QED
  BY <1>1, <1>2, <1>3

LEMMA DivMonotonic ==
  ASSUME NEW a \in Nat, NEW b \in Nat, a <= b, NEW c \in Nat \ {0}
  PROVE  a \div c <= b \div c
<1> DEFINE p == a \div c
           q == b \div c
<1>1. a = p * c + (a % c) /\ a % c \in 0 .. (c - 1) /\ p \in Nat
  BY DivMod, Zenon
<1>2. b = q * c + (b % c) /\ b % c \in 0 .. (c - 1) /\ q \in Nat
  BY DivMod, Zenon
<1> SUFFICES ASSUME q + 1 <= p PROVE FALSE
  BY <1>1, <1>2
<1>3. (q + 1) * c <= p * c
  BY <1>1, <1>2
<1>4. (q + 1) * c = q * c + c
  BY <1>2
<1> QED
  BY <1>1, <1>2, <1>3, <1>4

LEMMA DivOf ==
  ASSUME NEW i \in Nat, NEW r \in Nat, NEW c \in Nat \ {0}, r < c
  PROVE  (i * c + r) \div c = i
OBVIOUS

LEMMA ChunkStarts ==
  ASSUME NEW i \in Nat, NEW c \in Nat
  PROVE  i * c \in Nat /\ (i + 1) * c = i * c + c
OBVIOUS

LEMMA ChunksInOrder ==
  ASSUME NEW i \in Nat, NEW j \in Nat, i <= j, NEW c \in Nat
  PROVE  i * c <= j * c
OBVIOUS

\* No answer reaches past the request or the content.
LEMMA AnswersWithin ==
  ASSUME size \in Nat, NEW off \in Nat, NEW len \in Nat, NEW n \in Answers(off, len)
  PROVE  n \in 0 .. Least(len, Most(0, size - off))
BY DEF Answers, Least, Most

\* Consecutive bytes of the content, appended to a buffer.
LEMMA Extended ==
  ASSUME NEW b \in Seq(Nat), NEW a \in Nat, NEW n \in Nat
  PROVE  LET e == b \o [k \in 1 .. n |-> a + k - 1]
         IN /\ e \in Seq(Nat) /\ Len(e) = Len(b) + n
            /\ \A k \in 1 .. Len(b) : e[k] = b[k]
            /\ \A k \in (Len(b) + 1) .. (Len(b) + n) : e[k] = a + (k - Len(b)) - 1
<1> DEFINE t == [k \in 1 .. n |-> a + k - 1]
<1>1. t \in [1 .. n -> Nat]
  OBVIOUS
<1>2. t \in Seq(Nat) /\ Len(t) = n
  BY <1>1, SeqDef
<1>3. /\ b \o t \in Seq(Nat) /\ Len(b \o t) = Len(b) + Len(t)
      /\ \A k \in 1 .. Len(b) + Len(t) : (b \o t)[k] = IF k <= Len(b) THEN b[k] ELSE t[k - Len(b)]
  BY <1>2, ConcatProperties
<1>4. Len(b) \in Nat
  BY LenProperties
<1>5. \A k \in (Len(b) + 1) .. (Len(b) + n) : k - Len(b) \in 1 .. n
  BY <1>4
<1>6. \A k \in 1 .. n : t[k] = a + k - 1
  OBVIOUS
<1> HIDE DEF t
<1>7. \A k \in 1 .. Len(b) : (b \o t)[k] = b[k]
  BY <1>2, <1>3, <1>4
<1>8. \A k \in (Len(b) + 1) .. (Len(b) + n) : (b \o t)[k] = a + (k - Len(b)) - 1
  BY <1>2, <1>3, <1>4, <1>5, <1>6
<1> QED
  BY <1>2, <1>3, <1>7, <1>8 DEF t

-----------------------------------------------------------------------------
LEMMA IInvInit == Init => IInv
<1> SUFFICES ASSUME Init PROVE IInv
  OBVIOUS
<1>1. TypeInv
  BY ConstantsOK DEF Init, TypeInv, Reads
<1>2. ChunkInv
  BY DEF Init, ChunkInv
<1>3. RangeInv /\ ProgressInv /\ Contiguous
  BY DEF Init, RangeInv, ProgressInv, Contiguous
<1>4. ClosedInv /\ CursorExact
  BY DEF Init, ClosedInv, CursorExact, Cursor
<1> QED
  BY <1>1, <1>2, <1>3, <1>4 DEF IInv

\* Where the chunks of the ReadAt under way lie.
LEMMA ReadChunks ==
  ASSUME TypeInv, RangeInv, read.at # "idle"
  PROVE  /\ ChunkSize \in Nat \ {0}
         /\ First \in Nat /\ Last \in Nat
         /\ read.off = First * ChunkSize + (read.off % ChunkSize)
         /\ read.off % ChunkSize \in 0 .. (ChunkSize - 1)
         /\ read.off + read.len <= Last * ChunkSize + ChunkSize
         /\ Last \in Indices
<1>1. /\ ChunkSize \in Nat \ {0} /\ MaxLen \in Nat /\ read.off \in Nat /\ read.len \in 1 .. MaxLen
      /\ size \in Nat /\ read.off < size
  BY ConstantsOK DEF TypeInv, Reads, RangeInv
<1>2. read.off + read.len - 1 \in Nat /\ size + MaxLen \in Nat /\ read.off + read.len - 1 <= size + MaxLen
  BY <1>1
<1>3. /\ First \in Nat /\ read.off = First * ChunkSize + (read.off % ChunkSize)
      /\ read.off % ChunkSize \in 0 .. (ChunkSize - 1)
  BY <1>1, DivMod, Zenon DEF First
<1>4. /\ Last \in Nat
      /\ read.off + read.len - 1 = Last * ChunkSize + ((read.off + read.len - 1) % ChunkSize)
      /\ (read.off + read.len - 1) % ChunkSize \in 0 .. (ChunkSize - 1)
  BY <1>1, <1>2, DivMod, Zenon DEF Last
<1>5. Last * ChunkSize \in Nat
  BY <1>1, <1>4, ChunkStarts
<1>6. read.off + read.len <= Last * ChunkSize + ChunkSize
  BY <1>1, <1>4, <1>5
<1>7. Last <= (size + MaxLen) \div ChunkSize /\ (size + MaxLen) \div ChunkSize \in Nat
  BY <1>1, <1>2, DivMonotonic, DivMod, Zenon DEF Last
<1> QED
  BY <1>1, <1>3, <1>4, <1>6, <1>7 DEF Indices

\* What is in the buffer when the loop of copyChunks is over.
LEMMA LoopOver ==
  ASSUME TypeInv, RangeInv, ProgressInv
  PROVE  ReadsAll
<1> SUFFICES ASSUME read.at # "idle", ~Looping, read.short = -1
             PROVE  Len(buffer) = Least(read.len, size - read.off)
  BY DEF ReadsAll
<1>1. /\ read.off \in Nat /\ read.len \in Nat \ {0} /\ size \in Nat /\ read.off < size
      /\ read.index \in First .. (Last + 1) /\ Len(buffer) \in Nat
      /\ read.at \in {"copy", "done"}
  BY ConstantsOK DEF TypeInv, Reads, RangeInv
<1>2. CASE read.at = "done"
  BY <1>2 DEF ProgressInv
<1>3. CASE read.at = "copy"
  <2> DEFINE i == read.index
             at == i * ChunkSize
  <2>1. Len(buffer) = UpTo(i)
    BY <1>3 DEF ProgressInv
  <2>2. ChunkSize \in Nat \ {0} /\ i \in Nat /\ First \in Nat /\ Last \in Nat
    <3>1. ChunkSize \in Nat \ {0} /\ First \in Nat /\ Last \in Nat
      BY ReadChunks
    <3> QED
      BY <1>1, <3>1
  <2>3. at \in Nat
    BY <2>2, ChunkStarts
  <2>4. CASE i <= Last
    <3>1. Len(buffer) >= read.len
      BY <1>1, <1>3, <2>4, <2>2 DEF Looping
    <3>2. i # First /\ Len(buffer) = Least(read.len, Least(size, at) - read.off)
      BY <1>1, <2>1, <3>1 DEF UpTo
    <3> HIDE DEF at
    <3> QED
      BY <1>1, <2>3, <3>1, <3>2 DEF Least
  <2>5. CASE i = Last + 1
    <3>1. First <= Last
      <4>1. read.off + read.len - 1 \in Nat /\ read.off <= read.off + read.len - 1
        BY <1>1
      <4> QED
        BY <1>1, <2>2, <4>1, DivMonotonic DEF First, Last
    <3>2. i # First /\ Len(buffer) = Least(read.len, Least(size, at) - read.off)
      BY <2>1, <2>2, <2>5, <3>1 DEF UpTo
    <3>3. at = Last * ChunkSize + ChunkSize /\ Last * ChunkSize \in Nat
      BY <2>2, <2>5, ChunkStarts
    <3>4. read.off + read.len <= at
      BY <3>3, ReadChunks
    <3> HIDE DEF at
    <3> QED
      BY <1>1, <2>3, <3>2, <3>4 DEF Least
  <2> QED
    BY <1>1, <2>2, <2>4, <2>5
<1> QED
  BY <1>1, <1>2, <1>3

(* copyChunks: what one more chunk of n bytes does to the buffer, when no  *)
(* chunk before it fell short.                                             *)
LEMMA CopyLength ==
  ASSUME TypeInv, ChunkInv, RangeInv, ProgressInv, NEW n \in 0 .. ChunkSize, CopyChunk(n)
  PROVE  /\ read.index \in Nat /\ read.index \in Indices /\ read.index * ChunkSize \in Nat
         /\ n \in 0 .. Whole(read.index)
         /\ CopiedFrom(read.index) \in 0 .. (ChunkSize - 1)
         /\ read.short = -1 /\ n > CopiedFrom(read.index) =>
              read.off + Len(buffer) = read.index * ChunkSize + CopiedFrom(read.index)
         /\ read.short = -1 /\ n <= CopiedFrom(read.index) /\ n = Whole(read.index) =>
              Len(buffer) = Least(read.len, size - read.off)
<1> DEFINE i == read.index
           at == i * ChunkSize
           from == CopiedFrom(i)
<1>1. /\ read.off \in Nat /\ read.len \in Nat \ {0} /\ size \in Nat /\ read.off < size
      /\ read.at = "copy" /\ i \in First .. Last /\ Len(buffer) \in Nat /\ Len(buffer) < read.len
  BY ConstantsOK, SMTT(20) DEF TypeInv, Reads, RangeInv, CopyChunk, Looping
<1>2. /\ ChunkSize \in Nat \ {0} /\ First \in Nat /\ Last \in Nat
      /\ read.off = First * ChunkSize + (read.off % ChunkSize)
      /\ read.off % ChunkSize \in 0 .. (ChunkSize - 1)
      /\ Last \in Indices
  BY <1>1, ReadChunks
<1>3. i \in Nat /\ i \in Indices /\ at \in Nat
  <2>1. First \in Nat /\ Last \in Nat /\ ChunkSize \in Nat \ {0}
    BY <1>2
  <2>2. i \in Nat /\ i <= Last
    BY <1>1, <2>1
  <2>3. size + MaxLen \in Nat
    BY <1>1, ConstantsOK
  <2>4. (size + MaxLen) \div ChunkSize \in Nat
    BY <2>1, <2>3, DivMod
  <2>5. Last <= (size + MaxLen) \div ChunkSize
    BY <1>2, <2>1, <2>4 DEF Indices
  <2>6. i \in Indices
    BY <2>1, <2>2, <2>4, <2>5 DEF Indices
  <2> QED
    BY <2>1, <2>2, <2>6, ChunkStarts
<1>4. n \in 0 .. Whole(i)
  <2>1. CASE chunk[i] = -1
    <3>1. n \in Answers(at, ChunkSize)
      BY <2>1 DEF CopyChunk
    <3> QED
      BY <1>1, <1>2, <1>3, <3>1, AnswersWithin, Zenon DEF Whole
  <2>2. CASE chunk[i] # -1
    <3>1. n = chunk[i]
      BY <2>2 DEF CopyChunk
    <3> QED
      BY <1>3, <2>2, <3>1 DEF ChunkInv
  <2> QED
    BY <2>1, <2>2
<1>5. from \in 0 .. (ChunkSize - 1)
  BY <1>2 DEF CopiedFrom
<1>6. CASE i = First
  <2>1. from = read.off % ChunkSize
    BY <1>6 DEF CopiedFrom
  <2>2. read.short = -1 => Len(buffer) = 0
    BY <1>1, <1>6 DEF ProgressInv, UpTo
  <2>3. read.off = at + from
    BY <1>2, <1>6, <2>1
  <2>4. Whole(i) = Least(ChunkSize, Most(0, size - at))
    BY DEF Whole
  <2> HIDE DEF at, from
  <2>5. Whole(i) > from
    BY <1>1, <1>2, <1>3, <1>5, <2>3, <2>4 DEF Least, Most
  <2>6. Whole(i) \in Nat
    BY <1>1, <1>2, <1>3, <2>4 DEF Least, Most
  <2>7. read.short = -1 /\ n > from => read.off + Len(buffer) = at + from
    BY <1>1, <1>3, <2>2, <2>3
  <2>8. ~(n <= from /\ n = Whole(i))
    BY <1>2, <1>5, <2>5, <2>6
  <2> QED
    BY <1>3, <1>4, <1>5, <2>7, <2>8 DEF at, from
<1>7. CASE i # First
  <2>1. from = 0
    BY <1>7 DEF CopiedFrom
  <2>2. read.short = -1 => Len(buffer) = Least(read.len, Least(size, at) - read.off)
    BY <1>1, <1>7 DEF ProgressInv, UpTo
  <2>3. Whole(i) = Least(ChunkSize, Most(0, size - at))
    BY DEF Whole
  <2> DEFINE off == read.off
             len == read.len
             have == Len(buffer)
  <2>4. off \in Nat /\ len \in Nat /\ size \in Nat /\ have \in Nat /\ have < len
    BY <1>1
  <2>5. ChunkSize \in Nat \ {0} /\ at \in Nat /\ n \in 0 .. Whole(i)
    BY <1>2, <1>3, <1>4
  <2> HIDE DEF at, from, off, len, have
  <2>6. read.short = -1 /\ n > from => read.off + Len(buffer) = at + from
    <3> SUFFICES ASSUME read.short = -1, n > 0
                 PROVE  off + have = at + 0
      BY <2>1 DEF off, have
    <3>1. have = Least(len, Least(size, at) - off)
      BY <2>2 DEF off, len, have
    <3>2. at < size
      BY <2>3, <2>4, <2>5 DEF Least, Most
    <3> QED
      BY <2>4, <2>5, <3>1, <3>2 DEF Least
  <2>7. read.short = -1 /\ n <= from /\ n = Whole(i) => Len(buffer) = Least(read.len, size - read.off)
    <3> SUFFICES ASSUME read.short = -1, n <= 0, n = Whole(i)
                 PROVE  have = Least(len, size - off)
      BY <2>1 DEF off, len, have
    <3>1. have = Least(len, Least(size, at) - off)
      BY <2>2 DEF off, len, have
    <3>2. size <= at
      BY <2>3, <2>4, <2>5 DEF Least, Most
    <3> QED
      BY <2>4, <2>5, <3>1, <3>2 DEF Least
  <2> QED
    BY <1>3, <1>4, <1>5, <2>6, <2>7 DEF at, from
<1> QED
  BY <1>6, <1>7

\* One round of copyChunks keeps the bytes in place up to the first short chunk.
LEMMA CopyStep ==
  ASSUME TypeInv, ChunkInv, RangeInv, ProgressInv, ClosedInv, Contiguous, CursorExact,
         NEW n \in 0 .. ChunkSize, CopyChunk(n)
  PROVE  IInv'
<1> DEFINE i == read.index
           at == i * ChunkSize
           from == CopiedFrom(i)
           count == Least(n - from, read.len - Len(buffer))
<1>1. /\ read.off \in Nat /\ read.len \in Nat /\ size \in Nat /\ read.off < size
      /\ read.at = "copy" /\ reader = "prefetcher" /\ Len(buffer) \in Nat /\ Len(buffer) < read.len
      /\ buffer \in Seq(Nat) /\ read.short \in Int
  BY DEF TypeInv, Reads, RangeInv, CopyChunk, Looping
<1>2. ChunkSize \in Nat \ {0} /\ First \in Nat /\ Last \in Nat
  BY <1>1, ReadChunks
<1>3. /\ i \in Nat /\ i \in Indices /\ at \in Nat /\ n \in 0 .. Whole(i) /\ from \in 0 .. (ChunkSize - 1)
      /\ read.short = -1 /\ n > from => read.off + Len(buffer) = at + from
      /\ read.short = -1 /\ n <= from /\ n = Whole(i) => Len(buffer) = Least(read.len, size - read.off)
  BY CopyLength
<1>4. /\ reader' = reader /\ size' = size /\ told' = told /\ index' = index /\ base' = base
      /\ i <= Last
      /\ chunk' = [chunk EXCEPT ![i] = n]
      /\ buffer' = IF n > from THEN buffer \o [k \in 1 .. count |-> at + from + k - 1] ELSE buffer
  BY DEF CopyChunk, Looping, cursorVars
<1>5. /\ read' \in Reads
      /\ read'.at = (IF n > from THEN "copy" ELSE "done") /\ read'.off = read.off /\ read'.len = read.len
      /\ read'.index = i + 1
      /\ read'.short = IF read.short = -1 /\ n < Whole(i) THEN i ELSE read.short
  <2> DEFINE a == IF n > from THEN "copy" ELSE "done"
             z == IF read.short = -1 /\ n < Whole(i) THEN i ELSE read.short
             j == i + 1
  <2>1. read' = [read EXCEPT !.at = a, !.index = j, !.short = z]
    BY DEF CopyChunk, Whole
  <2>2. read \in Reads /\ a \in {"idle", "copy", "done"}
    BY DEF TypeInv
  <2>3. j \in Nat /\ z \in Int
    BY <1>1, <1>3
  <2> HIDE DEF a, z, j
  <2>4. /\ read' \in Reads /\ read'.at = a /\ read'.off = read.off /\ read'.len = read.len
        /\ read'.index = j /\ read'.short = z
    BY <2>1, <2>2, <2>3, Zenon DEF Reads
  <2> QED
    BY <2>4 DEF a, z, j
<1>6. n > from => /\ count \in Nat /\ count <= n - from /\ Len(buffer) + count = Least(Len(buffer) + (n - from), read.len)
  <2>1. n \in Nat /\ from \in Nat /\ Len(buffer) \in Nat /\ read.len \in Nat /\ Len(buffer) < read.len
    BY <1>1, <1>2, <1>3
  <2> HIDE DEF from
  <2> QED
    BY <2>1 DEF Least
<1>7. n > from =>
        /\ buffer' \in Seq(Nat) /\ Len(buffer') = Len(buffer) + count
        /\ \A k \in 1 .. Len(buffer) : buffer'[k] = buffer[k]
        /\ \A k \in (Len(buffer) + 1) .. (Len(buffer) + count) : buffer'[k] = at + from + (k - Len(buffer)) - 1
  <2> SUFFICES ASSUME n > from
               PROVE  /\ buffer' \in Seq(Nat) /\ Len(buffer') = Len(buffer) + count
                      /\ \A k \in 1 .. Len(buffer) : buffer'[k] = buffer[k]
                      /\ \A k \in (Len(buffer) + 1) .. (Len(buffer) + count) : buffer'[k] = at + from + (k - Len(buffer)) - 1
    OBVIOUS
  <2>1. at + from \in Nat /\ count \in Nat
    BY <1>3, <1>6
  <2>2. buffer' = buffer \o [k \in 1 .. count |-> (at + from) + k - 1]
    BY <1>4, Zenon
  <2> HIDE DEF at, from, count
  <2>3. LET e == buffer \o [k \in 1 .. count |-> (at + from) + k - 1]
        IN /\ e \in Seq(Nat) /\ Len(e) = Len(buffer) + count
           /\ \A k \in 1 .. Len(buffer) : e[k] = buffer[k]
           /\ \A k \in (Len(buffer) + 1) .. (Len(buffer) + count) : e[k] = (at + from) + (k - Len(buffer)) - 1
    BY <1>1, <2>1, Extended, Zenon
  <2> QED
    BY <2>2, <2>3, Zenon
<1>8. TypeInv'
  <2>1. buffer' \in Seq(Nat)
    BY <1>1, <1>4, <1>7
  <2>2. Indices' = Indices /\ chunk' \in [Indices -> Int]
    BY <1>3, <1>4 DEF TypeInv, Indices
  <2> QED
    BY <1>4, <1>5, <2>1, <2>2 DEF TypeInv
<1>9. ChunkInv'
  <2>1. \A j \in Indices : chunk'[j] = IF j = i THEN n ELSE chunk[j]
    BY <1>4 DEF TypeInv
  <2>2. Indices' = Indices /\ \A j \in Indices : Whole(j)' = Whole(j)
    BY <1>4 DEF Indices, Whole
  <2> QED
    BY <1>3, <2>1, <2>2 DEF ChunkInv
<1>10. First' = First /\ Last' = Last
  BY <1>5 DEF First, Last
<1>11. RangeInv'
  <2>1. read.short # -1 => read.short < i
    BY <1>1 DEF RangeInv
  <2>2. read.len \in 1 .. MaxLen /\ i \in First .. Last
    BY <1>1, <1>4 DEF RangeInv
  <2>3. i \in Nat /\ read.short \in Int /\ read'.short \in {i, read.short}
    BY <1>1, <1>3, <1>5
  <2>4. read'.short # -1 => read'.short < i + 1
    BY <2>1, <2>3
  <2>5. i + 1 \in First .. (Last + 1)
    BY <1>2, <2>2
  <2> HIDE DEF i, from
  <2> QED
    BY <1>1, <1>4, <1>5, <1>10, <2>2, <2>4, <2>5 DEF RangeInv
<1>12. ProgressInv'
  <2> SUFFICES ASSUME read.short = -1, n = Whole(i)
               PROVE  ProgressInv'
    <3>1. n < Whole(i) \/ n = Whole(i)
      <4>1. Whole(i) \in Nat
        BY <1>1, <1>2, <1>3 DEF Whole, Least, Most
      <4> QED
        BY <1>3, <4>1
    <3>2. read'.short = -1 => read.short = -1 /\ ~(n < Whole(i))
      BY <1>3, <1>5
    <3> QED
      BY <3>1, <3>2 DEF ProgressInv
  <2>1. CASE n > from
    <3> DEFINE off == read.off
               len == read.len
               have == Len(buffer)
    <3>1. off \in Nat /\ len \in Nat /\ have \in Nat /\ have < len /\ at \in Nat /\ from \in Nat /\ n \in Nat /\ size \in Nat
      BY <1>1, <1>2, <1>3
    <3>2. off + have = at + from /\ ChunkSize \in Nat
      BY <1>2, <1>3, <2>1
    <3>3. n = Least(ChunkSize, Most(0, size - at))
      BY DEF Whole
    <3>4. First <= i
      BY <1>1 DEF RangeInv
    <3>5. UpTo(read.index)' = Least(len, Least(size, (i + 1) * ChunkSize) - off)
      <4>1. i + 1 # First
        BY <1>2, <1>3, <3>4
      <4>2. read'.len = len /\ read'.off = off /\ size' = size /\ First' = First /\ read'.index = i + 1
        BY <1>4, <1>5, <1>10
      <4> QED
        BY <4>1, <4>2 DEF UpTo
    <3>6. (i + 1) * ChunkSize = at + ChunkSize
      BY <1>2, <1>3, ChunkStarts
    <3>7. Len(buffer') = Least(have + (n - from), len)
      BY <1>6, <1>7, <2>1
    <3> HIDE DEF at, from, off, len, have
    <3>8. Least(have + (n - from), len) = Least(len, Least(size, at + ChunkSize) - off)
      BY <2>1, <3>1, <3>2, <3>3 DEF Least, Most
    <3> QED
      BY <1>5, <2>1, <3>5, <3>6, <3>7, <3>8 DEF ProgressInv
  <2>2. CASE n <= from
    <3>1. Len(buffer) = Least(read.len, size - read.off)
      BY <1>3, <2>2
    <3>2. ~(n > from)
      BY <1>2, <1>3, <2>2
    <3> HIDE DEF from
    <3> QED
      BY <1>4, <1>5, <3>1, <3>2 DEF ProgressInv
  <2> QED
    BY <1>2, <1>3, <2>1, <2>2
<1>13. Contiguous'
  <2>1. \A k \in 1 .. Len(buffer) :
          buffer[k] = read.off + k - 1 \/ (read.short # -1 /\ buffer[k] \div ChunkSize > read.short)
    BY <1>1 DEF Contiguous
  <2>2. read.short # -1 => read'.short = read.short /\ read.short < i
    BY <1>1, <1>5 DEF RangeInv
  <2>3. CASE ~(n > from)
    BY <1>1, <1>4, <1>5, <2>1, <2>2, <2>3 DEF Contiguous
  <2>4. CASE n > from
    <3>1. ASSUME NEW k \in (Len(buffer) + 1) .. (Len(buffer) + count)
          PROVE  \/ buffer'[k] = read.off + k - 1
                 \/ read.short # -1 /\ buffer'[k] \div ChunkSize > read.short
      <4>1. buffer'[k] = at + from + (k - Len(buffer)) - 1
        BY <1>7, <2>4
      <4>2. CASE read.short = -1
        <5>1. read.off + Len(buffer) = at + from
          BY <1>3, <2>4, <4>2
        <5>2. k \in Nat /\ at \in Nat /\ from \in Nat /\ read.off \in Nat /\ Len(buffer) \in Nat
          BY <1>1, <1>2, <1>3, <1>6, <2>4
        <5> HIDE DEF at, from
        <5> QED
          BY <4>1, <5>1, <5>2, SMTT(20)
      <4>3. CASE read.short # -1
        <5> DEFINE r == from + (k - Len(buffer)) - 1
        <5>1. count \in Nat /\ count <= n - from /\ n \in 0 .. ChunkSize /\ from \in 0 .. (ChunkSize - 1) /\ Len(buffer) \in Nat
          BY <1>1, <1>3, <1>6, <2>4
        <5>2. at \in Nat /\ i \in Nat /\ ChunkSize \in Nat \ {0}
          BY <1>2, <1>3
        <5>3. r \in Nat /\ r < ChunkSize
          <6> HIDE DEF from, count
          <6> QED
            BY <1>2, <5>1
        <5>4. buffer'[k] = i * ChunkSize + r
          <6>1. at + from + (k - Len(buffer)) - 1 = at + r
            <7> HIDE DEF from, count, at
            <7> QED
              BY <1>2, <5>1, <5>2
          <6> QED
            BY <4>1, <6>1
        <5> HIDE DEF r
        <5>5. buffer'[k] \div ChunkSize = i
          <6>1. (i * ChunkSize + r) \div ChunkSize = i
            BY <5>2, <5>3, DivOf, Zenon
          <6> QED
            BY <5>4, <6>1
        <5> QED
          BY <2>2, <4>3, <5>5
      <4> QED
        BY <4>2, <4>3
    <3>2. \A k \in DOMAIN buffer' : k \in 1 .. Len(buffer) \/ k \in (Len(buffer) + 1) .. (Len(buffer) + count)
      BY <1>1, <1>6, <1>7, <2>4
    <3>3. \A k \in DOMAIN buffer' :
            buffer'[k] = read.off + k - 1 \/ (read.short # -1 /\ buffer'[k] \div ChunkSize > read.short)
      BY <1>7, <2>1, <2>4, <3>1, <3>2, Zenon
    <3> QED
      BY <1>5, <2>2, <3>3 DEF Contiguous
  <2> QED
    BY <2>3, <2>4
<1>14. ClosedInv' /\ CursorExact'
  BY <1>1, <1>4 DEF ClosedInv, CursorExact, Cursor
<1> QED
  BY <1>8, <1>9, <1>11, <1>12, <1>13, <1>14 DEF IInv

\* A call that leaves the ReadAt under way, its buffer and the chunks alone.
LEMMA ReadFrame ==
  ASSUME TypeInv, ChunkInv, RangeInv, ProgressInv, Contiguous,
         size' = size, reader' = reader \/ read.at = "idle", read' = read, chunk' = chunk,
         buffer' = buffer \/ read.at = "idle"
  PROVE  /\ chunk' \in [Indices' -> Int] /\ read' \in Reads
         /\ ChunkInv' /\ RangeInv' /\ ProgressInv' /\ Contiguous'
<1>1. Indices' = Indices /\ First' = First /\ Last' = Last /\ read \in Reads /\ chunk \in [Indices -> Int]
  BY DEF TypeInv, Indices, First, Last
<1>2. ChunkInv'
  BY <1>1 DEF ChunkInv, Whole
<1>3. RangeInv'
  BY <1>1 DEF RangeInv
<1>4. ProgressInv' /\ Contiguous'
  BY <1>1 DEF ProgressInv, UpTo, Contiguous
<1> QED
  BY <1>1, <1>2, <1>3, <1>4

\* The prefetcher's ReadAt, its ends, and what the cache drops.
LEMMA PrefetcherStep ==
  ASSUME TypeInv, ChunkInv, RangeInv, ProgressInv, ClosedInv, Contiguous, CursorExact,
         \/ \E off \in -1 .. (size + 1), len \in 0 .. MaxLen : ReadAt(off, len)
         \/ ReadReturns \/ ReadFails \/ \E i \in Indices : Evict(i)
  PROVE  IInv'
<1>1. ASSUME NEW off \in -1 .. (size + 1), NEW len \in 0 .. MaxLen, ReadAt(off, len)
      PROVE  IInv'
  <2>1. /\ reader' = reader /\ size' = size /\ told' = told /\ index' = index /\ base' = base /\ chunk' = chunk
        /\ reader = "prefetcher" /\ read.at = "idle" /\ buffer' = <<>>
    BY <1>1 DEF ReadAt, cursorVars
  <2>2. size \in Nat /\ ChunkSize \in Nat \ {0} /\ MaxLen \in Nat
    BY ConstantsOK DEF TypeInv
  <2>3. \/ read' = read
        \/ /\ off >= 0 /\ len # 0 /\ off < size
           /\ read' = [at |-> "copy", off |-> off, len |-> len, index |-> off \div ChunkSize, short |-> -1]
    BY <1>1, <2>2 DEF ReadAt
  <2>4. ClosedInv' /\ CursorExact'
    BY <2>1 DEF ClosedInv, CursorExact, Cursor
  <2>5. CASE read' = read
    <3>1. /\ chunk' \in [Indices' -> Int] /\ read' \in Reads
          /\ ChunkInv' /\ RangeInv' /\ ProgressInv' /\ Contiguous'
      BY <2>1, <2>5, ReadFrame
    <3>2. TypeInv'
      BY <2>1, <3>1 DEF TypeInv
    <3> QED
      BY <2>4, <3>1, <3>2 DEF IInv
  <2>6. CASE /\ off >= 0 /\ len # 0 /\ off < size
             /\ read' = [at |-> "copy", off |-> off, len |-> len, index |-> off \div ChunkSize, short |-> -1]
    <3>1. off \in Nat /\ len \in 1 .. MaxLen /\ off + len - 1 \in Nat /\ off <= off + len - 1
      BY <2>2, <2>6
    <3>2. off \div ChunkSize \in Nat
      BY <2>2, <3>1, DivMod
    <3>3. (off + len - 1) \div ChunkSize \in Nat
      BY <2>2, <3>1, DivMod
    <3>4. off \div ChunkSize <= (off + len - 1) \div ChunkSize
      BY <2>2, <3>1, DivMonotonic
    <3>5. First' = off \div ChunkSize /\ Last' = (off + len - 1) \div ChunkSize
      BY <2>6 DEF First, Last
    <3>6. /\ read'.at = "copy" /\ read'.off = off /\ read'.len = len
          /\ read'.index = off \div ChunkSize /\ read'.short = -1
      BY <2>6
    <3>7. TypeInv'
      <4>1. read' \in Reads
        BY <2>2, <2>6, <3>1, <3>2 DEF Reads
      <4>2. Indices' = Indices
        BY <2>1 DEF Indices
      <4> QED
        BY <2>1, <4>1, <4>2 DEF TypeInv
    <3>8. ChunkInv'
      BY <2>1 DEF ChunkInv, Indices, Whole
    <3>9. RangeInv'
      BY <2>1, <2>6, <3>1, <3>2, <3>3, <3>4, <3>5, <3>6 DEF RangeInv
    <3>10. ProgressInv' /\ Contiguous'
      BY <2>1, <3>5, <3>6 DEF ProgressInv, UpTo, Contiguous
    <3> QED
      BY <2>4, <3>7, <3>8, <3>9, <3>10 DEF IInv
  <2> QED
    BY <2>3, <2>5, <2>6
<1>2. CASE ReadReturns \/ ReadFails
  <2>1. /\ reader' = reader /\ size' = size /\ told' = told /\ index' = index /\ base' = base /\ chunk' = chunk
        /\ read' = [read EXCEPT !.at = "idle"] /\ buffer' = buffer /\ read.at # "idle"
    BY <1>2 DEF ReadReturns, ReadFails, Looping, cursorVars
  <2>2. read' \in Reads /\ read'.at = "idle"
    BY <2>1, Zenon DEF TypeInv, Reads
  <2>3. Indices' = Indices /\ TypeInv'
    BY <2>1, <2>2 DEF TypeInv, Indices
  <2>4. ChunkInv'
    BY <2>1 DEF ChunkInv, Indices, Whole
  <2>5. RangeInv' /\ ProgressInv' /\ Contiguous'
    BY <2>2 DEF RangeInv, ProgressInv, Contiguous
  <2>6. ClosedInv' /\ CursorExact'
    BY <2>1 DEF ClosedInv, CursorExact, Cursor
  <2> QED
    BY <2>3, <2>4, <2>5, <2>6 DEF IInv
<1>3. ASSUME NEW i \in Indices, Evict(i)
      PROVE  IInv'
  <2>1. /\ reader' = reader /\ size' = size /\ told' = told /\ index' = index /\ base' = base
        /\ read' = read /\ buffer' = buffer /\ chunk' = [chunk EXCEPT ![i] = -1]
    BY <1>3 DEF Evict, cursorVars
  <2>2. Indices' = Indices /\ chunk' \in [Indices -> Int] /\ \A j \in Indices : chunk'[j] \in {-1, chunk[j]}
    BY <2>1 DEF TypeInv, Indices
  <2>3. TypeInv'
    BY <2>1, <2>2 DEF TypeInv
  <2>4. ChunkInv'
    BY <2>1, <2>2 DEF ChunkInv, Whole
  <2>5. First' = First /\ Last' = Last
    BY <2>1 DEF First, Last
  <2>6. RangeInv' /\ ProgressInv' /\ Contiguous'
    BY <2>1, <2>5 DEF RangeInv, ProgressInv, UpTo, Contiguous
  <2>7. ClosedInv' /\ CursorExact'
    BY <2>1 DEF ClosedInv, CursorExact, Cursor
  <2> QED
    BY <2>3, <2>4, <2>6, <2>7 DEF IInv
<1> QED
  BY <1>1, <1>2, <1>3

\* The cursors: Read appends what follows, Seek starts anew, the rest leaves them alone.
LEMMA CursorStep ==
  ASSUME TypeInv, ChunkInv, RangeInv, ProgressInv, ClosedInv, Contiguous, CursorExact,
         \/ \E off \in -1 .. (size + 1), len \in 0 .. MaxLen : CursorReadAt(off, len)
         \/ \E len \in 0 .. MaxLen : CursorRead(len)
         \/ CursorFails
         \/ \E offset \in -1 .. 1, whence \in {"start", "current", "end"} : Seek(offset, whence)
  PROVE  IInv'
<1>1. Cursor /\ reader' = reader /\ size' = size /\ told' = told /\ read' = read /\ chunk' = chunk
  BY DEF CursorReadAt, CursorRead, CursorFails, Seek, CursorUnchanged
<1>2. read.at = "idle"
  BY <1>1 DEF Cursor, RangeInv
<1>3. /\ chunk' \in [Indices' -> Int] /\ read' \in Reads
      /\ ChunkInv' /\ RangeInv' /\ ProgressInv' /\ Contiguous'
  BY <1>1, <1>2, ReadFrame
<1>4. index \in Nat /\ base \in Nat /\ buffer \in Seq(Nat) /\ size \in Nat /\ told \in Nat /\ MaxLen \in Nat
  BY ConstantsOK DEF TypeInv
<1>5. index = base + Len(buffer) /\ \A k \in 1 .. Len(buffer) : buffer[k] = base + k - 1
  BY <1>1, <1>4 DEF CursorExact
<1> SUFFICES /\ index' \in Nat /\ base' \in Nat /\ buffer' \in Seq(Nat)
             /\ index' = base' + Len(buffer') /\ \A k \in DOMAIN buffer' : buffer'[k] = base' + k - 1
  <2>1. TypeInv'
    BY <1>1, <1>3 DEF TypeInv
  <2>2. ClosedInv' /\ CursorExact'
    BY <1>1 DEF ClosedInv, CursorExact, Cursor
  <2> QED
    BY <1>3, <2>1, <2>2 DEF IInv
<1>6. ASSUME index' = index /\ base' = base /\ buffer' = buffer
      PROVE  /\ index' \in Nat /\ base' \in Nat /\ buffer' \in Seq(Nat)
             /\ index' = base' + Len(buffer') /\ \A k \in DOMAIN buffer' : buffer'[k] = base' + k - 1
  BY <1>4, <1>5, <1>6
<1>7. CASE CursorFails \/ \E off \in -1 .. (size + 1), len \in 0 .. MaxLen : CursorReadAt(off, len)
  BY <1>6, <1>7 DEF CursorFails, CursorReadAt, cursorVars
<1>8. ASSUME NEW len \in 0 .. MaxLen, CursorRead(len)
      PROVE  /\ index' \in Nat /\ base' \in Nat /\ buffer' \in Seq(Nat)
             /\ index' = base' + Len(buffer') /\ \A k \in DOMAIN buffer' : buffer'[k] = base' + k - 1
  <2>1. PICK n \in Answers(index, len) :
          /\ index' = IF n = 0 THEN index ELSE index + n
          /\ buffer' = buffer \o [k \in 1 .. n |-> index + k - 1]
    BY <1>8, Zenon DEF CursorRead, Moved
  <2>2. len \in Nat
    BY <1>4
  <2>3. n \in 0 .. Least(len, Most(0, size - index))
    BY <1>4, <2>2, AnswersWithin
  <2>4. n \in Nat
    BY <1>4, <2>2, <2>3 DEF Least, Most
  <2>5. /\ buffer' \in Seq(Nat) /\ Len(buffer') = Len(buffer) + n
        /\ \A k \in 1 .. Len(buffer) : buffer'[k] = buffer[k]
        /\ \A k \in (Len(buffer) + 1) .. (Len(buffer) + n) : buffer'[k] = index + (k - Len(buffer)) - 1
    <3>1. LET e == buffer \o [k \in 1 .. n |-> index + k - 1]
          IN /\ e \in Seq(Nat) /\ Len(e) = Len(buffer) + n
             /\ \A k \in 1 .. Len(buffer) : e[k] = buffer[k]
             /\ \A k \in (Len(buffer) + 1) .. (Len(buffer) + n) : e[k] = index + (k - Len(buffer)) - 1
      BY <1>4, <2>4, Extended
    <3> QED
      BY <2>1, <3>1, Zenon
  <2>6. base' = base /\ index' = index + n
    <3>1. base' = base
      BY <1>8 DEF CursorRead
    <3>2. index' = index + n
      BY <1>4, <2>1, <2>4
    <3> QED
      BY <3>1, <3>2
  <2>7. Len(buffer) \in Nat
    BY <1>4
  <2>8. ASSUME NEW k \in 1 .. (Len(buffer) + n)
        PROVE  buffer'[k] = base + k - 1
    <3>1. CASE k \in 1 .. Len(buffer)
      BY <1>5, <2>5, <3>1
    <3>2. CASE k \in (Len(buffer) + 1) .. (Len(buffer) + n)
      <4>1. buffer'[k] = index + (k - Len(buffer)) - 1
        BY <2>5, <3>2
      <4> QED
        BY <1>4, <1>5, <2>4, <2>7, <4>1
    <3> QED
      BY <2>4, <2>7, <3>1, <3>2
  <2> QED
    BY <1>4, <1>5, <2>4, <2>5, <2>6, <2>7, <2>8
<1>9. ASSUME NEW offset \in -1 .. 1, NEW whence \in {"start", "current", "end"}, Seek(offset, whence)
      PROVE  /\ index' \in Nat /\ base' \in Nat /\ buffer' \in Seq(Nat)
             /\ index' = base' + Len(buffer') /\ \A k \in DOMAIN buffer' : buffer'[k] = base' + k - 1
  <2> DEFINE pos == offset + (CASE whence = "start" -> 0 [] whence = "current" -> index [] OTHER -> told)
  <2>1. pos \in Int
    BY <1>4
  <2> HIDE DEF pos
  <2>2. CASE SeekAllowed(pos)
    <3>1. index' = pos /\ base' = pos /\ buffer' = <<>>
      BY <1>9, <2>2 DEF Seek, pos
    <3>2. pos \in Nat
      BY <2>1, <2>2 DEF SeekAllowed
    <3> QED
      BY <3>1, <3>2
  <2>3. CASE ~SeekAllowed(pos)
    BY <1>6, <1>9, <2>3 DEF Seek, pos, cursorVars
  <2> QED
    BY <2>2, <2>3
<1> QED
  BY <1>7, <1>8, <1>9

\* A reader is opened, or not.
LEMMA OpenStep ==
  ASSUME TypeInv, ChunkInv, RangeInv, ProgressInv, ClosedInv, Contiguous, CursorExact,
         OpenFails \/ \E kind \in {"prefetcher", "readerAt", "File"} : Open(kind)
  PROVE  IInv'
<1>1. /\ size' = size /\ read' = read /\ buffer' = buffer /\ chunk' = chunk /\ index' = index /\ base' = base
      /\ reader = "closed" /\ reader' \in {"closed", "prefetcher", "readerAt", "File"}
  BY DEF OpenFails, Open, cursorVars
<1>2. told' \in Nat
  BY DEF OpenFails, Open, TransformSize, TypeInv
<1>3. read.at = "idle" /\ index = 0 /\ base = 0 /\ buffer = <<>>
  BY <1>1 DEF RangeInv, ClosedInv
<1>4. /\ chunk' \in [Indices' -> Int] /\ read' \in Reads
      /\ ChunkInv' /\ RangeInv' /\ ProgressInv' /\ Contiguous'
  BY <1>1, <1>3, ReadFrame
<1>5. TypeInv'
  BY <1>1, <1>2, <1>4 DEF TypeInv
<1>6. ClosedInv' /\ CursorExact'
  BY <1>1, <1>3 DEF ClosedInv, CursorExact
<1> QED
  BY <1>4, <1>5, <1>6 DEF IInv

LEMMA IInvStep == IInv /\ [Next]_vars => IInv'
<1> SUFFICES ASSUME TypeInv, ChunkInv, RangeInv, ProgressInv, ClosedInv, Contiguous, CursorExact,
                    [Next]_vars
             PROVE  IInv'
  BY DEF IInv
<1>1. CASE UNCHANGED vars
  <2>1. UNCHANGED <<reader, size, told, read, buffer, chunk, index, base>>
    BY <1>1 DEF vars
  <2>2. ChunkInv' /\ RangeInv' /\ ProgressInv' /\ Contiguous' /\ read' \in Reads /\ chunk' \in [Indices' -> Int]
    BY <2>1, ReadFrame
  <2>3. TypeInv'
    BY <2>1, <2>2 DEF TypeInv
  <2>4. ClosedInv' /\ CursorExact'
    BY <2>1 DEF ClosedInv, CursorExact, Cursor
  <2> QED
    BY <2>2, <2>3, <2>4 DEF IInv
<1> QED
  BY <1>1, OpenStep, PrefetcherStep, CopyStep, CursorStep DEF Next

LEMMA Invariance == Spec => []IInv
BY IInvInit, IInvStep, PTL DEF Spec

(* A prefetching ReadAt puts every byte where it belongs, up to the first  *)
(* chunk that fell short, whatever the sizes of content, chunks and reads  *)
(* and whatever copyChunks finds in the cache.                             *)
THEOREM InPlace == Spec => []Contiguous
BY Invariance, PTL DEF IInv

(* A ReadAt that no chunk let down returns all it was asked for, up to the *)
(* end of the content: the loop of copyChunks visits enough chunks.        *)
THEOREM AllRead == Spec => []ReadsAll
<1>1. IInv => ReadsAll
  BY LoopOver DEF IInv
<1> QED
  BY <1>1, Invariance, PTL

(* The cursors of readerAt and File yield the content in order, from where *)
(* Seek put them, however short the answers of the host.                   *)
THEOREM CursorInOrder == Spec => []CursorExact
BY Invariance, PTL DEF IInv

-----------------------------------------------------------------------------
(***************************************************************************)
(* The content store whose contents are read: ContentStore, for any        *)
(* numbers of infos, labels and times.                                     *)
(***************************************************************************)

\* What TransformFromContentInfo writes under each key.
LEMMA KeysOf ==
  ASSUME NEW i \in Info
  PROVE /\ DOMAIN FromInfo(i) = Fields \cup {Label(k) : k \in DOMAIN i.labels}
        /\ \A k \in DOMAIN i.labels : FromInfo(i)[Label(k)] = "value"
        /\ FromInfo(i)[<<"size">>] = i.size
        /\ FromInfo(i)[<<"created_at">>] = Format(i.created)
        /\ FromInfo(i)[<<"updated_at">>] = Format(i.updated)
BY DEF FromInfo, Label, Fields

\* No label is lost, whatever it is called, and no field is taken for a label.
LEMMA LabelsOf ==
  ASSUME NEW i \in Info
  PROVE /\ DOMAIN i.labels = {k \in LabelKeys : Label(k) \in DOMAIN FromInfo(i)}
        /\ i.labels = [k \in DOMAIN i.labels |-> "value"]
<1>1. PICK K \in SUBSET LabelKeys : i.labels \in [K -> {"value"}]
  BY DEF Info
<1>2. DOMAIN i.labels = K /\ \A k \in K : i.labels[k] = "value"
  BY <1>1
<1>3. \A k \in LabelKeys : Label(k) \in {Label(l) : l \in K} <=> k \in K
  BY DEF Label
<1>4. \A k \in LabelKeys : Label(k) \notin Fields
  BY DEF Label, Fields
<1>5. i.labels = [k \in DOMAIN i.labels |-> "value"]
  BY <1>1, <1>2
<1> QED
  BY <1>2, <1>3, <1>4, <1>5, KeysOf, Zenon

\* What comes back of an info.
Kept(i) == [size |-> i.size, labels |-> i.labels,
            created |-> Format(i.created), updated |-> Format(i.updated)]

\* TransformIntoContentInfo undoes TransformFromContentInfo, up to the second.
LEMMA RoundTrip ==
  ASSUME NEW i \in Info
  PROVE  HasSize(FromInfo(i)) /\ IntoInfo(FromInfo(i)) = Kept(i)
<1>1. PICK md : md = FromInfo(i)
  OBVIOUS
<1>2. /\ <<"size">> \in DOMAIN md /\ <<"created_at">> \in DOMAIN md /\ <<"updated_at">> \in DOMAIN md
      /\ md[<<"size">>] = i.size
      /\ md[<<"created_at">>] = Format(i.created)
      /\ md[<<"updated_at">>] = Format(i.updated)
  BY <1>1, KeysOf, Zenon DEF Fields
<1>3. [k \in {k \in LabelKeys : Label(k) \in DOMAIN md} |-> md[Label(k)]] = i.labels
  <2>1. {k \in LabelKeys : Label(k) \in DOMAIN md} = DOMAIN i.labels
    BY <1>1, LabelsOf, Zenon
  <2>2. \A k \in DOMAIN i.labels : md[Label(k)] = "value"
    BY <1>1, KeysOf, Zenon
  <2> QED
    BY <2>1, <2>2, LabelsOf
<1>4. HasSize(md)
  BY <1>2 DEF HasSize
<1> QED
  BY <1>1, <1>2, <1>3, <1>4
  DEF IntoInfo, TransformCreatedTimestamp, TransformUpdatedTimestamp, TimeAt, Kept

\* A request has an info for its argument, and an Update is answered with it.
CallInv ==
  /\ call = [at |-> call.at, arg |-> call.arg, answer |-> call.answer, result |-> call.result]
  /\ call.at \in {"request", "answered"} => call.arg \in Info
  /\ op = "update" /\ call.at = "answered" => call.answer = FromInfo(call.arg)
  /\ UpdateKeeps

WalkInv ==
  /\ taken \in Nat /\ infoCh \in Seq(Nat) /\ seen \in Seq(Nat)
  /\ InfosKept

\* Every step of a call keeps it; Walk's steps leave the call alone.
LEMMA CallStep ==
  ASSUME CallInv, [StoreNext]_storeVars
  PROVE  CallInv'
<1> USE DEF CallInv, UpdateKeeps
<1>1. ASSUME NEW i \in Info, Request(i)
      PROVE  CallInv'
  BY <1>1, Zenon DEF Request
<1>2. CASE HostAnswers
  BY <1>2, Zenon DEF HostAnswers, AnsweredWith
<1>3. CASE RequestFails
  BY <1>3 DEF RequestFails
<1>4. CASE InfoReturns
  <2>1. CASE op = "update"
    <3>1. call.arg \in Info /\ call.answer = FromInfo(call.arg)
      BY <1>4, <2>1 DEF InfoReturns
    <3>2. call' = [call EXCEPT !.at = "ok", !.result = Kept(call.arg)]
      BY <1>4, <3>1, RoundTrip, Zenon DEF InfoReturns
    <3> QED
      BY <1>4, <3>2, Zenon DEF InfoReturns, Kept
  <2>2. CASE op # "update"
    BY <1>4, <2>2, Zenon DEF InfoReturns
  <2> QED
    BY <2>1, <2>2
<1>5. CASE DeleteReturns \/ Unsupported
  BY <1>5 DEF DeleteReturns, Unsupported
<1>6. CASE UNCHANGED <<op, call>>
  BY <1>6
<1> HIDE DEF CallInv
<1>7. HostSends \/ HostFails \/ Cancel => UNCHANGED <<op, call>>
  BY DEF HostSends, HostFails, Cancel
<1>8. RecvInfo \/ RecvFails \/ QueueInfo \/ WalkEnds => UNCHANGED <<op, call>>
  BY DEF RecvInfo, RecvFails, QueueInfo, WalkEnds
<1>9. \A ok \in BOOLEAN : CallFn(ok) => UNCHANGED <<op, call>>
  BY DEF CallFn
<1>10. UNCHANGED storeVars => UNCHANGED <<op, call>>
  BY DEF storeVars
<1> QED
  BY <1>1, <1>2, <1>3, <1>4, <1>5, <1>6, <1>7, <1>8, <1>9, <1>10, Zenon DEF StoreNext, Recv, Walk

\* A sequence is its head followed by its tail.
LEMMA HeadFirst ==
  ASSUME NEW s \in Seq(Nat), s # <<>>
  PROVE  Head(s) \in Nat /\ Tail(s) \in Seq(Nat) /\ <<Head(s)>> \o Tail(s) = s
<1>1. /\ Head(s) \in Nat /\ Tail(s) \in Seq(Nat) /\ Len(Tail(s)) = Len(s) - 1
      /\ \A i \in 1 .. Len(Tail(s)) : Tail(s)[i] = s[i + 1]
  BY HeadTailProperties
<1>2. PICK h \in Nat, t \in Seq(Nat) : h = Head(s) /\ t = Tail(s)
  BY <1>1, Zenon
<1>3. /\ <<h>> \in Seq(Nat) /\ Len(<<h>>) = 1 /\ <<h>>[1] = h
      /\ Len(s) \in Nat /\ Len(t) = Len(s) - 1 /\ h = s[1]
  BY <1>1, <1>2
<1>4. /\ <<h>> \o t \in Seq(Nat) /\ Len(<<h>> \o t) = Len(s)
      /\ \A i \in 1 .. Len(s) : (<<h>> \o t)[i] = IF i <= 1 THEN h ELSE t[i - 1]
  BY <1>3, ConcatProperties
<1>5. \A i \in 1 .. Len(s) : (<<h>> \o t)[i] = s[i]
  BY <1>1, <1>2, <1>3, <1>4
<1>6. <<h>> \o t = s
  BY <1>4, <1>5, SeqEqual
<1> QED
  BY <1>1, <1>2, <1>6

Numbers(n) == [k \in 1 .. n |-> k]

\* The infos received before this one, and this one.
LEMMA OneMore ==
  ASSUME NEW n \in Nat
  PROVE  /\ Numbers(n) \in Seq(Nat)
         /\ Numbers(n) \o <<n + 1>> = Numbers(n + 1)
<1>1. PICK s, t : s = Numbers(n) /\ t = Numbers(n + 1)
  OBVIOUS
<1>2. s \in Seq(Nat) /\ Len(s) = n /\ \A k \in 1 .. n : s[k] = k
  BY <1>1, SeqDef DEF Numbers
<1>3. t \in Seq(Nat) /\ Len(t) = n + 1 /\ \A k \in 1 .. n + 1 : t[k] = k
  BY <1>1, SeqDef DEF Numbers
<1>4. /\ Append(s, n + 1) \in Seq(Nat) /\ Len(Append(s, n + 1)) = n + 1
      /\ \A k \in 1 .. n : Append(s, n + 1)[k] = s[k]
      /\ Append(s, n + 1)[n + 1] = n + 1
  BY <1>2, AppendProperties
<1>5. \A k \in 1 .. n + 1 : Append(s, n + 1)[k] = t[k]
  BY <1>2, <1>3, <1>4
<1>6. Append(s, n + 1) = t
  BY <1>3, <1>4, <1>5, SeqEqual
<1>7. Append(s, n + 1) = s \o <<n + 1>>
  BY <1>2, AppendIsConcat
<1> QED
  BY <1>1, <1>2, <1>6, <1>7, Zenon

\* Infos change hands in order: queues joined in either grouping hold the same.
LEMMA Associative ==
  ASSUME NEW s \in Seq(Nat), NEW t \in Seq(Nat), NEW u \in Seq(Nat)
  PROVE  (s \o t) \o u = s \o (t \o u)
<1>1. PICK a, b : a = s \o t /\ b = t \o u
  BY Zenon
<1>2. /\ a \in Seq(Nat) /\ Len(a) = Len(s) + Len(t)
      /\ \A i \in 1 .. Len(s) + Len(t) : a[i] = IF i <= Len(s) THEN s[i] ELSE t[i - Len(s)]
  BY <1>1, ConcatProperties, Zenon
<1>3. /\ b \in Seq(Nat) /\ Len(b) = Len(t) + Len(u)
      /\ \A i \in 1 .. Len(t) + Len(u) : b[i] = IF i <= Len(t) THEN t[i] ELSE u[i - Len(t)]
  BY <1>1, ConcatProperties, Zenon
<1>4. a \in Seq(Nat) /\ b \in Seq(Nat)
  BY <1>2, <1>3
<1>5. /\ a \o u \in Seq(Nat) /\ Len(a \o u) = Len(a) + Len(u)
      /\ \A i \in 1 .. Len(a) + Len(u) : (a \o u)[i] = IF i <= Len(a) THEN a[i] ELSE u[i - Len(a)]
  BY <1>4, ConcatProperties, Zenon
<1>6. /\ s \o b \in Seq(Nat) /\ Len(s \o b) = Len(s) + Len(b)
      /\ \A i \in 1 .. Len(s) + Len(b) : (s \o b)[i] = IF i <= Len(s) THEN s[i] ELSE b[i - Len(s)]
  BY <1>4, ConcatProperties, Zenon
<1>7. PICK c, d : c = a \o u /\ d = s \o b
  BY Zenon
<1>8. PICK l \in Nat, m \in Nat, n \in Nat : l = Len(s) /\ m = Len(t) /\ n = Len(u)
  BY LenProperties
<1>9. c \in Seq(Nat) /\ d \in Seq(Nat) /\ Len(c) = l + m + n /\ Len(d) = l + m + n
  BY <1>2, <1>3, <1>5, <1>6, <1>7, <1>8
<1>10. ASSUME NEW i \in 1 .. l + m + n PROVE c[i] = d[i]
  <2>1. c[i] = IF i <= l + m THEN a[i] ELSE u[i - (l + m)]
    BY <1>2, <1>5, <1>7, <1>8
  <2>2. d[i] = IF i <= l THEN s[i] ELSE b[i - l]
    BY <1>3, <1>6, <1>7, <1>8
  <2>3. i <= l + m => a[i] = IF i <= l THEN s[i] ELSE t[i - l]
    BY <1>2, <1>8
  <2>4. i > l => b[i - l] = IF i - l <= m THEN t[i - l] ELSE u[(i - l) - m]
    <3>1. i > l => i - l \in 1 .. m + n
      BY <1>8
    <3> QED
      BY <1>3, <1>8, <3>1
  <2>5. i - (l + m) = (i - l) - m /\ (i - l <= m <=> i <= l + m)
    BY <1>8
  <2> QED
    BY <1>8, <2>1, <2>2, <2>3, <2>4, <2>5
<1>11. \A i \in 1 .. Len(c) : c[i] = d[i]
  BY <1>9, <1>10
<1>12. c = d
  BY <1>9, <1>11, SeqEqual
<1> QED
  BY <1>1, <1>7, <1>12, Zenon

\* An info that moves from one queue to the next keeps its place.
LEMMA Regrouped ==
  ASSUME NEW s \in Seq(Nat), NEW t \in Seq(Nat), NEW x \in Nat
  PROVE  /\ (s \o t) \o <<x>> = s \o (t \o <<x>>)
         /\ (s \o <<x>>) \o t = s \o (<<x>> \o t)
<1>1. <<x>> \in Seq(Nat)
  OBVIOUS
<1>2. PICK u : u = <<x>>
  BY Zenon
<1>3. (s \o t) \o u = s \o (t \o u) /\ (s \o u) \o t = s \o (u \o t)
  BY <1>1, <1>2, Associative, Zenon
<1> QED
  BY <1>2, <1>3, Zenon

\* Every step of Walk and of its goroutine keeps the infos; other calls have none.
LEMMA WalkStep ==
  ASSUME WalkInv, [StoreNext]_storeVars
  PROVE  WalkInv'
<1>1. CASE RecvInfo
  <2>1. seen \o infoCh \o <<>> = Numbers(taken)
    BY <1>1 DEF RecvInfo, WalkInv, InfosKept, Numbers
  <2>2. seen \o infoCh \in Seq(Nat) /\ taken \in Nat
    BY ConcatProperties DEF WalkInv
  <2>3. seen \o infoCh = Numbers(taken)
    BY <2>1, <2>2, ConcatEmptySeq
  <2>4. seen \o infoCh \o <<taken + 1>> = Numbers(taken + 1)
    BY <2>2, <2>3, OneMore
  <2>5. recv' = "info" /\ taken' = taken + 1 /\ UNCHANGED <<seen, infoCh>>
    BY <1>1 DEF RecvInfo
  <2> QED
    <3>1. taken' \in Nat /\ seen' \in Seq(Nat) /\ infoCh' \in Seq(Nat)
      BY <2>2, <2>5 DEF WalkInv
    <3> QED
      BY <2>4, <2>5, <3>1, Zenon DEF WalkInv, InfosKept, Numbers
<1>2. CASE QueueInfo
  <2>1. seen \o infoCh \o <<taken>> = Numbers(taken)
    BY <1>2, Zenon DEF QueueInfo, WalkInv, InfosKept, Numbers
  <2>2. infoCh' = Append(infoCh, taken) /\ infoCh' \in Seq(Nat) /\ <<taken>> \in Seq(Nat)
    BY <1>2, AppendProperties DEF QueueInfo, Queued, WalkInv
  <2>3. seen \o infoCh' = Numbers(taken)
    <3>1. infoCh' = infoCh \o <<taken>>
      BY <2>2, AppendIsConcat, Zenon DEF WalkInv
    <3>2. (seen \o infoCh) \o <<taken>> = seen \o (infoCh \o <<taken>>)
      BY <2>2, Regrouped, Zenon DEF WalkInv
    <3> QED
      BY <2>1, <3>1, <3>2, Zenon
  <2>4. seen \o infoCh' \o <<>> = seen \o infoCh'
    BY <2>2, ConcatProperties, ConcatEmptySeq DEF WalkInv
  <2>5. recv' # "info" /\ UNCHANGED <<taken, seen>>
    BY <1>2 DEF QueueInfo
  <2> QED
    BY <2>2, <2>3, <2>4, <2>5 DEF WalkInv, InfosKept, Numbers
<1>3. ASSUME NEW ok \in BOOLEAN, CallFn(ok)
      PROVE  WalkInv'
  <2>1. infoCh # <<>> /\ infoCh' = Tail(infoCh) /\ seen' = Append(seen, Head(infoCh)) /\ UNCHANGED <<recv, taken>>
    BY <1>3 DEF CallFn
  <2>2. PICK h \in Nat : h = Head(infoCh)
    BY <2>1, HeadFirst DEF WalkInv
  <2>3. infoCh' \in Seq(Nat) /\ <<h>> \o infoCh' = infoCh /\ <<h>> \in Seq(Nat)
    BY <2>1, <2>2, HeadFirst DEF WalkInv
  <2>4. seen' = seen \o <<h>> /\ seen' \in Seq(Nat)
    BY <2>1, <2>2, AppendIsConcat, AppendProperties DEF WalkInv
  <2>5. (seen \o <<h>>) \o infoCh' = seen \o (<<h>> \o infoCh')
    BY <2>3, Regrouped, Zenon DEF WalkInv
  <2>6. seen' \o infoCh' = seen \o infoCh
    BY <2>3, <2>4, <2>5, Zenon
  <2> QED
    BY <2>1, <2>3, <2>4, <2>6, Zenon DEF WalkInv, InfosKept
<1>4. CASE UNCHANGED <<taken, infoCh, seen>> /\ (recv' = recv \/ (recv # "info" /\ recv' # "info"))
  BY <1>4, Zenon DEF WalkInv, InfosKept
<1>5. RecvFails \/ WalkEnds =>
        UNCHANGED <<taken, infoCh, seen>> /\ recv # "info" /\ recv' # "info"
  BY DEF RecvFails, WalkEnds, AfterError
<1>6. HostSends \/ HostFails \/ Cancel \/ UNCHANGED storeVars =>
        UNCHANGED <<taken, infoCh, seen, recv>>
  BY DEF HostSends, HostFails, Cancel, storeVars, walkVars
<1>7. HostAnswers \/ RequestFails \/ InfoReturns \/ DeleteReturns \/ Unsupported =>
        UNCHANGED <<taken, infoCh, seen, recv>>
  BY DEF HostAnswers, RequestFails, InfoReturns, DeleteReturns,
         Unsupported, walkVars
<1>8. \A i \in Info : Request(i) => UNCHANGED <<taken, infoCh, seen, recv>>
  BY DEF Request, walkVars
<1> QED
  BY <1>1, <1>2, <1>3, <1>4, <1>5, <1>6, <1>7, <1>8, Zenon DEF StoreNext, Recv, Walk

\* Both halves hold of every call of the content store.
LEMMA StoreInvariance == StoreSpec => [](CallInv /\ WalkInv)
<1>1. StoreInit => CallInv
  BY DEF StoreInit, CallInv, UpdateKeeps, Nothing
<1>2. StoreInit => WalkInv
  <2>1. <<>> \o <<>> \o <<>> = [k \in 1 .. 0 |-> k]
    OBVIOUS
  <2> QED
    BY <2>1 DEF StoreInit, WalkInv, InfosKept
<1> QED
  BY <1>1, <1>2, CallStep, WalkStep, PTL DEF StoreSpec

(* An info survives the way to the host and back, for any labels, sizes    *)
(* and times: Update.                                                      *)
THEOREM UpdateReturnsItsInfo == StoreSpec => []UpdateKeeps
BY StoreInvariance, PTL DEF CallInv

(* However many infos the host sends and infoCh holds, fn sees them in     *)
(* order and none twice, and none is lost but those still in infoCh or in  *)
(* the goroutine's hands when Walk returns: Walk.                          *)
THEOREM InfosInOrder == StoreSpec => []InfosKept
BY StoreInvariance, PTL DEF WalkInv
=============================================================================
