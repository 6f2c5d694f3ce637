------------------------- MODULE ContextWalkProofs --------------------------
(***************************************************************************)
(* Proofs about the walk of a build context, for every archive and every   *)
(* request: the tree is what the archive says, a walk that succeeds has    *)
(* announced all of it once, and the receiver accepts the announcements.   *)
(***************************************************************************)
EXTENDS ContextWalk, TLAPS, SequenceTheorems, WellFoundedInduction

-----------------------------------------------------------------------------
(***************************************************************************)
(* The inductive invariants.                                               *)
(***************************************************************************)

Unpacked == phase \in {"unpack", "walk", "done"}
Walked   == phase \in {"walk", "done"}

TypeInv ==
  /\ phase \in {"request", "unpack", "walk", "done", "failed"}
  /\ meta \in Metas
  /\ members \in Seq(Member)
  /\ DOMAIN tree \subseteq Seq(Names)
  /\ \A p \in DOMAIN tree : tree[p] \in [type : {"dir", "reg", "symlink"}, data : Nat]
  /\ todo \subseteq DOMAIN tree
  /\ next \in 1..(Len(Entries) + 1)
  /\ visited \in Seq(Seq(Names)) /\ called \in 0..Len(visited)
  /\ announced \in Seq(Seq(Names))
  /\ phase \in {"request", "unpack"} =>
       todo = {} /\ next = 1 /\ visited = <<>> /\ called = 0 /\ announced = <<>>

\* A path of the tree has a first name, never the staging directory's, and its
\* parents are directories of the tree.  Whatever else a member names is there.
TreeInv ==
  /\ phase = "request" => members = <<>> /\ DOMAIN tree = {}
  /\ \A p \in DOMAIN tree :
       /\ p # <<>> /\ p[1] # Staging
       /\ \A q \in Parents(p) : q \in DOMAIN tree /\ tree[q].type = "dir"
       /\ tree[p].type = "dir" => tree[p] = Dir
  /\ Unpacked => \A k \in DOMAIN members :
       /\ members[k].path \in DOMAIN tree
       /\ members[k].type = "link" => members[k].to \in DOMAIN tree
  /\ Walked => <<Marker>> \in DOMAIN tree \ todo /\ tree[<<Marker>>].type = "reg"

\* The filter's stack: only the staging directory is ever on it and not passed on.
StackInv ==
  /\ \A k \in DOMAIN visited : visited[k] # <<>>
  /\ \A k \in 1..called : visited[k] \in Range(announced)
  /\ called < Len(visited) => visited = <<<<Staging>>>> /\ next > 1

\* What has been announced, but for the staging directory.
Seen == {p \in DOMAIN tree \ todo : p # <<Marker>> /\ p[1] \notin meta.excluded}
          \cup {Entries[k] : k \in 2..(next - 1)}

SeenInv ==
  Walked =>
    /\ IsInjective(announced)
    /\ Range(announced) \ {<<Staging>>} = Seen
    /\ <<Staging>> \in Range(announced) => next > 1 /\ called = Len(visited)
    /\ phase = "done" => todo = {} /\ next > Len(Entries)

\* The announcements are in the order of a walk, and so is what is to come.
OrderInv ==
  Walked /\ ~Interposed =>
    /\ \A x \in Range(announced) :
         /\ \A q \in todo : WalkLess(x, q)
         /\ \A j \in next..Len(Entries) : WalkLess(x, Entries[j])
         /\ called < Len(visited) => WalkLess(x, <<Staging>>)
    /\ next > 1 => \A q \in todo : \A j \in DOMAIN Entries : WalkLess(Entries[j], q)
    /\ next \in 2..Len(Entries) => visited = <<<<Staging>>>>

IInv == /\ TypeInv /\ TreeInv /\ StackInv /\ SeenInv /\ OrderInv
        /\ UnpacksExactly /\ ReceiverAccepts

-----------------------------------------------------------------------------
(***************************************************************************)
(* The orders.  Two sequences that differ, and neither of which begins the *)
(* other, have a first place where they differ: that is induction over     *)
(* sequences, as the least element of a set of numbers.                    *)
(***************************************************************************)

(* Every set of numbers that is not empty has a least element.             *)
LEMMA LeastNumber ==
  ASSUME NEW S \in SUBSET Nat, NEW n \in S
  PROVE  \E m \in S : \A k \in S : m <= k
<1> DEFINE R == {ss \in Nat \X Nat : ss[1] < ss[2]}
<1>1. IsWellFoundedOn(R, Nat)
  BY NatLessThanWellFounded DEF OpToRel
<1> HIDE DEF R
<1>2. PICK m \in S : \A y \in S : ~(<<y, m>> \in R)
  BY <1>1, WFMin, Zenon
<1>3. \A y \in S : ~(y < m)
  BY <1>2, Zenon DEF R
<1> QED BY <1>3

(* Two sequences are equal, one begins the other, or they have a first     *)
(* place where they differ.                                                *)
LEMMA FirstDifference ==
  ASSUME NEW S, NEW s \in Seq(S), NEW t \in Seq(S)
  PROVE  \/ s = t
         \/ Len(s) < Len(t) /\ \A i \in DOMAIN s : s[i] = t[i]
         \/ Len(t) < Len(s) /\ \A i \in DOMAIN t : s[i] = t[i]
         \/ \E k \in DOMAIN s \cap DOMAIN t : s[k] # t[k] /\ \A i \in 1..(k - 1) : s[i] = t[i]
<1> DEFINE D == {k \in DOMAIN s \cap DOMAIN t : s[k] # t[k]}
<1>1. CASE D = {}
  <2>1. \A k \in DOMAIN s \cap DOMAIN t : s[k] = t[k]
    BY <1>1
  <2>2. CASE Len(s) = Len(t)
    BY <2>1, <2>2, SeqEqual
  <2>3. CASE Len(s) < Len(t)
    BY <2>1, <2>3
  <2>4. CASE Len(t) < Len(s)
    BY <2>1, <2>4
  <2> QED BY <2>2, <2>3, <2>4
<1>2. CASE D # {}
  <2>1. D \in SUBSET Nat
    OBVIOUS
  <2>2. PICK k \in D : \A j \in D : k <= j
    BY <2>1, <1>2, LeastNumber, Zenon
  <2>3. \A i \in 1..(k - 1) : s[i] = t[i]
    BY <2>2
  <2> QED BY <2>2, <2>3
<1> QED BY <1>1, <1>2

(* Names are ordered by their characters: totally ...                      *)
LEMMA LessTotal ==
  ASSUME NEW s \in Names, NEW t \in Names
  PROVE  s = t \/ Less(s, t) \/ Less(t, s)
<1>1. CASE \E k \in DOMAIN s \cap DOMAIN t : s[k] # t[k] /\ \A i \in 1..(k - 1) : s[i] = t[i]
  <2>1. PICK k \in DOMAIN s \cap DOMAIN t : s[k] # t[k] /\ \A i \in 1..(k - 1) : s[i] = t[i]
    BY <1>1
  <2>2. s[k] < t[k] \/ t[k] < s[k]
    BY <2>1 DEF Names
  <2> QED BY <2>1, <2>2 DEF Less
<1> QED BY <1>1, FirstDifference DEF Less, Names

(* ... never a name before itself ...                                      *)
LEMMA LessIrreflexive ==
  ASSUME NEW s \in Names PROVE ~Less(s, s)
BY DEF Less, Names

(* ... and transitively.                                                   *)
LEMMA LessTransitive ==
  ASSUME NEW s \in Names, NEW t \in Names, NEW u \in Names, Less(s, t), Less(t, u)
  PROVE  Less(s, u)
<1> DEFINE At(a, b, k) == k \in DOMAIN a \cap DOMAIN b /\ a[k] < b[k] /\ \A i \in 1..(k - 1) : a[i] = b[i]
<1> DEFINE Begins(a, b) == Len(a) < Len(b) /\ \A i \in DOMAIN a : a[i] = b[i]
<1>0. /\ DOMAIN s = 1..Len(s) /\ Len(s) \in Nat
      /\ DOMAIN t = 1..Len(t) /\ Len(t) \in Nat
      /\ DOMAIN u = 1..Len(u) /\ Len(u) \in Nat
  BY DEF Names
<1>1. CASE Begins(s, t) /\ Begins(t, u)
  <2>1. Begins(s, u)
    BY <1>0, <1>1
  <2> QED BY <2>1 DEF Less
<1>2. CASE Begins(s, t) /\ \E k \in Nat : At(t, u, k)
  <2>1. PICK k \in Nat : At(t, u, k)
    BY <1>2
  <2>2. CASE k <= Len(s)
    <3>1. At(s, u, k)
      BY <1>0, <1>2, <2>1, <2>2
    <3> QED BY <3>1 DEF Less
  <2>3. CASE k > Len(s)
    <3>1. Begins(s, u)
      BY <1>0, <1>2, <2>1, <2>3
    <3> QED BY <3>1 DEF Less
  <2> QED BY <2>2, <2>3 DEF Names
<1>3. CASE Begins(t, u) /\ \E k \in Nat : At(s, t, k)
  <2>1. PICK k \in Nat : At(s, t, k)
    BY <1>3
  <2>2. k \in DOMAIN t /\ Len(t) < Len(u) /\ \A i \in DOMAIN t : t[i] = u[i]
    BY <1>3, <2>1
  <2>3. /\ DOMAIN t = 1..Len(t) /\ Len(t) \in Nat
        /\ DOMAIN u = 1..Len(u) /\ Len(u) \in Nat
    BY DEF Names
  <2>4. k \in DOMAIN u /\ t[k] = u[k] /\ \A i \in 1..(k - 1) : t[i] = u[i]
    BY <2>2, <2>3
  <2>5. At(s, u, k)
    BY <2>1, <2>4
  <2> QED BY <2>5 DEF Less
<1>4. CASE (\E k \in Nat : At(s, t, k)) /\ \E k \in Nat : At(t, u, k)
  <2>1. PICK k \in Nat : At(s, t, k)
    BY <1>4
  <2>2. PICK j \in Nat : At(t, u, j)
    BY <1>4
  <2>3. CASE k <= j
    <3>1. k \in DOMAIN u /\ \A i \in 1..(k - 1) : s[i] = u[i]
      BY <1>0, <2>1, <2>2, <2>3
    <3>2. s[k] \in Nat /\ t[k] \in Nat /\ u[k] \in Nat /\ s[k] < t[k]
      BY <2>1, <3>1 DEF Names
    <3>3. t[k] = u[k] \/ t[k] < u[k]
      <4>1. k = j \/ k \in 1..(j - 1)
        BY <1>0, <2>1, <2>3
      <4> QED BY <2>2, <4>1
    <3>4. At(s, u, k)
      BY <2>1, <3>1, <3>2, <3>3
    <3> QED BY <3>4 DEF Less
  <2>4. CASE j < k
    <3>1. j \in DOMAIN s /\ s[j] = t[j] /\ \A i \in 1..(j - 1) : s[i] = u[i]
      BY <1>0, <2>1, <2>2, <2>4
    <3>2. At(s, u, j)
      BY <2>2, <3>1
    <3> QED BY <3>2 DEF Less
  <2> QED BY <2>3, <2>4
<1>5. ASSUME NEW a \in Names, NEW b \in Names, Less(a, b)
      PROVE  Begins(a, b) \/ \E k \in Nat : At(a, b, k)
  <2>1. DOMAIN a \cap DOMAIN b \subseteq Nat
    BY DEF Names
  <2> QED BY <1>5, <2>1 DEF Less
<1> QED BY <1>1, <1>2, <1>3, <1>4, <1>5

(* The parents of a path are its beginnings that are neither empty nor all *)
(* of it.                                                                  *)
LEMMA ParentAt ==
  ASSUME NEW p \in Seq(Names), NEW q \in Seq(Names)
  PROVE  q \in Parents(p) <=> 0 < Len(q) /\ Len(q) < Len(p) /\ \A i \in 1..Len(q) : q[i] = p[i]
<1>1. ASSUME q \in Parents(p)
      PROVE  0 < Len(q) /\ Len(q) < Len(p) /\ \A i \in 1..Len(q) : q[i] = p[i]
  <2>1. PICK k \in 1..(Len(p) - 1) : q = SubSeq(p, 1, k)
    BY <1>1 DEF Parents
  <2>2. Len(q) = k /\ \A i \in 1..k : q[i] = p[i]
    BY <2>1, SubSeqProperties
  <2> QED BY <2>2
<1>2. ASSUME 0 < Len(q), Len(q) < Len(p), \A i \in 1..Len(q) : q[i] = p[i]
      PROVE  q \in Parents(p)
  <2>1. PICK k \in 1..(Len(p) - 1) : k = Len(q)
    BY <1>2
  <2>2. /\ SubSeq(p, 1, k) \in Seq(Names) /\ Len(SubSeq(p, 1, k)) = k
        /\ \A i \in 1..k : SubSeq(p, 1, k)[i] = p[i]
    BY SubSeqProperties
  <2>3. q = SubSeq(p, 1, k)
    BY <1>2, <2>1, <2>2, SeqEqual
  <2> QED BY <2>1, <2>3 DEF Parents
<1> QED BY <1>1, <1>2

(* The order of a walk, of paths by their names, is an order too.          *)
LEMMA WalkIrreflexive ==
  ASSUME NEW p \in Seq(Names) PROVE ~WalkLess(p, p)
<1>1. \A k \in DOMAIN p : p[k] \in Names
  OBVIOUS
<1>2. \A k \in DOMAIN p : ~Less(p[k], p[k])
  BY <1>1, LessIrreflexive
<1>3. p \notin Parents(p)
  BY ParentAt
<1> QED BY <1>2, <1>3 DEF WalkLess

LEMMA WalkTransitive ==
  ASSUME NEW s \in Seq(Names), NEW t \in Seq(Names), NEW u \in Seq(Names), WalkLess(s, t), WalkLess(t, u)
  PROVE  WalkLess(s, u)
<1> DEFINE Above(a, b) == 0 < Len(a) /\ Len(a) < Len(b) /\ \A i \in 1..Len(a) : a[i] = b[i]
           At(a, b, k) == k \in DOMAIN a \cap DOMAIN b /\ Less(a[k], b[k]) /\ \A i \in 1..(k - 1) : a[i] = b[i]
<1>1. \A a, b \in Seq(Names) : Above(a, b) <=> a \in Parents(b)
  BY ParentAt
<1>2. CASE Above(s, t) /\ Above(t, u)
  <2>1. Above(s, u)
    BY <1>2
  <2> QED BY <1>1, <2>1 DEF WalkLess
<1>3. CASE Above(s, t) /\ \E k \in Nat : At(t, u, k)
  <2>1. PICK k \in Nat : At(t, u, k)
    BY <1>3
  <2>2. CASE k <= Len(s)
    <3>1. At(s, u, k)
      BY <1>1, <1>3, <2>1, <2>2
    <3> QED BY <3>1 DEF WalkLess
  <2>3. CASE k > Len(s)
    <3>1. Above(s, u)
      BY <1>3, <2>1, <2>3
    <3> QED BY <1>1, <3>1 DEF WalkLess
  <2> QED BY <2>2, <2>3
<1>4. CASE Above(t, u) /\ \E k \in Nat : At(s, t, k)
  <2>1. PICK k \in Nat : At(s, t, k)
    BY <1>4
  <2>2. k \in DOMAIN t /\ Len(t) < Len(u) /\ \A i \in 1..Len(t) : t[i] = u[i]
    BY <1>1, <1>4, <2>1
  <2>3. k \in DOMAIN u /\ t[k] = u[k] /\ \A i \in 1..(k - 1) : t[i] = u[i]
    BY <2>2
  <2>4. At(s, u, k)
    BY <2>1, <2>3
  <2> QED BY <2>4 DEF WalkLess
<1>5. CASE (\E k \in Nat : At(s, t, k)) /\ \E k \in Nat : At(t, u, k)
  <2>1. PICK k \in Nat : At(s, t, k)
    BY <1>5
  <2>2. PICK j \in Nat : At(t, u, j)
    BY <1>5
  <2>3. CASE k < j
    <3>1. At(s, u, k)
      BY <2>1, <2>2, <2>3
    <3> QED BY <3>1 DEF WalkLess
  <2>4. CASE j < k
    <3>1. At(s, u, j)
      BY <2>1, <2>2, <2>4
    <3> QED BY <3>1 DEF WalkLess
  <2>5. CASE j = k
    <3>1. s[k] \in Names /\ t[k] \in Names /\ u[k] \in Names
      BY <2>1, <2>2, <2>5
    <3>2. Less(s[k], u[k])
      BY <2>1, <2>2, <2>5, <3>1, LessTransitive
    <3>3. At(s, u, k)
      BY <2>1, <2>2, <2>5, <3>2
    <3> QED BY <3>3 DEF WalkLess
  <2> QED BY <2>3, <2>4, <2>5
<1>6. ASSUME NEW a \in Seq(Names), NEW b \in Seq(Names), WalkLess(a, b)
      PROVE  Above(a, b) \/ \E k \in Nat : At(a, b, k)
  <2>1. DOMAIN a \cap DOMAIN b \subseteq Nat
    OBVIOUS
  <2> QED BY <1>1, <1>6, <2>1, Zenon DEF WalkLess
<1> QED BY <1>2, <1>3, <1>4, <1>5, <1>6

-----------------------------------------------------------------------------
(***************************************************************************)
(* Parents, and the synthetic entries.                                     *)
(***************************************************************************)

(* A parent comes before the path in a walk, they have the first name in   *)
(* common, and its parents are parents of the path.                        *)
LEMMA ParentsAre ==
  ASSUME NEW p \in Seq(Names), NEW q \in Parents(p)
  PROVE  /\ q \in Seq(Names) /\ q # <<>> /\ q[1] = p[1] /\ p # <<>> /\ WalkLess(q, p)
         /\ 0 < Len(q) /\ Len(q) < Len(p)
         /\ Parents(q) \subseteq Parents(p)
<1>1. PICK k \in 1..(Len(p) - 1) : q = SubSeq(p, 1, k)
  BY DEF Parents
<1>2. q \in Seq(Names)
  BY <1>1, SubSeqProperties
<1>3. 0 < Len(q) /\ Len(q) < Len(p) /\ \A i \in 1..Len(q) : q[i] = p[i]
  BY <1>2, ParentAt
<1>4. q # <<>> /\ p # <<>> /\ q[1] = p[1]
  BY <1>2, <1>3
<1>5. ASSUME NEW r \in Parents(q) PROVE r \in Parents(p)
  <2>1. PICK j \in 1..(Len(q) - 1) : r = SubSeq(q, 1, j)
    BY DEF Parents
  <2>2. r \in Seq(Names)
    BY <1>2, <2>1, SubSeqProperties
  <2>3. 0 < Len(r) /\ Len(r) < Len(q) /\ \A i \in 1..Len(r) : r[i] = q[i]
    BY <1>2, <2>2, ParentAt
  <2>4. Len(r) < Len(p) /\ \A i \in 1..Len(r) : r[i] = p[i]
    BY <1>2, <1>3, <2>2, <2>3
  <2> QED BY <2>2, <2>3, <2>4, ParentAt
<1> QED BY <1>2, <1>3, <1>4, <1>5 DEF WalkLess

(* The constants are as the code has them.                                 *)
LEMMA Reserved ==
  /\ Staging \in Names /\ Dockerfile \in Names /\ Dockerignore \in Names /\ Marker \in Names
  /\ Marker # Staging /\ Dockerfile # Dockerignore /\ Less(Dockerfile, Dockerignore)
  /\ Synthetic[1] = <<Staging, Dockerfile>> /\ Synthetic[2] = <<Staging, Dockerignore>>
  /\ Range(Synthetic) = {<<Staging, Dockerfile>>, <<Staging, Dockerignore>>}
  /\ <<Staging, Dockerfile>> # <<Staging, Dockerignore>>
  /\ <<Staging, Dockerfile>> \in Seq(Names) /\ <<Staging, Dockerignore>> \in Seq(Names)
  /\ <<Staging>> \in Seq(Names) /\ <<Marker>> \in Seq(Names)
<1>1. Dockerfile # Dockerignore /\ Less(Dockerfile, Dockerignore)
  <2>1. Less(Dockerfile, Dockerignore) /\ Dockerfile \in Names
    BY ConstantsOK
  <2> QED BY <2>1, LessIrreflexive
<1>2. Staging \in Names /\ Dockerfile \in Names /\ Dockerignore \in Names /\ Marker \in Names /\ Marker # Staging
  BY ConstantsOK
<1>3. Range(Synthetic) = {<<Staging, Dockerfile>>, <<Staging, Dockerignore>>}
  BY DEF Range, Synthetic
<1> QED BY <1>1, <1>2, <1>3 DEF Synthetic

(* A file of the staging directory: its only parent is that directory.     *)
LEMMA StagingFile ==
  ASSUME NEW n \in Names
  PROVE  /\ <<Staging, n>> \in Seq(Names) /\ <<Staging, n>> # <<Staging>>
         /\ <<Staging, n>> # <<>> /\ <<Staging, n>>[1] = Staging
         /\ WalkLess(<<Staging>>, <<Staging, n>>)
         /\ Parents(<<Staging, n>>) = {<<Staging>>}
<1>1. PICK x : x = <<Staging, n>>
  BY Zenon
<1>2. PICK s : s = <<Staging>>
  BY Zenon
<1>3. x \in Seq(Names) /\ Len(x) = 2 /\ x[1] = Staging
  BY <1>1, Reserved
<1>4. s \in Seq(Names) /\ Len(s) = 1 /\ s[1] = Staging
  BY <1>2, Reserved
<1>5. s \in Parents(x)
  <2>1. 0 < Len(s) /\ Len(s) < Len(x) /\ \A i \in 1..Len(s) : s[i] = x[i]
    BY <1>3, <1>4
  <2> QED BY <1>3, <1>4, <2>1, ParentAt, Zenon
<1>6. SubSeq(x, 1, 1) = s
  <2>1. SubSeq(x, 1, 1) \in Seq(Names) /\ Len(SubSeq(x, 1, 1)) = 1 /\ SubSeq(x, 1, 1)[1] = x[1]
    BY <1>3, SubSeqProperties
  <2> QED BY <2>1, <1>3, <1>4, SeqEqual
<1>7. Parents(x) = {s}
  BY <1>3, <1>6 DEF Parents
<1>8. x # s /\ x # <<>>
  BY <1>1, <1>2
<1> QED BY <1>1, <1>2, <1>3, <1>5, <1>7, <1>8 DEF WalkLess

(* A sequence that has the elements of one and then those of another is    *)
(* their concatenation.                                                    *)
LEMMA ConcatIs ==
  ASSUME NEW S, NEW s \in Seq(S), NEW t \in Seq(S), NEW u \in Seq(S), Len(u) = Len(s) + Len(t),
         \A i \in 1..Len(u) : u[i] = IF i <= Len(s) THEN s[i] ELSE t[i - Len(s)]
  PROVE  s \o t = u
<1>1. s \o t \in Seq(S) /\ Len(s \o t) = Len(u)
  BY ConcatProperties
<1>2. \A i \in 1..Len(u) : (s \o t)[i] = u[i]
  BY ConcatProperties
<1> QED BY <1>1, <1>2, SeqEqual

(* What concatenations of at most three elements are.                      *)
LEMMA ShortConcat ==
  ASSUME NEW a, NEW b, NEW c
  PROVE  <<a>> \o <<b>> = <<a, b>> /\ <<c>> \o <<a, b>> = <<c, a, b>>
<1>1. PICK S : S = {a, b, c}
  BY Zenon
<1>2. PICK l, m, n, s, t : l = <<a>> /\ m = <<b>> /\ n = <<c>> /\ s = <<a, b>> /\ t = <<c, a, b>>
  BY Zenon
<1>3. /\ l \in Seq(S) /\ Len(l) = 1 /\ l[1] = a
      /\ m \in Seq(S) /\ Len(m) = 1 /\ m[1] = b
      /\ n \in Seq(S) /\ Len(n) = 1 /\ n[1] = c
  BY <1>1, <1>2
<1>4. /\ s \in Seq(S) /\ Len(s) = 2 /\ s[1] = a /\ s[2] = b
      /\ t \in Seq(S) /\ Len(t) = 3 /\ t[1] = c /\ t[2] = a /\ t[3] = b
  BY <1>1, <1>2
<1>5. Len(s) = Len(l) + Len(m) /\ \A i \in 1..Len(s) : s[i] = IF i <= Len(l) THEN l[i] ELSE m[i - Len(l)]
  BY <1>3, <1>4
<1>6. Len(t) = Len(n) + Len(s) /\ \A i \in 1..Len(t) : t[i] = IF i <= Len(n) THEN n[i] ELSE s[i - Len(n)]
  BY <1>3, <1>4
<1>7. l \o m = s
  BY <1>3, <1>4, <1>5, ConcatIs, Zenon
<1>8. n \o s = t
  BY <1>3, <1>4, <1>6, ConcatIs, Zenon
<1> QED BY <1>2, <1>7, <1>8, Zenon

(* The entries: none, or the staging directory and one or both files.      *)
LEMMA EntriesAre ==
  ASSUME NEW F, NEW I, F = <<Staging, Dockerfile>>, I = <<Staging, Dockerignore>>
  PROVE  LET W == Requested \cap meta.filled
         IN \/ Entries = <<>> /\ F \notin W /\ I \notin W
            \/ Entries = <<<<Staging>>, F>> /\ F \in W /\ I \notin W
            \/ Entries = <<<<Staging>>, I>> /\ F \notin W /\ I \in W
            \/ Entries = <<<<Staging>>, F, I>> /\ F \in W /\ I \in W
<1>1. Synthetic[1] = F /\ Synthetic[2] = I
  BY Reserved
<1>2. PICK W : W = Requested \cap meta.filled
  BY Zenon
<1>3. PICK S : S = <<Staging>>
  BY Zenon
<1>4. /\ Merged(F) = IF F \in W THEN <<F>> ELSE <<>>
      /\ Merged(I) = IF I \in W THEN <<I>> ELSE <<>>
  BY <1>2 DEF Merged
<1>5. CASE F \notin W /\ I \notin W
  <2>1. Merged(F) \o Merged(I) = <<>>
    BY <1>4, <1>5
  <2>2. Entries = <<>>
    BY <1>1, <2>1 DEF Entries
  <2> QED BY <1>2, <1>5, <2>2
<1>6. CASE F \in W /\ I \notin W
  <2>1. Merged(F) \o Merged(I) = <<F>>
    BY <1>4, <1>6
  <2>2. <<F>> # <<>> /\ <<S>> \o <<F>> = <<S, F>>
    BY ShortConcat, Zenon
  <2>3. Entries = <<S, F>>
    BY <1>1, <1>3, <2>1, <2>2, Zenon DEF Entries
  <2> QED BY <1>2, <1>3, <1>6, <2>3
<1>7. CASE F \notin W /\ I \in W
  <2>1. Merged(F) \o Merged(I) = <<I>>
    BY <1>4, <1>7
  <2>2. <<I>> # <<>> /\ <<S>> \o <<I>> = <<S, I>>
    BY ShortConcat, Zenon
  <2>3. Entries = <<S, I>>
    BY <1>1, <1>3, <2>1, <2>2, Zenon DEF Entries
  <2> QED BY <1>2, <1>3, <1>7, <2>3
<1>8. CASE F \in W /\ I \in W
  <2>1. <<F>> \o <<I>> = <<F, I>> /\ <<S>> \o <<F, I>> = <<S, F, I>>
    BY ShortConcat, Zenon
  <2>2. Merged(F) \o Merged(I) = <<F, I>> /\ <<F, I>> # <<>>
    BY <1>4, <1>8, <2>1, Zenon
  <2>3. Entries = <<S, F, I>>
    BY <1>1, <1>3, <2>1, <2>2, Zenon DEF Entries
  <2> QED BY <1>2, <1>3, <1>8, <2>3
<1> QED BY <1>5, <1>6, <1>7, <1>8

(* The order of the entries is that of a walk, and no tree has them.       *)
LEMMA EntriesOrdered ==
  /\ Entries \in Seq(Seq(Names)) /\ Len(Entries) \in Nat \ {1}
  /\ \A k \in DOMAIN Entries :
       /\ Entries[k] \in Seq(Names) /\ Entries[k] # <<>> /\ Entries[k][1] = Staging
       /\ k = 1 => Entries[k] = <<Staging>>
       /\ k > 1 => /\ Entries[k] # <<Staging>> /\ Entries[k] \in Requested
                   /\ Parents(Entries[k]) = {<<Staging>>}
       /\ \A j \in DOMAIN Entries : j < k => WalkLess(Entries[j], Entries[k]) /\ Entries[j] # Entries[k]
  /\ {Entries[k] : k \in 2..Len(Entries)} = {p \in Range(Synthetic) : p \in Requested \cap meta.filled}
<1>1. PICK F : F = <<Staging, Dockerfile>>
  BY Zenon
<1>2. PICK I : I = <<Staging, Dockerignore>>
  BY Zenon
<1>3. PICK S : S = <<Staging>>
  BY Zenon
<1>4. PICK W : W = Requested \cap meta.filled
  BY Zenon
<1>5. PICK E : E = Entries
  OBVIOUS
<1>6. WalkLess(F, I)
  <2>1. F[1] = I[1] /\ Less(F[2], I[2]) /\ 2 \in DOMAIN F \cap DOMAIN I
    BY <1>1, <1>2, Reserved
  <2> QED BY <2>1 DEF WalkLess
<1>7. /\ S \in Seq(Names) /\ F \in Seq(Names) /\ I \in Seq(Names) /\ F # I /\ S # F /\ S # I
      /\ S # <<>> /\ F # <<>> /\ I # <<>> /\ S[1] = Staging /\ F[1] = Staging /\ I[1] = Staging
      /\ Range(Synthetic) = {F, I}
  BY <1>1, <1>2, <1>3, Reserved, StagingFile
<1>8. /\ WalkLess(S, F) /\ Parents(F) = {S}
      /\ WalkLess(S, I) /\ Parents(I) = {S}
  BY <1>1, <1>2, <1>3, Reserved, StagingFile
<1> DEFINE Good ==
      /\ E \in Seq(Seq(Names)) /\ Len(E) \in Nat \ {1}
      /\ \A k \in DOMAIN E :
           /\ E[k] \in Seq(Names) /\ E[k] # <<>> /\ E[k][1] = Staging
           /\ k = 1 => E[k] = S
           /\ k > 1 => E[k] # S /\ E[k] \in W /\ Parents(E[k]) = {S}
           /\ \A j \in DOMAIN E : j < k => WalkLess(E[j], E[k]) /\ E[j] # E[k]
      /\ {E[k] : k \in 2..Len(E)} = {p \in {F, I} : p \in W}
<1>9. ASSUME E = <<>> /\ F \notin W /\ I \notin W PROVE Good
  BY <1>9
<1>10. ASSUME E = <<S, F>> /\ F \in W /\ I \notin W PROVE Good
  BY <1>7, <1>8, <1>10
<1>11. ASSUME E = <<S, I>> /\ F \notin W /\ I \in W PROVE Good
  BY <1>7, <1>8, <1>11
<1>12. ASSUME E = <<S, F, I>> /\ F \in W /\ I \in W PROVE Good
  BY <1>6, <1>7, <1>8, <1>12
<1>13. \/ E = <<>> /\ F \notin W /\ I \notin W
       \/ E = <<S, F>> /\ F \in W /\ I \notin W
       \/ E = <<S, I>> /\ F \notin W /\ I \in W
       \/ E = <<S, F, I>> /\ F \in W /\ I \in W
  BY <1>1, <1>2, <1>3, <1>4, <1>5, EntriesAre, Zenon
<1> HIDE DEF Good
<1>14. Good
  BY <1>9, <1>10, <1>11, <1>12, <1>13, Zenon
<1> QED BY <1>3, <1>4, <1>5, <1>7, <1>14 DEF Good

(* The same of one entry.                                                  *)
LEMMA EntryAt ==
  ASSUME NEW k \in 1..Len(Entries)
  PROVE  /\ k \in Nat /\ Len(Entries) >= 2 /\ Len(Entries) \in Nat /\ k \in DOMAIN Entries
         /\ Entries[k] \in Seq(Names) /\ Entries[k] # <<>> /\ Entries[k][1] = Staging
         /\ k = 1 => Entries[k] = <<Staging>>
         /\ k > 1 => /\ Entries[k] # <<Staging>> /\ Entries[k] \in Requested
                     /\ Parents(Entries[k]) = {<<Staging>>}
<1>1. /\ Entries \in Seq(Seq(Names)) /\ Len(Entries) \in Nat /\ Len(Entries) # 1
  BY EntriesOrdered, Zenon
<1>2. Len(Entries) >= 2 /\ k \in DOMAIN Entries /\ k \in Nat
  <2>1. PICK L : L = Len(Entries)
    OBVIOUS
  <2>2. DOMAIN Entries = 1..L
    BY <1>1, <2>1, LenProperties
  <2>3. L \in Nat /\ L # 1 /\ k \in 1..L
    BY <1>1, <2>1
  <2>4. L >= 2 /\ k \in Nat
    BY <2>3
  <2> QED BY <2>1, <2>2, <2>3, <2>4
<1> QED BY <1>1, <1>2, EntriesOrdered, Zenon

(* An entry comes before the later ones.                                   *)
LEMMA EntriesInOrder ==
  ASSUME NEW k \in 1..Len(Entries), NEW j \in 1..Len(Entries), j < k
  PROVE  WalkLess(Entries[j], Entries[k]) /\ Entries[j] # Entries[k]
BY EntriesOrdered, EntryAt, Zenon

-----------------------------------------------------------------------------
(***************************************************************************)
(* The filter.                                                             *)
(***************************************************************************)

(* The filter pops until the top of the stack is on the way to p.          *)
LEMMA DepthIs ==
  ASSUME visited \in Seq(Seq(Names)), NEW p
  PROVE  /\ Depth(p) \in 0..Len(visited)
         /\ Depth(p) > 0 => visited[Depth(p)] \in Parents(p)
         /\ \A k \in (Depth(p) + 1)..Len(visited) : visited[k] \notin Parents(p)
<1> DEFINE Out(n) == \A k \in (n + 1)..Len(visited) : visited[k] \notin Parents(p)
           D == {n \in 0..Len(visited) : Out(n)}
<1>1. D \in SUBSET Nat /\ Len(visited) \in D
  OBVIOUS
<1>2. PICK m \in D : \A k \in D : m <= k
  <2> HIDE DEF D
  <2> QED BY <1>1, LeastNumber, Zenon
<1>3. ASSUME m > 0, visited[m] \notin Parents(p) PROVE FALSE
  <2>1. m - 1 \in 0..Len(visited) /\ Out(m - 1)
    BY <1>2, <1>3
  <2>2. m - 1 \in D
    BY <2>1
  <2> HIDE DEF D
  <2>3. m \in Nat /\ m <= m - 1
    BY <1>1, <1>2, <2>2
  <2> QED BY <2>3
<1>4. \E n \in 0..Len(visited) : (n > 0 => visited[n] \in Parents(p)) /\ Out(n)
  BY <1>2, <1>3
<1> QED BY <1>4 DEF Depth

(* The requested files are the only exceptions, and both are in the        *)
(* staging directory.                                                      *)
LEMMA ExceptionsAre ==
  ASSUME meta \in Metas
  PROVE  /\ Exceptions \subseteq Requested /\ (meta.excluded # {} => Exceptions = Requested)
         /\ \A e \in Requested : e \in Seq(Names) /\ e # <<>> /\ e[1] = Staging
         /\ \A p \in Seq(Names) : p # <<>> /\ p[1] # Staging =>
              /\ Excluded(p) <=> p[1] \in meta.excluded
              /\ \A isDir \in BOOLEAN : SkipsDir(p, isDir) <=> isDir /\ Excluded(p)
<1>1. Requested \subseteq Range(Synthetic)
  BY ConstantsOK DEF Requested, Meta
<1>2. \A e \in Requested : e \in Seq(Names) /\ e # <<>> /\ e[1] = Staging
  BY <1>1, Reserved, StagingFile, Zenon
<1>3. Exceptions \subseteq Requested /\ (meta.excluded # {} => Exceptions = Requested)
  BY DEF Exceptions
<1>4. ASSUME NEW p \in Seq(Names), p # <<>>, p[1] # Staging
      PROVE  /\ Excluded(p) <=> p[1] \in meta.excluded
             /\ \A isDir \in BOOLEAN : SkipsDir(p, isDir) <=> isDir /\ Excluded(p)
  <2>1. p \notin Exceptions
    BY <1>2, <1>3, <1>4
  <2>2. ASSUME NEW e \in Exceptions, p \in Parents(e) PROVE FALSE
    <3>1. e \in Seq(Names) /\ e[1] = Staging
      BY <1>2, <1>3
    <3>2. p[1] = e[1]
      BY <1>4, <2>2, <3>1, ParentsAre
    <3> QED BY <1>4, <3>1, <3>2
  <2> QED BY <2>1, <2>2 DEF Excluded, SkipsDir
<1> QED BY <1>2, <1>3, <1>4

(* A path of the tree: what is popped leaves a stack of directories that   *)
(* were all passed on, so nothing is announced late, and an excluded       *)
(* directory is not pushed.                                                *)
LEMMA FilterTree ==
  ASSUME TypeInv, StackInv, NEW p \in Seq(Names), p # <<>>, p[1] # Staging,
         NEW isDir \in BOOLEAN, Filter(p, isDir)
  PROVE  /\ visited' \in Seq(Seq(Names)) /\ called' = Len(visited')
         /\ \A k \in DOMAIN visited' :
              visited'[k] # <<>> /\ (visited'[k] \in Range(announced) \/ (~Excluded(p) /\ visited'[k] = p))
         /\ announced' = IF Excluded(p) THEN announced ELSE Append(announced, p)
<1> DEFINE on == SubSeq(visited, 1, Depth(p))
<1>1. visited \in Seq(Seq(Names)) /\ called \in 0..Len(visited) /\ announced \in Seq(Seq(Names)) /\ meta \in Metas
  BY DEF TypeInv
<1>2. /\ Depth(p) \in 0..Len(visited)
      /\ Depth(p) > 0 => visited[Depth(p)] \in Parents(p)
  BY <1>1, DepthIs
<1>3. Depth(p) <= called
  <2>1. SUFFICES ASSUME called < Depth(p) PROVE FALSE
    BY <1>1, <1>2
  <2>2. visited = <<<<Staging>>>>
    BY <1>1, <1>2, <2>1 DEF StackInv
  <2>3. Depth(p) = 1 /\ visited[1] = <<Staging>>
    BY <1>1, <1>2, <2>1, <2>2
  <2>4. <<Staging>> \in Parents(p)
    BY <1>2, <2>3
  <2>5. <<Staging>> \in Seq(Names) /\ <<Staging>> # <<>> /\ <<Staging>>[1] = Staging
    BY Reserved
  <2>6. p[1] = <<Staging>>[1]
    BY <2>4, <2>5, ParentsAre
  <2> QED BY <2>5, <2>6
<1>4. on \in Seq(Seq(Names)) /\ Len(on) = Depth(p) /\ \A k \in 1..Depth(p) : on[k] = visited[k]
  BY <1>1, <1>2, SubSeqProperties
<1>5. \A k \in 1..Depth(p) : on[k] # <<>> /\ on[k] \in Range(announced)
  <2>1. \A k \in 1..Depth(p) : k \in DOMAIN visited /\ k \in 1..called
    BY <1>1, <1>2, <1>3
  <2> QED BY <1>4, <2>1, Zenon DEF StackInv
<1>6. SkipsDir(p, isDir) <=> isDir /\ Excluded(p)
  BY <1>1, ExceptionsAre
<1> HIDE DEF on
<1>7. CASE Excluded(p)
  <2>1. visited' = on /\ called' = Depth(p) /\ announced' = announced
    BY <1>1, <1>2, <1>3, <1>6, <1>7 DEF Filter, on
  <2>2. DOMAIN visited' = 1..Depth(p) /\ called' = Len(visited')
    BY <1>4, <2>1
  <2> QED BY <1>4, <1>5, <1>7, <2>1, <2>2
<1>8. CASE ~Excluded(p)
  <2>1. /\ visited' = IF isDir THEN Append(on, p) ELSE on
        /\ called' = Len(visited')
        /\ announced' = announced \o SubSeq(on, called + 1, Depth(p)) \o <<p>>
    BY <1>6, <1>8, Zenon DEF Filter, on
  <2>2. SubSeq(on, called + 1, Depth(p)) = <<>>
    BY <1>1, <1>2, <1>3, <1>4, SubSeqEmpty
  <2>3. announced' = Append(announced, p)
    <3>1. announced \o <<>> = announced
      BY <1>1, ConcatEmptySeq
    <3>2. announced' = announced \o <<p>>
      BY <2>1, <2>2, <3>1, Zenon
    <3> QED BY <1>1, <3>2, AppendIsConcat, Zenon
  <2>4. CASE isDir
    <3>1. /\ visited' \in Seq(Seq(Names)) /\ Len(visited') = Depth(p) + 1 /\ visited'[Depth(p) + 1] = p
          /\ \A k \in 1..Depth(p) : visited'[k] = on[k]
      <4>1. visited' = Append(on, p)
        BY <2>1, <2>4
      <4> QED BY <1>4, <4>1, AppendProperties
    <3>2. \A k \in DOMAIN visited' : k \in 1..Depth(p) \/ k = Depth(p) + 1
      BY <1>2, <3>1
    <3> QED BY <1>5, <1>8, <2>1, <2>3, <3>1, <3>2, Zenon
  <2>5. CASE ~isDir
    <3>1. DOMAIN visited' = 1..Depth(p) /\ visited' = on
      BY <1>4, <2>1, <2>5
    <3> QED BY <1>4, <1>5, <1>8, <2>1, <2>3, <3>1, Zenon
  <2> QED BY <2>4, <2>5
<1> QED BY <1>7, <1>8

(* The staging directory itself: it is pushed, passed on unless it is      *)
(* excluded, and never skipped, for the exceptions are below it.           *)
LEMMA FilterStaging ==
  ASSUME TypeInv, StackInv, next = 1, Len(Entries) > 0, Filter(Entries[next], next = 1)
  PROVE  /\ Entries[next] = <<Staging>> /\ ~SkipsDir(Entries[next], next = 1)
         /\ visited' = <<<<Staging>>>>
         /\ \/ called' = 0 /\ announced' = announced
            \/ called' = 1 /\ announced' = Append(announced, <<Staging>>)
<1>1. visited \in Seq(Seq(Names)) /\ called \in 0..Len(visited) /\ announced \in Seq(Seq(Names)) /\ meta \in Metas
  BY DEF TypeInv
<1>2. PICK s : s = <<Staging>>
  BY Zenon
<1>3. s \in Seq(Names) /\ Len(s) = 1
  BY <1>2, Reserved
<1>4. Entries[next] = s /\ Len(Entries) >= 2 /\ Entries[2] \in Requested /\ s \in Parents(Entries[2])
  <2>1. Len(Entries) \in Nat
    BY EntriesOrdered, Zenon
  <2>2. 1 \in 1..Len(Entries)
    BY <2>1
  <2>3. Len(Entries) >= 2 /\ Entries[1] = <<Staging>>
    BY <2>2, EntryAt
  <2>4. 2 \in 1..Len(Entries) /\ 2 > 1
    BY <2>1, <2>3
  <2>5. Entries[2] \in Requested /\ <<Staging>> \in Parents(Entries[2])
    BY <2>4, EntryAt, Zenon
  <2> QED BY <1>2, <2>3, <2>5
<1>5. ~SkipsDir(s, next = 1)
  <2>1. Excluded(s) => Exceptions = Requested
    BY <1>1, ExceptionsAre DEF Excluded
  <2> QED BY <1>4, <2>1 DEF SkipsDir
<1>6. Depth(s) = 0
  <2>1. /\ Depth(s) \in 0..Len(visited)
        /\ Depth(s) > 0 => visited[Depth(s)] \in Parents(s)
    BY <1>1, DepthIs
  <2>2. SUFFICES ASSUME Depth(s) > 0 PROVE FALSE
    BY <2>1
  <2>3. PICK v : v = visited[Depth(s)]
    OBVIOUS
  <2>4. v \in Seq(Names) /\ v # <<>> /\ v \in Parents(s)
    BY <1>1, <2>1, <2>2, <2>3 DEF StackInv
  <2>5. Len(v) < Len(s) /\ 1 \in DOMAIN v
    BY <1>3, <2>4, ParentsAre
  <2> QED BY <1>3, <2>4, <2>5
<1>7. SubSeq(visited, 1, 0) = <<>>
  BY <1>1, SubSeqEmpty
<1>8. Append(<<>>, s) = <<s>> /\ Len(<<s>>) = 1
  OBVIOUS
<1>9. visited' = <<s>>
  BY <1>4, <1>5, <1>6, <1>7, <1>8, Zenon DEF Filter
<1>10. CASE Excluded(s)
  <2>1. called' = 0 /\ announced' = announced
    BY <1>1, <1>4, <1>6, <1>10 DEF Filter
  <2> QED BY <1>2, <1>4, <1>5, <1>9, <2>1
<1>11. CASE ~Excluded(s)
  <2>1. called' = 1 /\ announced' = announced \o SubSeq(<<>>, called + 1, 0) \o <<s>>
    BY <1>4, <1>6, <1>7, <1>8, <1>9, <1>11, Zenon DEF Filter
  <2>2. SubSeq(<<>>, called + 1, 0) = <<>>
    BY <1>1, SubSeqEmpty
  <2>3. announced \o <<>> = announced
    BY <1>1, ConcatEmptySeq
  <2>4. announced' = Append(announced, s)
    <3>1. announced \o <<s>> = Append(announced, s)
      BY <1>1, <1>3, AppendIsConcat
    <3> QED BY <2>1, <2>2, <2>3, <3>1, Zenon
  <2> QED BY <1>2, <1>4, <1>5, <1>9, <2>1, <2>4, Zenon
<1> QED BY <1>10, <1>11

(* A synthetic file: no pattern excludes it, and it is passed on after its *)
(* directory, if that is on the stack and has not been passed on.          *)
LEMMA FilterFile ==
  ASSUME TypeInv, StackInv, next > 1, next <= Len(Entries), Filter(Entries[next], next = 1)
  PROVE  /\ ~SkipsDir(Entries[next], next = 1)
         /\ visited' \in Seq(Seq(Names)) /\ called' = Len(visited')
         /\ \A k \in DOMAIN visited' : k \in DOMAIN visited /\ visited'[k] = visited[k]
         /\ visited = <<<<Staging>>>> => visited' = visited
         /\ announced' = IF called < Len(visited)
                         THEN Append(Append(announced, <<Staging>>), Entries[next])
                         ELSE Append(announced, Entries[next])
<1>1. /\ visited \in Seq(Seq(Names)) /\ called \in 0..Len(visited) /\ announced \in Seq(Seq(Names))
      /\ meta \in Metas /\ next \in Nat
  BY EntriesOrdered DEF TypeInv
<1>2. PICK p : p = Entries[next]
  OBVIOUS
<1>3. p \in Seq(Names) /\ p \in Requested /\ <<Staging>> \in Parents(p)
  <2>1. next \in 1..Len(Entries)
    BY <1>1, EntriesOrdered
  <2> QED BY <1>2, <2>1, EntryAt, Zenon
<1>4. ~Excluded(p) /\ ~SkipsDir(p, next = 1)
  BY <1>1, <1>3, ExceptionsAre DEF Excluded, SkipsDir
<1>5. /\ Depth(p) \in 0..Len(visited)
      /\ \A k \in (Depth(p) + 1)..Len(visited) : visited[k] \notin Parents(p)
  BY <1>1, DepthIs
<1>6. PICK on : on = SubSeq(visited, 1, Depth(p))
  BY Zenon
<1>7. on \in Seq(Seq(Names)) /\ Len(on) = Depth(p) /\ \A k \in 1..Depth(p) : on[k] = visited[k]
  BY <1>1, <1>5, <1>6, SubSeqProperties
<1>8. /\ visited' = on /\ called' = Len(visited')
      /\ announced' = announced \o SubSeq(on, called + 1, Depth(p)) \o <<p>>
  <2>1. ~(next = 1)
    BY <1>1
  <2>2. visited' = on
    BY <1>2, <1>4, <1>6, <2>1, Zenon DEF Filter
  <2> QED BY <1>2, <1>4, <1>6, <2>2, Zenon DEF Filter
<1>9. visited = <<<<Staging>>>> => Depth(p) = 1 /\ on = visited
  <2> SUFFICES ASSUME visited = <<<<Staging>>>> PROVE Depth(p) = 1 /\ on = visited
    OBVIOUS
  <2>1. Len(visited) = 1 /\ visited[1] = <<Staging>>
    OBVIOUS
  <2>2. Depth(p) = 1
    BY <1>3, <1>5, <2>1
  <2> QED BY <1>1, <1>6, <2>1, <2>2, SubSeqFull, Zenon
<1>10. \A k \in DOMAIN visited' : k \in DOMAIN visited /\ visited'[k] = visited[k]
  <2>1. DOMAIN visited' = 1..Depth(p) /\ 1..Depth(p) \subseteq DOMAIN visited
    BY <1>1, <1>5, <1>7, <1>8
  <2> QED BY <1>7, <1>8, <2>1
<1>11. CASE called < Len(visited)
  <2>1. visited = <<<<Staging>>>>
    BY <1>11 DEF StackInv
  <2>2. called = 0
    BY <1>1, <1>11, <2>1
  <2>3. SubSeq(on, called + 1, Depth(p)) = <<<<Staging>>>>
    <3>1. Len(visited) = 1 /\ called + 1 = 1
      BY <2>1, <2>2
    <3>2. SubSeq(visited, 1, 1) = visited
      BY <1>1, <3>1, SubSeqFull
    <3> QED BY <1>9, <2>1, <3>1, <3>2
  <2>4. announced' = Append(Append(announced, <<Staging>>), p)
    <3>1. PICK a : a = Append(announced, <<Staging>>)
      BY Zenon
    <3>2. a \in Seq(Seq(Names)) /\ a = announced \o <<<<Staging>>>>
      BY <1>1, <3>1, Reserved, AppendIsConcat, AppendProperties
    <3>3. a \o <<p>> = Append(a, p)
      BY <1>3, <3>2, AppendIsConcat
    <3> QED BY <1>8, <2>3, <3>1, <3>2, <3>3, Zenon
  <2> QED BY <1>2, <1>4, <1>7, <1>8, <1>9, <1>10, <1>11, <2>4, Zenon
<1>12. CASE called >= Len(visited)
  <2>1. SubSeq(on, called + 1, Depth(p)) = <<>>
    BY <1>1, <1>5, <1>7, <1>12, SubSeqEmpty
  <2>2. announced \o <<>> = announced
    BY <1>1, ConcatEmptySeq
  <2>3. announced' = Append(announced, p)
    <3>1. announced \o <<p>> = Append(announced, p)
      BY <1>1, <1>3, AppendIsConcat
    <3> QED BY <1>8, <2>1, <2>2, <3>1, Zenon
  <2>4. ~(called < Len(visited))
    BY <1>1, <1>12
  <2> QED BY <1>2, <1>4, <1>7, <1>8, <1>9, <1>10, <2>3, <2>4, Zenon
<1> QED BY <1>1, <1>11, <1>12

-----------------------------------------------------------------------------
(***************************************************************************)
(* Every step preserves the invariants.                                    *)
(***************************************************************************)

(* What is defined from the request alone changes with it only.            *)
LEMMA SameRequest ==
  ASSUME meta' = meta PROVE Entries' = Entries /\ Requested' = Requested
<1>1. Requested' = Requested
  BY DEF Requested
<1>2. Merged(Synthetic[1])' = Merged(Synthetic[1]) /\ Merged(Synthetic[2])' = Merged(Synthetic[2])
  BY <1>1 DEF Merged, Synthetic
<1> QED BY <1>1, <1>2 DEF Entries

(* And the names at which the two orders differ, with it and the tree only. *)
LEMMA SameTree ==
  ASSUME meta' = meta, tree' = tree PROVE Interposed' = Interposed
BY SameRequest DEF Interposed

(* Before the request nothing is there.                                    *)
LEMMA InitInv == Init => IInv
<1> SUFFICES ASSUME Init PROVE IInv
  OBVIOUS
<1>1. DOMAIN tree = {} /\ DOMAIN announced = {} /\ DOMAIN visited = {} /\ Len(visited) = 0
  BY DEF Init
<1>2. TypeInv
  <2>1. Len(Entries) \in Nat
    BY EntriesOrdered, Zenon
  <2>2. next \in 1..(Len(Entries) + 1) /\ called \in 0..Len(visited)
    BY <1>1, <2>1 DEF Init
  <2> QED BY <1>1, <2>2 DEF Init, TypeInv
<1>3. TreeInv
  BY <1>1 DEF Init, TreeInv, Unpacked, Walked
<1>4. StackInv
  BY <1>1 DEF Init, StackInv
<1>5. SeenInv /\ OrderInv /\ UnpacksExactly
  BY DEF Init, SeenInv, OrderInv, UnpacksExactly, Walked
<1>6. ReceiverAccepts
  BY <1>1 DEF ReceiverAccepts
<1> QED BY <1>2, <1>3, <1>4, <1>5, <1>6 DEF IInv

(* The steps that change nothing but the phase.                            *)
LEMMA PhaseStep ==
  ASSUME IInv, WalkRequest \/ WalkDone \/ WalkFails \/ UNCHANGED vars
  PROVE  IInv'
<1>1. /\ meta' = meta /\ members' = members /\ tree' = tree /\ todo' = todo /\ next' = next
      /\ visited' = visited /\ called' = called /\ announced' = announced
  BY DEF WalkRequest, WalkDone, WalkFails, vars, walkVars
<1>2. Entries' = Entries /\ Interposed' = Interposed
  BY <1>1, SameRequest, SameTree
<1>3. \/ phase = "request" /\ phase' \in {"unpack", "failed"}
      \/ phase = "walk" /\ phase' = "done" /\ todo = {} /\ next > Len(Entries)
      \/ phase' = "failed" /\ phase \in {"unpack", "walk"}
      \/ phase' = phase
  BY DEF WalkRequest, WalkDone, WalkFails, vars
<1>4. TypeInv'
  BY <1>1, <1>2, <1>3 DEF IInv, TypeInv
<1>5. TreeInv'
  <2>1. DOMAIN <<>> = {}
    OBVIOUS
  <2> QED BY <1>1, <1>3, <2>1 DEF IInv, TreeInv, Unpacked, Walked
<1>6. StackInv'
  BY <1>1 DEF IInv, StackInv
<1>7. Seen' = Seen
  BY <1>1, <1>2 DEF Seen
<1>8. SeenInv'
  BY <1>1, <1>2, <1>3, <1>7 DEF IInv, SeenInv, Walked
<1>9. OrderInv'
  BY <1>1, <1>2, <1>3 DEF IInv, OrderInv, Walked
<1>10. UnpacksExactly'
  <2>1. CASE phase = "request"
    <3>1. members' = <<>> /\ DOMAIN members' = {} /\ DOMAIN tree' = {}
      BY <1>1, <2>1 DEF IInv, TreeInv
    <3> QED BY <3>1 DEF UnpacksExactly
  <2>2. CASE phase # "request"
    <3>1. phase' \in {"unpack", "walk", "done"} => phase \in {"unpack", "walk", "done"}
      BY <1>3, <2>2
    <3> QED BY <1>1, <3>1 DEF IInv, UnpacksExactly
  <2> QED BY <2>1, <2>2
<1>11. ReceiverAccepts'
  BY <1>1, <1>2 DEF IInv, ReceiverAccepts
<1> QED BY <1>4, <1>5, <1>6, <1>8, <1>9, <1>10, <1>11 DEF IInv

(* What a member that is accepted adds to the tree.                        *)
LEMMA MemberAdded ==
  ASSUME IInv, phase = "unpack", NEW m \in Member, Accepts(m),
         tree' = [p \in DOMAIN tree \cup Parents(m.path) \cup {m.path} |->
                    IF p \in DOMAIN tree THEN tree[p] ELSE IF p = m.path THEN Node(m) ELSE Dir]
  PROVE  /\ DOMAIN tree' = DOMAIN tree \cup Parents(m.path) \cup {m.path}
         /\ DOMAIN tree' \subseteq Seq(Names)
         /\ \A p \in DOMAIN tree : tree'[p] = tree[p]
         /\ \A p \in Parents(m.path) : tree'[p] = Dir
         /\ \A p \in DOMAIN tree' : p # <<>> /\ p[1] # Staging
         /\ tree'[m.path] \in [type : {"dir", "reg", "symlink"}, data : Nat]
         /\ m.type = "dir" => tree'[m.path] = Dir
         /\ m.type = "link" => m.to \in DOMAIN tree /\ tree'[m.path] = tree[m.to]
         /\ m.type \notin {"dir", "link"} => tree'[m.path] = [type |-> m.type, data |-> Len(members) + 1]
         /\ tree'[m.path].type = "dir" => tree'[m.path] = Dir
<1>1. m.path \in Seq(Names) /\ m.type \in {"dir", "reg", "symlink", "other", "link"}
  BY ConstantsOK DEF Member
<1>2. m.path # <<>> /\ m.path[1] # Staging
  BY DEF Accepts, TarTarget
<1>3. \A q \in Parents(m.path) : q \in Seq(Names) /\ q # <<>> /\ q[1] # Staging /\ q # m.path
  <2> SUFFICES ASSUME NEW q \in Parents(m.path)
               PROVE  q \in Seq(Names) /\ q # <<>> /\ q[1] # Staging /\ q # m.path
    OBVIOUS
  <2>1. q \in Seq(Names) /\ q # <<>> /\ q[1] = m.path[1] /\ Len(q) < Len(m.path)
    BY <1>1, ParentsAre
  <2>2. q # m.path
    BY <2>1, <1>1
  <2> QED BY <1>2, <2>1, <2>2
<1>4. DOMAIN tree' = DOMAIN tree \cup Parents(m.path) \cup {m.path}
  OBVIOUS
<1>5. \A p \in DOMAIN tree : tree'[p] = tree[p]
  OBVIOUS
<1>6. DOMAIN tree \subseteq Seq(Names) /\ \A p \in DOMAIN tree : p # <<>> /\ p[1] # Staging /\ (tree[p].type = "dir" => tree[p] = Dir)
  BY DEF IInv, TypeInv, TreeInv
<1>7. \A p \in DOMAIN tree : tree[p] \in [type : {"dir", "reg", "symlink"}, data : Nat]
  BY DEF IInv, TypeInv
<1>8. ASSUME NEW p \in Parents(m.path) PROVE tree'[p] = Dir
  <2>1. CASE p \in DOMAIN tree
    <3>1. PathParent(m.path)
      BY DEF Accepts, Directory, NewPath
    <3>2. tree[p].type = "dir"
      BY <2>1, <3>1 DEF PathParent
    <3> QED BY <1>5, <1>6, <2>1, <3>2
  <2>2. CASE p \notin DOMAIN tree
    BY <1>3, <2>2
  <2> QED BY <2>1, <2>2
<1>9. m.path \notin DOMAIN tree => tree'[m.path] = Node(m)
  OBVIOUS
<1>10. Len(members) + 1 \in Nat
  BY DEF IInv, TypeInv
<1>11. Dir \in [type : {"dir", "reg", "symlink"}, data : Nat] /\ Dir.type = "dir"
  BY DEF Dir
<1>12. CASE m.type = "dir"
  <2>1. tree'[m.path] = Dir
    <3>1. CASE m.path \in DOMAIN tree
      BY <1>5, <1>6, <1>12, <3>1 DEF Accepts, Directory
    <3>2. CASE m.path \notin DOMAIN tree
      BY <1>9, <1>12, <3>2 DEF Node
    <3> QED BY <3>1, <3>2
  <2> QED BY <1>1, <1>2, <1>3, <1>4, <1>5, <1>6, <1>8, <1>11, <1>12, <2>1
<1>13. CASE m.type = "link"
  <2>1. m.to \in DOMAIN tree /\ tree[m.to].type = "reg" /\ m.path \notin DOMAIN tree
    BY <1>13 DEF Accepts, NewPath
  <2>2. tree'[m.path] = tree[m.to]
    BY <1>9, <1>13, <2>1 DEF Node
  <2> QED BY <1>1, <1>2, <1>3, <1>4, <1>5, <1>6, <1>7, <1>8, <1>13, <2>1, <2>2
<1>14. CASE m.type \notin {"dir", "link"}
  <2>1. m.type \in {"reg", "symlink"} /\ m.path \notin DOMAIN tree
    BY <1>14 DEF Accepts, NewPath
  <2>2. tree'[m.path] = [type |-> m.type, data |-> Len(members) + 1]
    BY <1>9, <1>14, <2>1 DEF Node
  <2> QED BY <1>1, <1>2, <1>3, <1>4, <1>5, <1>6, <1>8, <1>10, <1>14, <2>1, <2>2
<1> QED BY <1>12, <1>13, <1>14

(* unpackTar: the loop.                                                    *)
LEMMA UnpackStep ==
  ASSUME IInv, NEW m \in Member, UnpackMember(m)
  PROVE  IInv'
<1>1. /\ phase = "unpack" /\ members' = Append(members, m) /\ meta' = meta /\ todo' = todo /\ next' = next
      /\ visited' = visited /\ called' = called /\ announced' = announced
  BY DEF UnpackMember, walkVars
<1>2. Entries' = Entries
  BY <1>1, SameRequest
<1>3. todo = {} /\ next = 1 /\ visited = <<>> /\ called = 0 /\ announced = <<>>
  BY <1>1 DEF IInv, TypeInv
<1>4. /\ members \in Seq(Member) /\ members' \in Seq(Member) /\ Len(members') = Len(members) + 1
      /\ members'[Len(members) + 1] = m /\ \A k \in 1..Len(members) : members'[k] = members[k]
      /\ Len(members) \in Nat
  BY <1>1, AppendProperties DEF IInv, TypeInv
<1>5. DOMAIN members = 1..Len(members) /\ \A k \in DOMAIN members' : k \in DOMAIN members \/ k = Len(members) + 1
  BY <1>4
<1>6. StackInv'
  BY <1>1, <1>3 DEF StackInv
<1>7. ReceiverAccepts'
  BY <1>1, <1>3 DEF ReceiverAccepts
<1>8. CASE ~Accepts(m)
  <2>1. tree' = tree /\ phase' = "failed"
    BY <1>8 DEF UnpackMember
  <2>2. TypeInv'
    BY <1>1, <1>2, <1>3, <1>4, <2>1 DEF IInv, TypeInv
  <2>3. TreeInv'
    BY <1>1, <2>1 DEF IInv, TreeInv, Unpacked, Walked
  <2>4. SeenInv' /\ OrderInv' /\ UnpacksExactly'
    BY <2>1 DEF SeenInv, OrderInv, UnpacksExactly, Walked
  <2> QED BY <1>6, <1>7, <2>2, <2>3, <2>4 DEF IInv
<1>9. CASE Accepts(m)
  <2>1. phase' = "unpack"
    BY <1>1, <1>9 DEF UnpackMember
  <2>2. tree' = [p \in DOMAIN tree \cup Parents(m.path) \cup {m.path} |->
                   IF p \in DOMAIN tree THEN tree[p] ELSE IF p = m.path THEN Node(m) ELSE Dir]
    BY <1>9 DEF UnpackMember
  <2>3. /\ DOMAIN tree' = DOMAIN tree \cup Parents(m.path) \cup {m.path}
        /\ DOMAIN tree' \subseteq Seq(Names)
        /\ \A p \in DOMAIN tree : tree'[p] = tree[p]
        /\ \A p \in Parents(m.path) : tree'[p] = Dir
        /\ \A p \in DOMAIN tree' : p # <<>> /\ p[1] # Staging
    BY <1>1, <1>9, <2>2, MemberAdded, Zenon
  <2>4. /\ tree'[m.path] \in [type : {"dir", "reg", "symlink"}, data : Nat]
        /\ m.type = "dir" => tree'[m.path] = Dir
        /\ m.type = "link" => m.to \in DOMAIN tree /\ tree'[m.path] = tree[m.to]
        /\ m.type \notin {"dir", "link"} => tree'[m.path] = [type |-> m.type, data |-> Len(members) + 1]
        /\ tree'[m.path].type = "dir" => tree'[m.path] = Dir
    BY <1>1, <1>9, <2>2, MemberAdded, Zenon
  <2>5. Dir \in [type : {"dir", "reg", "symlink"}, data : Nat] /\ Dir.type = "dir"
    BY DEF Dir
  <2>6. TypeInv'
    <3>1. ASSUME NEW p \in DOMAIN tree' PROVE tree'[p] \in [type : {"dir", "reg", "symlink"}, data : Nat]
      <4>1. CASE p \in DOMAIN tree
        BY <2>3, <4>1 DEF IInv, TypeInv
      <4> QED BY <2>3, <2>4, <2>5, <4>1
    <3> QED BY <1>1, <1>2, <1>3, <1>4, <2>1, <2>3, <3>1 DEF IInv, TypeInv
  <2>7. ASSUME NEW p \in DOMAIN tree', NEW q \in Parents(p)
        PROVE  q \in DOMAIN tree' /\ tree'[q].type = "dir"
    <3>1. CASE p \in DOMAIN tree
      <4>1. q \in DOMAIN tree /\ tree[q].type = "dir"
        BY <3>1 DEF IInv, TreeInv
      <4> QED BY <2>3, <4>1
    <3>2. CASE p \in Parents(m.path) \/ p = m.path
      <4>1. m.path \in Seq(Names)
        BY <2>3
      <4>2. Parents(p) \subseteq Parents(m.path)
        BY <3>2, <4>1, ParentsAre
      <4> QED BY <2>3, <2>5, <4>2
    <3> QED BY <2>3, <3>1, <3>2
  <2>8. ASSUME NEW p \in DOMAIN tree', tree'[p].type = "dir" PROVE tree'[p] = Dir
    <3>1. CASE p \in DOMAIN tree
      BY <2>3, <2>8, <3>1 DEF IInv, TreeInv
    <3> QED BY <2>3, <2>4, <2>8, <3>1
  <2>9. ASSUME NEW k \in DOMAIN members'
        PROVE  /\ members'[k].path \in DOMAIN tree'
               /\ members'[k].type = "link" => members'[k].to \in DOMAIN tree'
    <3>1. CASE k \in DOMAIN members
      <4>1. members[k].path \in DOMAIN tree /\ (members[k].type = "link" => members[k].to \in DOMAIN tree)
        BY <1>1, <3>1 DEF IInv, TreeInv, Unpacked
      <4> QED BY <1>4, <1>5, <2>3, <3>1, <4>1
    <3> QED BY <1>4, <1>5, <2>3, <2>4, <3>1
  <2>10. TreeInv'
    BY <2>1, <2>3, <2>7, <2>8, <2>9 DEF TreeInv, Walked
  <2>11. ASSUME NEW k \in DOMAIN members'
         PROVE  /\ members'[k].type = "dir" => tree'[members'[k].path] = Dir
                /\ members'[k].type = "link" => tree'[members'[k].path] = tree'[members'[k].to]
                /\ members'[k].type \notin {"dir", "link"} =>
                     tree'[members'[k].path] = [type |-> members'[k].type, data |-> k]
    <3>1. CASE k \in DOMAIN members
      <4>1. members[k].path \in DOMAIN tree /\ (members[k].type = "link" => members[k].to \in DOMAIN tree)
        BY <1>1, <3>1 DEF IInv, TreeInv, Unpacked
      <4>2. /\ members[k].type = "dir" => tree[members[k].path] = Dir
            /\ members[k].type = "link" => tree[members[k].path] = tree[members[k].to]
            /\ members[k].type \notin {"dir", "link"} =>
                 tree[members[k].path] = [type |-> members[k].type, data |-> k]
        BY <1>1, <3>1 DEF IInv, UnpacksExactly
      <4>3. members'[k] = members[k]
        BY <1>4, <1>5, <3>1
      <4> QED BY <2>3, <4>1, <4>2, <4>3
    <3>2. CASE k = Len(members) + 1
      BY <1>4, <2>3, <2>4, <3>2
    <3> QED BY <1>5, <3>1, <3>2
  <2>12. ASSUME NEW p \in DOMAIN tree' \ {<<Marker>>}
         PROVE  \/ \E k \in DOMAIN members' : members'[k].path = p
                \/ tree'[p] = Dir /\ \E q \in DOMAIN tree' : p \in Parents(q)
    <3>1. CASE p \in DOMAIN tree
      <4>1. \/ \E k \in DOMAIN members : members[k].path = p
            \/ tree[p] = Dir /\ \E q \in DOMAIN tree : p \in Parents(q)
        BY <1>1, <3>1 DEF IInv, UnpacksExactly
      <4>2. \A k \in DOMAIN members : k \in DOMAIN members' /\ members'[k] = members[k]
        BY <1>4, <1>5
      <4> QED BY <2>3, <3>1, <4>1, <4>2
    <3>2. CASE p \in Parents(m.path)
      BY <2>3, <3>2
    <3>3. CASE p = m.path
      BY <1>4, <3>3
    <3> QED BY <2>3, <3>1, <3>2, <3>3
  <2>13. UnpacksExactly'
    BY <2>11, <2>12 DEF UnpacksExactly
  <2>14. SeenInv' /\ OrderInv'
    BY <2>1 DEF SeenInv, OrderInv, Walked
  <2> QED BY <1>6, <1>7, <2>6, <2>10, <2>13, <2>14 DEF IInv
<1> QED BY <1>8, <1>9

(* The completion marker.                                                  *)
LEMMA PublishStep ==
  ASSUME IInv, Publish
  PROVE  IInv'
<1>1. /\ phase = "unpack" /\ members' = members /\ meta' = meta /\ next' = next
      /\ visited' = visited /\ called' = called /\ announced' = announced
  BY DEF Publish
<1>2. CASE <<Marker>> \in DOMAIN tree
  <2>1. WalkFails
    BY <1>1, <1>2 DEF Publish, WalkFails, walkVars
  <2> QED BY <2>1, PhaseStep
<1>3. CASE <<Marker>> \notin DOMAIN tree
  <2>1. /\ phase' = "walk" /\ todo' = DOMAIN tree
        /\ tree' = [p \in DOMAIN tree \cup {<<Marker>>} |->
                      IF p \in DOMAIN tree THEN tree[p] ELSE [type |-> "reg", data |-> 0]]
    BY <1>3 DEF Publish
  <2>2. PICK mark : mark = <<Marker>>
    BY Zenon
  <2>3. mark \in Seq(Names) /\ Len(mark) = 1 /\ mark # <<>> /\ mark[1] # Staging
    BY <2>2, Reserved
  <2>4. Parents(mark) = {}
    BY <2>3 DEF Parents
  <2>5. /\ DOMAIN tree' = DOMAIN tree \cup {mark} /\ mark \notin DOMAIN tree
        /\ tree'[mark] = [type |-> "reg", data |-> 0]
        /\ \A p \in DOMAIN tree : tree'[p] = tree[p]
    BY <1>3, <2>1, <2>2
  <2>6. Entries' = Entries
    BY <1>1, SameRequest
  <2>7. next = 1 /\ visited = <<>> /\ called = 0 /\ announced = <<>>
    BY <1>1 DEF IInv, TypeInv
  <2>8. [type |-> "reg", data |-> 0] \in [type : {"dir", "reg", "symlink"}, data : Nat]
    OBVIOUS
  <2>9. TypeInv'
    <3>1. \A p \in DOMAIN tree' : tree'[p] \in [type : {"dir", "reg", "symlink"}, data : Nat]
      BY <2>5, <2>8 DEF IInv, TypeInv
    <3>2. DOMAIN tree' \subseteq Seq(Names) /\ todo' \subseteq DOMAIN tree'
      BY <2>1, <2>3, <2>5 DEF IInv, TypeInv
    <3> QED BY <1>1, <2>1, <2>6, <3>1, <3>2 DEF IInv, TypeInv
  <2>10. TreeInv'
    <3>1. ASSUME NEW p \in DOMAIN tree'
          PROVE  /\ p # <<>> /\ p[1] # Staging
                 /\ \A q \in Parents(p) : q \in DOMAIN tree' /\ tree'[q].type = "dir"
                 /\ tree'[p].type = "dir" => tree'[p] = Dir
      <4>1. CASE p \in DOMAIN tree
        BY <2>5, <4>1 DEF IInv, TreeInv
      <4>2. CASE p = mark
        BY <2>3, <2>4, <2>5, <4>2
      <4> QED BY <2>5, <4>1, <4>2
    <3>2. \A k \in DOMAIN members' :
            /\ members'[k].path \in DOMAIN tree'
            /\ members'[k].type = "link" => members'[k].to \in DOMAIN tree'
      BY <1>1, <2>5 DEF IInv, TreeInv, Unpacked
    <3>3. <<Marker>> \in DOMAIN tree' \ todo' /\ tree'[<<Marker>>].type = "reg"
      BY <2>1, <2>2, <2>5
    <3> QED BY <2>1, <3>1, <3>2, <3>3, Zenon DEF TreeInv
  <2>11. StackInv'
    BY <1>1, <2>7 DEF StackInv
  <2>12. DOMAIN announced' = {} /\ Range(announced') = {}
    BY <1>1, <2>7 DEF Range
  <2>13. SeenInv'
    <3>1. Seen' = {}
      BY <1>1, <2>1, <2>2, <2>5, <2>7 DEF Seen
    <3> QED BY <2>1, <2>12, <3>1 DEF SeenInv, IsInjective
  <2>14. OrderInv'
    BY <1>1, <2>7, <2>12 DEF OrderInv
  <2>15. UnpacksExactly'
    <3>1. ASSUME NEW k \in DOMAIN members'
          PROVE  /\ members'[k].type = "dir" => tree'[members'[k].path] = Dir
                 /\ members'[k].type = "link" => tree'[members'[k].path] = tree'[members'[k].to]
                 /\ members'[k].type \notin {"dir", "link"} =>
                      tree'[members'[k].path] = [type |-> members'[k].type, data |-> k]
      <4>1. members[k].path \in DOMAIN tree /\ (members[k].type = "link" => members[k].to \in DOMAIN tree)
        BY <1>1 DEF IInv, TreeInv, Unpacked
      <4>2. /\ members[k].type = "dir" => tree[members[k].path] = Dir
            /\ members[k].type = "link" => tree[members[k].path] = tree[members[k].to]
            /\ members[k].type \notin {"dir", "link"} =>
                 tree[members[k].path] = [type |-> members[k].type, data |-> k]
        BY <1>1 DEF IInv, UnpacksExactly
      <4> QED BY <1>1, <2>5, <4>1, <4>2
    <3>2. ASSUME NEW p \in DOMAIN tree' \ {<<Marker>>}
          PROVE  \/ \E k \in DOMAIN members' : members'[k].path = p
                 \/ tree'[p] = Dir /\ \E q \in DOMAIN tree' : p \in Parents(q)
      <4>1. p \in DOMAIN tree \ {<<Marker>>}
        BY <2>2, <2>5
      <4>2. \/ \E k \in DOMAIN members : members[k].path = p
            \/ tree[p] = Dir /\ \E q \in DOMAIN tree : p \in Parents(q)
        BY <1>1, <4>1 DEF IInv, UnpacksExactly
      <4> QED BY <1>1, <2>5, <4>1, <4>2
    <3> QED BY <3>1, <3>2 DEF UnpacksExactly
  <2>16. ReceiverAccepts'
    BY <2>12 DEF ReceiverAccepts
  <2> QED BY <2>9, <2>10, <2>11, <2>13, <2>14, <2>15, <2>16 DEF IInv
<1> QED BY <1>2, <1>3

(* Paths with different first names are in the order of these.             *)
LEMMA FirstNames ==
  ASSUME NEW p \in Seq(Names), NEW q \in Seq(Names), p # <<>>, q # <<>>
  PROVE  /\ p[1] \in Names /\ q[1] \in Names
         /\ Less(p[1], q[1]) => WalkLess(p, q)
         /\ p[1] # q[1] /\ WalkLess(p, q) => Less(p[1], q[1])
<1>1. 1 \in DOMAIN p /\ 1 \in DOMAIN q
  OBVIOUS
<1>2. p[1] \in Names /\ q[1] \in Names
  BY <1>1
<1>3. Less(p[1], q[1]) => WalkLess(p, q)
  BY <1>1 DEF WalkLess
<1>4. ASSUME p[1] # q[1], WalkLess(p, q) PROVE Less(p[1], q[1])
  <2>1. p \notin Parents(q)
    BY <1>4, ParentsAre
  <2>2. PICK k \in DOMAIN p \cap DOMAIN q : Less(p[k], q[k]) /\ \A i \in 1..(k - 1) : p[i] = q[i]
    BY <1>4, <2>1 DEF WalkLess
  <2>3. k = 1
    BY <1>4, <2>2
  <2> QED BY <2>2, <2>3
<1> QED BY <1>2, <1>3, <1>4

(* What the receiver asks of the announcements.                            *)
Orderly(a) == \A k \in DOMAIN a :
  /\ k > 1 => WalkLess(a[k - 1], a[k])
  /\ Parents(a[k]) \subseteq Range(a)

(* One more announcement.                                                  *)
LEMMA OneMore ==
  ASSUME NEW a \in Seq(Seq(Names)), NEW x \in Seq(Names)
  PROVE  /\ Append(a, x) \in Seq(Seq(Names)) /\ Range(Append(a, x)) = Range(a) \cup {x}
         /\ Range(a) \subseteq Seq(Names)
         /\ IsInjective(a) /\ x \notin Range(a) => IsInjective(Append(a, x))
         /\ Orderly(a) /\ (\A y \in Range(a) : WalkLess(y, x)) /\ Parents(x) \subseteq Range(a)
              => Orderly(Append(a, x))
<1>1. PICK b : b = Append(a, x)
  BY Zenon
<1>2. PICK n : n = Len(a)
  OBVIOUS
<1>3. /\ n \in Nat /\ DOMAIN a = 1..n /\ b \in Seq(Seq(Names)) /\ Len(b) = n + 1 /\ DOMAIN b = 1..(n + 1)
      /\ b[n + 1] = x /\ \A k \in 1..n : b[k] = a[k]
  BY <1>1, <1>2, AppendProperties
<1>4. Range(b) = Range(a) \cup {x} /\ Range(a) \subseteq Seq(Names)
  <2>1. \A k \in DOMAIN b : k \in DOMAIN a \/ k = n + 1
    BY <1>3
  <2>2. n + 1 \in DOMAIN b /\ \A k \in DOMAIN a : k \in DOMAIN b /\ b[k] = a[k]
    BY <1>3
  <2>3. \A k \in DOMAIN b : b[k] \in Range(a) \cup {x}
    BY <1>3, <2>1 DEF Range
  <2>4. x \in Range(b) /\ \A k \in DOMAIN a : a[k] \in Range(b)
    BY <1>3, <2>2 DEF Range
  <2>5. Range(a) \subseteq Seq(Names)
    BY DEF Range
  <2>6. Range(a) \subseteq Range(b)
    BY <2>4 DEF Range
  <2>7. Range(b) \subseteq Range(a) \cup {x}
    BY <2>3 DEF Range
  <2> QED BY <2>4, <2>5, <2>6, <2>7
<1>5. ASSUME IsInjective(a), x \notin Range(a) PROVE IsInjective(b)
  <2>1. SUFFICES ASSUME NEW i \in DOMAIN b, NEW j \in DOMAIN b, b[i] = b[j] PROVE i = j
    BY DEF IsInjective
  <2>2. CASE i \in 1..n /\ j \in 1..n
    BY <1>3, <1>5, <2>1, <2>2 DEF IsInjective
  <2>3. CASE i = n + 1 /\ j \in 1..n
    BY <1>3, <1>5, <2>1, <2>3 DEF Range
  <2>4. CASE j = n + 1 /\ i \in 1..n
    BY <1>3, <1>5, <2>1, <2>4 DEF Range
  <2> QED BY <1>3, <2>2, <2>3, <2>4
<1>6. ASSUME Orderly(a), \A y \in Range(a) : WalkLess(y, x), Parents(x) \subseteq Range(a)
      PROVE  Orderly(b)
  <2>1. SUFFICES ASSUME NEW k \in DOMAIN b
                 PROVE  /\ k > 1 => WalkLess(b[k - 1], b[k])
                        /\ Parents(b[k]) \subseteq Range(b)
    BY DEF Orderly
  <2>2. CASE k \in 1..n
    <3>1. k > 1 => k - 1 \in 1..n
      BY <1>3, <2>2
    <3>2. b[k] = a[k] /\ (k > 1 => b[k - 1] = a[k - 1])
      BY <1>3, <2>2, <3>1
    <3> QED BY <1>3, <1>4, <1>6, <2>2, <3>2 DEF Orderly
  <2>3. CASE k = n + 1
    <3>1. k > 1 => k - 1 \in DOMAIN a /\ b[k - 1] = a[k - 1]
      BY <1>3, <2>3
    <3>2. k > 1 => b[k - 1] \in Range(a)
      BY <3>1, Zenon DEF Range
    <3> QED BY <1>3, <1>4, <1>6, <2>3, <3>1, <3>2
  <2> QED BY <1>3, <2>2, <2>3
<1> QED BY <1>1, <1>3, <1>4, <1>5, <1>6

(* A path of the tree that is visited while no entry is due: the entries   *)
(* are all behind, or all ahead.                                           *)
LEMMA VisitPlace ==
  ASSUME IInv, phase = "walk", NEW p \in todo, IsFirst(p), ~SyntheticDue, ~Interposed
  PROVE  /\ next \notin 2..Len(Entries)
         /\ \A j \in next..Len(Entries) : WalkLess(p, Entries[j])
<1>1. /\ p \in Seq(Names) /\ p # <<>> /\ p[1] # Staging /\ p \in DOMAIN tree
      /\ next \in Nat /\ next >= 1 /\ Len(Entries) \in Nat
  <2>1. Len(Entries) \in Nat
    BY EntriesOrdered, Zenon
  <2>2. p \in DOMAIN tree /\ next \in 1..(Len(Entries) + 1) /\ DOMAIN tree \subseteq Seq(Names)
    BY DEF IInv, TypeInv
  <2>3. p # <<>> /\ p[1] # Staging
    BY <2>2 DEF IInv, TreeInv
  <2> QED BY <2>1, <2>2, <2>3
<1>2. CASE next > Len(Entries)
  BY <1>1, <1>2
<1>3. CASE next <= Len(Entries)
  <2>1. next \in 1..Len(Entries)
    BY <1>1, <1>3
  <2>2. ~StringLess(Entries[next], p)
    BY <1>3 DEF SyntheticDue
  <2>3. next \in DOMAIN Entries
    BY <2>1, EntryAt
  <2>4. ~WalkLess(Entries[next], p)
    BY <1>1, <2>2, <2>3 DEF Interposed
  <2>5. next = 1
    <3>1. SUFFICES ASSUME next > 1 PROVE FALSE
      BY <1>1
    <3>2. WalkLess(Entries[next], p)
      BY <2>3, <3>1 DEF IInv, OrderInv, Walked
    <3> QED BY <2>4, <3>2
  <2>6. PICK s : s = <<Staging>>
    BY Zenon
  <2>7. s \in Seq(Names) /\ s # <<>> /\ s[1] = Staging
    BY <2>6, Reserved
  <2>8. ~WalkLess(s, p)
    BY <2>1, <2>4, <2>5, <2>6, EntryAt
  <2>9. Less(p[1], Staging)
    BY <1>1, <2>7, <2>8, FirstNames, LessTotal
  <2>10. ASSUME NEW j \in next..Len(Entries) PROVE WalkLess(p, Entries[j])
    <3>1. j \in 1..Len(Entries)
      BY <1>1
    <3>2. Entries[j] \in Seq(Names) /\ Entries[j] # <<>> /\ Entries[j][1] = Staging
      BY <3>1, EntryAt
    <3> QED BY <1>1, <2>9, <3>2, FirstNames
  <2> QED BY <2>5, <2>10
<1> QED BY <1>1, <1>2, <1>3

(* The parents of a path that is visited, and is not excluded, have been   *)
(* announced.                                                              *)
LEMMA VisitParents ==
  ASSUME IInv, phase = "walk", NEW p \in todo, IsFirst(p), p[1] \notin meta.excluded
  PROVE  Parents(p) \subseteq Range(announced)
<1> SUFFICES ASSUME NEW q \in Parents(p) PROVE q \in Range(announced)
  OBVIOUS
<1>1. p \in DOMAIN tree /\ DOMAIN tree \subseteq Seq(Names)
  BY DEF IInv, TypeInv
<1>2. q \in DOMAIN tree /\ tree[q].type = "dir"
  BY <1>1 DEF IInv, TreeInv
<1>3. q \in Seq(Names) /\ q[1] = p[1] /\ WalkLess(q, p)
  BY <1>1, ParentsAre
<1>4. q \notin todo
  <2>1. SUFFICES ASSUME q \in todo PROVE FALSE
    OBVIOUS
  <2>2. q # p
    BY <1>1, <1>3, WalkIrreflexive
  <2>3. WalkLess(p, q)
    BY <2>1, <2>2 DEF IsFirst
  <2> QED BY <1>1, <1>3, <2>3, WalkTransitive, WalkIrreflexive
<1>5. q # <<Marker>>
  BY <1>2 DEF IInv, TreeInv, Walked
<1>6. q \in Seen
  BY <1>2, <1>3, <1>4, <1>5 DEF Seen
<1> QED BY <1>6 DEF IInv, SeenInv, Walked

(* walkCachedContext: a path of the tree.                                  *)
LEMMA VisitStep ==
  ASSUME IInv, NEW p \in todo, VisitEntry(p)
  PROVE  IInv'
<1> DEFINE isDir == tree[p].type = "dir"
<1>1. /\ phase = "walk" /\ IsFirst(p) /\ ~SyntheticDue /\ Filter(p, isDir)
      /\ todo' = IF SkipsDir(p, isDir) THEN Skipped(p) ELSE todo \ {p}
      /\ phase' = phase /\ meta' = meta /\ members' = members /\ tree' = tree /\ next' = next
  BY DEF VisitEntry
<1>2. Entries' = Entries /\ Interposed' = Interposed
  BY <1>1, SameRequest, SameTree
<1>3. /\ p \in DOMAIN tree /\ p \in Seq(Names) /\ p # <<>> /\ p[1] # Staging /\ p # <<Marker>>
      /\ DOMAIN tree \subseteq Seq(Names) /\ todo \subseteq DOMAIN tree /\ meta \in Metas
      /\ announced \in Seq(Seq(Names))
  <2>1. /\ p \in DOMAIN tree /\ DOMAIN tree \subseteq Seq(Names) /\ todo \subseteq DOMAIN tree /\ meta \in Metas
        /\ announced \in Seq(Seq(Names))
    BY DEF IInv, TypeInv
  <2> QED BY <1>1, <2>1 DEF IInv, TreeInv, Walked
<1>4. isDir \in BOOLEAN
  OBVIOUS
<1>5. /\ Excluded(p) <=> p[1] \in meta.excluded
      /\ SkipsDir(p, isDir) <=> isDir /\ Excluded(p)
  BY <1>3, <1>4, ExceptionsAre, Zenon
<1>6. /\ visited' \in Seq(Seq(Names)) /\ called' = Len(visited')
      /\ \A k \in DOMAIN visited' :
           visited'[k] # <<>> /\ (visited'[k] \in Range(announced) \/ (~Excluded(p) /\ visited'[k] = p))
      /\ announced' = IF Excluded(p) THEN announced ELSE Append(announced, p)
  BY <1>1, <1>3, <1>4, FilterTree, Zenon DEF IInv
<1>7. /\ todo' \subseteq todo \ {p}
      /\ \A q \in todo \ todo' : q = p \/ (Excluded(p) /\ q[1] = p[1])
  <2>1. 1 \in DOMAIN p
    BY <1>3
  <2>2. isDir => Skipped(p) = {q \in todo : \E i \in DOMAIN p : i \notin DOMAIN q \/ q[i] # p[i]}
    BY DEF Skipped
  <2> QED BY <1>1, <1>5, <2>1, <2>2
<1> HIDE DEF isDir
<1>8. /\ announced' \in Seq(Seq(Names)) /\ Range(announced) \subseteq Range(announced')
      /\ Range(announced') = IF Excluded(p) THEN Range(announced) ELSE Range(announced) \cup {p}
  BY <1>3, <1>6, OneMore, Zenon
<1>9. TypeInv'
  <2>1. called' \in 0..Len(visited')
    BY <1>6
  <2>2. todo' \subseteq DOMAIN tree
    BY <1>3, <1>7
  <2> QED BY <1>1, <1>2, <1>6, <1>8, <2>1, <2>2 DEF IInv, TypeInv
<1>10. TreeInv'
  BY <1>1, <1>7 DEF IInv, TreeInv, Unpacked, Walked
<1>11. StackInv'
  <2>1. \A k \in 1..called' : k \in DOMAIN visited'
    BY <1>6
  <2>2. \A k \in DOMAIN visited' : visited'[k] \in Range(announced')
    BY <1>6, <1>8
  <2>3. ~(called' < Len(visited'))
    BY <1>6
  <2> QED BY <1>6, <2>1, <2>2, <2>3 DEF StackInv
<1>12. /\ IsInjective(announced) /\ Range(announced) \ {<<Staging>>} = Seen
       /\ <<Staging>> \in Range(announced) => next > 1
  BY <1>1 DEF IInv, SeenInv, Walked
<1>13. p # <<Staging>> /\ p \notin Seen
  <2>1. p # <<Staging>>
    BY <1>3
  <2>2. ASSUME NEW k \in 2..(next - 1) PROVE p # Entries[k]
    <3>1. Len(Entries) \in Nat /\ next \in 1..(Len(Entries) + 1)
      BY EntriesOrdered DEF IInv, TypeInv
    <3>2. k \in 1..Len(Entries)
      BY <3>1
    <3> QED BY <1>3, <3>2, EntryAt
  <2> QED BY <2>1, <2>2 DEF Seen
<1>14. Seen' = IF Excluded(p) THEN Seen ELSE Seen \cup {p}
  <2>1. CASE Excluded(p)
    <3>1. \A q \in todo \ todo' : q[1] \in meta.excluded
      BY <1>5, <1>7, <2>1
    <3> QED BY <1>1, <1>2, <1>7, <2>1, <3>1 DEF Seen
  <2>2. CASE ~Excluded(p)
    <3>1. todo' = todo \ {p}
      BY <1>1, <1>5, <2>2
    <3> QED BY <1>1, <1>2, <1>3, <1>5, <2>2, <3>1 DEF Seen
  <2> QED BY <2>1, <2>2
<1>15. SeenInv'
  <2>1. IsInjective(announced')
    BY <1>3, <1>6, <1>12, <1>13, OneMore
  <2>2. Range(announced') \ {<<Staging>>} = Seen'
    BY <1>8, <1>12, <1>13, <1>14
  <2>3. <<Staging>> \in Range(announced') => next' > 1
    BY <1>1, <1>8, <1>12, <1>13
  <2> QED BY <1>1, <1>6, <2>1, <2>2, <2>3 DEF SeenInv
<1>16. ASSUME ~Interposed
       PROVE  /\ \A x \in Range(announced) :
                   /\ \A q \in todo : WalkLess(x, q)
                   /\ \A j \in next..Len(Entries) : WalkLess(x, Entries[j])
              /\ next > 1 => \A q \in todo : \A j \in DOMAIN Entries : WalkLess(Entries[j], q)
              /\ next \notin 2..Len(Entries)
              /\ \A j \in next..Len(Entries) : WalkLess(p, Entries[j])
              /\ Orderly(announced)
  <2>1. /\ next \notin 2..Len(Entries)
        /\ \A j \in next..Len(Entries) : WalkLess(p, Entries[j])
    BY <1>1, <1>16, VisitPlace
  <2>2. Orderly(announced)
    BY <1>16 DEF IInv, ReceiverAccepts, Orderly
  <2>3. \A x \in Range(announced) :
          /\ \A q \in todo : WalkLess(x, q)
          /\ \A j \in next..Len(Entries) : WalkLess(x, Entries[j])
    BY <1>1, <1>16 DEF IInv, OrderInv, Walked
  <2>4. next > 1 => \A q \in todo : \A j \in DOMAIN Entries : WalkLess(Entries[j], q)
    BY <1>1, <1>16 DEF IInv, OrderInv, Walked
  <2> QED BY <2>1, <2>2, <2>3, <2>4
<1>17. OrderInv'
  <2>1. SUFFICES ASSUME ~Interposed
                 PROVE  /\ \A x \in Range(announced') :
                             /\ \A q \in todo' : WalkLess(x, q)
                             /\ \A j \in next..Len(Entries) : WalkLess(x, Entries[j])
                        /\ next > 1 => \A q \in todo' : \A j \in DOMAIN Entries : WalkLess(Entries[j], q)
                        /\ next \notin 2..Len(Entries)
    <3>1. ~(called' < Len(visited'))
      BY <1>6
    <3> QED BY <1>1, <1>2, <3>1 DEF OrderInv
  <2>2. \A q \in todo' : q \in todo /\ WalkLess(p, q)
    BY <1>1, <1>7 DEF IsFirst
  <2> QED BY <1>8, <1>16, <2>1, <2>2
<1>18. UnpacksExactly'
  BY <1>1 DEF IInv, UnpacksExactly
<1>19. ReceiverAccepts'
  <2>1. SUFFICES ASSUME ~Interposed PROVE Orderly(announced')
    BY <1>2 DEF ReceiverAccepts, Orderly
  <2>2. CASE Excluded(p)
    BY <1>6, <1>16, <2>1, <2>2
  <2>3. CASE ~Excluded(p)
    <3>1. Parents(p) \subseteq Range(announced)
      BY <1>1, <1>5, <2>3, VisitParents
    <3> QED BY <1>3, <1>6, <1>16, <2>1, <2>3, <3>1, OneMore, Zenon
  <2> QED BY <2>2, <2>3
<1> QED BY <1>9, <1>10, <1>11, <1>15, <1>17, <1>18, <1>19 DEF IInv

(* Once the staging directory is due, all entries come before all that the *)
(* walk has still to visit.                                                *)
LEMMA EntriesBefore ==
  ASSUME IInv, SyntheticDue, next = 1, ~Interposed,
         NEW q \in todo, NEW j \in DOMAIN Entries
  PROVE  WalkLess(Entries[j], q)
<1>1. PICK p \in todo : IsFirst(p) /\ StringLess(Entries[1], p)
  BY DEF SyntheticDue
<1>2. todo \subseteq DOMAIN tree /\ DOMAIN tree \subseteq Seq(Names)
  BY DEF IInv, TypeInv
<1>3. p \in Seq(Names) /\ p # <<>> /\ p[1] # Staging /\ q \in Seq(Names)
  BY <1>2 DEF IInv, TreeInv
<1>4. 1 \in 1..Len(Entries) /\ j \in 1..Len(Entries)
  BY EntriesOrdered
<1>5. Entries[1] \in Seq(Names) /\ Entries[1] # <<>> /\ Entries[1][1] = Staging /\ 1 \in DOMAIN Entries
  BY <1>4, EntryAt
<1>6. Entries[j] \in Seq(Names) /\ Entries[j] # <<>> /\ Entries[j][1] = Staging
  BY <1>4, EntryAt
<1>7. WalkLess(Entries[1], p)
  BY <1>1, <1>2, <1>5 DEF Interposed
<1>8. Less(Staging, p[1])
  BY <1>3, <1>5, <1>7, FirstNames
<1>9. WalkLess(Entries[j], p)
  BY <1>3, <1>6, <1>8, FirstNames
<1>10. q = p \/ WalkLess(p, q)
  BY <1>1 DEF IsFirst
<1> QED BY <1>3, <1>6, <1>9, <1>10, WalkTransitive

(* What changes when an entry is passed to the filter.                     *)
LEMMA EmitChanges ==
  ASSUME IInv, EmitSynthetic
  PROVE  /\ phase = "walk" /\ SyntheticDue /\ next \in 1..Len(Entries) /\ Len(Entries) \in Nat
         /\ Filter(Entries[next], next = 1) /\ ~SkipsDir(Entries[next], next = 1)
         /\ next' = next + 1 /\ phase' = phase /\ todo' = todo
         /\ meta' = meta /\ members' = members /\ tree' = tree
         /\ Entries' = Entries /\ Interposed' = Interposed
<1>1. /\ phase = "walk" /\ SyntheticDue /\ Filter(Entries[next], next = 1)
      /\ meta' = meta /\ members' = members /\ tree' = tree
  BY DEF EmitSynthetic
<1>2. Len(Entries) \in Nat /\ next \in 1..(Len(Entries) + 1) /\ next <= Len(Entries)
  BY <1>1, EntriesOrdered DEF IInv, TypeInv, SyntheticDue
<1>3. next \in 1..Len(Entries)
  BY <1>2
<1>4. ~SkipsDir(Entries[next], next = 1)
  <2>1. CASE next = 1
    <3>1. Len(Entries) > 0
      BY <1>2, <2>1
    <3> QED BY <1>1, <2>1, <3>1, FilterStaging DEF IInv
  <2>2. CASE next > 1
    BY <1>1, <1>2, <2>2, FilterFile DEF IInv
  <2> QED BY <1>2, <2>1, <2>2
<1>5. next' = next + 1 /\ phase' = phase /\ todo' = todo
  BY <1>4 DEF EmitSynthetic
<1> QED BY <1>1, <1>2, <1>3, <1>4, <1>5, SameRequest, SameTree

(* The synthetic walker: the staging directory.                            *)
LEMMA EmitStagingStep ==
  ASSUME IInv, EmitSynthetic, next = 1
  PROVE  IInv'
<1>1. /\ phase = "walk" /\ SyntheticDue /\ next \in 1..Len(Entries) /\ Len(Entries) \in Nat
      /\ Filter(Entries[next], next = 1)
      /\ next' = next + 1 /\ phase' = phase /\ todo' = todo
      /\ meta' = meta /\ members' = members /\ tree' = tree
      /\ Entries' = Entries /\ Interposed' = Interposed
  BY EmitChanges
<1>2. PICK s : s = <<Staging>>
  BY Zenon
<1>3. s \in Seq(Names) /\ s # <<>> /\ Len(s) = 1 /\ s[1] = Staging /\ Parents(s) = {}
  BY <1>2, Reserved DEF Parents
<1>4. /\ visited' = <<s>>
      /\ \/ called' = 0 /\ announced' = announced
         \/ called' = 1 /\ announced' = Append(announced, s)
  <2>1. Len(Entries) > 0
    BY <1>1
  <2> QED BY <1>1, <1>2, <2>1, FilterStaging DEF IInv
<1>5. announced \in Seq(Seq(Names))
  BY DEF IInv, TypeInv
<1>6. /\ announced' \in Seq(Seq(Names))
      /\ \/ called' = 0 /\ Range(announced') = Range(announced)
         \/ called' = 1 /\ Range(announced') = Range(announced) \cup {s}
  BY <1>3, <1>4, <1>5, OneMore, Zenon
<1>7. visited' \in Seq(Seq(Names)) /\ Len(visited') = 1 /\ DOMAIN visited' = {1} /\ visited'[1] = s
  BY <1>3, <1>4
<1>8. TypeInv'
  <2>1. next' \in 1..(Len(Entries) + 1) /\ called' \in 0..Len(visited')
    BY <1>1, <1>4, <1>7
  <2> QED BY <1>1, <1>6, <1>7, <2>1 DEF IInv, TypeInv
<1>9. TreeInv' /\ UnpacksExactly'
  BY <1>1 DEF IInv, TreeInv, UnpacksExactly, Unpacked, Walked
<1>10. StackInv'
  <2>1. \A k \in DOMAIN visited' : visited'[k] # <<>>
    BY <1>3, <1>7
  <2>2. \A k \in 1..called' : visited'[k] \in Range(announced')
    BY <1>6, <1>7
  <2>3. next' > 1
    BY <1>1
  <2> QED BY <1>2, <1>4, <2>1, <2>2, <2>3 DEF StackInv
<1>11. /\ IsInjective(announced) /\ Range(announced) \ {s} = Seen /\ s \notin Range(announced)
  BY <1>1, <1>2 DEF IInv, SeenInv, Walked
<1>12. Seen' = Seen
  <2>1. 2..(next' - 1) = {} /\ 2..(next - 1) = {}
    BY <1>1
  <2> QED BY <1>1, <2>1 DEF Seen
<1>13. SeenInv'
  <2>1. IsInjective(announced')
    BY <1>3, <1>4, <1>5, <1>11, OneMore, Zenon
  <2>2. Range(announced') \ {s} = Seen'
    BY <1>6, <1>11, <1>12
  <2>3. s \in Range(announced') => next' > 1 /\ called' = Len(visited')
    BY <1>1, <1>6, <1>7, <1>11
  <2> QED BY <1>1, <1>2, <2>1, <2>2, <2>3 DEF SeenInv
<1>14. Entries[1] = s
  BY <1>1, <1>2, EntryAt
<1>15. ASSUME ~Interposed
       PROVE  /\ \A x \in Range(announced) :
                   /\ \A q \in todo : WalkLess(x, q)
                   /\ \A j \in 1..Len(Entries) : WalkLess(x, Entries[j])
                   /\ WalkLess(x, s)
              /\ \A q \in todo : \A j \in DOMAIN Entries : WalkLess(Entries[j], q)
              /\ \A q \in todo : WalkLess(s, q)
              /\ \A j \in 2..Len(Entries) : WalkLess(s, Entries[j])
  <2>1. \A x \in Range(announced) :
          /\ \A q \in todo : WalkLess(x, q)
          /\ \A j \in 1..Len(Entries) : WalkLess(x, Entries[j])
    BY <1>1, <1>15 DEF IInv, OrderInv, Walked
  <2>2. \A q \in todo : \A j \in DOMAIN Entries : WalkLess(Entries[j], q)
    BY <1>1, <1>15, EntriesBefore
  <2>3. 1 \in DOMAIN Entries /\ 1 \in 1..Len(Entries)
    BY <1>1, EntryAt
  <2>4. ASSUME NEW j \in 2..Len(Entries) PROVE WalkLess(s, Entries[j])
    <3>1. j \in 1..Len(Entries) /\ 1 < j
      BY <1>1
    <3> QED BY <1>14, <2>3, <3>1, EntriesInOrder
  <2> QED BY <1>14, <2>1, <2>2, <2>3, <2>4
<1>16. OrderInv'
  <2>1. SUFFICES ASSUME ~Interposed
                 PROVE  /\ \A x \in Range(announced') :
                             /\ \A q \in todo : WalkLess(x, q)
                             /\ \A j \in 2..Len(Entries) : WalkLess(x, Entries[j])
                             /\ called' < Len(visited') => WalkLess(x, s)
                        /\ \A q \in todo : \A j \in DOMAIN Entries : WalkLess(Entries[j], q)
    BY <1>1, <1>2, <1>4 DEF OrderInv
  <2>2. \A j \in 2..Len(Entries) : j \in 1..Len(Entries)
    BY <1>1
  <2>3. CASE called' = 0 /\ Range(announced') = Range(announced)
    BY <1>15, <2>1, <2>2, <2>3
  <2>4. CASE called' = 1 /\ Range(announced') = Range(announced) \cup {s}
    <3>1. ~(called' < Len(visited'))
      BY <1>7, <2>4
    <3> QED BY <1>15, <2>1, <2>2, <2>4, <3>1
  <2> QED BY <1>6, <2>3, <2>4
<1>17. ReceiverAccepts'
  <2>1. SUFFICES ASSUME ~Interposed PROVE Orderly(announced')
    BY <1>1 DEF ReceiverAccepts, Orderly
  <2>2. Orderly(announced)
    BY <2>1 DEF IInv, ReceiverAccepts, Orderly
  <2> QED BY <1>3, <1>4, <1>5, <1>15, <2>1, <2>2, OneMore, Zenon
<1> QED BY <1>8, <1>9, <1>10, <1>13, <1>16, <1>17 DEF IInv

(* The synthetic walker: a file.                                           *)
LEMMA EmitFileStep ==
  ASSUME IInv, EmitSynthetic, next > 1
  PROVE  IInv'
<1>1. /\ phase = "walk" /\ next \in 1..Len(Entries) /\ Len(Entries) \in Nat
      /\ Filter(Entries[next], next = 1)
      /\ next' = next + 1 /\ phase' = phase /\ todo' = todo
      /\ meta' = meta /\ members' = members /\ tree' = tree
      /\ Entries' = Entries /\ Interposed' = Interposed
  BY EmitChanges
<1>2. PICK s, e : s = <<Staging>> /\ e = Entries[next]
  BY Zenon
<1>3. s \in Seq(Names) /\ s # <<>> /\ Len(s) = 1 /\ s[1] = Staging /\ Parents(s) = {}
  BY <1>2, Reserved DEF Parents
<1>4. e \in Seq(Names) /\ e # s /\ Parents(e) = {s} /\ e # <<>> /\ e[1] = Staging
  BY <1>1, <1>2, EntryAt
<1>5. /\ visited' \in Seq(Seq(Names)) /\ called' = Len(visited')
      /\ \A k \in DOMAIN visited' : k \in DOMAIN visited /\ visited'[k] = visited[k]
      /\ visited = <<s>> => visited' = visited
      /\ announced' = IF called < Len(visited) THEN Append(Append(announced, s), e)
                                               ELSE Append(announced, e)
  <2>1. next <= Len(Entries)
    BY <1>1
  <2> QED BY <1>1, <1>2, <2>1, FilterFile DEF IInv
<1>6. /\ announced \in Seq(Seq(Names)) /\ visited \in Seq(Seq(Names)) /\ called \in 0..Len(visited)
      /\ Append(announced, s) \in Seq(Seq(Names))
      /\ Range(Append(announced, s)) = Range(announced) \cup {s}
  BY <1>3, OneMore DEF IInv, TypeInv
<1>7. /\ announced' \in Seq(Seq(Names))
      /\ Range(announced') = Range(announced) \cup {e} \cup (IF called < Len(visited) THEN {s} ELSE {})
  <2>1. CASE called < Len(visited)
    BY <1>4, <1>5, <1>6, <2>1, OneMore, Zenon
  <2>2. CASE ~(called < Len(visited))
    BY <1>4, <1>5, <1>6, <2>2, OneMore
  <2> QED BY <2>1, <2>2
<1>8. TypeInv'
  <2>1. next' \in 1..(Len(Entries) + 1) /\ called' \in 0..Len(visited')
    BY <1>1, <1>5
  <2> QED BY <1>1, <1>5, <1>7, <2>1, Zenon DEF IInv, TypeInv
<1>9. TreeInv' /\ UnpacksExactly'
  BY <1>1, Zenon DEF IInv, TreeInv, UnpacksExactly, Unpacked, Walked
<1>10. called < Len(visited) => visited = <<s>>
  BY <1>2 DEF IInv, StackInv
<1>11. StackInv'
  <2>1. \A k \in DOMAIN visited' : visited'[k] # <<>>
    BY <1>5 DEF IInv, StackInv
  <2>2. ASSUME NEW k \in DOMAIN visited' PROVE visited'[k] \in Range(announced')
    <3>1. CASE called < Len(visited)
      <4>1. DOMAIN <<s>> = {1} /\ <<s>>[1] = s
        OBVIOUS
      <4>2. visited = <<s>> /\ k \in DOMAIN visited /\ visited'[k] = visited[k]
        BY <1>5, <1>10, <3>1, Zenon
      <4> QED BY <1>7, <3>1, <4>1, <4>2
    <3>2. CASE ~(called < Len(visited))
      <4>1. k \in 1..called
        BY <1>5, <1>6, <3>2
      <4>2. visited[k] \in Range(announced)
        BY <4>1 DEF IInv, StackInv
      <4> QED BY <1>5, <1>7, <4>2
    <3> QED BY <3>1, <3>2
  <2>3. \A k \in 1..called' : k \in DOMAIN visited'
    BY <1>5
  <2>4. ~(called' < Len(visited'))
    BY <1>5
  <2> QED BY <2>1, <2>2, <2>3, <2>4 DEF StackInv
<1>12. /\ IsInjective(announced) /\ Range(announced) \ {s} = Seen
       /\ s \in Range(announced) => ~(called < Len(visited))
  <2>1. /\ IsInjective(announced) /\ Range(announced) \ {s} = Seen
        /\ s \in Range(announced) => called = Len(visited)
    BY <1>1, <1>2 DEF IInv, SeenInv, Walked
  <2>2. called = Len(visited) => ~(called < Len(visited))
    BY <1>6
  <2> QED BY <2>1, <2>2
<1>13. e \notin Seen
  <2>1. ASSUME NEW p \in DOMAIN tree PROVE p # e
    BY <1>4 DEF IInv, TreeInv
  <2>2. ASSUME NEW k \in 2..(next - 1) PROVE Entries[k] # e
    <3>1. k \in 1..Len(Entries) /\ k < next
      BY <1>1
    <3> QED BY <1>1, <1>2, <3>1, EntriesInOrder
  <2> QED BY <2>1, <2>2 DEF Seen
<1>14. Seen' = Seen \cup {e}
  <2>1. 2..(next' - 1) = 2..(next - 1) \cup {next}
    BY <1>1
  <2>2. {Entries[k] : k \in 2..(next' - 1)} = {Entries[k] : k \in 2..(next - 1)} \cup {e}
    BY <1>2, <2>1
  <2>3. Seen' = {p \in DOMAIN tree \ todo : p # <<Marker>> /\ p[1] \notin meta.excluded}
                   \cup {Entries[k] : k \in 2..(next' - 1)}
    BY <1>1 DEF Seen
  <2> QED BY <2>2, <2>3 DEF Seen
<1>15. SeenInv'
  <2>1. IsInjective(announced')
    <3>1. CASE called < Len(visited)
      <4>1. s \notin Range(announced)
        BY <1>12, <3>1
      <4>2. IsInjective(Append(announced, s))
        BY <1>3, <1>6, <1>12, <4>1, OneMore
      <4>3. e \notin Range(Append(announced, s))
        BY <1>4, <1>6, <1>12, <1>13
      <4> QED BY <1>4, <1>5, <1>6, <3>1, <4>2, <4>3, OneMore, Zenon
    <3>2. CASE ~(called < Len(visited))
      <4>1. e \notin Range(announced)
        BY <1>4, <1>12, <1>13
      <4> QED BY <1>4, <1>5, <1>6, <1>12, <3>2, <4>1, OneMore
    <3> QED BY <3>1, <3>2
  <2>2. Range(announced') \ {s} = Seen'
    BY <1>4, <1>7, <1>12, <1>14
  <2>3. next' > 1 /\ called' = Len(visited')
    BY <1>1, <1>5
  <2> QED BY <1>1, <1>2, <2>1, <2>2, <2>3 DEF SeenInv
<1>16. ASSUME ~Interposed
       PROVE  /\ \A x \in Range(announced) :
                   /\ \A q \in todo : WalkLess(x, q)
                   /\ \A j \in next..Len(Entries) : WalkLess(x, Entries[j])
                   /\ called < Len(visited) => WalkLess(x, s)
              /\ \A q \in todo : \A j \in DOMAIN Entries : WalkLess(Entries[j], q)
              /\ visited = <<s>>
  <2>1. next \in 2..Len(Entries)
    BY <1>1
  <2>2. \A x \in Range(announced) :
          /\ \A q \in todo : WalkLess(x, q)
          /\ \A j \in next..Len(Entries) : WalkLess(x, Entries[j])
          /\ called < Len(visited) => WalkLess(x, s)
    BY <1>1, <1>2, <1>16 DEF IInv, OrderInv, Walked
  <2>3. /\ \A q \in todo : \A j \in DOMAIN Entries : WalkLess(Entries[j], q)
        /\ visited = <<s>>
    BY <1>1, <1>2, <1>16, <2>1 DEF IInv, OrderInv, Walked
  <2> QED BY <2>2, <2>3
<1>17. 1 \in 1..Len(Entries) /\ 1 \in DOMAIN Entries /\ next \in DOMAIN Entries /\ Entries[1] = s
  <2>1. 1 \in 1..Len(Entries)
    BY <1>1
  <2> QED BY <1>1, <1>2, <2>1, EntryAt
<1>18. ASSUME NEW j \in (next + 1)..Len(Entries)
       PROVE  j \in next..Len(Entries) /\ WalkLess(s, Entries[j]) /\ WalkLess(e, Entries[j])
  <2>1. j \in 1..Len(Entries) /\ 1 < j /\ next < j /\ j \in next..Len(Entries)
    BY <1>1
  <2> QED BY <1>1, <1>2, <1>17, <2>1, EntriesInOrder
<1>19. OrderInv'
  <2>1. SUFFICES ASSUME ~Interposed
                 PROVE  /\ \A x \in Range(announced') :
                             /\ \A q \in todo : WalkLess(x, q)
                             /\ \A j \in (next + 1)..Len(Entries) : WalkLess(x, Entries[j])
                        /\ \A q \in todo : \A j \in DOMAIN Entries : WalkLess(Entries[j], q)
                        /\ visited' = <<s>>
    <3>1. ~(called' < Len(visited'))
      BY <1>5
    <3> QED BY <1>1, <1>2, <3>1 DEF OrderInv
  <2>2. \A q \in todo : WalkLess(s, q) /\ WalkLess(e, q)
    BY <1>2, <1>16, <1>17, <2>1
  <2>3. ASSUME NEW x \in Range(announced')
        PROVE  /\ \A q \in todo : WalkLess(x, q)
               /\ \A j \in (next + 1)..Len(Entries) : WalkLess(x, Entries[j])
    <3>1. x \in Range(announced) \/ x = s \/ x = e
      BY <1>7
    <3> QED BY <1>16, <1>18, <2>1, <2>2, <3>1
  <2> QED BY <1>5, <1>16, <2>1, <2>3, Zenon
<1>20. ReceiverAccepts'
  <2>1. SUFFICES ASSUME ~Interposed PROVE Orderly(announced')
    BY <1>1 DEF ReceiverAccepts, Orderly
  <2>2. Orderly(announced)
    BY <2>1 DEF IInv, ReceiverAccepts, Orderly
  <2>3. WalkLess(s, e) /\ \A x \in Range(announced) : WalkLess(x, e)
    <3>1. next \in next..Len(Entries) /\ 1 < next
      BY <1>1
    <3>2. WalkLess(s, e)
      BY <1>1, <1>2, <1>17, <3>1, EntriesInOrder
    <3> QED BY <1>2, <1>16, <2>1, <3>1, <3>2
  <2>4. CASE called < Len(visited)
    <3>1. Orderly(Append(announced, s))
      BY <1>3, <1>6, <1>16, <2>1, <2>2, <2>4, OneMore
    <3>2. \A y \in Range(Append(announced, s)) : WalkLess(y, e)
      BY <1>6, <2>3
    <3>3. Parents(e) \subseteq Range(Append(announced, s))
      BY <1>4, <1>6
    <3> QED BY <1>4, <1>5, <1>6, <2>4, <3>1, <3>2, <3>3, OneMore, Zenon
  <2>5. CASE ~(called < Len(visited))
    <3>1. called = 1
      <4>1. Len(visited) = 1
        BY <1>16, <2>1
      <4> QED BY <1>6, <2>5, <4>1
    <3>2. visited[1] = s /\ 1 \in 1..called
      BY <1>16, <2>1, <3>1
    <3>3. s \in Range(announced)
      BY <3>2 DEF IInv, StackInv
    <3> QED BY <1>4, <1>5, <1>6, <2>2, <2>3, <2>5, <3>3, OneMore, Zenon
  <2> QED BY <2>4, <2>5
<1> QED BY <1>8, <1>9, <1>11, <1>15, <1>19, <1>20 DEF IInv

-----------------------------------------------------------------------------
(* One step of Next, whichever.                                            *)
LEMMA IInvStep == IInv /\ [Next]_vars => IInv'
<1> SUFFICES ASSUME IInv, [Next]_vars PROVE IInv'
  OBVIOUS
<1>1. CASE WalkRequest \/ WalkDone \/ WalkFails \/ UNCHANGED vars
  BY <1>1, PhaseStep
<1>2. CASE \E m \in Member : UnpackMember(m)
  BY <1>2, UnpackStep
<1>3. CASE Publish
  BY <1>3, PublishStep
<1>4. CASE \E p \in todo : VisitEntry(p)
  BY <1>4, VisitStep
<1>5. CASE EmitSynthetic
  <2>1. next = 1 \/ next > 1
    BY EntriesOrdered DEF IInv, TypeInv
  <2> QED BY <1>5, <2>1, EmitStagingStep, EmitFileStep
<1> QED BY <1>1, <1>2, <1>3, <1>4, <1>5, Zenon DEF Next

(* The inductive invariant holds throughout.                               *)
LEMMA WalkInv == Spec => []IInv
BY InitInv, IInvStep, PTL DEF Spec

(* unpackTar leaves the tree that the archive describes: whatever members  *)
(* an archive has, and in whatever order, each is there as it came, and    *)
(* nothing else but the directories on the way to a member.                *)
THEOREM UnpacksExactlyHolds == Spec => []UnpacksExactly
<1>1. IInv => UnpacksExactly
  BY DEF IInv
<1> QED BY <1>1, WalkInv, PTL

(* A walk that succeeds has announced every path of the tree that is not   *)
(* excluded and the requested files, once each and nothing else, and       *)
(* Finish never returns SkipDir.                                           *)
THEOREM AnnouncesAllHolds == Spec => []AnnouncesAll
<1>1. IInv => AnnouncesAll
  <2> SUFFICES ASSUME IInv PROVE AnnouncesAll
    OBVIOUS
  <2>1. phase # "skipped"
    BY DEF IInv, TypeInv
  <2>2. ASSUME phase = "done"
        PROVE  /\ IsInjective(announced)
               /\ Range(announced) \ {<<Staging>>} =
                    {p \in DOMAIN tree : p # <<Marker>> /\ p[1] \notin meta.excluded}
                      \cup {p \in Range(Synthetic) : p \in Requested \cap meta.filled}
    <3>1. /\ IsInjective(announced) /\ Range(announced) \ {<<Staging>>} = Seen
          /\ todo = {} /\ next > Len(Entries)
      BY <2>2 DEF IInv, SeenInv, Walked
    <3>2. Len(Entries) \in Nat /\ next - 1 = Len(Entries)
      <4>1. Len(Entries) \in Nat
        BY EntriesOrdered, Zenon
      <4>2. next \in 1..(Len(Entries) + 1)
        BY DEF IInv, TypeInv
      <4> QED BY <3>1, <4>1, <4>2
    <3>3. {Entries[k] : k \in 2..Len(Entries)} = {p \in Range(Synthetic) : p \in Requested \cap meta.filled}
      BY EntriesOrdered, Zenon
    <3> QED BY <3>1, <3>2, <3>3 DEF Seen
  <2> QED BY <2>1, <2>2 DEF AnnouncesAll
<1> QED BY <1>1, WalkInv, PTL

(* The receiver accepts every announcement, in the order of a walk and     *)
(* after its parents, unless the context has a name that the two orders    *)
(* place differently against the synthetic entries.                        *)
THEOREM ReceiverAcceptsHolds == Spec => []ReceiverAccepts
<1>1. IInv => ReceiverAccepts
  BY DEF IInv
<1> QED BY <1>1, WalkInv, PTL
=============================================================================
