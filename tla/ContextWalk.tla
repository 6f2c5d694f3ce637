---------------------------- MODULE ContextWalk -----------------------------
(***************************************************************************)
(* What BuildKit is told about a build context: unpackTar turns the host's *)
(* archive into a tree, walkCachedContext walks the tree, the synthetic    *)
(* walker merges the Dockerfile of the request into that walk, and the     *)
(* filter of fsutil (external) drops what the request excludes.            *)
(*                                                                         *)
(* A path is a sequence of names and a name a sequence of characters; a    *)
(* character is its rank, Slash the rank of the separator.                 *)
(***************************************************************************)
EXTENDS Naturals, Sequences, Functions

CONSTANTS
  Paths,         \* what archive members may be called; <<>> is no local path
  MaxMembers,    \* bound: members of an archive
  Metas,         \* the requests for a walk
  Slash,
  Staging,       \* DockerfileStaging, a name
  Dockerfile, Dockerignore,
  Marker         \* cacheCompletionMarker, a name

Synthetic == <<<<Staging, Dockerfile>>, <<Staging, Dockerignore>>>>

\* follow and globs are the synthetic files named by followpaths and addedGlobs.
Meta == [mode : {"tar", "json"}, named : BOOLEAN, follow : SUBSET Range(Synthetic),
         globs : SUBSET Range(Synthetic), filled : SUBSET Range(Synthetic),
         excluded : SUBSET {p[1] : p \in Paths \ {<<>>}}]

-----------------------------------------------------------------------------
(***************************************************************************)
(* Orders of paths: of strings, and of trees.                              *)
(***************************************************************************)

Names == Seq(Nat)

Parents(p) == {SubSeq(p, 1, k) : k \in 1..(Len(p) - 1)}

Less(s, t) ==
  \/ Len(s) < Len(t) /\ \A i \in DOMAIN s : s[i] = t[i]
  \/ \E k \in DOMAIN s \cap DOMAIN t : s[k] < t[k] /\ \A i \in 1..(k - 1) : s[i] = t[i]

\* The operator < on path strings.
Text[p \in Seq(Names)] == IF p = <<>> THEN <<>> ELSE <<Slash>> \o Head(p) \o Text[Tail(p)]
StringLess(p, q) == Less(Text[p], Text[q])

\* The order in which filepath.Walk visits, and the receiver expects, paths.
WalkLess(p, q) ==
  \/ p \in Parents(q)
  \/ \E k \in DOMAIN p \cap DOMAIN q : Less(p[k], q[k]) /\ \A i \in 1..(k - 1) : p[i] = q[i]

ASSUME ConstantsOK ==
  /\ MaxMembers \in Nat /\ Slash \in Nat /\ Metas \subseteq Meta
  /\ Paths \subseteq Seq(Names)
  /\ {Staging, Dockerfile, Dockerignore, Marker} \subseteq Names /\ Marker # Staging
  /\ Less(Dockerfile, Dockerignore)

-----------------------------------------------------------------------------
VARIABLES
  phase,      \* "request", "unpack", "walk", "done", "failed" or
              \* "skipped" (Finish returned SkipDir)
  meta,       \* the request
  members,    \* the members of the archive so far
  tree,       \* the unpacked tree: path to node
  todo,       \* the paths filepath.Walk still visits
  next,       \* index of the next synthetic entry
  visited,    \* the filter's stack of directories
  called,     \* how many of them, from the bottom, it has passed on
  announced   \* what the filter passed on

walkVars == <<todo, next, visited, called, announced>>
vars == <<phase, meta, members, tree, walkVars>>

Init ==
  /\ phase = "request" /\ meta \in Metas
  /\ members = <<>> /\ tree = <<>> /\ todo = {} /\ next = 1
  /\ visited = <<>> /\ called = 0 /\ announced = <<>>

-----------------------------------------------------------------------------
(***************************************************************************)
(* unpackTar.                                                              *)
(***************************************************************************)

Dir == [type |-> "dir", data |-> 0]

\* A member may be called by any path but the reserved ones.
TarTarget(p) == p # <<>> /\ p[1] # Staging /\ p # <<Marker>>

\* ensurePathParent: what exists of the way to p is directories.
PathParent(p) == \A q \in Parents(p) \cap DOMAIN tree : tree[q].type = "dir"

\* Mutant: an existing path is not an error.
NewPathUnchecked(p) == PathParent(p)

NewPath(p) == PathParent(p) /\ p \notin DOMAIN tree

\* ensureDirectory: a directory may be there already.
Directory(p) == PathParent(p) /\ (p \in DOMAIN tree => tree[p].type = "dir")

Accepts(m) ==
  /\ TarTarget(m.path)
  /\ \/ m.type = "dir" /\ Directory(m.path)
     \/ m.type \in {"reg", "symlink"} /\ NewPath(m.path)
     \/ /\ m.type = "link" /\ TarTarget(m.to) /\ PathParent(m.to)
        /\ m.to \in DOMAIN tree /\ tree[m.to].type = "reg" /\ NewPath(m.path)

\* The node of a member: its data is the number of the member it came with.
Node(m) ==
  IF m.type = "dir" THEN Dir
  ELSE IF m.type = "link" THEN tree[m.to] ELSE [type |-> m.type, data |-> Len(members) + 1]

Member == [type : {"dir", "reg", "symlink", "other"}, path : Paths]
            \cup [type : {"link"}, path : Paths, to : Paths]

\* One round of the loop: missing parents are created with the member.
UnpackMember(m) ==
  /\ phase = "unpack" /\ Len(members) < MaxMembers
  /\ members' = Append(members, m)
  /\ IF Accepts(m)
     THEN /\ tree' = [p \in DOMAIN tree \cup Parents(m.path) \cup {m.path} |->
                        IF p \in DOMAIN tree THEN tree[p]
                        ELSE IF p = m.path THEN Node(m) ELSE Dir]
          /\ UNCHANGED phase
     ELSE phase' = "failed" /\ UNCHANGED tree
  /\ UNCHANGED <<meta, walkVars>>

-----------------------------------------------------------------------------
(***************************************************************************)
(* FS.Walk and the filter.                                                 *)
(***************************************************************************)

\* requestedSyntheticDockerfilePaths of followpaths, or of addedGlobs if there are none.
Requested == IF meta.named THEN meta.follow ELSE meta.globs

\* Mutant: the Dockerfile is not excepted from the exclude patterns.
NoExceptions == {}

\* excludePatternsForWalk: the exceptions it appends to the patterns.
Exceptions == IF meta.excluded = {} THEN {} ELSE Requested

\* newSyntheticDockerfileWalker: the files to merge, and their directory.
Merged(p) == IF p \in Requested \cap meta.filled THEN <<p>> ELSE <<>>
Entries ==
  LET files == Merged(Synthetic[1]) \o Merged(Synthetic[2])
  IN IF files = <<>> THEN <<>> ELSE <<<<Staging>>>> \o files

\* unmarshalWalkMetadata accepts no mode but tar.
ModeTAR == meta.mode = "tar"

\* FS.Walk asks the host for the archive.
WalkRequest ==
  /\ phase = "request"
  /\ phase' = IF ModeTAR THEN "unpack" ELSE "failed"
  /\ UNCHANGED <<meta, members, tree, walkVars>>

\* The archive is at its end: the tree is marked complete and the walk begins,
\* unless the archive has made a directory where the marker goes.
Publish ==
  /\ phase = "unpack"
  /\ IF <<Marker>> \in DOMAIN tree
     THEN phase' = "failed" /\ UNCHANGED <<tree, todo>>
     ELSE /\ phase' = "walk"
          /\ tree' = [p \in DOMAIN tree \cup {<<Marker>>} |->
                        IF p \in DOMAIN tree THEN tree[p] ELSE [type |-> "reg", data |-> 0]]
          /\ todo' = DOMAIN tree
  /\ UNCHANGED <<meta, members, next, visited, called, announced>>

Excluded(p) == p[1] \in meta.excluded /\ p \notin Exceptions

\* The filter returns SkipDir for an excluded directory without exceptions in it.
SkipsDir(p, isDir) ==
  isDir /\ Excluded(p) /\ ~\E e \in Exceptions : p \in Parents(e)

\* How much of the stack is left when the filter has popped what is not on the way to p.
Depth(p) == CHOOSE n \in 0..Len(visited) :
  /\ n > 0 => visited[n] \in Parents(p)
  /\ \A k \in (n + 1)..Len(visited) : visited[k] \notin Parents(p)

\* The filter's callback: p is passed on, after the directories on its way.
Filter(p, isDir) ==
  LET depth == Depth(p)
      on    == SubSeq(visited, 1, depth)
  IN /\ visited' = IF isDir /\ ~SkipsDir(p, isDir) THEN Append(on, p) ELSE on
     /\ IF Excluded(p)
        THEN called' = (IF called < depth THEN called ELSE depth) /\ UNCHANGED announced
        ELSE /\ called' = Len(visited')
             /\ announced' = announced \o SubSeq(on, called + 1, depth) \o <<p>>

\* The path that filepath.Walk visits next.
IsFirst(p) == p \in todo /\ \A q \in todo \ {p} : WalkLess(p, q)
First == CHOOSE p \in todo : IsFirst(p)

\* What a SkipDir makes filepath.Walk leave out when it visits p.
Skipped(p) == LET top == IF tree[p].type = "dir" THEN p ELSE SubSeq(p, 1, Len(p) - 1)
              IN {q \in todo : \E i \in DOMAIN top : i \notin DOMAIN q \/ q[i] # top[i]}

\* Mutant: the synthetic entries come after the walk.
SyntheticDueLast == next <= Len(Entries) /\ todo = {}

\* The next synthetic entry comes before the path that is visited, or in Finish.
SyntheticDue ==
  /\ next <= Len(Entries)
  /\ todo # {} => \E p \in todo : IsFirst(p) /\ StringLess(Entries[next], p)

EmitSynthetic ==
  /\ phase = "walk" /\ SyntheticDue
  /\ Filter(Entries[next], next = 1)
  /\ IF SkipsDir(Entries[next], next = 1)
     THEN IF todo = {} THEN phase' = "skipped" /\ UNCHANGED <<todo, next>>
          ELSE todo' = Skipped(First) /\ UNCHANGED <<phase, next>>
     ELSE next' = next + 1 /\ UNCHANGED <<phase, todo>>
  /\ UNCHANGED <<meta, members, tree>>

VisitEntry(p) ==
  /\ phase = "walk" /\ IsFirst(p) /\ ~SyntheticDue
  /\ LET isDir == tree[p].type = "dir"
     IN /\ Filter(p, isDir)
        /\ todo' = IF SkipsDir(p, isDir) THEN Skipped(p) ELSE todo \ {p}
  /\ UNCHANGED <<phase, meta, members, tree, next>>

WalkDone ==
  /\ phase = "walk" /\ todo = {} /\ next > Len(Entries)
  /\ phase' = "done"
  /\ UNCHANGED <<meta, members, tree, walkVars>>

\* The context is done, a file cannot be written, or BuildKit is gone.
WalkFails ==
  /\ phase \in {"unpack", "walk"}
  /\ phase' = "failed"
  /\ UNCHANGED <<meta, members, tree, walkVars>>

Next ==
  \/ WalkRequest \/ Publish \/ EmitSynthetic \/ WalkDone \/ WalkFails
  \/ (\E m \in Member : UnpackMember(m)) \/ (\E p \in todo : VisitEntry(p))

Spec == Init /\ [][Next]_vars

-----------------------------------------------------------------------------
(* The tree holds what the archive says and nothing else: every member is  *)
(* there as it came, whatever came after it, a hard link with the content  *)
(* of its target, and all else are directories on the way to a member.     *)
UnpacksExactly ==
  phase \in {"unpack", "walk", "done"} =>
    /\ \A k \in DOMAIN members : LET m == members[k] IN
         /\ m.type = "dir" => tree[m.path] = Dir
         /\ m.type = "link" => tree[m.path] = tree[m.to]
         /\ m.type \notin {"dir", "link"} => tree[m.path] = [type |-> m.type, data |-> k]
    /\ \A p \in DOMAIN tree \ {<<Marker>>} :
         \/ \E k \in DOMAIN members : members[k].path = p
         \/ tree[p] = Dir /\ \E q \in DOMAIN tree : p \in Parents(q)

(* A walk that succeeds has announced, once each, the requested Dockerfile *)
(* and dockerignore and every path of the tree that is not excluded,       *)
(* neither the completion marker nor anything else.  And the walk never    *)
(* ends with the SkipDir of an excluded staging directory: the exceptions  *)
(* of excludePatternsForWalk keep the filter from returning it.            *)
AnnouncesAll ==
  /\ phase # "skipped"
  /\ phase = "done" =>
       /\ IsInjective(announced)
       /\ Range(announced) \ {<<Staging>>} =
            {p \in DOMAIN tree : p # <<Marker>> /\ p[1] \notin meta.excluded}
              \cup {p \in Range(Synthetic) : p \in Requested \cap meta.filled}

(* A name that continues the staging directory's with a character below    *)
(* the separator comes between that directory and its files, and what is   *)
(* in a directory whose name the staging directory's continues so comes    *)
(* after them, as strings: the two orders differ.                          *)
Interposed == \E p \in DOMAIN tree : \E k \in DOMAIN Entries :
  StringLess(Entries[k], p) # WalkLess(Entries[k], p)

(* The receiver accepts what is announced: paths come in the order of a    *)
(* walk and each after its parents, or else it "rejects the stream with    *)
(* changes out of order" (pkg/fssync/diffcopy.go:67).  The synthetic       *)
(* entries are merged by the order of strings, which is another one; it    *)
(* matters only for a context with an interposed name.                     *)
ReceiverAccepts ==
  Interposed \/ \A k \in DOMAIN announced :
    /\ k > 1 => WalkLess(announced[k - 1], announced[k])
    /\ Parents(announced[k]) \subseteq Range(announced)
=============================================================================
