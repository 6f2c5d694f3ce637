---------------------------- MODULE BuildProofs -----------------------------
(***************************************************************************)
(* Proofs about Build, for any set of platforms, any Dockerfile and any    *)
(* list of exports.                                                        *)
(*                                                                         *)
(* The invariant has two halves that share only Build's own step and       *)
(* error: the frontend with its goroutines per platform, and the exporters *)
(* with the temporary file they share.                                     *)
(***************************************************************************)
EXTENDS Build, FiniteSetTheorems, TLAPS

-----------------------------------------------------------------------------
(***************************************************************************)
(* The frontend.                                                           *)
(***************************************************************************)

Solving  == {"solve", "layer", "solve failed"}
PlStates == {"none", "resolve", "resolve failed", "preseed", "lint", "exited"} \cup Solving
Names    == {BaseName[k] : k \in Stages} \cup {CopyFrom[i] : i \in DOMAIN CopyFrom}
Images   == Names \X Platforms

PlType ==
  /\ check \in BOOLEAN
  /\ pl \in [Platforms -> PlStates]
  /\ stage \in [Platforms \X Stages -> {"none", "run", "ok", "failed"}]
  /\ copied \in [Platforms -> Nat]
  /\ states \in [Platforms -> SUBSET Images]
  /\ missing \in [Platforms -> SUBSET Images]
  /\ refs \subseteq Platforms

\* The frontend starts with the solve, and has succeeded when Build has.
PhaseInv ==
  /\ pc \in {"connect", "exports", "options"} => fe = "none"
  /\ fe = "none" => waiter = "wait" /\ \A p \in Platforms : pl[p] = "none"
  /\ pc \in {"draining", "returned"} /\ err = "nil" /\ ~check => fe = "ok"

\* A check build lints one platform and solves none; any other solves and does not lint.
CheckInv ==
  /\ check => refs = {} /\ \A p \in Platforms : pl[p] \notin Solving /\ (p # First => pl[p] = "none")
  /\ ~check => \A p \in Platforms : pl[p] # "lint"

\* A goroutine that is gone has left a reference or an error.
WaitInv ==
  /\ waiter # "wait" => \A p \in Platforms : pl[p] = "exited"
  /\ ~check /\ fe # "error" => \A p \in Platforms : pl[p] = "exited" => p \in refs
  /\ ~check /\ fe = "ok" => refs = Platforms
  /\ \A p \in refs : pl[p] = "exited"

Known(p) == states[p] \cup missing[p]

\* What resolveStates has looked up so far.
LookupInv ==
  \A p \in Platforms :
    /\ pl[p] \in {"resolve", "preseed"} =>
         \A k \in Stages : stage[<<p, k>>] = "ok" /\ ~NotAnImage(k) => <<BaseName[k], PlatformOf(p, k)>> \in Known(p)
    /\ pl[p] \in {"none", "resolve"} => copied[p] = 0
    /\ pl[p] = "preseed" =>
         /\ copied[p] <= Len(CopyFrom)
         /\ \A k \in Stages : stage[<<p, k>>] = "ok"
         /\ \A i \in 1 .. copied[p] :
              ~IsStage(CopyFrom[i]) /\ CopyFrom[i] # Scratch => <<CopyFrom[i], p>> \in Known(p)

SeedInv ==
  \A p \in Platforms :
    pl[p] \in Solving \cup {"lint"} \/ p \in refs => fe = "error" \/ ExternalImages(p) \subseteq Known(p)

FrontInv == PlType /\ PhaseInv /\ CheckInv /\ WaitInv /\ LookupInv /\ SeedInv

-----------------------------------------------------------------------------
(***************************************************************************)
(* The exporters.                                                          *)
(***************************************************************************)

Files == {i \in DOMAIN exports : IsFile(exports[i])}

FileType ==
  /\ exports \in Seq({"local", "file"})
  /\ exporter \in [DOMAIN exports -> {"idle", "open", "done", "failed"}]
  /\ temp \in {"none", "open", "removed"}
  /\ buffered \in Seq(Nat \X Nat)

\* The file has the blocks of file exports; one that writes alone writes its blocks in order.
BufferInv ==
  /\ \A n \in 1 .. Len(buffered) : buffered[n][1] \in Files
  /\ \A i \in Files :
       (\A n \in 1 .. Len(buffered) : buffered[n][1] = i) => \A n \in 1 .. Len(buffered) : buffered[n] = <<i, n>>

\* At most one exporter closes the file with success, and that after all its blocks.
CloseInv ==
  /\ \A i \in Files : exporter[i] = "done" => temp = "removed" /\ out = buffered /\ Written(i) = Blocks
  /\ \A i, j \in Files : exporter[i] = "done" /\ exporter[j] = "done" => i = j

EndInv ==
  /\ pc \in {"connect", "exports"} => exports = <<>> /\ buffered = <<>>
  /\ pc \in {"draining", "returned"} /\ err = "nil" => \A i \in DOMAIN exporter : exporter[i] = "done"

FileInv == FileType /\ BufferInv /\ CloseInv /\ EndInv

IInv == FrontInv /\ FileInv

-----------------------------------------------------------------------------
(***************************************************************************)
(* Steps of the platforms' goroutines.                                     *)
(***************************************************************************)

\* Goroutine p goes to step "to".
Moves(p, to) == pl' = [pl EXCEPT ![p] = to] /\ UNCHANGED <<pc, err, check, waiter>>

LEMMA MovesOn ==
  ASSUME PlType, PhaseInv, CheckInv, WaitInv, NEW p \in Platforms, NEW to \in PlStates \ {"none"}, Moves(p, to),
         pl[p] \notin {"none", "exited"},
         check => to \notin Solving /\ refs' = refs, ~check => to # "lint",
         refs' = refs \/ (to = "exited" /\ refs' = refs \cup {p}),
         fe # "none" => fe' # "none",
         ~check => fe' = fe \/ (fe = "select" /\ fe' = "error"),
         ~check /\ to = "exited" => p \in refs' \/ fe' = "error"
  PROVE  PhaseInv' /\ CheckInv' /\ WaitInv'
<1>1. /\ pl'[p] = to /\ \A q \in Platforms : q # p => pl'[q] = pl[q]
      /\ pc' = pc /\ err' = err /\ check' = check /\ waiter' = waiter
  BY DEF Moves, PlType
<1>2. fe # "none" /\ waiter = "wait"
  BY DEF PhaseInv, WaitInv
<1>3. fe' # "none"
  BY <1>2
<1>4. PhaseInv'
  <2>1. pc \notin {"connect", "exports", "options"}
    BY <1>2 DEF PhaseInv
  <2>2. pc \in {"draining", "returned"} /\ err = "nil" /\ ~check => fe' = "ok"
    BY DEF PhaseInv
  <2> QED
    BY <1>1, <1>3, <2>1, <2>2 DEF PhaseInv
<1>5. CheckInv'
  BY <1>1 DEF CheckInv
<1>6. WaitInv'
  <2>1. ~check /\ fe' # "error" => \A q \in Platforms : pl'[q] = "exited" => q \in refs'
    BY <1>1 DEF WaitInv
  <2>2. ~check /\ fe' = "ok" => refs' = Platforms
    BY DEF WaitInv, PlType
  <2>3. \A q \in refs' : pl'[q] = "exited"
    BY <1>1 DEF WaitInv, PlType
  <2> QED
    BY <1>1, <1>2, <2>1, <2>2, <2>3 DEF WaitInv
<1> QED
  BY <1>4, <1>5, <1>6

\* ... and has nothing more to look up.
LEMMA SeedsKept ==
  ASSUME PlType, LookupInv, SeedInv, NEW p \in Platforms, NEW to, Moves(p, to),
         to \notin {"none", "resolve", "preseed"},
         UNCHANGED <<stage, copied, states, missing>>, refs' \subseteq refs \cup {p},
         fe = "error" => fe' = "error",
         to \in Solving \cup {"lint"} \/ p \in refs' => fe' = "error" \/ ExternalImages(p) \subseteq Known(p)
  PROVE  LookupInv' /\ SeedInv'
<1>1. /\ pl'[p] = to /\ \A q \in Platforms : q # p => pl'[q] = pl[q]
  BY DEF Moves, PlType
<1>2. \A q : Known(q)' = Known(q)
  BY DEF Known
<1>3. LookupInv'
  <2> SUFFICES ASSUME NEW q \in Platforms, q # p
               PROVE  /\ pl[q] \in {"resolve", "preseed"} =>
                           \A k \in Stages : stage[<<q, k>>] = "ok" /\ ~NotAnImage(k) => <<BaseName[k], PlatformOf(q, k)>> \in Known(q)
                      /\ pl[q] \in {"none", "resolve"} => copied[q] = 0
                      /\ pl[q] = "preseed" =>
                           /\ copied[q] <= Len(CopyFrom)
                           /\ \A k \in Stages : stage[<<q, k>>] = "ok"
                           /\ \A i \in 1 .. copied[q] :
                                ~IsStage(CopyFrom[i]) /\ CopyFrom[i] # Scratch => <<CopyFrom[i], q>> \in Known(q)
    BY <1>1, <1>2, Zenon DEF LookupInv
  <2> QED
    BY Zenon DEF LookupInv
<1>4. SeedInv'
  BY <1>1, <1>2 DEF SeedInv
<1> QED
  BY <1>3, <1>4

\* What a step of p leaves alone.
Rest == UNCHANGED <<stage, copied, states, missing>>

LEMMA PlTypeKept ==
  ASSUME PlType, NEW p \in Platforms, NEW to \in PlStates, Moves(p, to), Rest, refs' \subseteq refs \cup {p}
  PROVE  PlType'
BY DEF PlType, Moves, Rest

LEMMA SolveStep ==
  ASSUME FrontInv, NEW p \in Platforms, AddsRef(p) \/ MetadataOnly(p) \/ SolveFails(p)
  PROVE  FrontInv'
<1>0. PlType /\ PhaseInv /\ CheckInv /\ WaitInv /\ LookupInv /\ SeedInv
  BY DEF FrontInv
<1>1. PICK to \in {"exited", "layer", "solve failed"} :
        /\ Moves(p, to) /\ Rest /\ fe' = fe /\ pl[p] \in Solving
        /\ refs' = (IF to = "exited" THEN refs \cup {p} ELSE refs)
  BY Zenon DEF AddsRef, MetadataOnly, SolveFails, Moves, Rest, Solving, buildVars, feVars
<1>2. to \in PlStates \ {"none"} /\ pl[p] \notin {"none", "exited"} /\ to \notin {"none", "resolve", "preseed", "lint"}
  BY <1>1, Zenon DEF PlStates, Solving
<1>3. ~check
  BY <1>0, <1>1, Zenon DEF CheckInv
<1>4. PhaseInv' /\ CheckInv' /\ WaitInv'
  BY <1>0, <1>1, <1>2, <1>3, MovesOn, Zenon
<1>5. fe = "error" \/ ExternalImages(p) \subseteq Known(p)
  BY <1>0, <1>1, Zenon DEF SeedInv
<1>6. LookupInv' /\ SeedInv'
  BY <1>0, <1>1, <1>2, <1>5, SeedsKept, Zenon DEF Rest
<1>7. PlType'
  BY <1>0, <1>1, <1>2, PlTypeKept, Zenon
<1> QED
  BY <1>4, <1>6, <1>7, Zenon DEF FrontInv

LEMMA ReportStep ==
  ASSUME FrontInv, NEW p \in Platforms, ReportsSolve(p) \/ ReportsResolve(p)
  PROVE  FrontInv'
<1>0. PlType /\ PhaseInv /\ CheckInv /\ WaitInv /\ LookupInv /\ SeedInv
  BY DEF FrontInv
<1>1. PICK to \in {"exited", "solve"} :
        /\ Moves(p, to) /\ Rest /\ fe = "select" /\ fe' = "error" /\ refs' = refs /\ (check => to = "exited")
        /\ pl[p] \in {"solve failed", "resolve failed"}
  BY Zenon DEF ReportsSolve, ReportsResolve, Moves, Rest, buildVars
<1>2. to \in PlStates \ {"none"} /\ pl[p] \notin {"none", "exited"} /\ to \notin {"none", "resolve", "preseed", "lint"}
  BY <1>1, Zenon DEF PlStates, Solving
<1>3. check => to \notin Solving
  BY <1>1, Zenon DEF Solving
<1>4. PhaseInv' /\ CheckInv' /\ WaitInv'
  BY <1>0, <1>1, <1>2, <1>3, MovesOn, Zenon
<1>5. LookupInv' /\ SeedInv'
  BY <1>0, <1>1, <1>2, SeedsKept, Zenon DEF Rest
<1>6. PlType'
  BY <1>0, <1>1, <1>2, PlTypeKept, Zenon
<1> QED
  BY <1>4, <1>5, <1>6 DEF FrontInv

\* checkBuild ends, with or without warnings.
LEMMA LintStep ==
  ASSUME FrontInv, NEW p \in Platforms, NEW ok \in BOOLEAN, Lint(p, ok)
  PROVE  FrontInv'
<1>0. PlType /\ PhaseInv /\ CheckInv /\ WaitInv /\ LookupInv /\ SeedInv
  BY DEF FrontInv
<1>1. Moves(p, "exited") /\ Rest /\ fe' \in {"ok", "error"} /\ refs' = refs /\ pl[p] = "lint"
  BY Zenon DEF Lint, Moves, Rest, buildVars
<1>2. check
  BY <1>0, <1>1 DEF CheckInv
<1>3. "exited" \in PlStates \ {"none"} /\ "exited" \notin Solving
  BY DEF PlStates, Solving
<1>4. PhaseInv' /\ CheckInv' /\ WaitInv'
  BY <1>0, <1>1, <1>2, <1>3, MovesOn
<1>5. /\ pl'[p] = "exited" /\ p = First /\ refs = {}
      /\ \A q \in Platforms : q # p => pl'[q] = "none" /\ pl[q] = "none"
  BY <1>0, <1>1, <1>2 DEF CheckInv, PlType, Moves
<1>6. LookupInv'
  <2>1. \A q \in Platforms : pl'[q] \notin {"resolve", "preseed"} /\ (pl'[q] = "none" => pl[q] = "none")
    BY <1>5
  <2> QED
    BY <1>0, <1>1, <2>1 DEF LookupInv, Rest
<1>7. SeedInv'
  BY <1>1, <1>5, Zenon DEF SeedInv, Solving
<1>8. PlType'
  BY <1>0, <1>1, <1>3, PlTypeKept
<1> QED
  BY <1>4, <1>6, <1>7, <1>8 DEF FrontInv

\* resolveStates fails and its states are dropped.
LEMMA FailedResolve ==
  ASSUME FrontInv, NEW p \in Platforms, pl[p] \in {"resolve", "preseed"}, ResolveFailed(p),
         UNCHANGED <<pc, err, check, waiter, fe, stage, copied, missing, refs>>
  PROVE  FrontInv'
<1>0. PlType /\ PhaseInv /\ CheckInv /\ WaitInv /\ LookupInv /\ SeedInv
  BY DEF FrontInv
<1>1. Moves(p, "resolve failed") /\ states' = [states EXCEPT ![p] = {}]
  BY Zenon DEF ResolveFailed, Moves
<1>2. "resolve failed" \in PlStates \ {"none"} /\ "resolve failed" \notin Solving
  BY DEF PlStates, Solving
<1>3. PhaseInv' /\ CheckInv' /\ WaitInv'
  BY <1>0, <1>1, <1>2, MovesOn, Zenon
<1>4. /\ pl'[p] = "resolve failed" /\ p \notin refs
      /\ \A q \in Platforms : q # p => pl'[q] = pl[q] /\ states'[q] = states[q]
  BY <1>0, <1>1, Zenon DEF PlType, Moves, WaitInv
<1>5. \A q \in Platforms : q # p => Known(q)' = Known(q)
  BY <1>4, Zenon DEF Known
<1>6. LookupInv'
  BY <1>0, <1>4, <1>5, Zenon DEF LookupInv
<1>7. SeedInv'
  BY <1>0, <1>2, <1>4, <1>5, Zenon DEF SeedInv
<1>8. PlType'
  BY <1>0, <1>1, <1>2, Zenon DEF PlType, Moves
<1> QED
  BY <1>3, <1>6, <1>7, <1>8 DEF FrontInv

LEMMA StagesDoneStep ==
  ASSUME FrontInv, NEW p \in Platforms, StagesDone(p)
  PROVE  FrontInv'
<1>0. PlType /\ PhaseInv /\ CheckInv /\ WaitInv /\ LookupInv /\ SeedInv
  BY DEF FrontInv
<1>1. pl[p] = "resolve" /\ UNCHANGED <<pc, err, check, waiter, fe, stage, copied, missing, refs>>
  BY DEF StagesDone, buildVars, feVars
<1>2. CASE \E k \in Stages : stage[<<p, k>>] = "failed"
  <2>1. ResolveFailed(p)
    BY <1>2, Zenon DEF StagesDone
  <2> QED
    BY <1>1, <2>1, FailedResolve
<1>3. CASE ~\E k \in Stages : stage[<<p, k>>] = "failed"
  <2>1. Moves(p, "preseed") /\ Rest
    BY <1>1, <1>3, Zenon DEF StagesDone, Moves, Rest
  <2>2. \A k \in Stages : stage[<<p, k>>] = "ok"
    BY <1>3, Zenon DEF StagesDone
  <2>3. "preseed" \in PlStates \ {"none"} /\ "preseed" \notin Solving
    BY DEF PlStates, Solving
  <2>4. PhaseInv' /\ CheckInv' /\ WaitInv'
    BY <1>0, <1>1, <2>1, <2>3, MovesOn
  <2>5. /\ pl'[p] = "preseed" /\ \A q \in Platforms : q # p => pl'[q] = pl[q]
    BY <1>0, <2>1 DEF PlType, Moves
  <2>6. \A q : Known(q)' = Known(q)
    BY <1>1, <2>1 DEF Known, Rest
  <2>7. LookupInv'
    <3>1. copied[p] = 0 /\ 1 .. 0 = {} /\ 0 <= Len(CopyFrom)
      BY <1>0, <1>1, ConstantsOK DEF LookupInv
    <3>2. \A k \in Stages : ~NotAnImage(k) => <<BaseName[k], PlatformOf(p, k)>> \in Known(p)
      BY <1>0, <1>1, <2>2, Zenon DEF LookupInv
    <3> QED
      BY <1>0, <1>1, <2>2, <2>5, <2>6, <3>1, <3>2 DEF LookupInv
  <2>8. SeedInv'
    BY <1>0, <1>1, <2>3, <2>5, <2>6 DEF SeedInv
  <2>9. PlType'
    BY <1>0, <1>1, <2>1, <2>3, PlTypeKept
  <2> QED
    BY <2>4, <2>7, <2>8, <2>9 DEF FrontInv
<1> QED
  BY <1>2, <1>3

LEMMA PreseedFailsStep ==
  ASSUME FrontInv, NEW p \in Platforms, PreseedFails(p)
  PROVE  FrontInv'
<1>1. /\ pl[p] = "preseed" /\ ResolveFailed(p)
      /\ UNCHANGED <<pc, err, check, waiter, fe, stage, copied, missing, refs>>
  BY DEF PreseedFails, buildVars, feVars
<1> QED
  BY <1>1, FailedResolve

\* Every external image of the Dockerfile has been looked up.
LEMMA PreseedDoneStep ==
  ASSUME FrontInv, NEW p \in Platforms, PreseedDone(p)
  PROVE  FrontInv'
<1>0. PlType /\ PhaseInv /\ CheckInv /\ WaitInv /\ LookupInv /\ SeedInv
  BY DEF FrontInv
<1>1. PICK to : to = IF check THEN "lint" ELSE "solve"
  OBVIOUS
<1>2. /\ pl[p] = "preseed" /\ copied[p] = Len(CopyFrom)
      /\ Moves(p, to) /\ Rest /\ UNCHANGED <<refs, fe>>
  BY <1>1, Zenon DEF PreseedDone, Moves, Rest, buildVars, feVars
<1>3. to \in PlStates \ {"none", "exited"} /\ to \in Solving \cup {"lint"} /\ to \notin {"none", "resolve", "preseed"}
  BY <1>1 DEF PlStates, Solving
<1>4. (check => to \notin Solving) /\ (~check => to # "lint")
  BY <1>1 DEF Solving
<1>5. PhaseInv' /\ CheckInv' /\ WaitInv'
  BY <1>0, <1>2, <1>3, <1>4, MovesOn
<1>6. ExternalImages(p) \subseteq Known(p)
  <2>1. \A k \in Stages : ~NotAnImage(k) => <<BaseName[k], PlatformOf(p, k)>> \in Known(p)
    BY <1>0, <1>2, Zenon DEF LookupInv
  <2>2. \A i \in DOMAIN CopyFrom : ~IsStage(CopyFrom[i]) /\ CopyFrom[i] # Scratch => <<CopyFrom[i], p>> \in Known(p)
    BY <1>0, <1>2, ConstantsOK DEF LookupInv
  <2> QED
    BY <2>1, <2>2, Zenon DEF ExternalImages
<1>7. LookupInv' /\ SeedInv'
  BY <1>0, <1>2, <1>3, <1>6, SeedsKept DEF Rest
<1>8. PlType'
  BY <1>0, <1>2, <1>3, PlTypeKept
<1> QED
  BY <1>5, <1>7, <1>8 DEF FrontInv

\* A goroutine looks something up: all stays known that was.
LEMMA LooksUp ==
  ASSUME PhaseInv, CheckInv, WaitInv, SeedInv, UNCHANGED <<pc, err, check, waiter, fe, pl, refs>>,
         \A q \in Platforms : Known(q) \subseteq Known(q)'
  PROVE  PhaseInv' /\ CheckInv' /\ WaitInv' /\ SeedInv'
<1>1. PhaseInv' /\ CheckInv' /\ WaitInv'
  BY DEF PhaseInv, CheckInv, WaitInv
<1>2. SeedInv'
  BY DEF SeedInv
<1> QED
  BY <1>1, <1>2

LEMMA KnownGrows ==
  ASSUME PlType, NEW p \in Platforms, NEW image \in Images, NEW found \in BOOLEAN, Resolved(p, image, found)
  PROVE  /\ states' \in [Platforms -> SUBSET Images] /\ missing' \in [Platforms -> SUBSET Images]
         /\ image \in Known(p)' /\ \A q \in Platforms : Known(q) \subseteq Known(q)'
<1>1. CASE found
  <2>1. states' = [states EXCEPT ![p] = states[p] \cup {image}] /\ missing' = missing
    BY <1>1, Zenon DEF Resolved
  <2> QED
    BY <2>1 DEF PlType, Known
<1>2. CASE ~found
  <2>1. missing' = [missing EXCEPT ![p] = missing[p] \cup {image}] /\ states' = states
    BY <1>2, Zenon DEF Resolved
  <2> QED
    BY <2>1 DEF PlType, Known
<1> QED
  BY <1>1, <1>2

LEMMA KnownSame ==
  ASSUME PlType, UNCHANGED <<states, missing>>
  PROVE  /\ states' \in [Platforms -> SUBSET Images] /\ missing' \in [Platforms -> SUBSET Images]
         /\ \A q \in Platforms : Known(q) \subseteq Known(q)'
BY DEF PlType, Known

LEMMA StageStepStep ==
  ASSUME FrontInv, NEW p \in Platforms, NEW k \in Stages, StageStep(p, k)
  PROVE  FrontInv'
<1>0. PlType /\ PhaseInv /\ CheckInv /\ WaitInv /\ LookupInv /\ SeedInv
  BY DEF FrontInv
<1>1. PICK to \in {"ok", "failed"} :
        /\ stage[<<p, k>>] = "run" /\ stage' = [stage EXCEPT ![<<p, k>>] = to]
        /\ UNCHANGED <<pc, err, check, waiter, fe, pl, refs, copied>>
        /\ \/ (to = "failed" \/ NotAnImage(k)) /\ UNCHANGED <<states, missing>>
           \/ \E found \in BOOLEAN : Resolved(p, <<BaseName[k], PlatformOf(p, k)>>, found)
  <2>1. CASE StageFails(p, k)
    <3> WITNESS "failed" \in {"ok", "failed"}
    <3> QED
      BY <2>1, Zenon DEF StageFails, buildVars, feVars
  <2>2. ASSUME NEW found \in BOOLEAN, StageResolves(p, k, found)
        PROVE  \E to \in {"ok", "failed"} :
                 /\ stage[<<p, k>>] = "run" /\ stage' = [stage EXCEPT ![<<p, k>>] = to]
                 /\ UNCHANGED <<pc, err, check, waiter, fe, pl, refs, copied>>
                 /\ \/ (to = "failed" \/ NotAnImage(k)) /\ UNCHANGED <<states, missing>>
                    \/ \E f \in BOOLEAN : Resolved(p, <<BaseName[k], PlatformOf(p, k)>>, f)
    <3> WITNESS "ok" \in {"ok", "failed"}
    <3>1. /\ stage[<<p, k>>] = "run" /\ stage' = [stage EXCEPT ![<<p, k>>] = "ok"]
          /\ UNCHANGED <<pc, err, check, waiter, fe, pl, refs, copied>>
      BY <2>2, Zenon DEF StageResolves, buildVars, feVars
    <3>2. \/ NotAnImage(k) /\ UNCHANGED <<states, missing>>
          \/ Resolved(p, <<BaseName[k], PlatformOf(p, k)>>, found)
      BY <2>2, Zenon DEF StageResolves
    <3> QED
      BY <3>1, <3>2, Zenon
  <2> QED
    BY <2>1, <2>2, Zenon DEF StageStep
<1>2. <<BaseName[k], PlatformOf(p, k)>> \in Images
  <2>1. PlatformOf(p, k) \in Platforms
    BY ConstantsOK DEF PlatformOf, Stages
  <2>2. BaseName[k] \in Names
    BY DEF Names
  <2> QED
    BY <2>1, <2>2 DEF Images
<1>3. /\ states' \in [Platforms -> SUBSET Images] /\ missing' \in [Platforms -> SUBSET Images]
      /\ \A q \in Platforms : Known(q) \subseteq Known(q)'
      /\ to = "ok" /\ ~NotAnImage(k) => <<BaseName[k], PlatformOf(p, k)>> \in Known(p)'
  <2>1. CASE UNCHANGED <<states, missing>> /\ (to = "failed" \/ NotAnImage(k))
    BY <1>0, <2>1, KnownSame
  <2>2. ASSUME NEW found \in BOOLEAN, Resolved(p, <<BaseName[k], PlatformOf(p, k)>>, found)
        PROVE  /\ states' \in [Platforms -> SUBSET Images] /\ missing' \in [Platforms -> SUBSET Images]
               /\ \A q \in Platforms : Known(q) \subseteq Known(q)'
               /\ <<BaseName[k], PlatformOf(p, k)>> \in Known(p)'
    BY <1>0, <1>2, <2>2, KnownGrows
  <2> QED
    BY <1>1, <2>1, <2>2
<1>4. /\ stage'[<<p, k>>] = to /\ stage' \in [Platforms \X Stages -> {"none", "run", "ok", "failed"}]
      /\ \A q \in Platforms, j \in Stages : (q # p \/ j # k) => stage'[<<q, j>>] = stage[<<q, j>>]
  BY <1>0, <1>1 DEF PlType
<1>5. PlType'
  BY <1>0, <1>1, <1>3, <1>4 DEF PlType
<1>6. pl[p] # "preseed"
  BY <1>0, <1>1 DEF LookupInv
<1>7. LookupInv'
  <2> SUFFICES ASSUME NEW q \in Platforms
               PROVE  /\ pl[q] \in {"resolve", "preseed"} =>
                           \A j \in Stages : stage'[<<q, j>>] = "ok" /\ ~NotAnImage(j) => <<BaseName[j], PlatformOf(q, j)>> \in Known(q)'
                      /\ pl[q] \in {"none", "resolve"} => copied[q] = 0
                      /\ pl[q] = "preseed" =>
                           /\ copied[q] <= Len(CopyFrom)
                           /\ \A j \in Stages : stage'[<<q, j>>] = "ok"
                           /\ \A i \in 1 .. copied[q] :
                                ~IsStage(CopyFrom[i]) /\ CopyFrom[i] # Scratch => <<CopyFrom[i], q>> \in Known(q)'
    BY <1>1, Zenon DEF LookupInv
  <2>1. pl[q] \in {"resolve", "preseed"} =>
          \A j \in Stages : stage'[<<q, j>>] = "ok" /\ ~NotAnImage(j) => <<BaseName[j], PlatformOf(q, j)>> \in Known(q)'
    <3> SUFFICES ASSUME pl[q] \in {"resolve", "preseed"}, NEW j \in Stages, stage'[<<q, j>>] = "ok", ~NotAnImage(j)
                 PROVE  <<BaseName[j], PlatformOf(q, j)>> \in Known(q)'
      OBVIOUS
    <3>1. CASE q = p /\ j = k
      BY <1>3, <1>4, <3>1
    <3>2. CASE q # p \/ j # k
      <4>1. stage[<<q, j>>] = "ok"
        BY <1>4, <3>2
      <4>2. <<BaseName[j], PlatformOf(q, j)>> \in Known(q)
        BY <1>0, <4>1, Zenon DEF LookupInv
      <4> QED
        BY <1>3, <4>2
    <3> QED
      BY <3>1, <3>2
  <2>2. pl[q] = "preseed" =>
          /\ copied[q] <= Len(CopyFrom)
          /\ \A j \in Stages : stage'[<<q, j>>] = "ok"
          /\ \A i \in 1 .. copied[q] :
               ~IsStage(CopyFrom[i]) /\ CopyFrom[i] # Scratch => <<CopyFrom[i], q>> \in Known(q)'
    <3> SUFFICES ASSUME pl[q] = "preseed"
                 PROVE  /\ copied[q] <= Len(CopyFrom)
                        /\ \A j \in Stages : stage'[<<q, j>>] = "ok"
                        /\ \A i \in 1 .. copied[q] :
                             ~IsStage(CopyFrom[i]) /\ CopyFrom[i] # Scratch => <<CopyFrom[i], q>> \in Known(q)'
      OBVIOUS
    <3>1. q # p
      BY <1>6
    <3>2. /\ copied[q] <= Len(CopyFrom)
          /\ \A j \in Stages : stage[<<q, j>>] = "ok"
          /\ \A i \in 1 .. copied[q] :
               ~IsStage(CopyFrom[i]) /\ CopyFrom[i] # Scratch => <<CopyFrom[i], q>> \in Known(q)
      BY <1>0, Zenon DEF LookupInv
    <3> QED
      BY <1>3, <1>4, <3>1, <3>2
  <2> QED
    BY <1>0, <2>1, <2>2 DEF LookupInv
<1>8. PhaseInv' /\ CheckInv' /\ WaitInv' /\ SeedInv'
  BY <1>0, <1>1, <1>3, LooksUp
<1> QED
  BY <1>5, <1>7, <1>8 DEF FrontInv

\* preseedCopyFromSources goes to the next source.
LEMMA PreseedStep ==
  ASSUME FrontInv, NEW p \in Platforms, NEW found \in BOOLEAN, Preseed(p, found)
  PROVE  FrontInv'
<1>0. PlType /\ PhaseInv /\ CheckInv /\ WaitInv /\ LookupInv /\ SeedInv
  BY DEF FrontInv
<1>1. PICK i : i = copied[p] + 1
  OBVIOUS
<1>2. /\ pl[p] = "preseed" /\ i <= Len(CopyFrom) /\ copied' = [copied EXCEPT ![p] = i]
      /\ UNCHANGED <<pc, err, check, waiter, fe, pl, refs, stage>>
      /\ \/ (IsStage(CopyFrom[i]) \/ CopyFrom[i] = Scratch) /\ UNCHANGED <<states, missing>>
         \/ Resolved(p, <<CopyFrom[i], p>>, found)
  BY <1>1, Zenon DEF Preseed, buildVars, feVars
<1>3. i \in Nat /\ i \in DOMAIN CopyFrom /\ copied[p] \in Nat /\ \A n \in 1 .. i : n = i \/ n \in 1 .. copied[p]
  BY <1>0, <1>1, <1>2, ConstantsOK DEF PlType
<1>4. <<CopyFrom[i], p>> \in Images
  BY <1>3, Zenon DEF Images, Names
<1>5. /\ states' \in [Platforms -> SUBSET Images] /\ missing' \in [Platforms -> SUBSET Images]
      /\ \A q \in Platforms : Known(q) \subseteq Known(q)'
      /\ ~IsStage(CopyFrom[i]) /\ CopyFrom[i] # Scratch => <<CopyFrom[i], p>> \in Known(p)'
  BY <1>0, <1>2, <1>4, KnownGrows, KnownSame
<1>6. PlType'
  BY <1>0, <1>2, <1>3, <1>5, Zenon DEF PlType
<1>7. copied'[p] = i /\ \A q \in Platforms : q # p => copied'[q] = copied[q]
  BY <1>0, <1>2 DEF PlType
<1>8. LookupInv'
  <2>1. \A q \in Platforms : pl[q] \in {"resolve", "preseed"} =>
          \A j \in Stages : stage[<<q, j>>] = "ok" /\ ~NotAnImage(j) => <<BaseName[j], PlatformOf(q, j)>> \in Known(q)'
    BY <1>0, <1>5, Zenon DEF LookupInv
  <2>2. \A q \in Platforms : pl[q] \in {"none", "resolve"} => copied'[q] = 0
    BY <1>0, <1>2, <1>7 DEF LookupInv
  <2>3. ASSUME NEW q \in Platforms, pl[q] = "preseed"
        PROVE  /\ copied'[q] <= Len(CopyFrom)
               /\ \A j \in Stages : stage[<<q, j>>] = "ok"
               /\ \A n \in 1 .. copied'[q] :
                    ~IsStage(CopyFrom[n]) /\ CopyFrom[n] # Scratch => <<CopyFrom[n], q>> \in Known(q)'
    <3>1. /\ copied[q] <= Len(CopyFrom)
          /\ \A j \in Stages : stage[<<q, j>>] = "ok"
          /\ \A n \in 1 .. copied[q] :
               ~IsStage(CopyFrom[n]) /\ CopyFrom[n] # Scratch => <<CopyFrom[n], q>> \in Known(q)
      BY <1>0, <2>3, Zenon DEF LookupInv
    <3>2. CASE q = p
      BY <1>2, <1>3, <1>5, <1>7, <3>1, <3>2
    <3>3. CASE q # p
      BY <1>5, <1>7, <3>1, <3>3
    <3> QED
      BY <3>2, <3>3
  <2> QED
    BY <1>2, <2>1, <2>2, <2>3 DEF LookupInv
<1>9. PhaseInv' /\ CheckInv' /\ WaitInv' /\ SeedInv'
  BY <1>0, <1>2, <1>5, LooksUp
<1> QED
  BY <1>6, <1>8, <1>9 DEF FrontInv

\* The goroutine behind plWG, and frontend's select.
LEMMA WaiterStep ==
  ASSUME FrontInv, PlatformsDone \/ FrontendDone
  PROVE  FrontInv'
<1>0. PlType /\ PhaseInv /\ CheckInv /\ WaitInv /\ LookupInv /\ SeedInv
  BY DEF FrontInv
<1>1. UNCHANGED <<pc, err, check, pl, stage, copied, states, missing, refs>> /\ fe # "none"
  BY DEF PlatformsDone, FrontendDone, buildVars, plVars
<1>2. PlType' /\ LookupInv' /\ CheckInv'
  BY <1>0, <1>1 DEF PlType, LookupInv, CheckInv, Known
<1>3. CASE PlatformsDone
  <2>1. fe' = fe /\ waiter' = "send" /\ \A p \in Platforms : pl[p] = "exited"
    BY <1>3 DEF PlatformsDone
  <2>2. PhaseInv' /\ WaitInv' /\ SeedInv'
    BY <1>0, <1>1, <2>1 DEF PhaseInv, WaitInv, SeedInv, Known
  <2> QED
    BY <1>2, <2>2 DEF FrontInv
<1>4. CASE FrontendDone
  <2>1. waiter = "send" /\ fe = "select" /\ waiter' = "exited" /\ fe' = "ok"
    BY <1>4 DEF FrontendDone
  <2>2. \A p \in Platforms : pl[p] = "exited" /\ (~check => p \in refs)
    BY <1>0, <2>1 DEF WaitInv
  <2>3. PhaseInv'
    BY <1>0, <1>1, <2>1 DEF PhaseInv
  <2>4. WaitInv'
    BY <1>0, <1>1, <2>1, <2>2, Zenon DEF WaitInv, PlType
  <2>5. SeedInv'
    BY <1>0, <1>1, <2>1 DEF SeedInv, Known
  <2> QED
    BY <1>2, <2>3, <2>4, <2>5 DEF FrontInv
<1> QED
  BY <1>3, <1>4

\* Build's own steps leave the goroutines alone ...
LEMMA OwnStep ==
  ASSUME FrontInv, UNCHANGED <<check, feVars, plVars>>,
         pc' \in {"connect", "exports", "options"} => pc \in {"connect", "exports", "options"},
         pc' \in {"draining", "returned"} /\ err' = "nil" =>
           fe = "ok" \/ (pc \in {"draining", "returned"} /\ err = "nil")
  PROVE  FrontInv'
<1>0. PlType /\ PhaseInv /\ CheckInv /\ WaitInv /\ LookupInv /\ SeedInv
  BY DEF FrontInv
<1>1. UNCHANGED <<check, fe, waiter, pl, stage, copied, states, missing, refs>>
  BY DEF feVars, plVars
<1>2. PhaseInv'
  BY <1>0, <1>1 DEF PhaseInv
<1>3. PlType' /\ CheckInv' /\ WaitInv'
  BY <1>0, <1>1 DEF PlType, CheckInv, WaitInv
<1>4. LookupInv' /\ SeedInv'
  BY <1>0, <1>1 DEF LookupInv, SeedInv, Known
<1> QED
  BY <1>2, <1>3, <1>4 DEF FrontInv

\* ... except when the solve begins.
LEMMA NewSolveOptionsStep ==
  ASSUME FrontInv, NEW ok \in BOOLEAN, NewSolveOptions(ok)
  PROVE  FrontInv'
<1>0. PlType /\ PhaseInv /\ CheckInv /\ WaitInv /\ LookupInv /\ SeedInv
  BY DEF FrontInv
<1>1. pc = "options" /\ fe = "none" /\ UNCHANGED <<check, waiter, copied, states, missing, refs>>
  BY <1>0 DEF NewSolveOptions, PhaseInv
<1>2. CASE ~ok
  <2>1. pc' = "returned" /\ err' = "error" /\ UNCHANGED <<feVars, plVars>>
    BY <1>1, <1>2, Zenon DEF NewSolveOptions, Returns, feVars, plVars
  <2> QED
    BY <1>1, <2>1, OwnStep
<1>3. CASE ok
  <2>1. pc' = "solving" /\ StartFrontend
    BY <1>3, Zenon DEF NewSolveOptions
  <2>2. /\ fe' = "select"
        /\ pl' = [p \in Platforms |-> IF check => p = First THEN "resolve" ELSE "none"]
        /\ stage' = [pk \in Platforms \X Stages |-> IF check => pk[1] = First THEN "run" ELSE "none"]
    BY <2>1, Zenon DEF StartFrontend
  <2>3. /\ \A p \in Platforms : pl'[p] \in {"resolve", "none"} /\ (check /\ p # First => pl'[p] = "none")
        /\ \A p \in Platforms, k \in Stages : stage'[<<p, k>>] \in {"run", "none"}
        /\ pl' \in [Platforms -> PlStates] /\ stage' \in [Platforms \X Stages -> {"none", "run", "ok", "failed"}]
    BY <2>2 DEF PlStates
  <2>4. /\ waiter = "wait" /\ refs = {} /\ \A p \in Platforms : copied[p] = 0
    BY <1>0, <1>1 DEF PhaseInv, WaitInv, LookupInv, PlType
  <2>5. PlType'
    BY <1>0, <1>1, <2>3 DEF PlType
  <2>6. PhaseInv' /\ WaitInv'
    BY <1>1, <2>1, <2>2, <2>3, <2>4 DEF PhaseInv, WaitInv
  <2>7. CheckInv'
    BY <1>1, <2>3, <2>4, Zenon DEF CheckInv, Solving
  <2>8. LookupInv'
    BY <1>1, <2>3, <2>4 DEF LookupInv
  <2>9. SeedInv'
    BY <1>1, <2>3, <2>4, Zenon DEF SeedInv, Solving
  <2> QED
    BY <2>5, <2>6, <2>7, <2>8, <2>9 DEF FrontInv
<1> QED
  BY <1>2, <1>3

-----------------------------------------------------------------------------
(***************************************************************************)
(* Steps of Build and of the exporters.                                    *)
(***************************************************************************)

\* An export that writes alone has written all there is.
LEMMA WrittenAlone ==
  ASSUME buffered \in Seq(Nat \X Nat), NEW i, \A n \in 1 .. Len(buffered) : buffered[n][1] = i
  PROVE  Written(i) = Len(buffered)
<1>1. Len(buffered) \in Nat /\ DOMAIN buffered = 1 .. Len(buffered)
  OBVIOUS
<1>2. {n \in DOMAIN buffered : buffered[n][1] = i} = 1 .. Len(buffered)
  BY <1>1
<1>3. Cardinality(1 .. Len(buffered)) = IF 1 > Len(buffered) THEN 0 ELSE Len(buffered) - 1 + 1
  BY <1>1, FS_Interval, SMTT(20)
<1>4. Written(i) = Cardinality(1 .. Len(buffered))
  BY <1>2, Zenon DEF Written
<1>5. \A n \in Nat : n = IF 1 > n THEN 0 ELSE n - 1 + 1
  OBVIOUS
<1> QED
  BY <1>1, <1>3, <1>4, <1>5, Zenon

LEMMA WrittenNat ==
  ASSUME buffered \in Seq(Nat \X Nat), NEW i
  PROVE  Written(i) \in Nat
<1>1. Len(buffered) \in Nat /\ DOMAIN buffered = 1 .. Len(buffered)
  OBVIOUS
<1>2. IsFiniteSet(1 .. Len(buffered))
  BY <1>1, FS_Interval
<1>3. {n \in DOMAIN buffered : buffered[n][1] = i} \subseteq 1 .. Len(buffered)
  BY <1>1
<1>4. IsFiniteSet({n \in DOMAIN buffered : buffered[n][1] = i})
  BY <1>2, <1>3, FS_Subset
<1> QED
  BY <1>4, FS_CardinalityType DEF Written

LEMMA FilesSame ==
  ASSUME FileInv, UNCHANGED fileVars,
         pc' \in {"connect", "exports"} => pc \in {"connect", "exports"},
         pc' \in {"draining", "returned"} /\ err' = "nil" =>
           \/ \A i \in DOMAIN exporter : exporter[i] = "done"
           \/ pc \in {"draining", "returned"} /\ err = "nil"
  PROVE  FileInv'
<1>0. FileType /\ BufferInv /\ CloseInv /\ EndInv
  BY DEF FileInv
<1>1. UNCHANGED <<exports, temp, buffered, out, exporter>>
  BY DEF fileVars
<1>2. FileType' /\ BufferInv'
  BY <1>0, <1>1, ZenonT(30) DEF FileType, BufferInv, Files
<1>3. CloseInv'
  BY <1>0, <1>1 DEF CloseInv, Files, Written
<1>4. EndInv'
  BY <1>0, <1>1 DEF EndInv
<1> QED
  BY <1>2, <1>3, <1>4 DEF FileInv

LEMMA ConfiguredExportsStep ==
  ASSUME FileInv, NEW list \in ExportLists, ConfiguredExports(list)
  PROVE  FileInv'
<1>0. FileType /\ BufferInv /\ CloseInv /\ EndInv
  BY DEF FileInv
<1>1. PICK wanted : wanted = IF check THEN <<>> ELSE IF list = <<>> THEN <<"file">> ELSE list
  BY Zenon
<1>2. /\ pc = "exports" /\ pc' = "options" /\ exports' = wanted /\ exporter' = [i \in DOMAIN wanted |-> "idle"]
      /\ temp' \in {"none", "open"} /\ buffered' = buffered
  BY <1>1, Zenon DEF ConfiguredExports
<1>3. buffered = <<>> /\ wanted \in Seq({"local", "file"})
  <2>1. buffered = <<>>
    BY <1>0, <1>2 DEF EndInv
  <2>2. list \in Seq({"local", "file"})
    BY ConstantsOK
  <2>3. <<>> \in Seq({"local", "file"}) /\ <<"file">> \in Seq({"local", "file"})
    OBVIOUS
  <2> QED
    BY <1>1, <2>1, <2>2, <2>3, Zenon
<1>4. \A i \in DOMAIN exporter' : exporter'[i] = "idle"
  BY <1>2
<1>5. FileType'
  BY <1>0, <1>2, <1>3 DEF FileType
<1>6. BufferInv'
  BY <1>2, <1>3 DEF BufferInv
<1>7. CloseInv'
  <2>1. \A i \in Files' : exporter'[i] = "idle"
    BY <1>2 DEF Files
  <2> QED
    BY <2>1 DEF CloseInv
<1>8. EndInv'
  BY <1>2 DEF EndInv
<1> QED
  BY <1>5, <1>6, <1>7, <1>8 DEF FileInv

\* Exporter i goes on: what Build and the other exporters have is as it was.
Steps(i, how) == Ends(i, how) /\ UNCHANGED <<pc, err, exports>>

LEMMA StepsOn ==
  ASSUME FileType, EndInv, NEW i \in DOMAIN exporter, exporter[i] = "open" \/ (exporter[i] = "idle" /\ pc = "solving"),
         NEW how \in {"idle", "open", "done", "failed"}, Steps(i, how)
  PROVE  /\ exporter' \in [DOMAIN exports -> {"idle", "open", "done", "failed"}] /\ exporter'[i] = how
         /\ \A j \in DOMAIN exporter : j # i => exporter'[j] = exporter[j]
         /\ DOMAIN exporter = DOMAIN exports /\ Files' = Files /\ exports' = exports
         /\ EndInv'
<1>1. exporter' = [exporter EXCEPT ![i] = how] /\ UNCHANGED <<pc, err, exports>>
  BY DEF Steps, Ends
<1>2. DOMAIN exporter = DOMAIN exports /\ exporter \in [DOMAIN exports -> {"idle", "open", "done", "failed"}]
  BY DEF FileType
<1>3. /\ exporter' \in [DOMAIN exports -> {"idle", "open", "done", "failed"}] /\ exporter'[i] = how
      /\ \A j \in DOMAIN exporter : j # i => exporter'[j] = exporter[j]
  BY <1>1, <1>2
<1>4. pc \notin {"connect", "exports"}
  <2>1. ASSUME pc \in {"connect", "exports"} PROVE FALSE
    <3>1. exports = <<>>
      BY <2>1 DEF EndInv
    <3> QED
      BY <1>2, <3>1
  <2> QED
    BY <2>1
<1>5. ~(pc \in {"draining", "returned"} /\ err = "nil")
  BY DEF EndInv
<1>6. EndInv'
  BY <1>1, <1>4, <1>5 DEF EndInv
<1>7. Files' = Files
  BY <1>1 DEF Files
<1> QED
  BY <1>1, <1>2, <1>3, <1>6, <1>7

LEMMA ExporterOpensStep ==
  ASSUME FileInv, NEW i \in DOMAIN exporter, ExporterOpens(i)
  PROVE  FileInv'
<1>0. FileType /\ BufferInv /\ CloseInv /\ EndInv
  BY DEF FileInv
<1>1. /\ pc = "solving" /\ exporter[i] = "idle" /\ Steps(i, "open") /\ UNCHANGED <<temp, buffered, out>>
  BY DEF ExporterOpens, Steps, buildVars
<1>2. /\ exporter' \in [DOMAIN exports -> {"idle", "open", "done", "failed"}] /\ exporter'[i] = "open"
      /\ \A j \in DOMAIN exporter : j # i => exporter'[j] = exporter[j]
      /\ DOMAIN exporter = DOMAIN exports /\ Files' = Files /\ exports' = exports /\ EndInv'
  BY <1>0, <1>1, StepsOn
<1>3. FileType'
  BY <1>0, <1>1, <1>2 DEF FileType
<1>4. BufferInv'
  BY <1>0, <1>1, <1>2 DEF BufferInv
<1>5. CloseInv'
  <2>1. \A j \in Files : j \in DOMAIN exporter /\ Written(j)' = Written(j) /\ (exporter'[j] = "done" => exporter[j] = "done")
    BY <1>1, <1>2 DEF Files, Written
  <2> QED
    BY <1>0, <1>1, <1>2, <2>1 DEF CloseInv
<1> QED
  BY <1>2, <1>3, <1>4, <1>5 DEF FileInv

LEMMA LocalDoneStep ==
  ASSUME FileInv, NEW i \in DOMAIN exporter, LocalDone(i)
  PROVE  FileInv'
<1>0. FileType /\ BufferInv /\ CloseInv /\ EndInv
  BY DEF FileInv
<1>1. /\ ~IsFile(exports[i]) /\ exporter[i] = "open" /\ Steps(i, "done") /\ UNCHANGED <<temp, buffered, out>>
  BY DEF LocalDone, Steps, buildVars
<1>2. /\ exporter' \in [DOMAIN exports -> {"idle", "open", "done", "failed"}] /\ exporter'[i] = "done"
      /\ \A j \in DOMAIN exporter : j # i => exporter'[j] = exporter[j]
      /\ DOMAIN exporter = DOMAIN exports /\ Files' = Files /\ exports' = exports /\ EndInv'
  BY <1>0, <1>1, StepsOn
<1>3. FileType'
  BY <1>0, <1>1, <1>2 DEF FileType
<1>4. BufferInv'
  BY <1>0, <1>1, <1>2 DEF BufferInv
<1>5. CloseInv'
  <2>1. \A j \in Files : j \in DOMAIN exporter /\ j # i /\ Written(j)' = Written(j)
    BY <1>1, <1>2 DEF Files, Written
  <2> QED
    BY <1>0, <1>1, <1>2, <2>1 DEF CloseInv
<1> QED
  BY <1>2, <1>3, <1>4, <1>5 DEF FileInv

\* As long as the file is open, no file export is done.
LEMMA NoneDone ==
  ASSUME FileType, CloseInv, temp = "open"
  PROVE  \A j \in Files : exporter[j] # "done"
BY DEF CloseInv

LEMMA WriteStep ==
  ASSUME FileInv, NEW i \in DOMAIN exporter, Write(i)
  PROVE  FileInv'
<1>0. FileType /\ BufferInv /\ CloseInv /\ EndInv
  BY DEF FileInv
<1>1. PICK w : w = Written(i)
  OBVIOUS
<1>2. /\ exporter[i] = "open" /\ IsFile(exports[i]) /\ temp = "open" /\ buffered' = Append(buffered, <<i, w + 1>>)
      /\ UNCHANGED <<pc, err, exports, temp, out, exporter>>
  BY <1>1 DEF Write, buildVars
<1>3. w \in Nat /\ i \in Nat /\ i \in Files /\ Files' = Files /\ buffered \in Seq(Nat \X Nat)
  <2>1. DOMAIN exporter = DOMAIN exports /\ DOMAIN exports = 1 .. Len(exports) /\ Len(exports) \in Nat
    BY <1>0 DEF FileType
  <2>2. buffered \in Seq(Nat \X Nat)
    BY <1>0 DEF FileType
  <2>3. w \in Nat
    BY <2>2, <1>1, WrittenNat
  <2> QED
    BY <1>2, <2>1, <2>2, <2>3 DEF Files
<1>4. /\ Len(buffered) \in Nat /\ Len(buffered') = Len(buffered) + 1 /\ buffered' \in Seq(Nat \X Nat)
      /\ buffered'[Len(buffered) + 1] = <<i, w + 1>>
      /\ \A n \in 1 .. Len(buffered) : buffered'[n] = buffered[n]
  BY <1>2, <1>3
<1>5. PICK l \in Nat : l = Len(buffered)
  BY <1>4
<1>6. FileType'
  BY <1>0, <1>2, <1>4 DEF FileType
<1>7. BufferInv'
  <2>1. \A n \in 1 .. l + 1 : n \in 1 .. l \/ n = l + 1
    OBVIOUS
  <2>2. \A n \in 1 .. l : n \in 1 .. l + 1
    OBVIOUS
  <2>3. ASSUME NEW n \in 1 .. l + 1
        PROVE  buffered'[n][1] \in Files
    <3>1. CASE n \in 1 .. l
      BY <1>0, <1>4, <1>5, <3>1, Zenon DEF BufferInv
    <3>2. CASE n = l + 1
      BY <1>3, <1>4, <1>5, <3>2
    <3> QED
      BY <2>1, <3>1, <3>2
  <2>4. ASSUME NEW j \in Files, \A n \in 1 .. l + 1 : buffered'[n][1] = j, NEW n \in 1 .. l + 1
        PROVE  buffered'[n] = <<j, n>>
    <3>1. j = i
      <4>1. l + 1 \in 1 .. l + 1
        OBVIOUS
      <4>2. buffered'[l + 1][1] = j
        BY <2>4, <4>1
      <4> QED
        BY <4>2, <1>4, <1>5
    <3>2. \A m \in 1 .. l : buffered[m][1] = i
      BY <2>2, <2>4, <3>1, <1>4, <1>5
    <3>3. \A m \in 1 .. l : buffered[m] = <<i, m>>
      BY <1>0, <1>3, <1>5, <3>2, Zenon DEF BufferInv
    <3>4. w = l
      BY <1>1, <1>3, <1>5, <3>2, WrittenAlone
    <3>5. CASE n \in 1 .. l
      BY <1>4, <1>5, <3>1, <3>3, <3>5, Zenon
    <3>6. CASE n = l + 1
      BY <1>4, <1>5, <3>1, <3>4, <3>6, Zenon
    <3> QED
      BY <2>1, <3>5, <3>6
  <2> QED
    BY <1>3, <1>4, <1>5, <2>3, <2>4, Zenon DEF BufferInv
<1>8. CloseInv'
  <2>1. \A j \in Files : exporter[j] # "done"
    BY <1>0, <1>2, NoneDone
  <2> QED
    BY <1>2, <1>3, <2>1 DEF CloseInv
<1>9. EndInv'
  <2>1. exports # <<>>
    BY <1>0 DEF FileType
  <2> QED
    BY <1>0, <1>2, <2>1 DEF EndInv
<1> QED
  BY <1>6, <1>7, <1>8, <1>9 DEF FileInv

LEMMA WholeSeq ==
  ASSUME NEW S, NEW s \in Seq(S)
  PROVE  SubSeq(s, 1, Len(s)) = s
OBVIOUS

LEMMA CloseStep ==
  ASSUME FileInv, NEW i \in DOMAIN exporter, NEW kept, Close(i, kept)
  PROVE  FileInv'
<1>0. FileType /\ BufferInv /\ CloseInv /\ EndInv
  BY DEF FileInv
<1>1. PICK how : how = IF temp = "open" /\ kept = Len(buffered) THEN "done" ELSE "failed"
  OBVIOUS
<1>2. /\ exporter[i] = "open" /\ IsFile(exports[i]) /\ Written(i) = Blocks /\ buffered' = buffered
      /\ temp = "open" => temp' = "removed" /\ out' = SubSeq(buffered, 1, kept)
      /\ temp # "open" => UNCHANGED <<temp, out>>
      /\ Steps(i, how)
  BY <1>1 DEF Close, ClosedAgain, Steps, buildVars
<1>3. how \in {"idle", "open", "done", "failed"}
  BY <1>1
<1>4. /\ exporter' \in [DOMAIN exports -> {"idle", "open", "done", "failed"}] /\ exporter'[i] = how
      /\ \A j \in DOMAIN exporter : j # i => exporter'[j] = exporter[j]
      /\ DOMAIN exporter = DOMAIN exports /\ Files' = Files /\ exports' = exports /\ EndInv'
  BY <1>0, <1>2, <1>3, StepsOn
<1>5. FileType'
  BY <1>0, <1>2, <1>4 DEF FileType
<1>6. BufferInv'
  BY <1>0, <1>2, <1>4 DEF BufferInv
<1>7. CloseInv'
  <2>1. \A j \in Files : j \in DOMAIN exporter /\ Written(j)' = Written(j)
    BY <1>2, <1>4 DEF Files, Written
  <2>2. CASE temp = "open"
    <3>1. \A j \in Files : exporter[j] # "done"
      BY <1>0, <2>2, NoneDone
    <3>2. \A j \in Files : exporter'[j] = "done" => j = i /\ how = "done"
      BY <1>4, <2>1, <3>1
    <3>3. how = "done" => out' = buffered
      BY <1>0, <1>1, <1>2, <2>2, WholeSeq, Zenon DEF FileType
    <3> QED
      BY <1>2, <1>4, <2>1, <2>2, <3>2, <3>3 DEF CloseInv
  <2>3. CASE temp # "open"
    <3>1. \A j \in Files : exporter'[j] = "done" => exporter[j] = "done"
      BY <1>1, <1>4, <2>1, <2>3
    <3> QED
      BY <1>0, <1>2, <1>4, <2>1, <2>3, <3>1 DEF CloseInv
  <2> QED
    BY <2>2, <2>3
<1> QED
  BY <1>4, <1>5, <1>6, <1>7 DEF FileInv

LEMMA ExporterFailsStep ==
  ASSUME FileInv, NEW i \in DOMAIN exporter, NEW kept, ExporterFails(i, kept)
  PROVE  FileInv'
<1>0. FileType /\ BufferInv /\ CloseInv /\ EndInv
  BY DEF FileInv
<1>1. /\ exporter[i] = "open" /\ Steps(i, "failed") /\ buffered' = buffered
      /\ (temp = "open" /\ temp' = "removed") \/ UNCHANGED <<temp, out>>
  BY DEF ExporterFails, Steps, buildVars
<1>2. /\ exporter' \in [DOMAIN exports -> {"idle", "open", "done", "failed"}] /\ exporter'[i] = "failed"
      /\ \A j \in DOMAIN exporter : j # i => exporter'[j] = exporter[j]
      /\ DOMAIN exporter = DOMAIN exports /\ Files' = Files /\ exports' = exports /\ EndInv'
  BY <1>0, <1>1, StepsOn
<1>3. FileType'
  BY <1>0, <1>1, <1>2 DEF FileType
<1>4. BufferInv'
  BY <1>0, <1>1, <1>2 DEF BufferInv
<1>5. CloseInv'
  <2>1. \A j \in Files : j \in DOMAIN exporter /\ Written(j)' = Written(j) /\ (exporter'[j] = "done" => exporter[j] = "done")
    BY <1>1, <1>2 DEF Files, Written
  <2>2. CASE UNCHANGED <<temp, out>>
    BY <1>0, <1>1, <1>2, <2>1, <2>2 DEF CloseInv
  <2>3. CASE temp = "open"
    <3>1. \A j \in Files : exporter'[j] # "done"
      BY <1>0, <2>1, <2>3, NoneDone
    <3> QED
      BY <1>2, <3>1 DEF CloseInv
  <2> QED
    BY <1>1, <2>2, <2>3
<1> QED
  BY <1>2, <1>3, <1>4, <1>5 DEF FileInv

-----------------------------------------------------------------------------
(***************************************************************************)
(* The invariant.                                                          *)
(***************************************************************************)

LEMMA IInvInit == Init => IInv
<1> SUFFICES ASSUME Init PROVE FrontInv /\ FileInv
  BY DEF IInv
<1>1. /\ pc = "connect" /\ check \in BOOLEAN /\ fe = "none" /\ waiter = "wait" /\ refs = {}
      /\ \A p \in Platforms : pl[p] = "none" /\ copied[p] = 0
  BY DEF Init
<1>2. PlType
  BY DEF Init, PlType, PlStates
<1>3. PhaseInv /\ CheckInv /\ WaitInv /\ LookupInv /\ SeedInv
  <2>1. PhaseInv /\ CheckInv /\ WaitInv
    BY <1>1, ConstantsOK, Zenon DEF PhaseInv, CheckInv, WaitInv, Solving
  <2>2. LookupInv
    <3>1. \A p \in Platforms, k \in Stages : stage[<<p, k>>] = "none"
      BY DEF Init
    <3> QED
      BY <1>1, <3>1 DEF LookupInv
  <2>3. SeedInv
    BY <1>1, Zenon DEF SeedInv, Solving
  <2> QED
    BY <2>1, <2>2, <2>3
<1>4. FileType /\ BufferInv /\ CloseInv /\ EndInv
  BY DEF Init, FileType, BufferInv, CloseInv, EndInv, Files
<1> QED
  BY <1>2, <1>3, <1>4 DEF FrontInv, FileInv

\* Build's steps that leave the frontend and the files alone.
LEMMA BuildStep ==
  ASSUME IInv,
         \/ \E ok \in BOOLEAN : NewBuildkitClient(ok)
         \/ ConfiguredExportsFails \/ Finish \/ ProgressDone \/ Cancel \/ UNCHANGED vars
  PROVE  IInv'
<1>0. FrontInv /\ FileInv
  BY DEF IInv
<1>1. /\ UNCHANGED <<check, feVars, plVars, fileVars>>
      /\ \/ pc = "connect" /\ pc' = "exports" /\ err' = err
         \/ pc' \in {"draining", "returned"} /\ err' = "error"
         \/ pc = "solving" /\ fe = "ok" /\ (\A i \in DOMAIN exporter : exporter[i] = "done") /\ pc' = "draining" /\ err' = err
         \/ pc = "draining" /\ pc' = "returned" /\ err' = err
         \/ pc' = pc /\ err' = err
  BY DEF NewBuildkitClient, ConfiguredExportsFails, Finish, SolveSucceeds, SolveReturnsError, ProgressDone, Cancel,
         Returns, vars, buildVars
<1>2. FrontInv'
  BY <1>0, <1>1, OwnStep
<1>3. FileInv'
  BY <1>0, <1>1, FilesSame
<1> QED
  BY <1>2, <1>3 DEF IInv

LEMMA ExportStep ==
  ASSUME IInv, NEW i \in DOMAIN exporter, ExporterStep(i)
  PROVE  IInv'
<1>0. FrontInv /\ FileInv
  BY DEF IInv
<1>1. UNCHANGED <<pc, err, check, feVars, plVars>>
  BY DEF ExporterStep, ExporterOpens, Write, LocalDone, Close, ExporterFails, buildVars
<1>2. FrontInv'
  BY <1>0, <1>1, OwnStep
<1>3. FileInv'
  BY <1>0, ExporterOpensStep, WriteStep, LocalDoneStep, CloseStep, ExporterFailsStep DEF ExporterStep
<1> QED
  BY <1>2, <1>3 DEF IInv

LEMMA FrontendStep ==
  ASSUME IInv,
         \/ PlatformsDone \/ FrontendDone
         \/ \E p \in Platforms : PlatformStep(p) \/ PlatformAnswered(p) \/ \E k \in Stages : StageStep(p, k)
  PROVE  IInv'
<1>0. FrontInv /\ FileInv
  BY DEF IInv
<1>1. UNCHANGED <<pc, err, fileVars>>
  BY Zenon DEF PlatformsDone, FrontendDone, PlatformStep, PlatformAnswered, StageStep, StagesDone, PreseedDone, ReportsResolve,
         ReportsSolve, Preseed, PreseedFails, AddsRef, MetadataOnly, SolveFails, Lint, StageFails, StageResolves, buildVars
<1>2. ASSUME NEW p \in Platforms, PlatformStep(p) \/ PlatformAnswered(p)
      PROVE  FrontInv'
  BY <1>0, <1>2, StagesDoneStep, PreseedDoneStep, ReportStep, PreseedStep, PreseedFailsStep, SolveStep, LintStep
     DEF PlatformStep, PlatformAnswered
<1>3. FrontInv'
  BY <1>0, <1>2, StageStepStep, WaiterStep
<1>4. FileInv'
  BY <1>0, <1>1, FilesSame
<1> QED
  BY <1>3, <1>4 DEF IInv

LEMMA IInvStep == IInv /\ [Next]_vars => IInv'
<1> SUFFICES ASSUME IInv, [Next]_vars PROVE IInv'
  OBVIOUS
<1>0. FrontInv /\ FileInv
  BY DEF IInv
<1>1. ASSUME NEW list \in ExportLists, ConfiguredExports(list)
      PROVE  IInv'
  <2>1. pc = "exports" /\ pc' = "options" /\ UNCHANGED <<err, check, feVars, plVars>>
    BY <1>1 DEF ConfiguredExports
  <2>2. FrontInv'
    BY <1>0, <2>1, OwnStep
  <2> QED
    BY <1>0, <1>1, <2>2, ConfiguredExportsStep DEF IInv
<1>2. ASSUME NEW ok \in BOOLEAN, NewSolveOptions(ok)
      PROVE  IInv'
  <2>1. /\ UNCHANGED fileVars /\ pc' \in {"solving", "returned"}
        /\ pc' = "returned" => err' = "error"
    BY <1>2 DEF NewSolveOptions, Returns
  <2>2. FileInv'
    BY <1>0, <2>1, FilesSame
  <2> QED
    BY <1>0, <1>2, <2>2, NewSolveOptionsStep DEF IInv
<1>3. ASSUME Prepare
      PROVE  IInv'
  BY <1>1, <1>2, <1>3, BuildStep DEF Prepare
<1>4. ASSUME NEW i \in DOMAIN exporter, ExporterStep(i)
      PROVE  IInv'
  BY <1>4, ExportStep
<1>5. CASE Finish \/ ProgressDone \/ Cancel \/ Terminated \/ UNCHANGED vars
  BY <1>5, BuildStep DEF Terminated
<1>6. CASE \/ PlatformsDone \/ FrontendDone
           \/ \E p \in Platforms : PlatformStep(p) \/ PlatformAnswered(p) \/ \E k \in Stages : StageStep(p, k)
  BY <1>6, FrontendStep
<1> QED
  BY <1>3, <1>4, <1>5, <1>6, Zenon DEF Next

LEMMA Invariant == Spec => []IInv
BY IInvInit, IInvStep, PTL DEF Spec

-----------------------------------------------------------------------------
(* frontend answers BuildKit with success only after wg.Wait, and a        *)
(* goroutine that ends without a reference has handed its error to         *)
(* frontend's select first: a build that is not a check never returns      *)
(* without an error and without a reference for some platform, whatever    *)
(* the number of platforms and the order in which they end.                *)
THEOREM EveryPlatform == Spec => []AllPlatforms
<1>1. IInv => AllPlatforms
  BY DEF IInv, FrontInv, PhaseInv, WaitInv, AllPlatforms
<1> QED
  BY <1>1, Invariant, PTL

(* resolveStates has a named context, or the host's word that it has none, *)
(* for every image the Dockerfile takes from outside before solvePlatform  *)
(* or the linter starts; a goroutine that goes on without them does so     *)
(* only when frontend has its error.                                       *)
THEOREM Seeded == Spec => []SolvesSeeded
<1>1. IInv => SolvesSeeded
  BY Zenon DEF IInv, FrontInv, SeedInv, Solving, Known, SolvesSeeded
<1> QED
  BY <1>1, Invariant, PTL

(* However many file exports share the writer of a build: if it returns    *)
(* without an error there was one, and out.tar is what that one wrote, in  *)
(* order and to its last block.                                            *)
THEOREM Exported == Spec => []ExportExact
<1>1. IInv => ExportExact
  <2> SUFFICES ASSUME FileType, BufferInv, CloseInv, EndInv, pc = "returned", err = "nil", Files # {}
               PROVE  temp = "removed" /\ \E i \in Files : Files = {i} /\ out = [n \in 1..Blocks |-> <<i, n>>]
    BY DEF IInv, FileInv, ExportExact, Files
  <2>1. PICK i \in Files : TRUE
    OBVIOUS
  <2>2. \A j \in Files : exporter[j] = "done"
    BY DEF EndInv, FileType, Files
  <2>3. temp = "removed" /\ out = buffered /\ Written(i) = Blocks /\ Files = {i}
    BY <2>1, <2>2 DEF CloseInv
  <2>4. \A n \in 1 .. Len(buffered) : buffered[n][1] = i
    BY <2>3 DEF BufferInv
  <2>5. Len(buffered) = Blocks
    BY <2>3, <2>4, WrittenAlone DEF FileType
  <2>6. \A n \in 1 .. Blocks : buffered[n] = <<i, n>>
    BY <2>1, <2>4, <2>5, Zenon DEF BufferInv
  <2>7. buffered = [n \in 1..Blocks |-> buffered[n]]
    BY <2>5 DEF FileType
  <2>8. buffered = [n \in 1..Blocks |-> <<i, n>>]
    BY <2>6, <2>7
  <2> QED
    BY <2>1, <2>3, <2>8
<1> QED
  BY <1>1, Invariant, PTL
=============================================================================
