------------------------------- MODULE Build --------------------------------
(***************************************************************************)
(* One build (pkg/build): Build prepares the exports and hands BuildKit    *)
(* the frontend; the frontend runs a goroutine per platform, which         *)
(* resolves the images of the Dockerfile (a goroutine per stage, then the  *)
(* sources of COPY --from) and solves; BuildKit then runs the exporters    *)
(* and Build returns.  What BuildKit and the host's resolver answer is     *)
(* external.                                                               *)
(*                                                                         *)
(* An image is its name.  A resolved image state is kept under the name    *)
(* and the platform it was resolved for.                                   *)
(***************************************************************************)
EXTENDS Naturals, Sequences, FiniteSets

CONSTANTS
  Platforms,
  First,       \* Platforms[0], the one a check build looks at
  NumStages,   \* of the Dockerfile
  BaseName,    \* what each stage is built FROM
  StageName,   \* what each stage is called
  StagePlatform, \* the platform a stage asks for, or None
  CopyFrom,    \* the sources of COPY --from, in order
  Scratch,     \* the name that is no image ("scratch" or "context")
  ExportLists, \* the exports a request may ask for: sequences of "local" and "file"
  Blocks,      \* how many blocks a file export writes
  None

ASSUME ConstantsOK ==
  /\ First \in Platforms /\ IsFiniteSet(Platforms)
  /\ NumStages \in Nat \ {0} /\ Blocks \in Nat \ {0}
  /\ DOMAIN BaseName = 1..NumStages /\ DOMAIN StageName = 1..NumStages
  /\ StagePlatform \in [1..NumStages -> Platforms \cup {None}]
  /\ None \notin Platforms
  /\ Len(CopyFrom) \in Nat /\ DOMAIN CopyFrom = 1..Len(CopyFrom)
  /\ ExportLists \subseteq Seq({"local", "file"})

VARIABLES
  pc,        \* Build: its step
  err,       \* what Build returns: "nil" or "error"
  ctx,       \* is the build's context cancelled?
  check,     \* is this a check build?
  exports,   \* the configured exports
  temp,      \* the temporary file behind exportWriter: "none", "open" or "removed"
  buffered,  \* the blocks written to it, each with its export
  out,       \* the contents of out.tar
  exporter,  \* BuildKit's exporter for each export: "idle", "open", "done" or "failed"
  fe,        \* the frontend: "none", "select", "ok" or "error"
  waiter,    \* the goroutine behind plWG: "wait", "send" or "exited"
  pl,        \* each platform's goroutine
  stage,     \* each stage's goroutine of each platform
  copied,    \* how many sources of COPY --from each platform has looked at
  states,    \* the image states of each platform
  missing,   \* images the host does not have, per platform
  refs       \* platforms with a reference in the result

buildVars == <<pc, err, ctx, check>>
fileVars  == <<exports, temp, buffered, out, exporter>>
feVars    == <<fe, waiter>>
plVars    == <<pl, stage, copied, states, missing, refs>>
vars == <<buildVars, fileVars, feVars, plVars>>

Stages == 1..NumStages

Init ==
  /\ pc = "connect" /\ err = "nil" /\ ctx = FALSE /\ check \in BOOLEAN
  /\ exports = <<>> /\ temp = "none" /\ buffered = <<>> /\ out = <<>> /\ exporter = <<>>
  /\ fe = "none" /\ waiter = "wait"
  /\ pl = [p \in Platforms |-> "none"]
  /\ stage = [pk \in Platforms \X Stages |-> "none"]
  /\ copied = [p \in Platforms |-> 0]
  /\ states = [p \in Platforms |-> {}]
  /\ missing = [p \in Platforms |-> {}]
  /\ refs = {}

-----------------------------------------------------------------------------
(***************************************************************************)
(* Build, up to the solve.                                                 *)
(***************************************************************************)

Returns(e) == pc' = "returned" /\ err' = e

NewBuildkitClient(ok) ==
  /\ pc = "connect"
  /\ IF ok THEN pc' = "exports" /\ UNCHANGED err ELSE Returns("error")
  /\ UNCHANGED <<ctx, check, fileVars, feVars, plVars>>

IsFile(x) == x # "local"

(* configuredExports: none for a check build, an OCI file if none is asked *)
(* for; one temporary file serves all file exports.                        *)
ConfiguredExports(list) ==
  LET wanted == IF check THEN <<>> ELSE IF list = <<>> THEN <<"file">> ELSE list
  IN /\ pc = "exports"
     /\ pc' = "options"
     /\ exports' = wanted
     /\ exporter' = [i \in DOMAIN wanted |-> "idle"]
     /\ temp' = IF \E i \in DOMAIN wanted : IsFile(wanted[i]) THEN "open" ELSE "none"
     /\ UNCHANGED <<err, ctx, check, buffered, out, feVars, plVars>>

\* A bad output, no temporary file, or no directory for a local export.
ConfiguredExportsFails ==
  /\ pc = "exports" /\ ~check
  /\ Returns("error")
  /\ UNCHANGED <<ctx, check, fileVars, feVars, plVars>>

(* frontend starts a goroutine for each platform; a check build, which     *)
(* does the same for one platform itself, has only that one.               *)
StartFrontend ==
  LET runs(p) == check => p = First
  IN /\ fe' = "select"
     /\ pl' = [p \in Platforms |-> IF runs(p) THEN "resolve" ELSE "none"]
     /\ stage' = [pk \in Platforms \X Stages |-> IF runs(pk[1]) THEN "run" ELSE "none"]

\* newSolveOptions fails, which leaves the temporary file, or BuildKit runs frontend.
NewSolveOptions(ok) ==
  /\ pc = "options"
  /\ IF ok THEN pc' = "solving" /\ StartFrontend /\ UNCHANGED err
           ELSE Returns("error") /\ UNCHANGED <<fe, pl, stage>>
  /\ UNCHANGED <<ctx, check, fileVars, waiter, copied, states, missing, refs>>

-----------------------------------------------------------------------------
(***************************************************************************)
(* resolveStates.                                                          *)
(***************************************************************************)

\* resolveDockerfileStage: the base is scratch or an earlier stage.
NotAnImage(k) == BaseName[k] = Scratch \/ \E j \in 1..(k - 1) : StageName[j] = BaseName[k]

\* resolvedStagePlatform.
PlatformOf(p, k) == IF StagePlatform[k] = None THEN p ELSE StagePlatform[k]

\* resolve: the image is stored, or the host does not have it.
Resolved(p, image, found) ==
  IF found THEN /\ states' = [states EXCEPT ![p] = @ \cup {image}]
                /\ UNCHANGED missing
           ELSE /\ missing' = [missing EXCEPT ![p] = @ \cup {image}]
                /\ UNCHANGED states

StageResolves(p, k, found) ==
  /\ stage[<<p, k>>] = "run"
  /\ stage' = [stage EXCEPT ![<<p, k>>] = "ok"]
  /\ IF NotAnImage(k) THEN UNCHANGED <<states, missing>>
     ELSE Resolved(p, <<BaseName[k], PlatformOf(p, k)>>, found)
  /\ UNCHANGED <<buildVars, fileVars, feVars, pl, copied, refs>>

\* Mutant: errCh has no capacity, so the goroutine never gets to wg.Done.
StageFailsUnbuffered(p, k) ==
  /\ stage[<<p, k>>] = "run"
  /\ stage' = [stage EXCEPT ![<<p, k>>] = "blocked"]
  /\ UNCHANGED <<buildVars, fileVars, feVars, pl, copied, states, missing, refs>>

\* The base name cannot be expanded or resolved; the error goes to errCh.
StageFails(p, k) ==
  /\ stage[<<p, k>>] = "run"
  /\ stage' = [stage EXCEPT ![<<p, k>>] = "failed"]
  /\ UNCHANGED <<buildVars, fileVars, feVars, pl, copied, states, missing, refs>>

\* resolveStates returns no states with its error.
ResolveFailed(p) ==
  /\ pl' = [pl EXCEPT ![p] = "resolve failed"]
  /\ states' = [states EXCEPT ![p] = {}]

\* resolveDockerfileStages: all goroutines are done, one may have failed.
StagesDone(p) ==
  /\ pl[p] = "resolve"
  /\ \A k \in Stages : stage[<<p, k>>] \in {"ok", "failed"}
  /\ IF \E k \in Stages : stage[<<p, k>>] = "failed"
     THEN ResolveFailed(p)
     ELSE pl' = [pl EXCEPT ![p] = "preseed"] /\ UNCHANGED states
  /\ UNCHANGED <<buildVars, fileVars, feVars, stage, copied, missing, refs>>

IsStage(name) == \E k \in Stages : StageName[k] = name

\* preseedCopyFromSources: sources that are no stage, for the target platform.
Preseed(p, found) ==
  LET i == copied[p] + 1
  IN /\ pl[p] = "preseed" /\ i <= Len(CopyFrom)
     /\ copied' = [copied EXCEPT ![p] = i]
     /\ IF IsStage(CopyFrom[i]) \/ CopyFrom[i] = Scratch THEN UNCHANGED <<states, missing>>
        ELSE Resolved(p, <<CopyFrom[i], p>>, found)
     /\ UNCHANGED <<buildVars, fileVars, feVars, pl, stage, refs>>

PreseedFails(p) ==
  /\ pl[p] = "preseed" /\ copied[p] < Len(CopyFrom)
  /\ ~IsStage(CopyFrom[copied[p] + 1]) /\ CopyFrom[copied[p] + 1] # Scratch
  /\ ResolveFailed(p)
  /\ UNCHANGED <<buildVars, fileVars, feVars, stage, copied, missing, refs>>

PreseedDone(p) ==
  /\ pl[p] = "preseed" /\ copied[p] = Len(CopyFrom)
  /\ pl' = [pl EXCEPT ![p] = IF check THEN "lint" ELSE "solve"]
  /\ UNCHANGED <<buildVars, fileVars, feVars, stage, copied, states, missing, refs>>

-----------------------------------------------------------------------------
(***************************************************************************)
(* The frontend.                                                           *)
(***************************************************************************)

\* solvePlatform: c.Solve answers with a reference.
AddsRef(p) ==
  /\ pl[p] \in {"solve", "layer"}
  /\ refs' = refs \cup {p}
  /\ pl' = [pl EXCEPT ![p] = "exited"]
  /\ UNCHANGED <<buildVars, fileVars, feVars, stage, copied, states, missing>>

\* There is only metadata: a layer is solved instead.
MetadataOnly(p) ==
  /\ pl[p] = "solve"
  /\ pl' = [pl EXCEPT ![p] = "layer"]
  /\ UNCHANGED <<buildVars, fileVars, feVars, stage, copied, states, missing, refs>>

\* A conversion of the Dockerfile or its options fails, or BuildKit does.
SolveFails(p) ==
  /\ pl[p] \in {"solve", "layer"}
  /\ pl' = [pl EXCEPT ![p] = "solve failed"]
  /\ UNCHANGED <<buildVars, fileVars, feVars, stage, copied, states, missing, refs>>

\* Mutant: a select with a default drops the error if frontend is not there yet.
ReportsSolveNonBlocking(p) ==
  /\ pl[p] = "solve failed"
  /\ fe' \in IF fe = "select" THEN {"select", "error"} ELSE {fe}
  /\ pl' = [pl EXCEPT ![p] = "exited"]
  /\ UNCHANGED <<buildVars, fileVars, waiter, stage, copied, states, missing, refs>>

\* plErrCh is unbuffered: the goroutine and frontend's select meet.
ReportsSolve(p) ==
  /\ pl[p] = "solve failed" /\ fe = "select"
  /\ fe' = "error"
  /\ pl' = [pl EXCEPT ![p] = "exited"]
  /\ UNCHANGED <<buildVars, fileVars, waiter, stage, copied, states, missing, refs>>

\* Mutant: plErrCh has room, so the goroutine goes on before frontend knows.
ReportsResolveBuffered(p) ==
  /\ pl[p] = "resolve failed"
  /\ fe' \in IF fe = "select" THEN {"select", "error"} ELSE {fe}
  /\ pl' = [pl EXCEPT ![p] = IF check THEN "exited" ELSE "solve"]
  /\ UNCHANGED <<buildVars, fileVars, waiter, stage, copied, states, missing, refs>>

(* The goroutine does not return after this error: it goes on to solve,    *)
(* without states.  checkPlatform returns.                                 *)
ReportsResolve(p) ==
  /\ pl[p] = "resolve failed" /\ fe = "select"
  /\ fe' = "error"
  /\ pl' = [pl EXCEPT ![p] = IF check THEN "exited" ELSE "solve"]
  /\ UNCHANGED <<buildVars, fileVars, waiter, stage, copied, states, missing, refs>>

\* checkBuild: DockerfileLint has no warnings, or some, or fails.
Lint(p, ok) ==
  /\ pl[p] = "lint"
  /\ pl' = [pl EXCEPT ![p] = "exited"]
  /\ fe' = IF ok THEN "ok" ELSE "error"
  /\ UNCHANGED <<buildVars, fileVars, waiter, stage, copied, states, missing, refs>>

\* plWG.Wait returns.
PlatformsDone ==
  /\ fe # "none" /\ ~check /\ waiter = "wait"
  /\ \A p \in Platforms : pl[p] = "exited"
  /\ waiter' = "send"
  /\ UNCHANGED <<buildVars, fileVars, fe, plVars>>

\* plDoneCh is unbuffered as well.
FrontendDone ==
  /\ waiter = "send" /\ fe = "select"
  /\ waiter' = "exited"
  /\ fe' = "ok"
  /\ UNCHANGED <<buildVars, fileVars, plVars>>

-----------------------------------------------------------------------------
(***************************************************************************)
(* The exporters (BuildKit runs them at the same time) and the end of      *)
(* Build.                                                                  *)
(***************************************************************************)

Ends(i, how) == exporter' = [exporter EXCEPT ![i] = how]

ExporterOpens(i) ==
  /\ pc = "solving" /\ fe = "ok" /\ exporter[i] = "idle"
  /\ Ends(i, "open")
  /\ UNCHANGED <<buildVars, exports, temp, buffered, out, feVars, plVars>>

Written(i) == Cardinality({n \in DOMAIN buffered : buffered[n][1] = i})

\* wrappedWriteCloser.Write, while the file is open.
Write(i) ==
  /\ exporter[i] = "open" /\ IsFile(exports[i]) /\ temp = "open" /\ Written(i) < Blocks
  /\ buffered' = Append(buffered, <<i, Written(i) + 1>>)
  /\ UNCHANGED <<buildVars, exports, temp, out, exporter, feVars, plVars>>

\* Mutant: closing the writer again is not an error.
ClosedAgainQuietly == "done"

ClosedAgain == "failed"

(* wrappedWriteCloser.Close after the last block: the first one copies the *)
(* file to out.tar, or a part of it and fails, and removes it; a later one *)
(* finds the file closed.                                                  *)
Close(i, kept) ==
  /\ exporter[i] = "open" /\ IsFile(exports[i]) /\ Written(i) = Blocks
  /\ IF temp = "open"
     THEN /\ temp' = "removed"
          /\ out' = SubSeq(buffered, 1, kept)
          /\ Ends(i, IF kept = Len(buffered) THEN "done" ELSE "failed")
     ELSE Ends(i, ClosedAgain) /\ UNCHANGED <<temp, out>>
  /\ UNCHANGED <<buildVars, exports, buffered, feVars, plVars>>

(* A write or BuildKit fails.  The writer is closed all the same, and what *)
(* it had so far may end up in out.tar.                                    *)
ExporterFails(i, kept) ==
  /\ exporter[i] = "open"
  /\ Ends(i, "failed")
  /\ IF IsFile(exports[i]) /\ temp = "open"
     THEN temp' = "removed" /\ out' = SubSeq(buffered, 1, kept)
     ELSE UNCHANGED <<temp, out>>
  /\ UNCHANGED <<buildVars, exports, buffered, feVars, plVars>>

LocalDone(i) ==
  /\ exporter[i] = "open" /\ ~IsFile(exports[i])
  /\ Ends(i, "done")
  /\ UNCHANGED <<buildVars, exports, temp, buffered, out, feVars, plVars>>

\* buildkit.Build returns once frontend has.
SolveSucceeds ==
  /\ pc = "solving" /\ fe = "ok"
  /\ \A i \in DOMAIN exporter : exporter[i] = "done"
  /\ pc' = "draining"
  /\ UNCHANGED <<err, ctx, check, fileVars, feVars, plVars>>

\* ... or BuildKit fails, at any time after that.
SolveReturnsError ==
  /\ pc = "solving" /\ fe \in {"ok", "error"}
  /\ pc' = "draining" /\ err' = "error"
  /\ UNCHANGED <<ctx, check, fileVars, feVars, plVars>>

\* <-opts.ProgressWriter.Done(): the client has closed the status channel.
ProgressDone ==
  /\ pc = "draining"
  /\ pc' = "returned"
  /\ UNCHANGED <<err, ctx, check, fileVars, feVars, plVars>>

Cancel ==
  /\ ~ctx /\ pc # "returned"
  /\ ctx' = TRUE
  /\ UNCHANGED <<pc, err, check, fileVars, feVars, plVars>>

-----------------------------------------------------------------------------
Prepare ==
  \/ \E ok \in BOOLEAN : NewBuildkitClient(ok)
  \/ \E list \in ExportLists : ConfiguredExports(list)
  \/ ConfiguredExportsFails
  \/ \E ok \in BOOLEAN : NewSolveOptions(ok)

StageStep(p, k) == StageFails(p, k) \/ \E found \in BOOLEAN : StageResolves(p, k, found)

\* What a platform's goroutine does on its own.
PlatformStep(p) == StagesDone(p) \/ PreseedDone(p) \/ ReportsResolve(p) \/ ReportsSolve(p)

\* Where it waits for the host or for BuildKit.
PlatformAnswered(p) ==
  \/ \E found \in BOOLEAN : Preseed(p, found)
  \/ PreseedFails(p)
  \/ AddsRef(p) \/ MetadataOnly(p) \/ SolveFails(p)
  \/ \E ok \in BOOLEAN : Lint(p, ok)

ExporterStep(i) ==
  \/ ExporterOpens(i) \/ Write(i) \/ LocalDone(i)
  \/ \E n \in 0..Len(buffered) : Close(i, n) \/ ExporterFails(i, n)

Finish == SolveSucceeds \/ SolveReturnsError

\* Nothing has to happen any more; goroutines that nobody hears stay blocked.
Terminated == pc = "returned" /\ UNCHANGED vars

Next ==
  \/ Prepare \/ PlatformsDone \/ FrontendDone \/ Finish \/ ProgressDone \/ Cancel \/ Terminated
  \/ \E p \in Platforms : PlatformStep(p) \/ PlatformAnswered(p) \/ \E k \in Stages : StageStep(p, k)
  \/ \E i \in DOMAIN exporter : ExporterStep(i)

Spec == Init /\ [][Next]_vars

(* Goroutines run; calls to the host and to BuildKit are only known to     *)
(* return once the context is cancelled.                                   *)
FairSpec ==
  /\ Spec
  /\ WF_vars(Prepare) /\ WF_vars(PlatformsDone) /\ WF_vars(FrontendDone) /\ WF_vars(ProgressDone)
  /\ WF_vars(fe = "error" /\ SolveReturnsError) /\ WF_vars(ctx /\ Finish)
  /\ \A p \in Platforms :
       /\ WF_vars(PlatformStep(p)) /\ WF_vars(ctx /\ PlatformAnswered(p))
       /\ \A k \in Stages : WF_vars(ctx /\ StageStep(p, k))

-----------------------------------------------------------------------------
(* A build that is not a check returns without an error only with a        *)
(* reference for every platform (frontend): the error of one platform's    *)
(* goroutine is never lost behind the others' success.                     *)
AllPlatforms == pc = "returned" /\ err = "nil" /\ ~check => refs = Platforms

\* The images a platform's build refers to that are no stage of the Dockerfile.
ExternalImages(p) ==
  {<<BaseName[k], PlatformOf(p, k)>> : k \in {j \in Stages : ~NotAnImage(j)}}
    \cup {<<CopyFrom[i], p>> : i \in {j \in DOMAIN CopyFrom : ~IsStage(CopyFrom[j]) /\ CopyFrom[j] # Scratch}}

(* As long as frontend has not failed, a platform is solved or linted with *)
(* a named context for every external image that the host has              *)
(* (resolveStates: "so BuildKit does not fall back to remote resolver"):   *)
(* the goroutine that goes on after a failed resolution is never part of a *)
(* build that may still succeed.                                           *)
SolvesSeeded ==
  \A p \in Platforms :
    fe # "error" /\ (pl[p] \in {"solve", "layer", "solve failed", "lint"} \/ p \in refs)
      => ExternalImages(p) \subseteq states[p] \cup missing[p]

(* A build that returns without an error and has a file export has exactly *)
(* one, out.tar has all of it and nothing else, and the temporary file is  *)
(* gone (wrappedWriteCloser, which all file exports of a build share).     *)
ExportExact ==
  LET files == {i \in DOMAIN exports : IsFile(exports[i])}
  IN pc = "returned" /\ err = "nil" /\ files # {}
       => /\ temp = "removed"
          /\ \E i \in files : files = {i} /\ out = [n \in 1..Blocks |-> <<i, n>>]

(* A cancelled build returns, whatever the host and BuildKit do, although  *)
(* frontend's select and the goroutines' sends do not watch the context.   *)
CancelledBuildReturns == ctx ~> pc = "returned"
=============================================================================
