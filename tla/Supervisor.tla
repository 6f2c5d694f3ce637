----------------------------- MODULE Supervisor -----------------------------
(***************************************************************************)
(* The shim as a process (main.go): it cleans up after an earlier run,     *)
(* starts one goroutine that runs buildkitd and one that runs the gRPC     *)
(* server, and exits when either reports on errCh or a signal arrives.     *)
(* The process can be killed at any step and is then started again, on the *)
(* same file system.  buildkitd and the kernel are external.               *)
(***************************************************************************)
EXTENDS Naturals

CONSTANTS
  MaxStarts,   \* bound: how often the shim is started
  MaxListens   \* attempts of listenVSock (1000 in the code)

ASSUME ShimConstantsOK == MaxStarts \in Nat \ {0} /\ MaxListens \in Nat \ {0}

VARIABLES
  vsock,      \* vsockMode
  starts,     \* how often the shim was started
  main,       \* "down", "prepare", "run" (RunE waits on errCh) or "return"
  why,        \* how the last run ended: "none", "part", "timer" or "killed"
  reporter,   \* whose report RunE took: "none", "buildkit" or "server"
  ctx,        \* is the context of the command cancelled?
  signal,     \* "none", "sent", "handled" or "done" (the timer has fired)
  start,      \* the goroutine that runs buildkit.Start
  server,     \* the goroutine that runs server.Run
  listens,    \* attempts of listenVSock
  buildkitd,  \* "none", "running", "told" (it has a SIGTERM) or "exited"
  socket,     \* is there a file at socketPath?
  port,       \* is the vsock port in use by somebody else?
  qemu        \* is the QEMU binary in place?

shimVars == <<vsock, starts, main, why, reporter, ctx, signal, start, server, listens,
          buildkitd, socket, port, qemu>>
partVars == <<start, server, listens, buildkitd>>
diskVars == <<socket, port, qemu>>

Down == main = "down"

ShimInit ==
  /\ vsock \in BOOLEAN /\ starts = 0 /\ main = "down" /\ why = "none" /\ reporter = "none"
  /\ ctx = FALSE /\ signal = "none" /\ start = "none" /\ server = "none" /\ listens = 0
  /\ buildkitd = "none" /\ socket \in BOOLEAN /\ port \in BOOLEAN /\ qemu = TRUE

-----------------------------------------------------------------------------
(***************************************************************************)
(* main, PersistentPreRunE and RunE.                                       *)
(***************************************************************************)

\* A new container: what is left of the last run is the file system.
StartShim ==
  /\ Down /\ starts < MaxStarts
  /\ starts' = starts + 1
  /\ main' = "prepare" /\ why' = "none" /\ reporter' = "none"
  /\ ctx' = FALSE /\ signal' = "none" /\ start' = "none" /\ server' = "none"
  /\ listens' = 0 /\ buildkitd' = "none"
  /\ UNCHANGED <<vsock, diskVars>>

\* Mutant: the socket of the previous run is not removed.
PreparedSocketKept == socket

\* prepareUnixSocket, in the mode that uses it.
PreparedSocket == vsock /\ socket

\* disableQemu renames the binary, once and for all.
Qemu(enableQemu) == qemu /\ enableQemu

\* The socket is prepared, QEMU disabled unless it was asked for, the parts started.
Prepare(enableQemu) ==
  /\ main = "prepare"
  /\ main' = "run"
  /\ socket' = PreparedSocket
  /\ qemu' = Qemu(enableQemu)
  /\ start' = "config" /\ server' = "listen"
  /\ UNCHANGED <<vsock, starts, why, reporter, ctx, signal, listens, buildkitd, port>>

PrepareFails ==
  /\ main = "prepare"
  /\ main' = "return"
  /\ UNCHANGED <<vsock, starts, why, reporter, ctx, signal, partVars, diskVars>>

\* RunE takes the first report and returns; its deferred cancel runs.
TakeReport(part) ==
  /\ main = "run"
  /\ \/ part = "buildkit" /\ start = "report"
     \/ part = "server" /\ server = "report"
  /\ main' = "return" /\ reporter' = part /\ ctx' = TRUE
  /\ UNCHANGED <<vsock, starts, why, signal, partVars, diskVars>>

\* The process is gone, with every goroutine in it.
Gone(cause) == main' = "down" /\ why' = cause /\ start' = "none" /\ server' = "none"

\* main: log.Fatalln after an error, or a plain return.
MainReturns ==
  /\ main = "return"
  /\ Gone("part")
  /\ UNCHANGED <<vsock, starts, reporter, ctx, signal, listens, buildkitd, diskVars>>

\* The process is killed, or the container stops.
Killed ==
  /\ ~Down
  /\ Gone("killed")
  /\ UNCHANGED <<vsock, starts, reporter, ctx, signal, listens, buildkitd, diskVars>>

-----------------------------------------------------------------------------
(***************************************************************************)
(* The signal handler.                                                     *)
(***************************************************************************)

SendSignal ==
  /\ ~Down /\ signal = "none"
  /\ signal' = "sent"
  /\ UNCHANGED <<vsock, starts, main, why, reporter, ctx, partVars, diskVars>>

HandleSignal ==
  /\ ~Down /\ signal = "sent"
  /\ signal' = "handled" /\ ctx' = TRUE
  /\ UNCHANGED <<vsock, starts, main, why, reporter, partVars, diskVars>>

\* Mutant: the handler cancels and leaves the rest to RunE.
SignalTimerMissing == FALSE

\* One second has passed since the handler cancelled the context.
SignalTimer == signal = "handled"

ExitOnTimer ==
  /\ ~Down /\ SignalTimer
  /\ signal' = "done" /\ Gone("timer")
  /\ UNCHANGED <<vsock, starts, reporter, ctx, listens, buildkitd, diskVars>>

-----------------------------------------------------------------------------
(***************************************************************************)
(* The goroutine around buildkit.Start.                                    *)
(***************************************************************************)

StartUnchanged == UNCHANGED <<vsock, starts, main, why, reporter, ctx, signal, server, listens, diskVars>>

\* The flags become a configuration, unless a mirror is no key=value pair.
Configure ==
  /\ start = "config"
  /\ start' = "save"
  /\ StartUnchanged /\ UNCHANGED buildkitd

ParseRegistryMirrorFails ==
  /\ start = "config"
  /\ start' = "report"
  /\ StartUnchanged /\ UNCHANGED buildkitd

\* The configuration is on disk before buildkitd starts and reads it.
Save ==
  /\ start = "save"
  /\ start' = "exec"
  /\ StartUnchanged /\ UNCHANGED buildkitd

StartProcess ==
  /\ start = "exec"
  /\ start' = "wait" /\ buildkitd' = "running"
  /\ StartUnchanged

\* Save or StartProcess fails.
StartFails ==
  /\ start \in {"save", "exec"}
  /\ start' = "report"
  /\ StartUnchanged /\ UNCHANGED buildkitd

\* buildkitd exits, on its own or because it was told to.
BuildkitdExits ==
  /\ buildkitd \in {"running", "told"}
  /\ buildkitd' = "exited"
  /\ StartUnchanged /\ UNCHANGED start

\* Mutant: the subprocess is left alone.
TerminatedNot == buildkitd

\* proc.Signal(SIGTERM).
Terminated == IF buildkitd = "running" THEN "told" ELSE buildkitd

\* The select in Start: the context is done, or the subprocess was waited for.
StartCancelled ==
  /\ start = "wait" /\ ctx
  /\ start' = "report" /\ buildkitd' = Terminated
  /\ StartUnchanged

StartWaited ==
  /\ start = "wait" /\ buildkitd = "exited"
  /\ start' = "report"
  /\ StartUnchanged /\ UNCHANGED buildkitd

-----------------------------------------------------------------------------
(***************************************************************************)
(* The goroutine around server.Run, which does not look at the context     *)
(* once it serves.                                                         *)
(***************************************************************************)

ServerUnchanged == UNCHANGED <<vsock, starts, main, why, reporter, ctx, signal, start, buildkitd, port, qemu>>

\* A unix socket cannot be bound where a file is.
ListenUnix ==
  /\ server = "listen" /\ ~vsock
  /\ server' = IF socket THEN "report" ELSE "serve"
  /\ socket' = TRUE
  /\ ServerUnchanged /\ UNCHANGED listens

ListenVSock ==
  /\ server = "listen" /\ vsock
  /\ listens' = listens + 1
  /\ server' = CASE ~port -> "serve"
                 [] port /\ listens + 1 < MaxListens -> "listen"
                 [] OTHER -> "report"
  /\ ServerUnchanged /\ UNCHANGED socket

\* Listen fails for another reason, or Serve does, which closes its listener.
ServerFails ==
  /\ server \in {"listen", "serve"}
  /\ server' = "report"
  /\ socket' = (socket /\ (server = "listen" \/ vsock))
  /\ ServerUnchanged /\ UNCHANGED listens

\* Somebody else gives up the vsock port.
PortFreed ==
  /\ port /\ port' = FALSE
  /\ UNCHANGED <<vsock, starts, main, why, reporter, ctx, signal, partVars, socket, qemu>>

-----------------------------------------------------------------------------
Reports == \E part \in {"buildkit", "server"} : TakeReport(part)

ShimNext ==
  \/ StartShim \/ PrepareFails \/ Reports \/ MainReturns \/ Killed
  \/ \E enableQemu \in BOOLEAN : Prepare(enableQemu)
  \/ SendSignal \/ HandleSignal \/ ExitOnTimer
  \/ Configure \/ ParseRegistryMirrorFails \/ Save \/ StartProcess \/ StartFails \/ BuildkitdExits \/ StartCancelled \/ StartWaited
  \/ ListenUnix \/ ListenVSock \/ ServerFails \/ PortFreed

ShimSpec == ShimInit /\ [][ShimNext]_shimVars

(* Goroutines, channels and timers make progress; file operations, the     *)
(* start of a process and buildkitd itself may hang.                       *)
ShimFairSpec ==
  /\ ShimSpec
  /\ WF_shimVars(Reports) /\ WF_shimVars(MainReturns)
  /\ WF_shimVars(HandleSignal) /\ WF_shimVars(ExitOnTimer)
  /\ WF_shimVars(StartCancelled) /\ WF_shimVars(StartWaited)

-----------------------------------------------------------------------------
(* However the last run ended, the next one can bind its unix socket: the  *)
(* server never finds a file at socketPath.                                *)
SocketFree == server = "listen" /\ ~vsock => ~socket

(* The shim leaves a buildkitd behind that it has not told to stop only if *)
(* it was killed, if a signal found the rest hanging for a second, or if   *)
(* the server reported first: the exit then races with the cancellation.   *)
BuildkitdTold ==
  Down /\ buildkitd = "running" => why \in {"timer", "killed"} \/ reporter = "server"

\* A signal has come, the server has given up or buildkitd has exited.
MustEnd ==
  \/ signal = "sent" /\ ~Down
  \/ main = "run" /\ (server = "report" \/ (start = "wait" /\ buildkitd = "exited"))

(* The shim does not outlive its parts, nor a signal: the process ends,    *)
(* also when a file operation or the start of buildkitd hangs.             *)
EndsWithParts == MustEnd ~> Down
=============================================================================
