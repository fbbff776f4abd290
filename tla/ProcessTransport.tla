--------------------------- MODULE ProcessTransport ---------------------------
(***************************************************************************)
(* The process transport of internal/transport/process: concurrent calls   *)
(* of Worker.Run, each with the child process it starts, the goroutine     *)
(* that exchanges frames with it, the one that waits for it, and the       *)
(* goroutine that gives its slot back when the cleanup is not confirmed in *)
(* time; and a caller of WaitIdle.                                         *)
(*                                                                         *)
(* A frame is its kind; one that fails a check of readFrame or of the      *)
(* binding ends the exchange as an "error" frame does, and is one here.  A *)
(* pipe holds one frame: a writer waits for the reader, as it does for     *)
(* frames that are larger than the pipe.                                   *)
(***************************************************************************)
EXTENDS Naturals, FiniteSets

CONSTANTS
  Runs,           \* calls of Worker.Run
  Rogue,          \* those whose executable does not keep to the protocol
  MaxParallel,    \* slots
  MaxHeartbeats,  \* heartbeats that exchange admits
  WaitsIdle       \* whether somebody calls WaitIdle

ASSUME TransportAssumption ==
  /\ IsFiniteSet(Runs)
  /\ Rogue \subseteq Runs
  /\ MaxParallel \in Nat \ {0}
  /\ MaxHeartbeats \in Nat
  /\ WaitsIdle \in BOOLEAN

VARIABLES
  run,       \* Run: where each call is, whether it has an error
  slots,     \* w.slots: the calls that have put a token in
  active,    \* w.stats.Active
  idle,      \* w.idle, a channel
  closed,    \* the idle channels that are closed
  releaser,  \* release(), by Run or by the goroutine it leaves behind
  io,        \* the goroutine of exchange
  waiter,    \* the goroutine of cmd.Wait
  ctx,       \* the context of Run, stderr, and the parent's ends of the pipes
  child,     \* the child process
  pipe,      \* what is in its pipes, and whether its ends are open
  spoke,     \* history: a result as the last frame written, or more after it
  barrier    \* a caller of WaitIdle

mainVars == <<run, slots, active, idle, closed, releaser>>
vars == <<mainVars, io, waiter, ctx, child, pipe, spoke, barrier>>

NoPipe == [in |-> "empty", out |-> "empty", open |-> FALSE]

Frames == {"heartbeat", "result", "error"}

Init ==
  /\ run      = [r \in Runs |-> [at |-> "idle", err |-> FALSE]]
  /\ slots    = {}
  /\ active   = 0
  /\ idle     = 0
  /\ closed   = {0}
  /\ releaser = [r \in Runs |-> "none"]
  /\ io       = [r \in Runs |-> [at |-> "none", beats |-> 0, claim |-> FALSE]]
  /\ waiter   = [r \in Runs |-> "none"]
  /\ ctx      = [r \in Runs |-> [ended |-> FALSE, over |-> FALSE, shut |-> FALSE]]
  /\ child    = [r \in Runs |-> "none"]
  /\ pipe     = [r \in Runs |-> NoPipe]
  /\ spoke    = [r \in Runs |-> "nothing"]
  /\ barrier  = [at |-> "out", chan |-> 0, for |-> {}]

-----------------------------------------------------------------------------
At(r, place) == run[r].at = place

Goto(r, place, err) == run' = [run EXCEPT ![r] = [at |-> place, err |-> err]]

Living  == {"reading", "beating", "awaiting", "working", "closing", "rogue"}
Exited  == {"succeeded", "failed"}
Reaped  == {"ok", "error"}
AllDone(r) == io[r].at = "done" /\ waiter[r] \in Reaped

(* What a run has of the machine: a process, or goroutines of its own.      *)
Busy(r) == child[r] \in Living \/ waiter[r] = "waiting" \/ io[r].at \notin {"none", "done"}

Counted(r) == ~(run[r].at \in {"idle", "count"} \/ releaser[r] \in {"slot", "done"})
              /\ r \in slots

-----------------------------------------------------------------------------
(* Admission.                                                               *)
(* The context has ended, the job is not valid, or there is no slot.        *)
Refuse(r) ==
  /\ At(r, "idle")
  /\ Goto(r, "returned", TRUE)
  /\ UNCHANGED <<slots, active, idle, closed, releaser, io, waiter, ctx, child,
                 pipe, spoke, barrier>>

(* acquire: first the slot, then the count under mu.                        *)
TakeSlot(r) ==
  /\ At(r, "idle")
  /\ Cardinality(slots) < MaxParallel
  /\ slots' = slots \cup {r}
  /\ Goto(r, "count", FALSE)
  /\ UNCHANGED <<active, idle, closed, releaser, io, waiter, ctx, child, pipe,
                 spoke, barrier>>

(* Mutant of Count: every run makes an idle channel of its own.             *)
CountAnew(r) ==
  /\ At(r, "count")
  /\ idle' = idle + 1
  /\ active' = active + 1
  /\ Goto(r, "start", FALSE)
  /\ UNCHANGED <<slots, closed, releaser, io, waiter, ctx, child, pipe, spoke, barrier>>

Count(r) ==
  /\ At(r, "count")
  /\ idle' = IF active = 0 THEN idle + 1 ELSE idle
  /\ active' = active + 1
  /\ Goto(r, "start", FALSE)
  /\ UNCHANGED <<slots, closed, releaser, io, waiter, ctx, child, pipe, spoke, barrier>>

(* No executable, no pipe, or the process does not start.                   *)
StartFails(r) ==
  /\ At(r, "start")
  /\ Goto(r, "release", TRUE)
  /\ releaser' = [releaser EXCEPT ![r] = "uncount"]
  /\ UNCHANGED <<slots, active, idle, closed, io, waiter, ctx, child, pipe, spoke, barrier>>

Start(r) ==
  /\ At(r, "start")
  /\ ~ctx[r].ended
  /\ Goto(r, "exchange", FALSE)
  /\ child' = [child EXCEPT ![r] = IF r \in Rogue THEN "rogue" ELSE "reading"]
  /\ pipe' = [pipe EXCEPT ![r].open = TRUE]
  /\ io' = [io EXCEPT ![r].at = "job"]
  /\ waiter' = [waiter EXCEPT ![r] = "waiting"]
  /\ UNCHANGED <<slots, active, idle, closed, releaser, ctx, spoke, barrier>>

-----------------------------------------------------------------------------
(* exchange, on the goroutine of the pipes.                                 *)

IoAt(r, place) == io[r].at = place
IoGoto(r, place) ==
  io' = [io EXCEPT ![r].at = place, ![r].beats = IF place = "done" THEN 0 ELSE @]

WriteFrame(r, place, kind) ==
  /\ IoAt(r, place)
  /\ pipe[r].open /\ pipe[r].in = "empty"
  /\ pipe' = [pipe EXCEPT ![r].in = kind]
  /\ IoGoto(r, "read")
  /\ UNCHANGED <<mainVars, waiter, ctx, child, spoke, barrier>>

(* Mutant of WriteContinue: a heartbeat is not acknowledged.                *)
NoContinue(r) ==
  /\ IoAt(r, "continue")
  /\ IoGoto(r, "read")
  /\ UNCHANGED <<mainVars, waiter, ctx, child, pipe, spoke, barrier>>

WriteJob(r)      == WriteFrame(r, "job", "job")
WriteContinue(r) == WriteFrame(r, "continue", "continue")

(* A frame is read, and admitted or not; for a result, `fits` says whether  *)
(* it is within the limits of the job.                                      *)
ReadFrame(r, fits) ==
  LET kind == pipe[r].out
      next == IF kind = "heartbeat" /\ io[r].beats < MaxHeartbeats THEN "beat"
              ELSE IF kind = "result" /\ fits THEN "eof"
              ELSE "done"
  IN
  /\ IoAt(r, "read")
  /\ kind # "empty"
  /\ pipe' = [pipe EXCEPT ![r].out = "empty"]
  /\ io' = [io EXCEPT ![r].at = next,
                      ![r].beats = IF next = "beat" THEN @ + 1 ELSE 0]
  /\ UNCHANGED <<mainVars, waiter, ctx, child, spoke, barrier>>

(* The heartbeat of the Runner has returned; or it panicked.                *)
BeatAnswered(r, accepted) ==
  /\ IoAt(r, "beat")
  /\ IoGoto(r, IF accepted THEN "continue" ELSE "done")
  /\ UNCHANGED <<mainVars, waiter, ctx, child, pipe, spoke, barrier>>

(* Mutant of ReadEof: a result is taken without waiting for what follows.   *)
TakeResult(r) ==
  /\ IoAt(r, "eof")
  /\ io' = [io EXCEPT ![r].at = "done", ![r].claim = TRUE]
  /\ UNCHANGED <<mainVars, waiter, ctx, child, pipe, spoke, barrier>>

(* After a result there must be nothing but the end of the stream.          *)
ReadEof(r) ==
  /\ IoAt(r, "eof")
  /\ ~ctx[r].shut
  /\ pipe[r].out # "empty" \/ ~pipe[r].open
  /\ io' = [io EXCEPT ![r].at = "done", ![r].claim = pipe[r].out = "empty"]
  /\ UNCHANGED <<mainVars, waiter, ctx, child, pipe, spoke, barrier>>

(* A pipe whose other end is closed, or that Run has closed.                *)
IoFails(r) ==
  /\ \/ io[r].at \in {"job", "continue"} /\ ~pipe[r].open
     \/ IoAt(r, "read") /\ ~pipe[r].open /\ pipe[r].out = "empty"
     \/ IoAt(r, "eof") /\ ctx[r].shut
  /\ IoGoto(r, "done")
  /\ UNCHANGED <<mainVars, waiter, ctx, child, pipe, spoke, barrier>>

-----------------------------------------------------------------------------
(* cmd.Wait: after the exit, and after its copy of stderr has ended.  When  *)
(* the context ended, or something keeps stderr open, a successful exit may *)
(* be an error all the same.                                                *)
WaitReturns(r, ok) ==
  /\ waiter[r] = "waiting"
  /\ child[r] \in Exited
  /\ ok => child[r] = "succeeded"
  /\ ~ok => child[r] = "failed" \/ ctx[r].ended \/ r \in Rogue
  /\ waiter' = [waiter EXCEPT ![r] = IF ok THEN "ok" ELSE "error"]
  /\ UNCHANGED <<mainVars, io, ctx, child, pipe, spoke, barrier>>

-----------------------------------------------------------------------------
(* The rest of Run.                                                         *)

(* Mutant of ExchangeEnds: the exit of the process is not waited for.       *)
ExchangeEndsAll(r) ==
  /\ At(r, "exchange")
  /\ IoAt(r, "done")
  /\ Goto(r, "stop", ~io[r].claim)
  /\ UNCHANGED <<slots, active, idle, closed, releaser, io, waiter, ctx, child,
                 pipe, spoke, barrier>>

ExchangeEnds(r) ==
  /\ At(r, "exchange")
  /\ IoAt(r, "done")
  /\ Goto(r, IF io[r].claim THEN "exit" ELSE "stop", ~io[r].claim)
  /\ UNCHANGED <<slots, active, idle, closed, releaser, io, waiter, ctx, child,
                 pipe, spoke, barrier>>

ExitSeen(r) ==
  /\ At(r, "exit")
  /\ waiter[r] \in Reaped
  /\ Goto(r, "stop", waiter[r] = "error")
  /\ UNCHANGED <<slots, active, idle, closed, releaser, io, waiter, ctx, child,
                 pipe, spoke, barrier>>

CtxSeen(r) ==
  /\ run[r].at \in {"exchange", "exit"}
  /\ ctx[r].ended
  /\ Goto(r, "stop", TRUE)
  /\ UNCHANGED <<slots, active, idle, closed, releaser, io, waiter, ctx, child,
                 pipe, spoke, barrier>>

(* Too much on stderr, or a context that has ended, overrides a claim; then *)
(* the context is cancelled and the pipes are closed.                       *)
Stop(r) ==
  /\ At(r, "stop")
  /\ Goto(r, "cleanup", run[r].err \/ ctx[r].over \/ ctx[r].ended)
  /\ ctx' = [ctx EXCEPT ![r].ended = TRUE, ![r].shut = TRUE]
  /\ pipe' = [pipe EXCEPT ![r] = NoPipe]
  /\ UNCHANGED <<slots, active, idle, closed, releaser, io, waiter, child, spoke, barrier>>

Cleaned(r) ==
  /\ At(r, "cleanup")
  /\ AllDone(r)
  /\ Goto(r, "release", run[r].err)
  /\ releaser' = [releaser EXCEPT ![r] = "uncount"]
  /\ UNCHANGED <<slots, active, idle, closed, io, waiter, ctx, child, pipe, spoke, barrier>>

(* Mutant of CleanupExpires: the slot is given back with the answer.        *)
CleanupAbandons(r) ==
  /\ At(r, "cleanup")
  /\ Goto(r, "returned", TRUE)
  /\ releaser' = [releaser EXCEPT ![r] = "uncount"]
  /\ UNCHANGED <<slots, active, idle, closed, io, waiter, ctx, child, pipe, spoke, barrier>>

(* Mutant of CleanupExpires: nobody gives the slot back.                    *)
CleanupForgets(r) ==
  /\ At(r, "cleanup")
  /\ Goto(r, "returned", TRUE)
  /\ UNCHANGED <<slots, active, idle, closed, releaser, io, waiter, ctx, child,
                 pipe, spoke, barrier>>

(* The cleanup budget is used up.                                           *)
CleanupExpires(r) ==
  /\ At(r, "cleanup")
  /\ Goto(r, "returned", TRUE)
  /\ releaser' = [releaser EXCEPT ![r] = "await"]
  /\ UNCHANGED <<slots, active, idle, closed, io, waiter, ctx, child, pipe, spoke, barrier>>

-----------------------------------------------------------------------------
(* release, by Run itself or by the goroutine that it has left behind.      *)

ReleaserWakes(r) ==
  /\ releaser[r] = "await"
  /\ AllDone(r)
  /\ releaser' = [releaser EXCEPT ![r] = "uncount"]
  /\ UNCHANGED <<run, slots, active, idle, closed, io, waiter, ctx, child, pipe,
                 spoke, barrier>>

(* Mutant of Uncount: the idle channel is closed by whoever leaves.         *)
UncountAndClose(r) ==
  /\ releaser[r] = "uncount"
  /\ active' = active - 1
  /\ closed' = closed \cup {idle}
  /\ releaser' = [releaser EXCEPT ![r] = "slot"]
  /\ UNCHANGED <<run, slots, idle, io, waiter, ctx, child, pipe, spoke, barrier>>

Uncount(r) ==
  /\ releaser[r] = "uncount"
  /\ active' = active - 1
  /\ closed' = IF active = 1 THEN closed \cup {idle} ELSE closed
  /\ releaser' = [releaser EXCEPT ![r] = "slot"]
  /\ UNCHANGED <<run, slots, idle, io, waiter, ctx, child, pipe, spoke, barrier>>

FreeSlot(r) ==
  /\ releaser[r] = "slot"
  /\ slots' = slots \ {r}
  /\ releaser' = [releaser EXCEPT ![r] = "done"]
  /\ IF At(r, "release") THEN Goto(r, "returned", run[r].err) ELSE UNCHANGED run
  /\ UNCHANGED <<active, idle, closed, io, waiter, ctx, child, pipe, spoke, barrier>>

(* WaitIdle: the channel is read under mu, and then waited for.             *)
WaitBegins ==
  /\ WaitsIdle /\ barrier.at = "out"
  /\ barrier' = [at |-> "waiting", chan |-> idle, for |-> {r \in Runs : Counted(r)}]
  /\ UNCHANGED <<mainVars, io, waiter, ctx, child, pipe, spoke>>

WaitEnds ==
  /\ barrier.at = "waiting"
  /\ barrier.chan \in closed
  /\ barrier' = [barrier EXCEPT !.at = "passed", !.chan = 0]
  /\ UNCHANGED <<mainVars, io, waiter, ctx, child, pipe, spoke>>

-----------------------------------------------------------------------------
(* The reference worker: Serve, with Local.Run in it.                       *)

ChildVars(r, at, in, out, open) ==
  /\ child' = [child EXCEPT ![r] = at]
  /\ pipe' = [pipe EXCEPT ![r] = [in |-> in, out |-> out, open |-> open]]
  /\ spoke' = [spoke EXCEPT ![r] =
                 IF out = pipe[r].out \/ out = "empty" THEN spoke[r]
                 ELSE IF spoke[r] # "nothing" THEN "more"
                 ELSE IF out = "result" THEN "result"
                 ELSE "nothing"]
  /\ UNCHANGED <<mainVars, io, waiter, ctx, barrier>>

ReadJob(r) ==
  /\ child[r] = "reading" /\ pipe[r].in = "job"
  /\ ChildVars(r, "beating", "empty", pipe[r].out, pipe[r].open)

SendHeartbeat(r) ==
  /\ child[r] = "beating" /\ pipe[r].out = "empty" /\ pipe[r].open
  /\ ChildVars(r, "awaiting", pipe[r].in, "heartbeat", TRUE)

ReadContinue(r) ==
  /\ child[r] = "awaiting" /\ pipe[r].in = "continue"
  /\ ChildVars(r, "working", "empty", pipe[r].out, pipe[r].open)

SendAnswer(r, kind) ==
  /\ child[r] = "working" /\ pipe[r].out = "empty" /\ pipe[r].open
  /\ ChildVars(r, "closing", pipe[r].in, kind, TRUE)

ServeReturns(r) ==
  /\ child[r] = "closing"
  /\ ChildVars(r, "succeeded", pipe[r].in, pipe[r].out, FALSE)

(* The deadline, which is the parent's too, or a stream that is closed,     *)
(* which it is only after the context of Run has been cancelled.            *)
ServeFails(r) ==
  /\ child[r] \in Living \ {"closing", "rogue"}
  /\ ctx[r].ended
  /\ ChildVars(r, "failed", pipe[r].in, pipe[r].out, FALSE)

(* CommandContext kills the process that it has started.                    *)
Kill(r) ==
  /\ child[r] \in Living
  /\ ctx[r].ended
  /\ ChildVars(r, "failed", pipe[r].in, pipe[r].out, pipe[r].open /\ r \in Rogue)

(* Another program may write anything, exit at any time and close its ends  *)
(* of the pipes before or, having handed them on, after it exits.           *)
RogueStep(r) ==
  /\ child[r] = "rogue"
  /\ \/ \E kind \in Frames :
          /\ pipe[r].out = "empty" /\ pipe[r].open
          /\ ChildVars(r, "rogue", pipe[r].in, kind, TRUE)
     \/ /\ pipe[r].in # "empty"
        /\ ChildVars(r, "rogue", "empty", pipe[r].out, pipe[r].open)
     \/ \E status \in Exited :
          ChildVars(r, status, pipe[r].in, pipe[r].out, pipe[r].open)

RogueCloses(r) ==
  /\ r \in Rogue /\ pipe[r].open
  /\ ChildVars(r, child[r], pipe[r].in, pipe[r].out, FALSE)

(* More than MaxStderr bytes on stderr cancel the run; when its context has *)
(* ended already that only changes the error.                               *)
Overflow(r) ==
  /\ r \in Rogue /\ waiter[r] = "waiting" /\ ~ctx[r].ended
  /\ ctx' = [ctx EXCEPT ![r].over = TRUE, ![r].ended = TRUE]
  /\ UNCHANGED <<mainVars, io, waiter, child, pipe, spoke, barrier>>

(* The deadline of the job, or the caller cancels.                          *)
CtxEnds(r) ==
  /\ run[r].at \notin {"idle", "returned"} /\ ~ctx[r].ended
  /\ ctx' = [ctx EXCEPT ![r].ended = TRUE]
  /\ UNCHANGED <<mainVars, io, waiter, child, pipe, spoke, barrier>>

-----------------------------------------------------------------------------
Main(r) ==
  \/ Count(r) \/ StartFails(r) \/ Start(r)
  \/ ExchangeEnds(r) \/ ExitSeen(r) \/ CtxSeen(r)
  \/ Stop(r) \/ Cleaned(r) \/ CleanupExpires(r)

Io(r) ==
  \/ WriteJob(r) \/ WriteContinue(r) \/ ReadEof(r) \/ IoFails(r)
  \/ \E fits \in BOOLEAN : ReadFrame(r, fits)
  \/ \E accepted \in BOOLEAN : BeatAnswered(r, accepted)

Wait(r) == \E ok \in BOOLEAN : WaitReturns(r, ok)

Release(r) == ReleaserWakes(r) \/ Uncount(r) \/ FreeSlot(r)

Serve(r) ==
  \/ ReadJob(r) \/ SendHeartbeat(r) \/ ReadContinue(r)
  \/ \E kind \in {"result", "error"} : SendAnswer(r, kind)
  \/ ServeReturns(r) \/ ServeFails(r)

Next ==
  \/ \E r \in Runs : \/ Refuse(r) \/ TakeSlot(r)
                     \/ Main(r) \/ Io(r) \/ Wait(r) \/ Release(r)
                     \/ Serve(r) \/ Kill(r)
                     \/ RogueStep(r) \/ RogueCloses(r) \/ Overflow(r)
                     \/ CtxEnds(r)
  \/ WaitBegins
  \/ WaitEnds

Spec == Init /\ [][Next]_vars

(* The goroutines run on, the timers fire, a heartbeat returns.  Of another *)
(* program nothing is assumed, but its run ends with the deadline.  A run   *)
(* of the reference worker has to end without it, by the protocol alone.    *)
FairSpec ==
  /\ Spec
  /\ \A r \in Runs : /\ WF_vars(Main(r))
                     /\ WF_vars(Io(r))
                     /\ WF_vars(Wait(r))
                     /\ WF_vars(Release(r))
  /\ \A r \in Runs \ Rogue : WF_vars(Serve(r))
  /\ \A r \in Rogue : WF_vars(CtxEnds(r))

-----------------------------------------------------------------------------
(* TypeOK: the variables are well formed, and slots are not exceeded.       *)
TypeOK ==
  /\ run \in [Runs -> [at : {"idle", "count", "start", "exchange", "exit", "stop",
                             "cleanup", "release", "returned"},
                       err : BOOLEAN]]
  /\ slots \subseteq Runs /\ Cardinality(slots) <= MaxParallel
  /\ active \in 0..MaxParallel
  /\ idle \in Nat
  /\ closed \subseteq 0..idle
  /\ releaser \in [Runs -> {"none", "await", "uncount", "slot", "done"}]
  /\ io \in [Runs -> [at : {"none", "job", "read", "beat", "continue", "eof", "done"},
                      beats : 0..MaxHeartbeats, claim : BOOLEAN]]
  /\ waiter \in [Runs -> {"none", "waiting"} \cup Reaped]
  /\ ctx \in [Runs -> [ended : BOOLEAN, over : BOOLEAN, shut : BOOLEAN]]
  /\ child \in [Runs -> {"none"} \cup Living \cup Exited]
  /\ pipe \in [Runs -> [in : {"empty", "job", "continue"}, out : {"empty"} \cup Frames,
                        open : BOOLEAN]]
  /\ spoke \in [Runs -> {"nothing", "result", "more"}]
  /\ barrier \in [at : {"out", "waiting", "passed"}, chan : Nat, for : SUBSET Runs]

(* A run keeps its slot until its process has been reaped and its pipes     *)
(* have been handled, also when Run has returned long before: so there are  *)
(* never more processes and goroutines than slots.                          *)
SlotCoversWork == \A r \in Runs : Busy(r) => r \in slots

(* The idle channel is closed exactly when no run is active, so it is never *)
(* closed twice; and who waits on an older channel is woken too.            *)
IdleChannelHonest ==
  /\ active = 0 <=> idle \in closed
  /\ barrier.at = "waiting" /\ active = 0 => barrier.chan \in closed

(* When WaitIdle returns, the runs that were active when it was called have *)
(* neither process nor goroutine left.                                      *)
IdleBarrier == barrier.at = "passed" => \A r \in barrier.for : ~Busy(r)

(* A claim is returned only when the child has written one result and       *)
(* nothing after it, has exited successfully, and has kept stderr short.    *)
ClaimIsClean ==
  \A r \in Runs :
    At(r, "returned") /\ ~run[r].err => /\ spoke[r] = "result"
                                        /\ child[r] = "succeeded"
                                        /\ ~ctx[r].over

(* Run returns: with the reference worker by the protocol alone, and with   *)
(* any other program within its deadline and the cleanup budget, even if    *)
(* the process never exits.                                                 *)
EveryRunReturns == \A r \in Runs : At(r, "count") ~> At(r, "returned")

(* A slot comes back when the process has exited, also when Run has given   *)
(* up on the cleanup, or something still holds the pipes of the process.    *)
SlotsComeBack == \A r \in Runs : child[r] \in Exited ~> r \notin slots
=============================================================================
