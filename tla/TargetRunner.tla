---------------------------- MODULE TargetRunner ----------------------------
(***************************************************************************)
(* One target run of a makefile process: Makefile.Execute and runTarget in *)
(* internal/mkf, and the generated main's run around them.  Two goroutines *)
(* share the result channel, the context and the process working           *)
(* directory: the runner, which waits in a select for a signal, the        *)
(* deadline or the result, and the target's goroutine.  The environment    *)
(* sends signals and lets time pass.                                       *)
(***************************************************************************)
EXTENDS Errors

CONSTANT MaxSignals   \* how many signals the environment sends

ASSUME MaxSignalsAssumption == MaxSignals \in Nat

VARIABLES
  main,      \* where the runner is
  err,       \* what the runner is about to return, or returned
  got,       \* "none" or the signal the select received
  handled,   \* how many signals the runner read from its channel
  grace,     \* the timer of the wait after a signal
  ctx,       \* the target's context: live, or why it ended
  armed,     \* was --timeout given?
  tgt,       \* where the target's goroutine is
  tres,      \* the target's error, tgtErr
  home,      \* the directory the goroutine remembered
  cwd,       \* the process working directory
  done,      \* the result channel's one-slot buffer
  closed,    \* is the result channel closed?
  sigq,      \* the signal channel's one-slot buffer
  notified,  \* do signals go to sigq (Notify) or act by default?
  ignored,   \* signals the process inherited as ignored
  sent,      \* how many signals the environment has sent
  raised,    \* has Reraise sent the signal to the process?
  fate,      \* alive, exited or killed
  code       \* the status a shell sees when the process has ended

runner  == <<main, err, got, handled, grace>>
routine == <<tgt, tres, home, cwd>>
channel == <<done, closed>>
signal  == <<sigq, notified, ignored, sent>>
process == <<raised, fate, code>>
vars == <<runner, ctx, armed, routine, channel, signal, process>>

MainAt == {"new", "begin", "select", "gotSig", "drain", "grace", "decided",
           "returned", "reraise"}
TgtAt  == {"off", "getwd", "chdir", "running", "unwind", "closing", "closed"}
Dirs   == {"orig", "wd", "other"}

TypeOK ==
  /\ main \in MainAt
  /\ err \in Error
  /\ got \in Signals \cup {"none"}
  /\ handled \in 0..2
  /\ grace \in {"off", "armed", "fired"}
  /\ ctx \in {"live", "timeout", "canceled"}
  /\ armed \in BOOLEAN
  /\ tgt \in TgtAt
  /\ tres \in Error
  /\ home \in Dirs /\ cwd \in Dirs
  /\ done \in SUBSET Error
  /\ closed \in BOOLEAN
  /\ sigq \in SUBSET Signals
  /\ notified \in BOOLEAN
  /\ ignored \in SUBSET Signals
  /\ sent \in 0..MaxSignals
  /\ raised \in {"no", "sent", "failed"}
  /\ fate \in {"alive", "exited", "killed"}
  /\ code \in 0..255

(* The Go runtime honours an inherited SIG_IGN for SIGINT only.            *)
Init ==
  /\ main = "new" /\ err = Nil /\ got = "none" /\ handled = 0
  /\ grace = "off" /\ ctx = "live" /\ armed = FALSE
  /\ tgt = "off" /\ tres = Nil /\ home = "orig" /\ cwd = "orig"
  /\ done = {} /\ closed = FALSE
  /\ sigq = {} /\ notified = FALSE /\ ignored \in SUBSET {"SIGINT"}
  /\ sent = 0 /\ raised = "no" /\ fate = "alive" /\ code = 0

(* The end of the process ends every goroutine.                            *)
Alive == fate = "alive"

RunnerAt(where) == Alive /\ main = where
TargetAt(where) == Alive /\ tgt = where

Cancel(c) == IF c = "live" THEN "canceled" ELSE c

(* A variant of TimedOut for the mutant runs: any deadline counts.          *)
TimedOutAnyDeadline(e) == IF Is(e, "deadline") THEN Wrap(e, "errTimeout") ELSE e

(* timedOut: only gomake's own deadline becomes errTimeout.                *)
TimedOut(e) ==
  IF Is(e, "deadline") /\ ctx = "timeout" THEN Wrap(e, "errTimeout") ELSE e

-----------------------------------------------------------------------------
(* Variants of the definitions below, each with one plausible bug, for the *)
(* mutant runs: no action of the specification uses them.                  *)

LookAfterSignalNoWait ==
  /\ RunnerAt("gotSig")
  /\ IF done # {}
     THEN /\ err' \in done /\ done' = {} /\ main' = "drain" /\ grace' = grace
     ELSE /\ err' = Interrupted(got) /\ main' = "decided"
          /\ UNCHANGED <<done, grace>>
  /\ UNCHANGED <<got, handled, ctx, armed, routine, closed, signal, process>>

LookAfterSignalNoTimer ==
  /\ RunnerAt("gotSig")
  /\ IF done # {}
     THEN /\ err' \in done /\ done' = {} /\ main' = "drain" /\ grace' = grace
     ELSE /\ err' = Interrupted(got) /\ main' = "grace"
          /\ UNCHANGED <<done, grace>>
  /\ UNCHANGED <<got, handled, ctx, armed, routine, closed, signal, process>>

SelectContextNoLook ==
  /\ RunnerAt("select")
  /\ ctx # "live"
  /\ err' = TimedOut({"err", "deadline"}) /\ main' = "decided"
  /\ UNCHANGED <<got, handled, grace, ctx, armed, routine, channel, signal,
                 process>>

AwaitSignalKeepsWaiting ==
  /\ RunnerAt("grace")
  /\ sigq # {}
  /\ sigq' = {}
  /\ handled' = handled + 1
  /\ UNCHANGED <<main, err, got, grace, ctx, armed, routine, channel, notified,
                 ignored, sent, process>>

ReraiseSkipped ==
  /\ RunnerAt("returned")
  /\ SignalOf(err) # {}
  /\ fate' = "exited" /\ code' = ExitCode(err)
  /\ UNCHANGED <<runner, ctx, armed, routine, channel, signal, raised>>

UnwindSendFirst ==
  /\ TargetAt("unwind")
  /\ tres' = tres
  /\ done' = {tres'}
  /\ tgt' = "closing"
  /\ UNCHANGED <<runner, ctx, armed, home, cwd, closed, signal, process>>

UnwindHidesFailure ==
  /\ TargetAt("unwind")
  /\ cwd' = home \/ cwd' = cwd
  /\ tres' = tres
  /\ done' = {tres'}
  /\ tgt' = "closing"
  /\ UNCHANGED <<runner, ctx, armed, home, closed, signal, process>>

-----------------------------------------------------------------------------
(* The runner.                                                             *)

(* The flags: --timeout arms a deadline, and a flag that does not parse, a  *)
(* negative timeout or a failing Getwd ends the process with an error.     *)
NewMakefile ==
  /\ RunnerAt("new")
  /\ \/ armed' \in BOOLEAN /\ main' = "begin" /\ err' = err
     \/ err' = {"err"} /\ main' = "returned" /\ armed' = armed
  /\ UNCHANGED <<got, handled, grace, ctx, routine, channel, signal, process>>

(* Help, an option target, or pickTarget's two errors: Execute returns     *)
(* before it installs the handler.                                         *)
NotRun ==
  /\ RunnerAt("begin")
  /\ \E e \in NotRunError : err' = e
  /\ main' = "returned"
  /\ UNCHANGED <<got, handled, grace, ctx, armed, routine, channel, signal,
                 process>>

(* Notify, the deadline context, and the goroutine.                        *)
Begin ==
  /\ RunnerAt("begin")
  /\ main' = "select"
  /\ notified' = TRUE
  /\ tgt' = "getwd"
  /\ UNCHANGED <<err, got, handled, grace, ctx, armed, tres, home, cwd,
                 channel, sigq, ignored, sent, process>>

(* The select's signal case: take it and cancel the target's context.      *)
SelectSignal ==
  /\ RunnerAt("select")
  /\ \E s \in sigq : got' = s
  /\ sigq' = {}
  /\ handled' = 1
  /\ ctx' = Cancel(ctx)
  /\ main' = "gotSig"
  /\ UNCHANGED <<err, grace, armed, routine, channel, notified, ignored,
                 sent, process>>

(* recvDone after a signal: a result that is there is drained, else the    *)
(* target gets its grace time.                                             *)
LookAfterSignal ==
  /\ RunnerAt("gotSig")
  /\ IF done # {}
     THEN /\ err' \in done /\ done' = {} /\ main' = "drain" /\ grace' = grace
     ELSE /\ err' = Interrupted(got) /\ main' = "grace" /\ grace' = "armed"
          /\ done' = done
  /\ UNCHANGED <<got, handled, ctx, armed, routine, closed, signal, process>>

(* The select's ctx.Done case, with its recvDone: a result that is there   *)
(* is drained, else the run returns at once and abandons the target.       *)
SelectContext ==
  /\ RunnerAt("select")
  /\ ctx # "live"
  /\ IF done # {}
     THEN err' \in done /\ done' = {} /\ main' = "drain"
     ELSE /\ err' = TimedOut({"err", "deadline"}) /\ main' = "decided"
          /\ done' = done
  /\ UNCHANGED <<got, handled, grace, ctx, armed, routine, closed, signal,
                 process>>

(* The select's result case.                                               *)
SelectResult ==
  /\ RunnerAt("select")
  /\ err' \in done
  /\ done' = {}
  /\ main' = "drain"
  /\ UNCHANGED <<got, handled, grace, ctx, armed, routine, closed, signal,
                 process>>

(* drainDone has seen the channel close.  A signal's cancellation keeps    *)
(* the interrupt; any other result is returned as it is on the signal      *)
(* path and through timedOut on the others.                                *)
Drained ==
  /\ RunnerAt("drain")
  /\ closed
  /\ err' = IF got = "none" THEN TimedOut(err)
            ELSE IF Is(err, "canceled") THEN Interrupted(got) ELSE err
  /\ main' = "decided"
  /\ UNCHANGED <<got, handled, grace, ctx, armed, routine, channel, signal,
                 process>>

(* awaitDone's loop: it reads and drops the result, and ends on the close, *)
(* a second signal or the timer.                                           *)
AwaitResult ==
  /\ RunnerAt("grace")
  /\ done # {}
  /\ done' = {}
  /\ UNCHANGED <<runner, ctx, armed, routine, closed, signal, process>>

AwaitClose ==
  /\ RunnerAt("grace")
  /\ closed /\ done = {}
  /\ main' = "decided"
  /\ UNCHANGED <<err, got, handled, grace, ctx, armed, routine, channel,
                 signal, process>>

AwaitSignal ==
  /\ RunnerAt("grace")
  /\ sigq # {}
  /\ sigq' = {}
  /\ handled' = 2
  /\ main' = "decided"
  /\ UNCHANGED <<err, got, grace, ctx, armed, routine, channel, notified,
                 ignored, sent, process>>

AwaitTimer ==
  /\ RunnerAt("grace")
  /\ grace = "fired"
  /\ main' = "decided"
  /\ UNCHANGED <<err, got, handled, grace, ctx, armed, routine, channel,
                 signal, process>>

(* The defers of runTarget and Execute: cancel both contexts, signal.Stop. *)
Return ==
  /\ RunnerAt("decided")
  /\ ctx' = Cancel(ctx)
  /\ notified' = FALSE
  /\ main' = "returned"
  /\ UNCHANGED <<err, got, handled, grace, armed, routine, channel, sigq,
                 ignored, sent, process>>

Exit(c) == fate' = "exited" /\ code' = c

(* The generated run: an interrupt is re-raised on the process itself, any *)
(* other outcome exits with its code.                                      *)
FinishPlain ==
  /\ RunnerAt("returned")
  /\ SignalOf(err) = {}
  /\ Exit(ExitCode(err))
  /\ UNCHANGED <<runner, ctx, armed, routine, channel, signal, raised>>

Reraise ==
  /\ RunnerAt("returned")
  /\ SignalOf(err) # {}
  /\ \/ /\ raised' = "sent" /\ main' = "reraise"
        /\ UNCHANGED <<fate, code>>
     \/ /\ raised' = "failed" /\ main' = main   \* FindProcess or Signal failed
        /\ Exit(ExitCode(err))
  /\ UNCHANGED <<err, got, handled, grace, ctx, armed, routine, channel,
                 signal>>

(* The default action ends the process; an inherited SIG_IGN lets the wait *)
(* run out, and the process exits with 128+n.                              *)
DieBySignal ==
  /\ RunnerAt("reraise")
  /\ got \notin ignored
  /\ fate' = "killed" /\ code' = 128 + SigNum(got)
  /\ UNCHANGED <<runner, ctx, armed, routine, channel, signal, raised>>

ReraiseRunsOut ==
  /\ RunnerAt("reraise")
  /\ got \in ignored
  /\ Exit(ExitCode(err))
  /\ UNCHANGED <<runner, ctx, armed, routine, channel, signal, raised>>

Runner ==
  \/ NewMakefile \/ NotRun \/ Begin
  \/ SelectSignal \/ LookAfterSignal \/ SelectContext \/ SelectResult
  \/ Drained
  \/ AwaitResult \/ AwaitClose \/ AwaitSignal \/ AwaitTimer
  \/ Return \/ FinishPlain \/ Reraise \/ DieBySignal \/ ReraiseRunsOut

-----------------------------------------------------------------------------
(* The target's goroutine.                                                 *)

(* Getwd: remember the directory, or report and close without a run.       *)
Getwd ==
  /\ TargetAt("getwd")
  /\ \/ home' = cwd /\ tgt' = "chdir" /\ UNCHANGED <<tres, done>>
     \/ tres' = {"err"} /\ done' = {tres'} /\ tgt' = "closing" /\ home' = home
  /\ UNCHANGED <<runner, ctx, armed, cwd, closed, signal, process>>

(* --wd, which is the current directory unless it is given.                *)
Chdir ==
  /\ TargetAt("chdir")
  /\ \/ cwd' \in {"orig", "wd"} /\ tgt' = "running" /\ tres' = tres
     \/ tres' = {"err"} /\ tgt' = "unwind" /\ cwd' = cwd
  /\ UNCHANGED <<runner, ctx, armed, home, channel, signal, process>>

(* What the target function can leave behind: nil, an error of its own, a  *)
(* deadline or cancellation of its own making or of its context, the cause *)
(* of its context's deadline; a panic carries the same errors, Goexit a    *)
(* plain one.                                                              *)
TargetResults ==
  {Nil, {"err"}, {"err", "canceled"}, {"err", "deadline"}}
    \cup IF ctx = "timeout" THEN {TimeoutError} ELSE {}

(* The target may change the directory of the process while it runs.       *)
TargetMoves ==
  /\ TargetAt("running")
  /\ cwd' = "other"
  /\ UNCHANGED <<runner, ctx, armed, tgt, tres, home, channel, signal, process>>

TargetEnds ==
  /\ TargetAt("running")
  /\ tres' \in TargetResults
  /\ tgt' = "unwind"
  /\ UNCHANGED <<runner, ctx, armed, home, cwd, channel, signal, process>>

(* The deferred function: restore the directory, send the result, which    *)
(* the buffer takes without waiting for a receiver.                        *)
Unwind ==
  /\ TargetAt("unwind")
  /\ \/ cwd' = home /\ tres' = tres
     \/ cwd' = cwd /\ tres' = Wrap(tres, "restore")
  /\ done' = {tres'}
  /\ tgt' = "closing"
  /\ UNCHANGED <<runner, ctx, armed, home, closed, signal, process>>

Close ==
  /\ TargetAt("closing")
  /\ closed' = TRUE
  /\ tgt' = "closed"
  /\ UNCHANGED <<runner, ctx, armed, tres, home, cwd, done, signal, process>>

Routine == Getwd \/ Chdir \/ Unwind \/ Close

-----------------------------------------------------------------------------
(* Time and signals.                                                       *)

Deadline ==
  /\ Alive /\ armed /\ ctx = "live" /\ main \notin {"new", "begin", "returned", "reraise"}
  /\ ctx' = "timeout"
  /\ UNCHANGED <<runner, armed, routine, channel, signal, process>>

GraceElapses ==
  /\ Alive /\ grace = "armed"
  /\ grace' = "fired"
  /\ UNCHANGED <<main, err, got, handled, ctx, armed, routine, channel,
                 signal, process>>

(* A signal goes to the channel while the handler is installed, dropped    *)
(* when the buffer is full; otherwise it acts on the process.              *)
SignalArrives ==
  /\ Alive /\ sent < MaxSignals
  /\ sent' = sent + 1
  /\ \E s \in Signals :
       \/ /\ notified /\ sigq' = IF sigq = {} THEN {s} ELSE sigq
          /\ UNCHANGED <<fate, code>>
       \/ /\ ~notified /\ s \in ignored
          /\ UNCHANGED <<sigq, fate, code>>
       \/ /\ ~notified /\ s \notin ignored
          /\ fate' = "killed" /\ code' = 128 + SigNum(s)
          /\ sigq' = sigq
  /\ UNCHANGED <<runner, ctx, armed, routine, channel, notified, ignored,
                 raised>>

Environment == Deadline \/ GraceElapses \/ SignalArrives

Ended == ~Alive /\ UNCHANGED vars

Next == Runner \/ Routine \/ TargetMoves \/ TargetEnds \/ Environment \/ Ended

(* The Go scheduler runs both goroutines and the clock advances; nothing   *)
(* makes a target return or the environment send a signal.                 *)
Fairness ==
  /\ WF_vars(Runner) /\ WF_vars(Routine)
  /\ WF_vars(Deadline) /\ WF_vars(GraceElapses)

Spec == Init /\ [][Next]_vars /\ Fairness

-----------------------------------------------------------------------------
(* Properties.                                                             *)

(* A zero exit of a run that started its target means that the target      *)
(* returned nil and the directory was restored: no wait that was cut short *)
(* and no restore that failed ever looks like success (runTarget, run).    *)
SuccessIsReal ==
  fate = "exited" /\ code = 0 =>
    tgt = "off" \/ (tgt = "closed" /\ tres = Nil /\ cwd = home)

(* Exit code 125 only when gomake's own --timeout deadline ended the run,  *)
(* however many deadlines the target made and exceeded itself (timedOut).  *)
DeadlineCodeIsOurs ==
  fate = "exited" /\ code = 125 => armed /\ ctx = "timeout"

(* Execute returns while the target still runs only after it canceled the  *)
(* target's context, and only at the deadline, after a second signal or at *)
(* the end of the grace time; otherwise the target's cleanup and restore   *)
(* are over (runTarget, awaitDone, drainDone).                             *)
AbandonsOnlyWhenAllowed ==
  main \in {"decided", "returned", "reraise"} /\ tgt \notin {"off", "closed"} =>
    /\ ctx # "live"
    /\ \/ got = "none" /\ ctx = "timeout"
       \/ handled = 2
       \/ grace = "fired"

(* "On normal completion it restores the original working directory before *)
(* returning": once the goroutine has reported, the process is back where  *)
(* it was or the report says it is not (Execute's contract).               *)
CwdRestoredOrReported ==
  tgt \in {"closing", "closed"} => cwd = home \/ Is(tres, "restore")

(* An interrupted run calls exit only when the signal cannot end the       *)
(* process, and then with 128+n (interruptedError.ExitCode, Reraise).      *)
InterruptDiesBySignal ==
  fate = "exited" /\ SignalOf(err) # {} =>
    /\ raised = "failed" \/ (raised = "sent" /\ got \in ignored)
    /\ code = 128 + SigNum(got)

(* The runner gives one of the promised answers, gives it once, and never  *)
(* lets a deadline or a signal mask a result that was there (RunPromise).  *)
Promise ==
  INSTANCE RunPromise WITH
    result   <- IF tgt \in {"closing", "closed"} THEN {tres} ELSE {},
    deadline <- ctx = "timeout",
    signals  <- {got} \ {"none"},
    answer   <- IF main \in {"grace", "decided", "returned", "reraise"}
                THEN {err} ELSE {}

RunKeepsPromise == Promise!Spec

(* A received signal, the deadline and the end of the target each end the  *)
(* process, even when the target ignores its context for ever.             *)
RunEnds == (sigq # {} \/ ctx = "timeout" \/ tgt = "unwind") ~> ~Alive

(* A target that was still running when the deadline hit, and that reports *)
(* that deadline, is answered with the timeout (cli-reference.md: 125) or, *)
(* when a signal came too, with the interrupt (128+n): never with the code *)
(* of a plain error.                                                       *)
DeadlineOrSignalCode ==
  [](tgt = "running" /\ ctx = "timeout" =>
       [](fate = "exited" /\ Is(tres, "deadline") => code # 1))
=============================================================================
