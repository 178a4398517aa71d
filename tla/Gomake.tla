------------------------------- MODULE Gomake -------------------------------
(***************************************************************************)
(* One gomake process (cli.Main): the pipeline from the parsed arguments   *)
(* to the exit code, the build directory it creates and must remove, the   *)
(* watch goroutine that removes it when a signal arrives (watchBuildDir),  *)
(* the goroutine that announces a slow analysis or compilation             *)
(* (withProgress), the in-process run of a built-in target, and the        *)
(* compiled makefile it starts as a child.  TargetRunner says what an      *)
(* in-process run and a child do with a signal; BinaryCache which binary   *)
(* the child is.                                                           *)
(***************************************************************************)
EXTENDS Errors, Integers

CONSTANT MaxSignals   \* how many signals the environment sends

ASSUME MaxSignalsAssumption == MaxSignals \in Nat

VARIABLES
  mode,      \* what the arguments ask for
  pc,        \* where Main is
  code,      \* the exit code Main is about to return; a status once ended
  dir,       \* the build directory
  prog,      \* where the progress goroutine is, "off" when there is none
  back,      \* where Main goes on when withProgress returns
  watch,     \* where the watch goroutine is
  wsig,      \* the watch's one-slot signal channel
  notified,  \* do signals go to wsig?
  closed,    \* has stop closed the watch's done channel?
  got,       \* signals an in-process run has received
  outcome,   \* what the in-process run returned, an error until it has
  child,     \* the makefile process
  status,    \* its status as a shell would report it
  told,      \* the signals the child has received
  lost,      \* history: did a panic leave newGoMake without its clean-up?
  built,     \* history: has go build succeeded?
  sent,      \* how many signals the environment has sent
  fate       \* alive, exited or killed

watcher == <<watch, wsig, notified, closed>>
inproc  == <<got, outcome>>
kid     == <<child, status, told>>
progress == <<prog, back>>
history == <<lost, built>>
vars ==
  <<mode, pc, code, dir, progress, watcher, inproc, kid, history, sent,
    fate>>

(* The arguments: an option that only prints, a built-in target by name,   *)
(* another target by name, no target, or --bin.                            *)
Modes == {"print", "builtin", "named", "default", "bin"}

(* The actions that run under withProgress.                                *)
Slow == {"list", "analyze", "generate", "compile"}

PcAt == Slow \cup
        {"start", "prerun", "inproc", "inprocDone", "reraise", "join", "ready",
         "config", "execute", "launch", "wait", "return", "remove", "exit"}

TypeOK ==
  /\ mode \in Modes /\ pc \in PcAt
  /\ code \in 0..255
  /\ dir \in {"none", "present", "gone"}
  /\ prog \in {"off", "timing", "writing"} /\ back \in PcAt
  /\ watch \in {"off", "waiting", "removing", "raising", "raised", "done"}
  /\ wsig \in SUBSET Signals
  /\ notified \in BOOLEAN /\ closed \in BOOLEAN
  /\ got \in SUBSET Signals /\ outcome \in Error
  /\ child \in {"none", "running", "ended"}
  /\ status \in 0..255 /\ told \in SUBSET Signals
  /\ lost \in BOOLEAN /\ built \in BOOLEAN
  /\ sent \in 0..MaxSignals
  /\ fate \in {"alive", "exited", "killed"}

Init ==
  /\ mode \in Modes /\ pc = "start" /\ code = 0 /\ dir = "none"
  /\ prog = "off" /\ back = "start"
  /\ watch = "off" /\ wsig = {} /\ notified = FALSE /\ closed = FALSE
  /\ got = {} /\ outcome = {"err"}
  /\ child = "none" /\ status = 0 /\ told = {}
  /\ lost = FALSE /\ built = FALSE /\ sent = 0 /\ fate = "alive"

Alive == fate = "alive"
At(where) == Alive /\ pc = where
WatchAt(where) == Alive /\ watch = where

(* Return from Main with code c: through the deferred clean-up when there  *)
(* is a build directory Main knows of, directly otherwise.                 *)
Leave(c) == pc' = "exit" /\ code' = c
LeaveBuild(c) == pc' = "return" /\ code' = c
Stay(where) == pc' = where /\ UNCHANGED <<code, progress>>

(* withProgress starts its goroutine and then the slow action.             *)
Slowly(action) ==
  /\ pc' = action /\ prog' = "timing"
  /\ UNCHANGED <<code, back>>

(* The action has returned or panicked, and its deferred function closes   *)
(* done and waits for the goroutine before Main goes on where it would.    *)
Done(where, c) ==
  /\ pc' = "join" /\ back' = where /\ code' = c
  /\ UNCHANGED prog

-----------------------------------------------------------------------------
(* Variants with one plausible bug each, for the mutant runs.              *)

ReturnSkipsRemove ==
  /\ At("return")
  /\ notified' = FALSE /\ closed' = TRUE
  /\ pc' = "exit"
  /\ UNCHANGED <<mode, code, dir, progress, watch, wsig, inproc, kid,
                 history, sent, fate>>

WatchTakeDropsSignal ==
  /\ WatchAt("waiting")
  /\ wsig # {}
  /\ watch' = "done"
  /\ UNCHANGED <<mode, pc, code, dir, progress, wsig, notified, closed,
                 inproc, kid, history, sent, fate>>

JoinNotWaiting ==
  /\ At("join")
  /\ pc' = back
  /\ UNCHANGED <<mode, code, dir, progress, watcher, inproc, kid, history,
                 sent, fate>>

PreRunsErrorIgnored ==
  /\ At("prerun")
  /\ \/ pc' = "inproc" /\ UNCHANGED code
     \/ Leave(0)
  /\ UNCHANGED <<mode, dir, progress, watcher, inproc, kid, history, sent,
                 fate>>

CompileErrorIgnored ==
  /\ At("compile")
  /\ \/ Done("return", IF mode = "bin" THEN 0 ELSE 124) /\ built' = built
     \/ /\ dir = "present" /\ built' = TRUE
        /\ IF mode = "bin" THEN Done("return", 0) ELSE Done("launch", code)
  /\ UNCHANGED <<mode, dir, watcher, inproc, kid, lost, sent, fate>>

LaunchDetached ==
  /\ At("launch")
  /\ child' = "running" /\ LeaveBuild(0)
  /\ UNCHANGED <<mode, dir, progress, watcher, inproc, status, told, history,
                 sent, fate>>

ChildEndsRawCode ==
  /\ Alive /\ child = "running"
  /\ child' = "ended"
  /\ status' \in {0, 1, 125, 126, 127} \cup {-1 : s \in told}
  /\ UNCHANGED <<mode, pc, code, dir, progress, watcher, inproc, told,
                 history, sent, fate>>

-----------------------------------------------------------------------------
(* Main before a build directory exists.                                   *)

(* Arguments, the printing options and the temporary directory; a built-in *)
(* target named in the arguments runs without a build.                     *)
Start ==
  /\ At("start")
  /\ \/ Leave(1) /\ UNCHANGED progress   \* bad arguments, config or --tmp
     \/ mode = "print" /\ Leave(0) /\ UNCHANGED progress
     \/ mode = "print" /\ Slowly("list")
     \/ mode = "builtin" /\ Stay("prerun")
     \/ mode \notin {"print", "builtin"} /\ Slowly("analyze")
  /\ UNCHANGED <<mode, dir, watcher, inproc, kid, history, sent, fate>>

(* allTargets, for the options that print them or check the configuration. *)
List ==
  /\ At("list")
  /\ \E c \in {0, 1} : Done("exit", c)
  /\ UNCHANGED <<mode, dir, watcher, inproc, kid, history, sent, fate>>

(* The pre-run hooks and, for a built-in target, its configuration.        *)
PreRuns ==
  /\ At("prerun")
  /\ \/ pc' = "inproc" /\ UNCHANGED code
     \/ Leave(1)
  /\ UNCHANGED <<mode, dir, progress, watcher, inproc, kid, history, sent,
                 fate>>

(* newGoMake up to MkdirTemp.  Without a makefile a named target is        *)
(* unknown and --bin fails; without a target the built-in ones are tried.  *)
Analyze ==
  /\ At("analyze")
  /\ \/ Stay("generate") /\ dir' = "present"
     \/ /\ \/ mode = "named" /\ Done("exit", 127)        \* no makefile
           \/ mode = "default" /\ Done("prerun", code)
           \/ Done("exit", 1)                            \* any other error
        /\ dir' = dir
  /\ UNCHANGED <<mode, watcher, inproc, kid, history, sent, fate>>

(* The rest of newGoMake: copy, edit, parse and generate in the build      *)
(* directory, which its error paths remove.                                *)
Generate ==
  /\ At("generate")
  /\ \/ Done("ready", code) /\ dir' = dir
     \/ Done("exit", 1) /\ dir' = "gone"
  /\ UNCHANGED <<mode, watcher, inproc, kid, history, sent, fate>>

(* The two defers: RemoveAll, and the watch with its handler.  --bin fails *)
(* for a makefile without targets, and compiles nothing else.              *)
Watch ==
  /\ At("ready")
  /\ watch' = "waiting" /\ notified' = TRUE
  /\ \/ mode # "bin" /\ Stay("config")
     \/ mode = "bin" /\ Slowly("compile")
     \/ mode = "bin" /\ LeaveBuild(1) /\ UNCHANGED progress
  /\ UNCHANGED <<mode, dir, wsig, closed, inproc, kid, history, sent, fate>>

(* A panic anywhere in Main is recovered with exit code 1, after the       *)
(* defers, withProgress's among them.  newGoMake's and prepare's clean-up  *)
(* test an error, and a panic sets none.                                   *)
Panic ==
  /\ Alive
  /\ \/ pc \in {"start", "prerun"} /\ Leave(1) /\ UNCHANGED progress
     \/ pc \in {"list", "analyze", "generate"} /\ Done("exit", 1)
     \/ /\ pc \in {"config", "execute", "launch"}
        /\ LeaveBuild(1) /\ UNCHANGED progress
     \/ pc = "compile" /\ Done("return", 1)
  /\ lost' = (lost \/ pc = "generate") /\ built' = built
  /\ UNCHANGED <<mode, dir, watcher, inproc, kid, sent, fate>>

-----------------------------------------------------------------------------
(* withProgress and its goroutine.  With done closed and the timer fired,  *)
(* its select takes either.                                                *)

Join ==
  /\ At("join")
  /\ prog = "off"
  /\ pc' = back
  /\ UNCHANGED <<mode, code, dir, progress, watcher, inproc, kid, history,
                 sent, fate>>

ProgressDone ==
  /\ At("join")
  /\ prog = "timing"
  /\ prog' = "off"
  /\ UNCHANGED <<mode, pc, code, dir, back, watcher, inproc, kid, history,
                 sent, fate>>

ProgressTimer ==
  /\ Alive /\ prog = "timing"
  /\ prog' = "writing"
  /\ UNCHANGED <<mode, pc, code, dir, back, watcher, inproc, kid, history,
                 sent, fate>>

(* The message is written, and the deferred close tells withProgress.      *)
ProgressWritten ==
  /\ Alive /\ prog = "writing"
  /\ prog' = "off"
  /\ UNCHANGED <<mode, pc, code, dir, back, watcher, inproc, kid, history,
                 sent, fate>>

Progress == ProgressDone \/ ProgressTimer \/ ProgressWritten

-----------------------------------------------------------------------------
(* The in-process run (runWithoutCompile): mkf's runner owns the signals,  *)
(* and reports an interrupt only for a signal it received.                 *)

InprocEnds ==
  /\ At("inproc")
  /\ outcome' \in {Nil, {"err"}, {"err", "pick"}, TimeoutError}
                    \cup {Interrupted(s) : s \in got}
  /\ pc' = "inprocDone"
  /\ UNCHANGED <<mode, code, dir, progress, watcher, got, kid, history, sent,
                 fate>>

(* Main re-raises the interrupt of a run without a makefile; after a       *)
(* built-in target it returns the exit code.                               *)
InprocDone ==
  /\ At("inprocDone")
  /\ IF mode # "builtin" /\ SignalOf(outcome) # {}
     THEN pc' = "reraise" /\ UNCHANGED code
     ELSE Leave(ExitCode(outcome))
  /\ UNCHANGED <<mode, dir, progress, watcher, inproc, kid, history, sent,
                 fate>>

(* mkf.Reraise: the process dies by the signal; where the signal cannot be  *)
(* sent or has no effect, Main returns the exit code.                      *)
Reraise ==
  /\ At("reraise")
  /\ \/ fate' = "killed" /\ code' = ExitCode(outcome) /\ pc' = pc
     \/ Leave(ExitCode(outcome)) /\ fate' = fate
  /\ UNCHANGED <<mode, dir, progress, watcher, inproc, kid, history, sent>>

-----------------------------------------------------------------------------
(* Main with a build directory.                                            *)

(* Pre-runs, the metadata of external targets and the configuration.       *)
Config ==
  /\ At("config")
  /\ \/ pc' = "execute" /\ UNCHANGED code
     \/ LeaveBuild(1)
  /\ UNCHANGED <<mode, dir, progress, watcher, inproc, kid, history, sent,
                 fate>>

(* Execute's cache lookup: a hit needs no compilation.                     *)
Lookup ==
  /\ At("execute")
  /\ Stay("launch") \/ Slowly("compile")
  /\ UNCHANGED <<mode, dir, watcher, inproc, kid, history, sent, fate>>

(* "go build" in the build directory; --bin ends with it.  A build whose   *)
(* directory the watch has removed cannot succeed.                         *)
Compile ==
  /\ At("compile")
  /\ \/ Done("return", 124) /\ built' = built
     \/ /\ dir = "present" /\ built' = TRUE
        /\ IF mode = "bin" THEN Done("return", 0) ELSE Done("launch", code)
  /\ UNCHANGED <<mode, dir, watcher, inproc, kid, lost, sent, fate>>

(* exec.Cmd.Run: the child starts, or it cannot be started.                *)
Launch ==
  /\ At("launch")
  /\ \/ child' = "running" /\ pc' = "wait" /\ UNCHANGED code
     \/ child' = child /\ LeaveBuild(1)
  /\ UNCHANGED <<mode, dir, progress, watcher, inproc, status, told, history,
                 sent, fate>>

(* The child ends with a code, or by a signal it received.                 *)
ChildEnds ==
  /\ Alive /\ child = "running"
  /\ child' = "ended"
  /\ status' \in {0, 1, 125, 126, 127} \cup {128 + SigNum(s) : s \in told}
  /\ UNCHANGED <<mode, pc, code, dir, progress, watcher, inproc, told,
                 history, sent, fate>>

(* gomake.ExitStatus: the child's code, or 128+n for a signal.             *)
Wait ==
  /\ At("wait")
  /\ child = "ended"
  /\ LeaveBuild(status)
  /\ UNCHANGED <<mode, dir, progress, watcher, inproc, kid, history, sent,
                 fate>>

(* Main's defers, last in first out: stop the watch, remove the directory. *)
Return ==
  /\ At("return")
  /\ notified' = FALSE /\ closed' = TRUE
  /\ pc' = "remove"
  /\ UNCHANGED <<mode, code, dir, progress, watch, wsig, inproc, kid,
                 history, sent, fate>>

Remove ==
  /\ At("remove")
  /\ dir' = "gone"
  /\ pc' = "exit"
  /\ UNCHANGED <<mode, code, progress, watcher, inproc, kid, history, sent,
                 fate>>

Exit ==
  /\ At("exit")
  /\ fate' = "exited" /\ code' = code
  /\ UNCHANGED <<mode, pc, dir, progress, watcher, inproc, kid, history,
                 sent>>

Main ==
  \/ Start \/ List \/ PreRuns \/ Analyze \/ Generate \/ Watch \/ Join
  \/ InprocDone \/ Reraise
  \/ Config \/ Lookup \/ Compile \/ Launch \/ Wait
  \/ Return \/ Remove \/ Exit

-----------------------------------------------------------------------------
(* The watch goroutine.  With a signal and a closed done channel both      *)
(* ready, its select takes either.                                         *)

WatchTake ==
  /\ WatchAt("waiting")
  /\ wsig # {}
  /\ watch' = "removing"
  /\ UNCHANGED <<mode, pc, code, dir, progress, wsig, notified, closed,
                 inproc, kid, history, sent, fate>>

WatchDone ==
  /\ WatchAt("waiting")
  /\ closed
  /\ watch' = "done"
  /\ UNCHANGED <<mode, pc, code, dir, progress, wsig, notified, closed,
                 inproc, kid, history, sent, fate>>

WatchRemove ==
  /\ WatchAt("removing")
  /\ dir' = "gone"
  /\ watch' = "raising"
  /\ UNCHANGED <<mode, pc, code, progress, wsig, notified, closed, inproc,
                 kid, history, sent, fate>>

(* signal.Stop, then the signal to the process itself, or exit code 1.     *)
WatchRaise ==
  /\ WatchAt("raising")
  /\ notified' = FALSE
  /\ watch' = "raised"
  /\ \/ UNCHANGED <<code, fate>>
     \/ fate' = "exited" /\ code' = 1
  /\ UNCHANGED <<mode, pc, dir, progress, wsig, closed, inproc, kid, history,
                 sent>>

WatchKill ==
  /\ WatchAt("raised")
  /\ fate' = "killed"
  /\ \E s \in wsig : code' = 128 + SigNum(s)
  /\ UNCHANGED <<mode, pc, dir, progress, watcher, inproc, kid, history,
                 sent>>

Watcher == WatchTake \/ WatchDone \/ WatchRemove \/ WatchRaise \/ WatchKill

-----------------------------------------------------------------------------
(* Signals: from a terminal to the process group, or to gomake alone.      *)

(* What gomake does with s depends on the handler installed now.  Execute  *)
(* has its handler in place for most of an in-process run.                 *)
Deliver(s) ==
  \/ /\ pc = "inproc"
     /\ got' = got \cup {s}
     /\ UNCHANGED <<wsig, fate, code>>
  \/ /\ pc # "inproc" /\ notified
     /\ wsig' = IF wsig = {} THEN {s} ELSE wsig
     /\ UNCHANGED <<got, fate, code>>
  \/ /\ ~notified
     /\ fate' = "killed" /\ code' = 128 + SigNum(s)
     /\ UNCHANGED <<got, wsig>>

Signal ==
  /\ Alive /\ sent < MaxSignals
  /\ sent' = sent + 1
  /\ \E s \in Signals :
       /\ Deliver(s)
       /\ \/ told' = told                                  \* gomake alone
          \/ child = "running" /\ told' = told \cup {s}    \* the group
  /\ UNCHANGED <<mode, pc, dir, progress, watch, notified, closed, outcome,
                 child, status, history>>

Ended == ~Alive /\ UNCHANGED vars

Next ==
  \/ Main \/ Panic \/ Progress \/ Watcher
  \/ InprocEnds \/ ChildEnds \/ Signal \/ Ended

(* The scheduler runs Main, the progress goroutine and the watch, and      *)
(* somebody reads stderr.  A child or an in-process run may last for ever, *)
(* except an in-process run that got a signal, which ends after its grace  *)
(* time at the latest (RunEnds of TargetRunner).                           *)
Fairness ==
  /\ WF_vars(Main) /\ WF_vars(Progress) /\ WF_vars(Watcher)
  /\ WF_vars(got # {} /\ InprocEnds)

Spec == Init /\ [][Next]_vars /\ Fairness

-----------------------------------------------------------------------------
(* Properties.                                                             *)

(* The build directory is there, and no watch.                             *)
Unwatched ==
  \/ pc \in {"generate", "ready", "remove"}
  \/ pc = "join" /\ back = "ready"

(* A build directory outlives its process only when the process was killed *)
(* while no watch was in place - newGoMake still working or its message    *)
(* still being written, or Main between stopping the watch and RemoveAll - *)
(* or when newGoMake panicked.  A kill by the watch itself never leaves it *)
(* (Main's defers, watchBuildDir).                                         *)
BuildDirRemoved ==
  ~Alive /\ dir = "present" => lost \/ (fate = "killed" /\ Unwatched)

(* Exit code 0 means the work was done: nothing but printing was asked,    *)
(* the in-process run or the child ended well, or --bin has compiled the   *)
(* makefile (Main's returns, main.go).                                     *)
SuccessIsReal ==
  fate = "exited" /\ code = 0 =>
    \/ mode = "print"
    \/ mode = "bin" /\ built
    \/ outcome = Nil
    \/ child = "ended" /\ status = 0

(* gomake never exits by itself while the makefile it started still runs;  *)
(* only a signal ends it before its child.                                 *)
OrphanOnlyBySignal ==
  fate = "exited" /\ child = "running" => watch = "raised"

(* The message of a slow analysis or compilation never comes after it: not *)
(* into the output of a target, a later error message or the exit, whether *)
(* the action returns or panics ("cannot write after we return",           *)
(* progress.go).                                                           *)
ProgressInTime == Alive /\ prog # "off" => pc \in Slow \cup {"join"}

(* Every run ends, or waits for ever for a target that got no signal: no   *)
(* goroutine of gomake waits for one that will not come, also after a      *)
(* panic, and a signal that reaches an in-process run or the watch ends    *)
(* the process, even while the child runs on for ever.                     *)
ProcessEnds ==
  <>[](~Alive \/ (pc \in {"inproc", "wait"} /\ wsig = {} /\ got = {}))

(* "The process then terminates by the same signal rather than calling     *)
(* exit" (cli-reference.md), for a built-in target.                        *)
InterruptedRunDies ==
  fate = "exited" /\ mode = "builtin" => SignalOf(outcome) = {}

(* "On SIGINT or SIGTERM the target's context is canceled and the target   *)
(* gets up to 5 seconds to finish its cleanup" (cli-reference.md): a       *)
(* target that runs when a signal kills gomake has got a signal too.       *)
TargetToldOfSignal ==
  fate = "killed" /\ child = "running" => told # {}
=============================================================================
