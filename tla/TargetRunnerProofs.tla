------------------------- MODULE TargetRunnerProofs -------------------------
(***************************************************************************)
(* The safety of one target run, proved for every number of signals.  The  *)
(* invariant Inv relates the runner's place to the target goroutine's, and *)
(* the errors on their way to the exit code to where they came from; it is *)
(* inductive, and each safety property of TargetRunner follows from it.    *)
(***************************************************************************)
EXTENDS TargetRunner, TLAPS

(* The goroutine exists from Begin on, and has closed the channel exactly  *)
(* when it has ended.                                                      *)
Places ==
  /\ main \in {"new", "begin"} => tgt = "off"
  /\ closed <=> tgt = "closed"
  /\ main = "drain" => tgt \in {"closing", "closed"}

(* What the channel holds, and what drain returns, is the target's error.  *)
Results ==
  /\ done # {} => done = {tres} /\ tgt \in {"closing", "closed"}
  /\ main = "drain" => err = tres
  /\ main \in {"select", "gotSig"} /\ tgt \in {"closing", "closed"} => done # {}

(* The context is canceled before the runner waits on the target's         *)
(* clean-up, and only the deadline or a signal cancels it.                 *)
Context ==
  /\ main \in {"new", "begin"} => ctx = "live"
  /\ main = "select" => ctx # "canceled"
  /\ main \in {"gotSig", "grace"} => ctx # "live"
  /\ ctx = "timeout" => armed

(* The runner has a signal on the signal's path, and none before it.       *)
Signal ==
  /\ main \in {"new", "begin", "select"} => got = "none"
  /\ main \in {"gotSig", "grace"} => got # "none"
  /\ main = "grace" => err = Interrupted(got)

(* Only gomake's own deadline makes an errTimeout, only the runner makes   *)
(* an interrupt.                                                           *)
Origins ==
  /\ Is(tres, "errTimeout") \/ Is(err, "errTimeout") => ctx = "timeout"
  /\ SignalOf(tres) = {}
  /\ SignalOf(err) # {} => got # "none" /\ err = Interrupted(got)

(* The directory and the report about it.                                  *)
Directory ==
  /\ tgt \in {"off", "getwd"} => cwd = home
  /\ tgt \in {"closing", "closed"} => cwd = home \/ Is(tres, "restore")

(* The runner is about to return nil only for a target that is over.       *)
Success ==
  main \in {"decided", "returned"} /\ err = Nil =>
    tgt = "off" \/ (tgt = "closed" /\ tres = Nil)

(* How the process ended.                                                  *)
Ending ==
  /\ main = "reraise" <=> raised = "sent"
  /\ main = "reraise" => SignalOf(err) # {}
  /\ Alive => raised # "failed"
  /\ fate = "exited" => main \in {"returned", "reraise"} /\ code = ExitCode(err)
  /\ fate = "exited" /\ raised = "sent" => got \in ignored
  /\ fate = "exited" /\ raised = "no" => SignalOf(err) = {}

Inv ==
  /\ TypeOK /\ Places /\ Results /\ Context /\ Signal /\ Origins /\ Directory
  /\ Success /\ Ending /\ AbandonsOnlyWhenAllowed

-----------------------------------------------------------------------------
(* Facts about errors.                                                     *)

(* The operators that build errors build errors.                           *)
LEMMA ErrorTypes ==
  /\ Nil \in Error /\ {"err"} \in Error /\ TimeoutError \in Error
  /\ {"err", "canceled"} \in Error /\ {"err", "deadline"} \in Error
  /\ NotRunError \subseteq Error
  /\ \A e \in Error : Wrap(e, "restore") \in Error
  /\ \A s \in Signals : Interrupted(s) \in Error
  /\ \A e \in Error : TimedOut(e) \in Error
<1>1. /\ Nil \in Error /\ {"err"} \in Error /\ TimeoutError \in Error
      /\ {"err", "canceled"} \in Error /\ {"err", "deadline"} \in Error
      /\ NotRunError \subseteq Error
      /\ \A s \in Signals : Interrupted(s) \in Error
  BY DEF Error, Tags, Signals, Nil, TimeoutError, NotRunError, Interrupted
<1>2. \A e \in Error, t \in Tags : Wrap(e, t) \in Error
  BY DEF Error, Tags, Wrap
<1>3. \A e \in Error : TimedOut(e) \in Error
  BY <1>2 DEF TimedOut, Tags
<1>4. "restore" \in Tags
  BY DEF Tags
<1>5. QED
  BY <1>1, <1>2, <1>3, <1>4

(* Statuses are bytes.                                                     *)
LEMMA CodeTypes ==
  /\ \A s : 128 + SigNum(s) \in 0..255
  /\ \A e \in Error : ExitCode(e) \in 0..255
BY DEF ExitCode, SigNum

(* What each error the run makes reports.                                  *)
LEMMA ErrorTags ==
  /\ \A e \in {Nil, {"err"}, {"err", "canceled"}, {"err", "deadline"}} :
       SignalOf(e) = {} /\ ~Is(e, "errTimeout")
  /\ \A e \in NotRunError : SignalOf(e) = {} /\ ~Is(e, "errTimeout")
  /\ SignalOf(TimeoutError) = {}
  /\ \A s \in Signals :
       /\ Interrupted(s) # Nil
       /\ ~Is(Interrupted(s), "errTimeout")
BY DEF Signals, Nil, TimeoutError, NotRunError, Interrupted, SignalOf, Is

(* What wrapping keeps and adds.                                           *)
LEMMA WrapTags ==
  ASSUME NEW e \in Error
  PROVE  /\ Wrap(e, "restore") # Nil
         /\ SignalOf(Wrap(e, "restore")) = SignalOf(e)
         /\ Is(Wrap(e, "restore"), "restore")
         /\ Is(Wrap(e, "restore"), "errTimeout") => Is(e, "errTimeout")
         /\ TimedOut(e) = Nil => e = Nil
         /\ SignalOf(TimedOut(e)) = SignalOf(e)
         /\ Is(TimedOut(e), "errTimeout") =>
              Is(e, "errTimeout") \/ ctx = "timeout"
<1>1. Wrap(e, "restore") # Nil /\ Wrap(e, "errTimeout") # Nil
  BY DEF Wrap, Nil
<1>2. /\ SignalOf(Wrap(e, "restore")) = SignalOf(e)
      /\ SignalOf(Wrap(e, "errTimeout")) = SignalOf(e)
  BY DEF Wrap, SignalOf, Signals
<1>3. /\ Is(Wrap(e, "restore"), "restore")
      /\ Is(Wrap(e, "restore"), "errTimeout") => Is(e, "errTimeout")
  BY DEF Wrap, Is
<1>4. QED
  BY <1>1, <1>2, <1>3 DEF TimedOut

(* Which errors give the codes the properties are about.                   *)
LEMMA ExitCodes ==
  /\ \A e \in Error : ExitCode(e) = 0 => e = Nil
  /\ \A e \in Error : ExitCode(e) = 125 => Is(e, "errTimeout")
  /\ \A s \in Signals : ExitCode(Interrupted(s)) = 128 + SigNum(s)
<1>1. \A e \in Error : ExitCode(e) = 0 => e = Nil
  BY DEF ExitCode, SigNum
<1>2. \A e \in Error : ExitCode(e) = 125 => Is(e, "errTimeout")
  BY DEF ExitCode, SigNum
<1>3. ASSUME NEW s \in Signals
      PROVE  ExitCode(Interrupted(s)) = 128 + SigNum(s)
  <2>1. /\ Interrupted(s) # Nil
        /\ ~Is(Interrupted(s), "errTimeout")
        /\ ~Is(Interrupted(s), "pick") /\ ~Is(Interrupted(s), "unk")
    BY DEF Interrupted, Nil, Is, Signals
  <2>2. SignalOf(Interrupted(s)) = {s}
    BY DEF Interrupted, SignalOf, Signals
  <2>3. (CHOOSE t \in {s} : TRUE) = s
    OBVIOUS
  <2>4. QED
    BY <2>1, <2>2, <2>3 DEF ExitCode
<1>4. QED
  BY <1>1, <1>2, <1>3

-----------------------------------------------------------------------------
(* Type correctness.                                                       *)

LEMMA InitType == Init => TypeOK
<1> SUFFICES ASSUME Init PROVE TypeOK
  OBVIOUS
<1>1. 0 \in 0..MaxSignals
  BY MaxSignalsAssumption
<1>2. ignored \in SUBSET Signals
  BY DEF Init, Signals
<1>3. err \in Error /\ tres \in Error
  BY ErrorTypes DEF Init
<1>4. armed \in BOOLEAN /\ closed \in BOOLEAN /\ notified \in BOOLEAN
  BY DEF Init
<1>5. /\ main \in MainAt /\ tgt \in TgtAt /\ home \in Dirs /\ cwd \in Dirs
      /\ got \in Signals \cup {"none"} /\ grace \in {"off", "armed", "fired"}
      /\ done \in SUBSET Error /\ sigq \in SUBSET Signals
  BY DEF Init, MainAt, TgtAt, Dirs
<1>6. QED
  BY <1>1, <1>2, <1>3, <1>4, <1>5 DEF Init, TypeOK

LEMMA StepType == TypeOK /\ Signal /\ [Next]_vars => TypeOK'
<1> SUFFICES ASSUME TypeOK, Signal, [Next]_vars PROVE TypeOK'
  OBVIOUS
<1> USE DEF TypeOK, MainAt, TgtAt, Dirs, runner, routine, channel, signal, process,
        RunnerAt, TargetAt, Alive, Exit
<1>1. CASE NewMakefile
  BY <1>1, ErrorTypes DEF NewMakefile
<1>2. CASE NotRun
  BY <1>2, ErrorTypes DEF NotRun
<1>3. CASE Begin
  BY <1>3 DEF Begin
<1>4. CASE SelectSignal
  BY <1>4 DEF SelectSignal, Cancel
<1>5. CASE LookAfterSignal
  BY <1>5, ErrorTypes DEF LookAfterSignal, Signal
<1>6. CASE SelectContext
  BY <1>6, ErrorTypes DEF SelectContext
<1>7. CASE SelectResult
  BY <1>7 DEF SelectResult
<1>8. CASE Drained
  BY <1>8, ErrorTypes DEF Drained
<1>9. CASE AwaitResult
  BY <1>9 DEF AwaitResult
<1>10. CASE AwaitClose
  BY <1>10 DEF AwaitClose
<1>11. CASE AwaitSignal
  BY <1>11 DEF AwaitSignal
<1>12. CASE AwaitTimer
  BY <1>12 DEF AwaitTimer
<1>13. CASE Return
  <2>1. /\ ctx' \in {"live", "timeout", "canceled"} /\ main' \in MainAt
        /\ notified' \in BOOLEAN
    BY <1>13 DEF Return, Cancel
  <2>2. QED
    BY <1>13, <2>1 DEF Return
<1>14. CASE FinishPlain
  BY <1>14, CodeTypes DEF FinishPlain
<1>15. CASE Reraise
  BY <1>15, CodeTypes DEF Reraise
<1>16. CASE DieBySignal
  BY <1>16, CodeTypes DEF DieBySignal
<1>17. CASE ReraiseRunsOut
  BY <1>17, CodeTypes DEF ReraiseRunsOut
<1>18. CASE Getwd
  BY <1>18, ErrorTypes DEF Getwd
<1>19. CASE Chdir
  BY <1>19, ErrorTypes DEF Chdir
<1>20. CASE Unwind
  BY <1>20, ErrorTypes DEF Unwind
<1>21. CASE Close
  BY <1>21 DEF Close
<1>22. CASE TargetMoves
  BY <1>22 DEF TargetMoves
<1>23. CASE TargetEnds
  BY <1>23, ErrorTypes DEF TargetEnds, TargetResults
<1>24. CASE Deadline
  BY <1>24 DEF Deadline
<1>25. CASE GraceElapses
  BY <1>25 DEF GraceElapses
<1>26. CASE SignalArrives
  BY <1>26, CodeTypes, MaxSignalsAssumption DEF SignalArrives
<1>27. CASE UNCHANGED vars
  BY <1>27 DEF vars
<1>28. QED
  BY <1>1, <1>2, <1>3, <1>4, <1>5, <1>6, <1>7, <1>8, <1>9, <1>10, <1>11,
     <1>12, <1>13, <1>14, <1>15, <1>16, <1>17, <1>18, <1>19, <1>20, <1>21,
     <1>22, <1>23, <1>24, <1>25, <1>26, <1>27
     DEF Next, Ended, Runner, Routine, Environment

-----------------------------------------------------------------------------
(* The invariant.                                                          *)

LEMMA InitInv == Init => Inv
BY InitType, ErrorTags
   DEF Init, Inv, Places, Results, Context, Signal, Origins, Directory, Success,
       Ending, Alive, AbandonsOnlyWhenAllowed

LEMMA StepInv == Inv /\ [Next]_vars => Inv'
<1> SUFFICES ASSUME Inv, [Next]_vars PROVE Inv'
  OBVIOUS
<1> USE DEF Places, Results, Context, Signal, Origins, Directory, Success, Ending,
            AbandonsOnlyWhenAllowed,
            runner, routine, channel, signal, process, RunnerAt, TargetAt, Alive
<1>t. TypeOK'
  BY StepType DEF Inv
<1>1. CASE NewMakefile
  BY <1>t, <1>1, ErrorTags DEF Inv, TypeOK, NewMakefile, Nil
<1>2. CASE NotRun
  BY <1>t, <1>2, ErrorTags DEF Inv, TypeOK, NotRun
<1>3. CASE Begin
  BY <1>t, <1>3 DEF Inv, TypeOK, Begin
<1>4. CASE SelectSignal
  BY <1>t, <1>4 DEF Inv, TypeOK, SelectSignal, Cancel, Signals
<1>5. CASE LookAfterSignal
  BY <1>t, <1>5, ErrorTags DEF Inv, TypeOK, LookAfterSignal
<1>6. CASE SelectContext
  BY <1>t, <1>6, ErrorTags, ErrorTypes, WrapTags
     DEF Inv, TypeOK, SelectContext, Nil
<1>7. CASE SelectResult
  BY <1>t, <1>7 DEF Inv, TypeOK, SelectResult
<1>8. CASE Drained
  BY <1>t, <1>8, ErrorTags, WrapTags DEF Inv, TypeOK, Drained
<1>9. CASE AwaitResult
  BY <1>t, <1>9 DEF Inv, TypeOK, AwaitResult
<1>10. CASE AwaitClose
  BY <1>t, <1>10, ErrorTags DEF Inv, TypeOK, AwaitClose
<1>11. CASE AwaitSignal
  BY <1>t, <1>11, ErrorTags DEF Inv, TypeOK, AwaitSignal
<1>12. CASE AwaitTimer
  BY <1>t, <1>12, ErrorTags DEF Inv, TypeOK, AwaitTimer
<1>13. CASE Return
  BY <1>t, <1>13 DEF Inv, TypeOK, Return, Cancel
<1>14. CASE FinishPlain
  BY <1>t, <1>14 DEF Inv, TypeOK, FinishPlain, Exit
<1>15. CASE Reraise
  BY <1>t, <1>15, ErrorTags DEF Inv, TypeOK, Reraise, Exit
<1>16. CASE DieBySignal
  BY <1>t, <1>16 DEF Inv, TypeOK, DieBySignal
<1>17. CASE ReraiseRunsOut
  BY <1>t, <1>17 DEF Inv, TypeOK, ReraiseRunsOut, Exit
<1>18. CASE Getwd
  BY <1>t, <1>18, ErrorTags DEF Inv, TypeOK, Getwd
<1>19. CASE Chdir
  BY <1>t, <1>19, ErrorTags DEF Inv, TypeOK, Chdir
<1>20. CASE Unwind
  BY <1>t, <1>20, ErrorTags, WrapTags DEF Inv, TypeOK, Unwind
<1>21. CASE Close
  BY <1>t, <1>21 DEF Inv, TypeOK, Close
<1>22. CASE TargetMoves
  BY <1>t, <1>22 DEF Inv, TypeOK, TargetMoves
<1>23. CASE TargetEnds
  BY <1>t, <1>23, ErrorTags DEF Inv, TypeOK, TargetEnds, TargetResults
<1>24. CASE Deadline
  BY <1>t, <1>24 DEF Inv, TypeOK, Deadline
<1>25. CASE GraceElapses
  BY <1>t, <1>25 DEF Inv, TypeOK, GraceElapses
<1>26. CASE SignalArrives
  BY <1>t, <1>26 DEF Inv, TypeOK, SignalArrives
<1>27. CASE UNCHANGED vars
  BY <1>t, <1>27 DEF Inv, vars
<1>28. QED
  BY <1>1, <1>2, <1>3, <1>4, <1>5, <1>6, <1>7, <1>8, <1>9, <1>10, <1>11,
     <1>12, <1>13, <1>14, <1>15, <1>16, <1>17, <1>18, <1>19, <1>20, <1>21,
     <1>22, <1>23, <1>24, <1>25, <1>26, <1>27
     DEF Next, Ended, Runner, Routine, Environment

(* Every reachable state satisfies the invariant.                          *)
THEOREM Invariance == Spec => []Inv
<1>1. Init => Inv
  BY InitInv
<1>2. Inv /\ [Next]_vars => Inv'
  BY StepInv
<1>3. QED
  BY <1>1, <1>2, PTL DEF Spec

-----------------------------------------------------------------------------
(* The properties.                                                         *)

(* Every variable of a run keeps its type (runTarget, Execute).            *)
THEOREM TypeCorrect == Spec => []TypeOK
<1>1. Inv => TypeOK
  BY DEF Inv
<1>2. QED
  BY <1>1, Invariance, PTL

(* A zero exit means a target that returned nil and a directory that was   *)
(* restored, or no target at all (runTarget's result paths, run).          *)
THEOREM SuccessMeansDone == Spec => []SuccessIsReal
<1>1. ASSUME Inv, fate = "exited", code = 0
      PROVE  tgt = "off" \/ (tgt = "closed" /\ tres = Nil /\ cwd = home)
  <2>1. err = Nil
    BY <1>1, ExitCodes DEF Inv, TypeOK, Ending
  <2>2. main = "returned"
    BY <1>1, <2>1, ErrorTags DEF Inv, Ending
  <2>3. CASE tgt = "off"
    BY <2>3
  <2>4. CASE tgt = "closed" /\ tres = Nil
    <3>1. ~Is(tres, "restore")
      BY <2>4 DEF Is, Nil
    <3>2. QED
      BY <1>1, <2>4, <3>1 DEF Inv, Directory
  <2>5. QED
    BY <1>1, <2>1, <2>2, <2>3, <2>4 DEF Inv, Success
<1>2. Inv => SuccessIsReal
  BY <1>1 DEF SuccessIsReal
<1>3. QED
  BY <1>2, Invariance, PTL

(* Code 125 is never the target's own deadline (timedOut, ExitCode).       *)
THEOREM DeadlineCode == Spec => []DeadlineCodeIsOurs
<1>1. Inv => DeadlineCodeIsOurs
  BY ExitCodes DEF Inv, TypeOK, Ending, Origins, Context, DeadlineCodeIsOurs
<1>2. QED
  BY <1>1, Invariance, PTL

(* A running target is abandoned only at the deadline, after a second      *)
(* signal or at the end of its grace time (runTarget, awaitDone).          *)
THEOREM Abandonment == Spec => []AbandonsOnlyWhenAllowed
<1>1. Inv => AbandonsOnlyWhenAllowed
  BY DEF Inv
<1>2. QED
  BY <1>1, Invariance, PTL

(* The report that a target is over follows the restore of the working     *)
(* directory, or says that there was none (the deferred function).         *)
THEOREM Restore == Spec => []CwdRestoredOrReported
<1>1. Inv => CwdRestoredOrReported
  BY DEF Inv, Directory, CwdRestoredOrReported
<1>2. QED
  BY <1>1, Invariance, PTL

(* An interrupted run exits by itself only when the signal cannot end it,  *)
(* and then with 128+n (Reraise, interruptedError.ExitCode).               *)
THEOREM InterruptEnds == Spec => []InterruptDiesBySignal
<1>1. ASSUME Inv, fate = "exited", SignalOf(err) # {}
      PROVE  /\ raised = "failed" \/ (raised = "sent" /\ got \in ignored)
             /\ code = 128 + SigNum(got)
  <2>1. got \in Signals /\ err = Interrupted(got)
    BY <1>1 DEF Inv, TypeOK, Origins
  <2>2. code = 128 + SigNum(got)
    BY <1>1, <2>1, ExitCodes DEF Inv, Ending
  <2>3. QED
    BY <1>1, <2>2 DEF Inv, TypeOK, Ending
<1>2. Inv => InterruptDiesBySignal
  BY <1>1 DEF InterruptDiesBySignal
<1>3. QED
  BY <1>2, Invariance, PTL

-----------------------------------------------------------------------------
(* The run keeps its promise.                                              *)

LEMMA InitPromise == Init => Promise!Init
BY DEF Init, Promise!Init

(* Both specifications speak of the same errors.                           *)
LEMMA PromiseErrors ==
  /\ Promise!Error = Error /\ Promise!NotRunError = NotRunError
  /\ Promise!TimeoutError = TimeoutError /\ Promise!Signals = Signals
  /\ \A e, t : Promise!Is(e, t) = Is(e, t)
  /\ \A e, t : Promise!Wrap(e, t) = Wrap(e, t)
  /\ \A z : Promise!Interrupted(z) = Interrupted(z)
BY DEF Promise!Error, Promise!Tags, Promise!Signals, Promise!NotRunError,
       Promise!TimeoutError, Promise!Nil, Promise!Is, Promise!Wrap,
       Promise!Interrupted, Error, Tags, Signals, NotRunError, TimeoutError,
       Nil, Is, Wrap, Interrupted

LEMMA StepPromise == Inv /\ [Next]_vars => [Promise!Next]_Promise!vars
<1> SUFFICES ASSUME Inv, [Next]_vars PROVE [Promise!Next]_Promise!vars
  OBVIOUS
<1> DEFINE result  == IF tgt \in {"closing", "closed"} THEN {tres} ELSE {}
           signals == {got} \ {"none"}
           answer  == IF main \in {"grace", "decided", "returned", "reraise"}
                      THEN {err} ELSE {}
<1> USE DEF Inv, runner, routine, channel, signal, process, RunnerAt, TargetAt,
            Promise!vars
<1>1. CASE NewMakefile
  <2>1. CASE armed' \in BOOLEAN /\ main' = "begin" /\ err' = err
    BY <1>1, <2>1 DEF NewMakefile
  <2>2. CASE main' = "returned" /\ err' = {"err"} /\ armed' = armed
    <3>1. result = {} /\ signals = {} /\ ctx # "timeout" /\ answer = {}
      BY <1>1 DEF NewMakefile, Places, Context, Signal
    <3>2. answer' = {{"err"}} /\ {"err"} \in NotRunError
      BY <2>2 DEF NotRunError
    <3>3. UNCHANGED <<result, ctx, signals>>
      BY <1>1 DEF NewMakefile
    <3>4. QED
      BY <3>1, <3>2, <3>3, PromiseErrors
         DEF Promise!Next, Promise!Answer, Promise!AnswerNotRun
  <2>3. QED
    BY <1>1, <2>1, <2>2 DEF NewMakefile
<1>2. CASE NotRun
  <2>1. result = {} /\ signals = {} /\ ctx # "timeout" /\ answer = {}
    BY <1>2 DEF NotRun, Places, Context, Signal
  <2>2. answer' = {err'} /\ err' \in NotRunError
    BY <1>2 DEF NotRun
  <2>3. UNCHANGED <<result, ctx, signals>>
    BY <1>2 DEF NotRun
  <2>4. QED
    BY <2>1, <2>2, <2>3, PromiseErrors
       DEF Promise!Next, Promise!Answer, Promise!AnswerNotRun
<1>3. CASE Begin
  BY <1>3 DEF Begin, Places
<1>4. CASE SelectSignal
  <2>1. PICK s \in Signals : got' = s
    BY <1>4 DEF SelectSignal, TypeOK
  <2>2. signals' = signals \cup {s}
    BY <1>4, <2>1 DEF SelectSignal, Signal, Signals
  <2>3. (ctx = "timeout")' <=> ctx = "timeout"
    BY <1>4 DEF SelectSignal, Cancel
  <2>4. answer' = answer /\ result' = result
    BY <1>4 DEF SelectSignal
  <2>5. QED
    BY <2>2, <2>3, <2>4, PromiseErrors DEF Promise!Next, Promise!Receive
<1>5. CASE LookAfterSignal
  <2>1. CASE done # {}
    BY <1>5, <2>1 DEF LookAfterSignal
  <2>2. CASE done = {}
    <3>1. result = {} /\ answer = {}
      BY <1>5, <2>2 DEF LookAfterSignal, Results
    <3>2. answer' = {Interrupted(got)} /\ got \in signals
      BY <1>5, <2>2 DEF LookAfterSignal, Signal
    <3>3. UNCHANGED <<result, ctx, signals>>
      BY <1>5 DEF LookAfterSignal
    <3>4. QED
      BY <3>1, <3>2, <3>3, PromiseErrors
         DEF Promise!Next, Promise!Answer, Promise!AnswerSignal
  <2>3. QED
    BY <2>1, <2>2
<1>6. CASE SelectContext
  <2>1. CASE done # {}
    BY <1>6, <2>1 DEF SelectContext
  <2>2. CASE done = {}
    <3>1. result = {} /\ answer = {} /\ ctx = "timeout"
      BY <1>6, <2>2 DEF SelectContext, Results, Context, TypeOK
    <3>2. TimedOut({"err", "deadline"}) = TimeoutError
      BY <3>1 DEF TimedOut, Is, Wrap, TimeoutError
    <3>3. answer' = {TimeoutError}
      BY <1>6, <2>2, <3>2 DEF SelectContext
    <3>4. UNCHANGED <<result, ctx, signals>>
      BY <1>6 DEF SelectContext
    <3>5. QED
      BY <3>1, <3>3, <3>4, PromiseErrors
         DEF Promise!Next, Promise!Answer, Promise!AnswerTimeout
  <2>3. QED
    BY <2>1, <2>2
<1>7. CASE SelectResult
  BY <1>7 DEF SelectResult
<1>8. CASE Drained
  <2>1. result = {tres} /\ err = tres /\ answer = {}
    BY <1>8 DEF Drained, Places, Results
  <2>2. answer' = {err'}
    BY <1>8 DEF Drained
  <2>3. UNCHANGED <<result, ctx, signals>>
    BY <1>8 DEF Drained
  <2>4. \/ err' = tres
        \/ ctx = "timeout" /\ Is(tres, "deadline")
              /\ err' = Wrap(tres, "errTimeout")
        \/ Is(tres, "canceled") /\ got \in signals /\ err' = Interrupted(got)
    BY <1>8, <2>1 DEF Drained, TimedOut
  <2>5. QED
    BY <2>1, <2>2, <2>3, <2>4, PromiseErrors
       DEF Promise!Next, Promise!Answer, Promise!AnswerResult, Promise!AnswerSignal
<1>9. CASE AwaitResult
  BY <1>9 DEF AwaitResult
<1>10. CASE AwaitClose
  BY <1>10 DEF AwaitClose
<1>11. CASE AwaitSignal
  BY <1>11 DEF AwaitSignal
<1>12. CASE AwaitTimer
  BY <1>12 DEF AwaitTimer
<1>13. CASE Return
  BY <1>13 DEF Return, Cancel
<1>14. CASE FinishPlain
  BY <1>14 DEF FinishPlain, Exit
<1>15. CASE Reraise
  BY <1>15 DEF Reraise, Exit
<1>16. CASE DieBySignal
  BY <1>16 DEF DieBySignal
<1>17. CASE ReraiseRunsOut
  BY <1>17 DEF ReraiseRunsOut, Exit
<1>18. CASE Getwd
  <2>1. CASE tgt' = "chdir"
    BY <1>18, <2>1 DEF Getwd
  <2>2. CASE tgt' = "closing"
    <3>1. result = {} /\ result' = {tres'} /\ tres' \in Error
      BY <1>18, <2>2, ErrorTypes DEF Getwd
    <3>2. UNCHANGED <<ctx, signals, answer>>
      BY <1>18 DEF Getwd
    <3>3. QED
      BY <3>1, <3>2, PromiseErrors DEF Promise!Next, Promise!Finish
  <2>3. QED
    BY <1>18, <2>1, <2>2 DEF Getwd
<1>19. CASE Chdir
  BY <1>19 DEF Chdir
<1>20. CASE Unwind
  <2>1. result = {} /\ result' = {tres'} /\ tres' \in Error
    BY <1>20, ErrorTypes DEF Unwind, TypeOK
  <2>2. UNCHANGED <<ctx, signals, answer>>
    BY <1>20 DEF Unwind
  <2>3. QED
    BY <2>1, <2>2, PromiseErrors DEF Promise!Next, Promise!Finish
<1>21. CASE Close
  BY <1>21 DEF Close
<1>22. CASE TargetMoves
  BY <1>22 DEF TargetMoves
<1>23. CASE TargetEnds
  BY <1>23 DEF TargetEnds
<1>24. CASE Deadline
  BY <1>24 DEF Deadline, Promise!Next, Promise!DeadlineHits
<1>25. CASE GraceElapses
  BY <1>25 DEF GraceElapses
<1>26. CASE SignalArrives
  BY <1>26 DEF SignalArrives
<1>27. CASE UNCHANGED vars
  BY <1>27 DEF vars
<1>28. QED
  BY <1>1, <1>2, <1>3, <1>4, <1>5, <1>6, <1>7, <1>8, <1>9, <1>10, <1>11,
     <1>12, <1>13, <1>14, <1>15, <1>16, <1>17, <1>18, <1>19, <1>20, <1>21,
     <1>22, <1>23, <1>24, <1>25, <1>26, <1>27
     DEF Next, Ended, Runner, Routine, Environment

(* Every run is a run of RunPromise: it answers once, with the target's    *)
(* result, the deadline or a signal, and neither masks a result that was   *)
(* there (runTarget's select).                                             *)
THEOREM Refinement == Spec => RunKeepsPromise
<1>1. Init => Promise!Init
  BY InitPromise
<1>2. Inv /\ [Next]_vars => [Promise!Next]_Promise!vars
  BY StepPromise
<1>3. QED
  BY <1>1, <1>2, Invariance, PTL DEF Spec, RunKeepsPromise, Promise!Spec
=============================================================================
