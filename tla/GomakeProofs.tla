---------------------------- MODULE GomakeProofs ----------------------------
(***************************************************************************)
(* The safety of one gomake process, proved for any number of signals.     *)
(* The invariant says what Main's place in the pipeline tells about the    *)
(* watch, the build directory and the code it is about to return.  While   *)
(* Main waits for the progress goroutine its place is where it will go on. *)
(***************************************************************************)
EXTENDS Gomake, TLAPS

Where == IF pc = "join" THEN back ELSE pc

Front    == {"start", "list", "prerun", "analyze", "generate", "inproc",
             "inprocDone", "reraise", "ready"}
Building == {"config", "execute", "compile", "launch", "wait", "return"}
Ending   == {"return", "remove", "exit"}

(* The watch is there for the steps between Watch and Return, which alone  *)
(* see a child, and stop is called after them.                             *)
Places ==
  /\ Where \in Front => watch = "off"
  /\ Where \in Building => watch # "off"
  /\ closed => pc \in {"remove", "exit"}
  /\ Where = "list" => mode = "print"
  /\ child = "running" => pc = "wait"

(* A signal goes to the watch, which has not looked at one yet or is about *)
(* to remove the directory.                                                *)
Watched == Where \in Building /\ notified /\ watch \in {"waiting", "removing"}

Directory ==
  /\ dir = "present" => lost \/ Unwatched \/ Watched
  /\ watch \in {"raising", "raised"} => dir # "present"

(* Main is about to return 0 only for work that was done.                  *)
Real ==
  \/ mode = "print"
  \/ mode = "bin" /\ built
  \/ outcome = Nil
  \/ child = "ended" /\ status = 0

Codes == Where \in Ending /\ code = 0 => Real

(* The message goroutine is there only while withProgress is.              *)
Messages == prog # "off" => pc \in Slow \cup {"join"}

Inv ==
  /\ TypeOK /\ Places /\ Directory /\ Codes /\ Messages
  /\ BuildDirRemoved /\ SuccessIsReal /\ OrphanOnlyBySignal

-----------------------------------------------------------------------------
(* Facts about errors and exit codes.                                      *)

(* An exit status is a byte, and not zero for an error.                    *)
LEMMA ExitCodes ==
  ASSUME NEW e \in Error
  PROVE  ExitCode(e) \in 0..255 /\ (ExitCode(e) = 0 <=> e = Nil)
BY DEF ExitCode, SigNum, Is, Nil

(* 128 plus the number of a signal is a failure and fits a byte.           *)
LEMMA SignalCodes == \A s : 128 + SigNum(s) \in 1..255
BY DEF SigNum

(* The outcomes of the steps are errors, or none.                          *)
LEMMA Outcomes ==
  /\ {"err"} \in Error /\ Nil \in Error
  /\ {"err", "pick"} \in Error /\ TimeoutError \in Error
  /\ \A s \in Signals : Interrupted(s) \in Error
BY DEF Error, Tags, Nil, TimeoutError, Interrupted

(* A message goroutine starts with a slow action, and Main awaits it.      *)
LEMMA StepMessages == Messages /\ [Next]_vars => Messages'
<1> SUFFICES ASSUME Messages, [Next]_vars
             PROVE  Messages'
  OBVIOUS
<1> USE DEF Messages, Slow, watcher, inproc, kid, progress, history, At, Alive
<1>1. CASE Start
  BY <1>1 DEF Start, Leave, Stay, Slowly
<1>2. CASE List
  BY <1>2 DEF List, Done
<1>3. CASE PreRuns
  BY <1>3 DEF PreRuns, Leave
<1>4. CASE Analyze
  BY <1>4 DEF Analyze, Stay, Done
<1>5. CASE Generate
  BY <1>5 DEF Generate, Done
<1>6. CASE Watch
  BY <1>6 DEF Watch, Stay, Slowly, LeaveBuild
<1>7. CASE Join
  BY <1>7 DEF Join
<1>8. CASE InprocDone
  BY <1>8 DEF InprocDone, Leave
<1>9. CASE Reraise
  BY <1>9 DEF Reraise, Leave
<1>10. CASE Config
  BY <1>10 DEF Config, LeaveBuild
<1>11. CASE Lookup
  BY <1>11 DEF Lookup, Stay, Slowly
<1>12. CASE Compile
  BY <1>12 DEF Compile, Done
<1>13. CASE Launch
  BY <1>13 DEF Launch, LeaveBuild
<1>14. CASE Wait
  BY <1>14 DEF Wait, LeaveBuild
<1>15. CASE Return
  BY <1>15 DEF Return
<1>16. CASE Remove
  BY <1>16 DEF Remove
<1>17. CASE Exit
  BY <1>17 DEF Exit
<1>18. CASE Panic
  BY <1>18 DEF Panic, Leave, LeaveBuild, Done
<1>19. CASE ProgressDone
  BY <1>19 DEF ProgressDone
<1>20. CASE ProgressTimer
  BY <1>20 DEF ProgressTimer
<1>21. CASE ProgressWritten
  BY <1>21 DEF ProgressWritten
<1>22. CASE WatchTake
  BY <1>22 DEF WatchTake, WatchAt
<1>23. CASE WatchDone
  BY <1>23 DEF WatchDone, WatchAt
<1>24. CASE WatchRemove
  BY <1>24 DEF WatchRemove, WatchAt
<1>25. CASE WatchRaise
  BY <1>25 DEF WatchRaise, WatchAt
<1>26. CASE WatchKill
  BY <1>26 DEF WatchKill, WatchAt
<1>27. CASE InprocEnds
  BY <1>27 DEF InprocEnds
<1>28. CASE ChildEnds
  BY <1>28 DEF ChildEnds
<1>29. CASE Signal
  BY <1>29 DEF Signal, Deliver
<1>30. CASE UNCHANGED vars
  BY <1>30 DEF vars
<1>31. QED
  BY <1>1, <1>2, <1>3, <1>4, <1>5, <1>6, <1>7, <1>8, <1>9, <1>10, <1>11,
     <1>12, <1>13, <1>14, <1>15, <1>16, <1>17, <1>18, <1>19, <1>20, <1>21,
     <1>22, <1>23, <1>24, <1>25, <1>26, <1>27, <1>28, <1>29, <1>30
     DEF Next, Main, Progress, Watcher, Ended

-----------------------------------------------------------------------------
(* Main never returns to the steps before the watch.                       *)
LEMMA StepPlaces == Places /\ [Next]_vars => Places'
<1> SUFFICES ASSUME Places, [Next]_vars
             PROVE  Places'
  OBVIOUS
<1> USE DEF Places, Where, Front, Building, watcher, inproc, kid, progress,
            history, At, Alive
<1>1. CASE Start
  BY <1>1 DEF Start, Leave, Stay, Slowly
<1>2. CASE List
  BY <1>2 DEF List, Done
<1>3. CASE PreRuns
  BY <1>3 DEF PreRuns, Leave
<1>4. CASE Analyze
  BY <1>4 DEF Analyze, Stay, Done
<1>5. CASE Generate
  BY <1>5 DEF Generate, Done
<1>6. CASE Watch
  BY <1>6 DEF Watch, Stay, Slowly, LeaveBuild
<1>7. CASE Join
  BY <1>7 DEF Join
<1>8. CASE InprocDone
  BY <1>8 DEF InprocDone, Leave
<1>9. CASE Reraise
  BY <1>9 DEF Reraise, Leave
<1>10. CASE Config
  BY <1>10 DEF Config, LeaveBuild
<1>11. CASE Lookup
  BY <1>11 DEF Lookup, Stay, Slowly
<1>12. CASE Compile
  BY <1>12 DEF Compile, Done
<1>13. CASE Launch
  BY <1>13 DEF Launch, LeaveBuild
<1>14. CASE Wait
  BY <1>14 DEF Wait, LeaveBuild
<1>15. CASE Return
  BY <1>15 DEF Return
<1>16. CASE Remove
  BY <1>16 DEF Remove
<1>17. CASE Exit
  BY <1>17 DEF Exit
<1>18. CASE Panic
  BY <1>18 DEF Panic, Leave, LeaveBuild, Done
<1>19. CASE ProgressDone
  BY <1>19 DEF ProgressDone
<1>20. CASE ProgressTimer
  BY <1>20 DEF ProgressTimer
<1>21. CASE ProgressWritten
  BY <1>21 DEF ProgressWritten
<1>22. CASE WatchTake
  BY <1>22 DEF WatchTake, WatchAt
<1>23. CASE WatchDone
  BY <1>23 DEF WatchDone, WatchAt
<1>24. CASE WatchRemove
  BY <1>24 DEF WatchRemove, WatchAt
<1>25. CASE WatchRaise
  BY <1>25 DEF WatchRaise, WatchAt
<1>26. CASE WatchKill
  BY <1>26 DEF WatchKill, WatchAt
<1>27. CASE InprocEnds
  BY <1>27 DEF InprocEnds
<1>28. CASE ChildEnds
  BY <1>28 DEF ChildEnds
<1>29. CASE Signal
  BY <1>29 DEF Signal, Deliver
<1>30. CASE UNCHANGED vars
  BY <1>30 DEF vars
<1>31. QED
  BY <1>1, <1>2, <1>3, <1>4, <1>5, <1>6, <1>7, <1>8, <1>9, <1>10, <1>11,
     <1>12, <1>13, <1>14, <1>15, <1>16, <1>17, <1>18, <1>19, <1>20, <1>21,
     <1>22, <1>23, <1>24, <1>25, <1>26, <1>27, <1>28, <1>29, <1>30
     DEF Next, Main, Progress, Watcher, Ended

(* Only Analyze creates the directory, and then every way to lose the watch*)
(* before Remove goes through WatchRemove.                                 *)
LEMMA StepDirectory == Places /\ Directory /\ [Next]_vars => Directory'
<1> SUFFICES ASSUME Places, Directory, [Next]_vars
             PROVE  Directory'
  OBVIOUS
<1> USE DEF Directory, Watched, Unwatched, Places, Where, Front, Building,
            watcher, inproc, kid, progress, history, At, Alive
<1>1. CASE Start
  BY <1>1 DEF Start, Leave, Stay, Slowly
<1>2. CASE List
  BY <1>2 DEF List, Done
<1>3. CASE PreRuns
  BY <1>3 DEF PreRuns, Leave
<1>4. CASE Analyze
  BY <1>4 DEF Analyze, Stay, Done
<1>5. CASE Generate
  BY <1>5 DEF Generate, Done
<1>6. CASE Watch
  BY <1>6 DEF Watch, Stay, Slowly, LeaveBuild
<1>7. CASE Join
  BY <1>7 DEF Join
<1>8. CASE InprocDone
  BY <1>8 DEF InprocDone, Leave
<1>9. CASE Reraise
  BY <1>9 DEF Reraise, Leave
<1>10. CASE Config
  BY <1>10 DEF Config, LeaveBuild
<1>11. CASE Lookup
  BY <1>11 DEF Lookup, Stay, Slowly
<1>12. CASE Compile
  BY <1>12 DEF Compile, Done
<1>13. CASE Launch
  BY <1>13 DEF Launch, LeaveBuild
<1>14. CASE Wait
  BY <1>14 DEF Wait, LeaveBuild
<1>15. CASE Return
  BY <1>15 DEF Return
<1>16. CASE Remove
  BY <1>16 DEF Remove
<1>17. CASE Exit
  BY <1>17 DEF Exit
<1>18. CASE Panic
  BY <1>18 DEF Panic, Leave, LeaveBuild, Done
<1>19. CASE ProgressDone
  BY <1>19 DEF ProgressDone
<1>20. CASE ProgressTimer
  BY <1>20 DEF ProgressTimer
<1>21. CASE ProgressWritten
  BY <1>21 DEF ProgressWritten
<1>22. CASE WatchTake
  BY <1>22 DEF WatchTake, WatchAt
<1>23. CASE WatchDone
  BY <1>23 DEF WatchDone, WatchAt
<1>24. CASE WatchRemove
  BY <1>24 DEF WatchRemove, WatchAt
<1>25. CASE WatchRaise
  BY <1>25 DEF WatchRaise, WatchAt
<1>26. CASE WatchKill
  BY <1>26 DEF WatchKill, WatchAt
<1>27. CASE InprocEnds
  BY <1>27 DEF InprocEnds
<1>28. CASE ChildEnds
  BY <1>28 DEF ChildEnds
<1>29. CASE Signal
  BY <1>29 DEF Signal, Deliver
<1>30. CASE UNCHANGED vars
  BY <1>30 DEF vars
<1>31. QED
  BY <1>1, <1>2, <1>3, <1>4, <1>5, <1>6, <1>7, <1>8, <1>9, <1>10, <1>11,
     <1>12, <1>13, <1>14, <1>15, <1>16, <1>17, <1>18, <1>19, <1>20, <1>21,
     <1>22, <1>23, <1>24, <1>25, <1>26, <1>27, <1>28, <1>29, <1>30
     DEF Next, Main, Progress, Watcher, Ended

(* Every return of 0 has its reason.                                       *)
LEMMA StepCodes == TypeOK /\ Places /\ Codes /\ [Next]_vars => Codes'
<1> SUFFICES ASSUME TypeOK, Places, Codes, [Next]_vars
             PROVE  Codes'
  OBVIOUS
<1> USE DEF Codes, Real, Ending, Places, Where, Front, Building, watcher,
            inproc, kid, progress, history, At, Alive
<1>1. CASE Start
  BY <1>1 DEF Start, Leave, Stay, Slowly
<1>2. CASE List
  BY <1>2 DEF List, Done
<1>3. CASE PreRuns
  BY <1>3 DEF PreRuns, Leave
<1>4. CASE Analyze
  BY <1>4 DEF Analyze, Stay, Done
<1>5. CASE Generate
  BY <1>5 DEF Generate, Done
<1>6. CASE Watch
  BY <1>6 DEF Watch, Stay, Slowly, LeaveBuild
<1>7. CASE Join
  BY <1>7 DEF Join
<1>8. CASE InprocDone
  BY <1>8, ExitCodes DEF InprocDone, Leave, TypeOK
<1>9. CASE Reraise
  BY <1>9, ExitCodes DEF Reraise, Leave, TypeOK
<1>10. CASE Config
  BY <1>10 DEF Config, LeaveBuild
<1>11. CASE Lookup
  BY <1>11 DEF Lookup, Stay, Slowly
<1>12. CASE Compile
  BY <1>12 DEF Compile, Done
<1>13. CASE Launch
  BY <1>13 DEF Launch, LeaveBuild
<1>14. CASE Wait
  BY <1>14 DEF Wait, LeaveBuild
<1>15. CASE Return
  BY <1>15 DEF Return
<1>16. CASE Remove
  BY <1>16 DEF Remove
<1>17. CASE Exit
  BY <1>17 DEF Exit
<1>18. CASE Panic
  BY <1>18 DEF Panic, Leave, LeaveBuild, Done
<1>19. CASE ProgressDone
  BY <1>19 DEF ProgressDone
<1>20. CASE ProgressTimer
  BY <1>20 DEF ProgressTimer
<1>21. CASE ProgressWritten
  BY <1>21 DEF ProgressWritten
<1>22. CASE WatchTake
  BY <1>22 DEF WatchTake, WatchAt
<1>23. CASE WatchDone
  BY <1>23 DEF WatchDone, WatchAt
<1>24. CASE WatchRemove
  BY <1>24 DEF WatchRemove, WatchAt
<1>25. CASE WatchRaise
  BY <1>25 DEF WatchRaise, WatchAt
<1>26. CASE WatchKill
  BY <1>26, SignalCodes DEF WatchKill, WatchAt
<1>27. CASE InprocEnds
  BY <1>27 DEF InprocEnds
<1>28. CASE ChildEnds
  BY <1>28 DEF ChildEnds
<1>29. CASE Signal
  BY <1>29, SignalCodes DEF Signal, Deliver
<1>30. CASE UNCHANGED vars
  BY <1>30 DEF vars
<1>31. QED
  BY <1>1, <1>2, <1>3, <1>4, <1>5, <1>6, <1>7, <1>8, <1>9, <1>10, <1>11,
     <1>12, <1>13, <1>14, <1>15, <1>16, <1>17, <1>18, <1>19, <1>20, <1>21,
     <1>22, <1>23, <1>24, <1>25, <1>26, <1>27, <1>28, <1>29, <1>30
     DEF Next, Main, Progress, Watcher, Ended

-----------------------------------------------------------------------------
(* Type correctness.                                                       *)
LEMMA StepType == TypeOK /\ [Next]_vars => TypeOK'
<1> SUFFICES ASSUME TypeOK, [Next]_vars
             PROVE  TypeOK'
  OBVIOUS
<1> USE DEF TypeOK, PcAt, Slow, watcher, inproc, kid, progress, history,
            At, Alive
<1>1. CASE Start
  BY <1>1 DEF Start, Leave, Stay, Slowly
<1>2. CASE List
  BY <1>2 DEF List, Done
<1>3. CASE PreRuns
  BY <1>3 DEF PreRuns, Leave
<1>4. CASE Analyze
  BY <1>4 DEF Analyze, Stay, Done
<1>5. CASE Generate
  BY <1>5 DEF Generate, Done
<1>6. CASE Watch
  BY <1>6 DEF Watch, Stay, Slowly, LeaveBuild
<1>7. CASE Join
  BY <1>7 DEF Join
<1>8. CASE InprocDone
  BY <1>8, ExitCodes DEF InprocDone, Leave
<1>9. CASE Reraise
  BY <1>9, ExitCodes DEF Reraise, Leave
<1>10. CASE Config
  BY <1>10 DEF Config, LeaveBuild
<1>11. CASE Lookup
  BY <1>11 DEF Lookup, Stay, Slowly
<1>12. CASE Compile
  <2>1. built' \in BOOLEAN
    BY <1>12, Zenon DEF Compile
  <2>2. QED
    BY <1>12, <2>1 DEF Compile, Done
<1>13. CASE Launch
  BY <1>13 DEF Launch, LeaveBuild
<1>14. CASE Wait
  BY <1>14 DEF Wait, LeaveBuild
<1>15. CASE Return
  <2>1. notified' \in BOOLEAN /\ closed' \in BOOLEAN
    BY <1>15, Zenon DEF Return
  <2>2. QED
    BY <1>15, <2>1 DEF Return
<1>16. CASE Remove
  BY <1>16 DEF Remove
<1>17. CASE Exit
  BY <1>17 DEF Exit
<1>18. CASE Panic
  BY <1>18 DEF Panic, Leave, LeaveBuild, Done
<1>19. CASE ProgressDone
  BY <1>19 DEF ProgressDone
<1>20. CASE ProgressTimer
  BY <1>20 DEF ProgressTimer
<1>21. CASE ProgressWritten
  BY <1>21 DEF ProgressWritten
<1>22. CASE WatchTake
  BY <1>22 DEF WatchTake, WatchAt
<1>23. CASE WatchDone
  BY <1>23 DEF WatchDone, WatchAt
<1>24. CASE WatchRemove
  BY <1>24 DEF WatchRemove, WatchAt
<1>25. CASE WatchRaise
  <2>1. notified' \in BOOLEAN
    BY <1>25, Zenon DEF WatchRaise
  <2>2. QED
    BY <1>25, <2>1 DEF WatchRaise, WatchAt
<1>26. CASE WatchKill
  BY <1>26, SignalCodes DEF WatchKill, WatchAt
<1>27. CASE InprocEnds
  BY <1>27, Outcomes DEF InprocEnds
<1>28. CASE ChildEnds
  BY <1>28, SignalCodes DEF ChildEnds
<1>29. CASE Signal
  BY <1>29, SignalCodes, MaxSignalsAssumption DEF Signal, Deliver
<1>30. CASE UNCHANGED vars
  BY <1>30 DEF vars
<1>31. QED
  BY <1>1, <1>2, <1>3, <1>4, <1>5, <1>6, <1>7, <1>8, <1>9, <1>10, <1>11,
     <1>12, <1>13, <1>14, <1>15, <1>16, <1>17, <1>18, <1>19, <1>20, <1>21,
     <1>22, <1>23, <1>24, <1>25, <1>26, <1>27, <1>28, <1>29, <1>30
     DEF Next, Main, Progress, Watcher, Ended

-----------------------------------------------------------------------------
(* What a process leaves when it ends.                                     *)
LEMMA StepEnd ==
  Inv /\ [Next]_vars =>
    BuildDirRemoved' /\ SuccessIsReal' /\ OrphanOnlyBySignal'
<1> SUFFICES ASSUME Inv, [Next]_vars
             PROVE  BuildDirRemoved' /\ SuccessIsReal' /\ OrphanOnlyBySignal'
  OBVIOUS
<1> USE DEF Inv, Directory, Watched, Places, Codes, Real, Where, Front,
            Building, Ending, BuildDirRemoved, Unwatched, SuccessIsReal,
            OrphanOnlyBySignal, watcher, inproc, kid, progress, history,
            At, Alive
<1>1. CASE Start
  BY <1>1 DEF Start, Leave, Stay, Slowly
<1>2. CASE List
  BY <1>2 DEF List, Done
<1>3. CASE PreRuns
  BY <1>3 DEF PreRuns, Leave
<1>4. CASE Analyze
  BY <1>4 DEF Analyze, Stay, Done
<1>5. CASE Generate
  BY <1>5 DEF Generate, Done
<1>6. CASE Watch
  BY <1>6 DEF Watch, Stay, Slowly, LeaveBuild
<1>7. CASE Join
  BY <1>7 DEF Join
<1>8. CASE InprocDone
  BY <1>8 DEF InprocDone, Leave
<1>9. CASE Reraise
  BY <1>9 DEF Reraise, Leave
<1>10. CASE Config
  BY <1>10 DEF Config, LeaveBuild
<1>11. CASE Lookup
  BY <1>11 DEF Lookup, Stay, Slowly
<1>12. CASE Compile
  BY <1>12 DEF Compile, Done
<1>13. CASE Launch
  BY <1>13 DEF Launch, LeaveBuild
<1>14. CASE Wait
  BY <1>14 DEF Wait, LeaveBuild
<1>15. CASE Return
  BY <1>15 DEF Return
<1>16. CASE Remove
  BY <1>16 DEF Remove
<1>17. CASE Exit
  BY <1>17 DEF Exit
<1>18. CASE Panic
  BY <1>18 DEF Panic, Leave, LeaveBuild, Done
<1>19. CASE ProgressDone
  BY <1>19 DEF ProgressDone
<1>20. CASE ProgressTimer
  BY <1>20 DEF ProgressTimer
<1>21. CASE ProgressWritten
  BY <1>21 DEF ProgressWritten
<1>22. CASE WatchTake
  BY <1>22 DEF WatchTake, WatchAt
<1>23. CASE WatchDone
  BY <1>23 DEF WatchDone, WatchAt
<1>24. CASE WatchRemove
  BY <1>24 DEF WatchRemove, WatchAt
<1>25. CASE WatchRaise
  BY <1>25 DEF WatchRaise, WatchAt
<1>26. CASE WatchKill
  BY <1>26, SignalCodes DEF WatchKill, WatchAt
<1>27. CASE InprocEnds
  BY <1>27 DEF InprocEnds
<1>28. CASE ChildEnds
  BY <1>28 DEF ChildEnds
<1>29. CASE Signal
  BY <1>29, SignalCodes DEF Signal, Deliver
<1>30. CASE UNCHANGED vars
  BY <1>30 DEF vars
<1>31. QED
  BY <1>1, <1>2, <1>3, <1>4, <1>5, <1>6, <1>7, <1>8, <1>9, <1>10, <1>11,
     <1>12, <1>13, <1>14, <1>15, <1>16, <1>17, <1>18, <1>19, <1>20, <1>21,
     <1>22, <1>23, <1>24, <1>25, <1>26, <1>27, <1>28, <1>29, <1>30
     DEF Next, Main, Progress, Watcher, Ended

-----------------------------------------------------------------------------
(* The invariant.                                                          *)

(* gomake starts with nothing that the invariant speaks of.                *)
LEMMA InitInv == Init => Inv
<1> SUFFICES ASSUME Init PROVE Inv
  OBVIOUS
<1>1. TypeOK
  <2>1. /\ notified \in BOOLEAN /\ closed \in BOOLEAN
        /\ lost \in BOOLEAN /\ built \in BOOLEAN
    BY Zenon DEF Init
  <2>2. QED
    BY <2>1, Outcomes, MaxSignalsAssumption DEF Init, TypeOK, PcAt
<1>2. Places /\ Directory /\ Codes /\ Messages
  BY DEF Init, Places, Directory, Codes, Messages, Where, Front, Building,
         Ending
<1>3. BuildDirRemoved /\ SuccessIsReal /\ OrphanOnlyBySignal
  BY DEF Init, BuildDirRemoved, SuccessIsReal, OrphanOnlyBySignal, Alive
<1>4. QED
  BY <1>1, <1>2, <1>3 DEF Inv

(* The parts of the invariant are inductive together.                      *)
LEMMA StepInv == Inv /\ [Next]_vars => Inv'
BY StepType, StepPlaces, StepDirectory, StepCodes, StepMessages, StepEnd
   DEF Inv

(* Every reachable state satisfies the invariant.                          *)
THEOREM Invariance == Spec => []Inv
<1>1. Init => Inv
  BY InitInv
<1>2. Inv /\ [Next]_vars => Inv'
  BY StepInv
<1>3. QED
  BY <1>1, <1>2, PTL DEF Spec

-----------------------------------------------------------------------------
(* The properties.                                                         *)

(* Every variable keeps its type (Main, watchBuildDir, withProgress).      *)
THEOREM TypeCorrect == Spec => []TypeOK
<1>1. Inv => TypeOK
  BY DEF Inv
<1>2. QED
  BY <1>1, Invariance, PTL

(* The build directory stays behind only after a kill while no watch was   *)
(* in place, or after a panic in newGoMake; a signal that reached the      *)
(* watch never leaves it (watchBuildDir, Main's defers).                   *)
THEOREM DirectoryRemoved == Spec => []BuildDirRemoved
<1>1. Inv => BuildDirRemoved
  BY DEF Inv
<1>2. QED
  BY <1>1, Invariance, PTL

(* Exit code 0 is never the code of a failure, a panic or a signal (Main's *)
(* returns).                                                               *)
THEOREM SuccessMeansDone == Spec => []SuccessIsReal
<1>1. Inv => SuccessIsReal
  BY DEF Inv
<1>2. QED
  BY <1>1, Invariance, PTL

(* Main waits for its child; only the watch ends gomake before it          *)
(* (goMake.Execute, watchBuildDir).                                        *)
THEOREM ChildAwaited == Spec => []OrphanOnlyBySignal
<1>1. Inv => OrphanOnlyBySignal
  BY DEF Inv
<1>2. QED
  BY <1>1, Invariance, PTL

(* No message is written after the action it announces, whether that       *)
(* returns or panics (withProgress).                                       *)
THEOREM MessageInTime == Spec => []ProgressInTime
<1>1. Inv => ProgressInTime
  BY DEF Inv, Messages, ProgressInTime
<1>2. QED
  BY <1>1, Invariance, PTL
=============================================================================
