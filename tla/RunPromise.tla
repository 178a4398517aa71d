----------------------------- MODULE RunPromise -----------------------------
(***************************************************************************)
(* What a run of one target promises its caller, without saying how the    *)
(* runner waits.  Three things can happen while the target runs: it        *)
(* finishes with a result, the --timeout deadline hits, a signal is        *)
(* received.  The runner answers once, and its answer is one of these      *)
(* events, with a result that is already there winning over the deadline,  *)
(* and over a signal unless the result only mirrors the cancellation.      *)
(***************************************************************************)
EXTENDS Errors

VARIABLES
  result,    \* {} or {the target's result}
  deadline,  \* has the --timeout deadline canceled the run?
  signals,   \* the signals the runner has received
  answer     \* {} or {what the run returned}

vars == <<result, deadline, signals, answer>>

Init ==
  /\ result = {} /\ deadline = FALSE /\ signals = {} /\ answer = {}

Finish ==
  /\ result = {}
  /\ \E r \in Error : result' = {r}
  /\ UNCHANGED <<deadline, signals, answer>>

DeadlineHits ==
  /\ deadline' = TRUE
  /\ UNCHANGED <<result, signals, answer>>

Receive ==
  /\ \E s \in Signals : signals' = signals \cup {s}
  /\ UNCHANGED <<result, deadline, answer>>

(* The target was never started: a bad flag, no such target, or an option  *)
(* target such as --version that needs no run.                             *)
AnswerNotRun ==
  /\ result = {} /\ signals = {} /\ ~deadline
  /\ \E e \in NotRunError : answer' = {e}

(* The target's own result, marked as gomake's timeout only when the       *)
(* deadline really hit.                                                    *)
AnswerResult ==
  \E r \in result :
    \/ answer' = {r}
    \/ deadline /\ Is(r, "deadline") /\ answer' = {Wrap(r, "errTimeout")}

AnswerTimeout ==
  /\ deadline /\ result = {}
  /\ answer' = {TimeoutError}

AnswerSignal ==
  /\ \A r \in result : Is(r, "canceled")
  /\ \E s \in signals : answer' = {Interrupted(s)}

Answer ==
  /\ answer = {}
  /\ AnswerNotRun \/ AnswerResult \/ AnswerTimeout \/ AnswerSignal
  /\ UNCHANGED <<result, deadline, signals>>

Next == Finish \/ DeadlineHits \/ Receive \/ Answer

Spec == Init /\ [][Next]_vars
=============================================================================
