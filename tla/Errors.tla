------------------------------- MODULE Errors -------------------------------
(***************************************************************************)
(* Go errors as the code tells them apart.  An error is the set of         *)
(* sentinels errors.Is finds in its chain; nil is the empty set and every  *)
(* other error holds "err".  Messages are left out.                        *)
(***************************************************************************)
EXTENDS Naturals

Signals == {"SIGINT", "SIGTERM"}

SigNum(s) == IF s = "SIGINT" THEN 2 ELSE 15

Tags ==
  {"err", "canceled", "deadline", "errTimeout", "restore", "unk", "pick"}
    \cup Signals

Error == SUBSET Tags

Nil == {}

Is(e, tag) == tag \in e

(* fmt.Errorf("%w: %w", tag, e) *)
Wrap(e, tag) == e \cup {"err", tag}

Interrupted(s) == {"err", s}

TimeoutError == {"err", "deadline", "errTimeout"}

(* What Execute returns without starting a target.                         *)
NotRunError == {Nil, {"err"}, {"err", "unk"}, {"err", "pick"}}

(* The signal whose interruption e reports, if any.                        *)
SignalOf(e) == e \cap Signals

(* The mapping of errors to exit codes; the order of the cases matters.    *)
ExitCode(e) ==
  IF e = Nil THEN 0
  ELSE IF Is(e, "errTimeout") THEN 125
  ELSE IF Is(e, "pick") THEN 126
  ELSE IF Is(e, "unk") THEN 127
  ELSE IF SignalOf(e) = {} THEN 1
  ELSE 128 + SigNum(CHOOSE s \in SignalOf(e) : TRUE)
=============================================================================
