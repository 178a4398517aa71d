----------------------------- MODULE ConfigPath -----------------------------
(***************************************************************************)
(* The path language of gomake.GetCfg (pkg/gomake/config.go): segments     *)
(* separated by dots, a quoted segment taken literally.  Of characters     *)
(* only the dot and the quote matter; "x" stands for every other one.      *)
(***************************************************************************)
EXTENDS Naturals, FiniteSets, SequencesExt

Char == {".", "'", "x"}

Segments(segs) == [ok |-> TRUE, segs |-> segs]
ErrPath == [ok |-> FALSE]

(* The index of the first c in path at i or after it, 0 if there is none.  *)
IndexFrom(path, i, c) == SelectInSubSeq(path, i, Len(path), LAMBDA x : x = c)

Prepend(seg, rest) == IF rest.ok THEN Segments(<<seg>> \o rest.segs) ELSE ErrPath

-----------------------------------------------------------------------------
(* A variant with one plausible bug, for the mutant runs: the end of the   *)
(* path is tested before the dot that follows a quoted segment is eaten.   *)
ScanDroppingLast(path, i, rest) ==
  LET n     == Len(path)
      quote == IndexFrom(path, i + 1, "'")
      dot   == IndexFrom(path, i, ".")
  IN IF i > n THEN Segments(<<>>)
     ELSE IF path[i] = "'"
     THEN IF quote = 0 \/ (quote < n /\ path[quote + 1] # ".") THEN ErrPath
          ELSE Prepend(SubSeq(path, i + 1, quote - 1), rest[quote + 2])
     ELSE IF dot = 0 THEN Segments(<<SubSeq(path, i, n)>>)
     ELSE Prepend(SubSeq(path, i, dot - 1), rest[dot + 1])

-----------------------------------------------------------------------------
(* One turn of the loop, at index i: the quoted segment, the last segment, *)
(* or the segment up to the next dot.  The index passes Len(path) + 1 only *)
(* after a quote that ends the path.                                       *)
Scan(path, i, rest) ==
  LET n     == Len(path)
      quote == IndexFrom(path, i + 1, "'")
      dot   == IndexFrom(path, i, ".")
  IN IF i > n + 1 THEN Segments(<<>>)
     ELSE IF i <= n /\ path[i] = "'"
     THEN IF quote = 0 \/ (quote < n /\ path[quote + 1] # ".") THEN ErrPath
          ELSE Prepend(SubSeq(path, i + 1, quote - 1), rest[quote + 2])
     ELSE IF dot = 0 THEN Segments(<<SubSeq(path, i, n)>>)
     ELSE Prepend(SubSeq(path, i, dot - 1), rest[dot + 1])

SplitPath(path) ==
  LET from[i \in 1..Len(path) + 2] == Scan(path, i, from)
  IN IF path = <<>> THEN ErrPath ELSE from[1]

-----------------------------------------------------------------------------
(* The grammar, as the documentation of Config.Has gives it.               *)

Quoted(piece) ==
  /\ Len(piece) >= 2 /\ Head(piece) = "'" /\ Last(piece) = "'"
  /\ "'" \notin ToSet(SubSeq(piece, 2, Len(piece) - 1))

Plain(piece) ==
  "." \notin ToSet(piece) /\ (piece # <<>> => Head(piece) # "'")

Meaning(piece) == IF Quoted(piece) THEN SubSeq(piece, 2, Len(piece) - 1) ELSE piece

(* Every way to cut the path at some of its dots into well-formed pieces.  *)
Parses(path) ==
  LET dots == {i \in DOMAIN path : path[i] = "."}
      Cut(cuts) ==
        LET ends  == cuts \cup {0, Len(path) + 1}
            at(k) == CHOOSE e \in ends : Cardinality({d \in ends : d < e}) = k
        IN [k \in 1..Cardinality(cuts) + 1 |-> SubSeq(path, at(k - 1) + 1, at(k) - 1)]
  IN {[k \in DOMAIN pieces |-> Meaning(pieces[k])] :
        pieces \in {p \in {Cut(cuts) : cuts \in SUBSET dots} :
                      \A k \in DOMAIN p : Quoted(p[k]) \/ Plain(p[k])}}
=============================================================================
