--------------------------- MODULE OutputAccumulator ---------------------------
(***************************************************************************)
(* The bounded memory of a command's output (output-accumulator.ts) and    *)
(* its truncation to the last lines (truncate.ts).  Text is a sequence of  *)
(* "c" and of the newline "n", each one byte wide: decoding is not         *)
(* modelled, and the totals that the code counts are functions of all      *)
(* text so far.                                                            *)
(***************************************************************************)
EXTENDS Naturals, Sequences, FiniteSets

CONSTANTS maxLines, maxBytes,
          MaxText     \* bound on the length of the output

VARIABLES
  text,      \* everything appended
  tail,      \* tailText
  boundary,  \* tailStartsAtLineBoundary
  raw,       \* rawChunks, joined
  path,      \* whether there is a temporary file
  written,   \* what was written to it
  done       \* finished

vars == <<text, tail, boundary, raw, path, written, done>>

Init == text = <<>> /\ tail = <<>> /\ boundary = TRUE /\ raw = <<>> /\ path = FALSE /\ written = <<>> /\ done = FALSE

Newlines(s) == {i \in DOMAIN s : s[i] = "n"}
From(s, i) == SubSeq(s, i, Len(s))
Last(s, n) == From(s, IF Len(s) > n THEN Len(s) - n + 1 ELSE 1)

\* splitLinesForCounting
Body(s) == IF s # <<>> /\ s[Len(s)] = "n" THEN SubSeq(s, 1, Len(s) - 1) ELSE s
LineStarts(s) == {1} \cup {i + 1 : i \in Newlines(s)}
LineCount(s) == IF s = <<>> THEN 0 ELSE Cardinality(LineStarts(Body(s)))

\* truncateTail: as many whole lines from the end as both limits allow, else the end of
\* the last line, without the newline at the end
truncateTail(s) ==
  LET body == Body(s)
      fits == {i \in LineStarts(body) : /\ Len(body) - i + 1 <= maxBytes
                                        /\ Cardinality({j \in LineStarts(body) : j >= i}) <= maxLines}
  IN IF LineCount(s) <= maxLines /\ Len(s) <= maxBytes THEN s
     ELSE IF fits = {} THEN Last(body, maxBytes)
     ELSE From(body, CHOOSE i \in fits : \A j \in fits : i <= j)

Truncated == LineCount(text) > maxLines \/ Len(text) > maxBytes

maxRollingBytes == IF maxBytes * 2 > 1 THEN maxBytes * 2 ELSE 1

\* getSnapshotText: without the line that has lost its beginning
getSnapshotText ==
  IF boundary \/ Newlines(tail) = {} THEN tail
  ELSE From(tail, 1 + CHOOSE i \in Newlines(tail) : \A j \in Newlines(tail) : i <= j)

\* The content of snapshot
Content == truncateTail(getSnapshotText)

\* trimTail, when tail and what was appended are t
trimTail(t) ==
  /\ tail' = Last(t, maxRollingBytes)
  /\ boundary' = IF Len(t) <= maxRollingBytes THEN boundary ELSE t[Len(t) - maxRollingBytes] = "n"

\* append and appendDecodedText
append(data) ==
  /\ ~done /\ Len(text) + Len(data) <= MaxText
  /\ text' = text \o data
  /\ LET t == tail \o data IN
     IF Len(t) > maxRollingBytes * 2 THEN trimTail(t) ELSE tail' = t /\ UNCHANGED boundary
  /\ IF path \/ Len(text') > maxBytes \/ LineCount(text') > maxLines
     THEN path' = TRUE /\ raw' = <<>> /\ written' = written \o raw \o data
     ELSE raw' = raw \o data /\ UNCHANGED <<path, written>>
  /\ UNCHANGED done

\* finish; the file exists already when the output is too long
finish == ~done /\ done' = TRUE /\ UNCHANGED <<text, tail, boundary, raw, path, written>>

Chunks == UNION {[1 .. n -> {"c", "n"}] : n \in 1 .. 3}

Next == finish \/ \E data \in Chunks : append(data)

Spec == Init /\ [][Next]_vars

-----------------------------------------------------------------------------

\* The last line has lost its beginning and is followed by its newline: then it is dropped,
\* and nothing is left.
LastLineLost == ~boundary /\ Newlines(tail) = {Len(tail)}

\* What the model reads of a long output is what truncation of all of it would give, up to
\* a newline at the end, although only the end was kept; except for LastLineLost.
ContentIsTail ==
  LastLineLost \/ Content \in {truncateTail(text), truncateTail(text) \o <<"n">>}

\* An output that is not shown in full is in the temporary file in full, and otherwise all
\* of it is shown.
FullOutputKept == IF Truncated THEN path /\ written = text ELSE Content = text /\ raw \o written = text

OutputInv == ContentIsTail /\ FullOutputKept
=============================================================================
