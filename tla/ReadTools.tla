------------------------------- MODULE ReadTools -------------------------------
(***************************************************************************)
(* The read tool, called until its answer names no next offset, and one    *)
(* call of the ls tool (packages/cli/src/tools/read.ts, ls.ts, truncate.ts *)
(* in the same directory).                                                 *)
(*                                                                         *)
(* A file is the sequence of the sizes of its lines, as split gives them:  *)
(* the last is 0 when the text ends with a newline.  A directory is the    *)
(* sequence of its entries in the order of the listing; that a directory   *)
(* among them gets a suffix is left out.                                   *)
(***************************************************************************)
EXTENDS Integers, Sequences, FiniteSetsExt, SequencesExt

CONSTANTS maxLines, maxBytes,
          Sizes, MaxLen,  \* sizes of lines, bound on the lines and entries
          NoLimit

\* What the constants must satisfy
ReadAssumption == maxLines \in Nat \ {0} /\ maxBytes \in Nat /\ Sizes \subseteq Nat /\ MaxLen \in Nat

VARIABLES
  allLines, limit,
  offset,    \* of the next read, 0 when none is suggested
  pages,     \* the lines that the reads have shown, in order
  refused,   \* a line was too long to be shown
  entries,   \* of the directory
  gone,      \* those deleted since readdir
  next,      \* the entry that ls looks at
  results, listing

reading == <<offset, pages, refused>>
directory == <<entries, gone, next, results, listing>>
vars == <<allLines, limit, reading, directory>>

Unlisted == [shown |-> <<>>, notice |-> FALSE, done |-> FALSE]

Some(S) == UNION {[1 .. n -> S] : n \in 0 .. MaxLen}

Init ==
  /\ allLines \in Some(Sizes) \ {<<>>} /\ limit \in 0 .. MaxLen \cup {NoLimit}
  /\ offset = 1 /\ pages = <<>> /\ refused = FALSE
  /\ entries \in Some({"file", "dangling"})
  /\ gone = {} /\ next = 1 /\ results = <<>> /\ listing = Unlisted

-----------------------------------------------------------------------------
(* truncateHead, on lines joined by newlines.                              *)

Bytes(lines) == FoldLeft(LAMBDA sum, size : sum + size, 0, lines) + Len(lines) - 1

\* splitLinesForCounting: an empty line at the end is not counted
Counted(lines) ==
  IF lines \in {<<>>, <<0>>} THEN <<>> ELSE IF Last(lines) = 0 THEN Front(lines) ELSE lines

Fits(lines) == Len(Counted(lines)) <= maxLines /\ (lines = <<>> \/ Bytes(lines) <= maxBytes)

firstLineExceedsLimit(lines) == ~Fits(lines) /\ Counted(lines) # <<>> /\ lines[1] > maxBytes

\* The number of whole lines within both limits
outputLines(lines) ==
  Max({0} \cup {n \in 1 .. Len(Counted(lines)) : n <= maxLines /\ Bytes(SubSeq(lines, 1, n)) <= maxBytes})

-----------------------------------------------------------------------------
(* read                                                                    *)

startLine == offset - 1

\* allLines.slice(startLine, endLine)
selectedContent ==
  SubSeq(allLines, offset, IF limit = NoLimit \/ startLine + limit > Len(allLines) THEN Len(allLines) ELSE startLine + limit)

\* How many lines a call shows
Shown(lines) == IF Fits(lines) THEN Len(lines) ELSE outputLines(lines)

\* One call and what it says of the next offset: none after a line that is too long, the
\* line after the shown ones when it was cut, or when the limit of the call left a rest.
Read ==
  /\ offset > 0 /\ startLine < Len(allLines)
  /\ LET lines == selectedContent
         shown == Shown(lines)
     IN IF firstLineExceedsLimit(lines)
        THEN refused' = TRUE /\ offset' = 0 /\ UNCHANGED pages
        ELSE /\ pages' = pages \o [i \in 1 .. shown |-> startLine + i]
             /\ offset' = IF ~Fits(lines) \/ startLine + Len(lines) < Len(allLines) THEN offset + shown ELSE 0
             /\ UNCHANGED refused
  /\ UNCHANGED <<allLines, limit, directory>>

-----------------------------------------------------------------------------
(* ls                                                                      *)

Vanish ==
  /\ ~listing.done
  /\ \E i \in DOMAIN entries \ gone : gone' = gone \cup {i}
  /\ UNCHANGED <<allLines, limit, reading, entries, next, results, listing>>

entryLimitReached == next <= Len(entries) /\ limit # NoLimit /\ Len(results) >= limit

\* stat of one entry; an entry whose stat fails is left out
Stat ==
  /\ ~listing.done /\ next <= Len(entries) /\ ~entryLimitReached
  /\ next' = next + 1
  /\ results' = IF next \in gone \/ entries[next] = "dangling" THEN results ELSE Append(results, next)
  /\ UNCHANGED <<allLines, limit, reading, entries, gone, listing>>

\* The answer; every name takes a byte here
List ==
  /\ ~listing.done /\ (next > Len(entries) \/ entryLimitReached)
  /\ LET sizes == [i \in DOMAIN results |-> 1]
         all == results = <<>> \/ Bytes(sizes) <= maxBytes
     IN listing' = [shown |-> IF all THEN results
                              ELSE SubSeq(results, 1, Max({n \in DOMAIN results : Bytes(SubSeq(sizes, 1, n)) <= maxBytes})),
                    notice |-> results # <<>> /\ (entryLimitReached \/ ~all), done |-> TRUE]
  /\ UNCHANGED <<allLines, limit, reading, entries, gone, next, results>>

ls == Vanish \/ Stat \/ List

Next == Read \/ ls

Spec == Init /\ [][Next]_vars

-----------------------------------------------------------------------------

\* Every answer of read continues where the one before has stopped: no line is shown
\* twice or left out, empty lines at the end included.
PagesContinue == \A i \in DOMAIN pages : pages[i] = i

\* A reader who follows the offsets has read the whole file when none is named, unless a
\* line is too long; and every named offset is a line of the file.
OffsetsLeadToTheEnd ==
  /\ offset = 0 /\ ~refused => Len(pages) = Len(allLines)
  /\ refused => allLines[Len(pages) + 1] > maxBytes
  /\ offset > 0 => offset = Len(pages) + 1 /\ offset <= Len(allLines)

\* Following the offsets comes to an end, unless the calls ask for no line: every call
\* shows one or refuses a line.
EveryReadProgresses ==
  offset > 0 /\ limit # 0 => firstLineExceedsLimit(selectedContent) \/ Shown(selectedContent) > 0

\* What ls lists existed, in order; without a notice every entry that is still there is
\* listed, except links to nothing, and except with limit 0.
ListingIsComplete ==
  listing.done =>
    /\ \A i \in 1 .. Len(listing.shown) - 1 : listing.shown[i] < listing.shown[i + 1]
    /\ ~listing.notice /\ limit # 0 =>
         \A i \in DOMAIN entries : i \in Range(listing.shown) \/ i \in gone \/ entries[i] = "dangling"

ReadInv == PagesContinue /\ OffsetsLeadToTheEnd /\ EveryReadProgresses /\ ListingIsComplete
=============================================================================
