------------------------------- MODULE EditTool -------------------------------
(***************************************************************************)
(* One call of the edit tool inside the queue of its file (edit.ts) and    *)
(* its text replacement (edit-diff.ts).                                    *)
(*                                                                         *)
(* A text is a sequence of "a", of "A", a typographic form that            *)
(* normalizeForFuzzyMatch turns into "a", of blanks "s", "r" (CR), "n"     *)
(* (LF) and of "x", which only new texts hold.  The diff shown to the      *)
(* user and the byte order mark, which is kept as it is, are left out.     *)
(***************************************************************************)
EXTENDS Naturals, Sequences, FiniteSets, SequencesExt

CONSTANTS Contents,  \* the texts the file may hold
          Edits      \* the replacements a call may ask for: oldText, newText

VARIABLES
  original,  \* what the file held
  edits,
  file,      \* what it holds
  execute,   \* "begin", "applied", "ok" or "thrown"
  result     \* what applyEditsToNormalizedContent returned

vars == <<original, edits, file, execute, result>>

NoResult == [baseContent |-> <<>>, newContent |-> <<>>]

Init ==
  /\ original \in Contents /\ file = original
  /\ edits \in {<<e>> : e \in Edits} \cup (Edits \X Edits)
  /\ execute = "begin" /\ result = NoResult

-----------------------------------------------------------------------------

\* What is left of text s at the places is
At(s, is) == LET q == SetToSortSeq(is, LAMBDA i, j : i < j) IN [k \in DOMAIN q |-> s[q[k]]]
Mapped(s, F(_)) == [i \in DOMAIN s |-> F(s[i])]

normalizeToLF(s) ==
  LET CR == {i \in DOMAIN s : s[i] = "r" /\ i < Len(s) /\ s[i + 1] = "n"}
  IN Mapped(At(s, DOMAIN s \ CR), LAMBDA c : IF c = "r" THEN "n" ELSE c)

\* detectLineEnding: whether the first LF belongs to a CRLF
CRLF(s) == \E i \in DOMAIN s : /\ s[i] = "r" /\ i < Len(s) /\ s[i + 1] = "n"
                               /\ \A j \in 1 .. i : s[j] # "n"

restoreLineEndings(s, crlf) ==
  IF crlf THEN FlattenSeq([i \in DOMAIN s |-> IF s[i] = "n" THEN <<"r", "n">> ELSE <<s[i]>>]) ELSE s

\* The blanks at the end of a line
Trailing(s) ==
  {i \in DOMAIN s : \E e \in i + 1 .. Len(s) + 1 :
     (e > Len(s) \/ s[e] = "n") /\ \A k \in i .. e - 1 : s[k] = "s"}

normalizeForFuzzyMatch(s) ==
  Mapped(At(s, DOMAIN s \ Trailing(s)), LAMBDA c : IF c = "A" THEN "a" ELSE c)

Occurrences(s, t) == {i \in 1 .. Len(s) - Len(t) + 1 : SubSeq(s, i, i + Len(t) - 1) = t}
First(is) == CHOOSE i \in is : \A j \in is : i <= j

\* fuzzyFindText
fuzzyFindText(s, t) ==
  LET f == normalizeForFuzzyMatch(s)
      o == normalizeForFuzzyMatch(t)
  IN IF Occurrences(s, t) # {}
     THEN [found |-> TRUE, index |-> First(Occurrences(s, t)), length |-> Len(t), fuzzy |-> FALSE]
     ELSE IF Occurrences(f, o) # {}
     THEN [found |-> TRUE, index |-> First(Occurrences(f, o)), length |-> Len(o), fuzzy |-> TRUE]
     ELSE [found |-> FALSE, index |-> 0, length |-> 0, fuzzy |-> FALSE]

\* Faulty countOccurrences: it compares the texts as they are.
CountExact(s, t) == \E i, j \in Occurrences(s, t) : j >= i + Len(t)

\* countOccurrences > 1: two that do not overlap; the empty text splits every character
countOccurrences(s, t) ==
  LET f == normalizeForFuzzyMatch(s)
      o == normalizeForFuzzyMatch(t)
  IN IF o = <<>> THEN Len(f) > 2 ELSE \E i, j \in Occurrences(f, o) : j >= i + Len(o)

Overlap(m1, m2) == m1.index + m1.length > m2.index

\* The place m of text s replaced by t
Replace(s, m, t) == SubSeq(s, 1, m.index - 1) \o t \o SubSeq(s, m.index + m.length, Len(s))

\* applyEditsToNormalizedContent: <<>> if it throws
applyEdits(content) ==
  LET old(i) == normalizeToLF(edits[i].oldText)
      new(i) == normalizeToLF(edits[i].newText)
      base == IF \E i \in DOMAIN edits : fuzzyFindText(content, old(i)).fuzzy
              THEN normalizeForFuzzyMatch(content) ELSE content
      match == [i \in DOMAIN edits |-> fuzzyFindText(base, old(i))]
      last == IF Len(edits) = 2 /\ match[1].index <= match[2].index THEN 2 ELSE 1
      text == IF Len(edits) = 1 THEN Replace(base, match[1], new(1))
              ELSE Replace(Replace(base, match[last], new(last)), match[3 - last], new(3 - last))
  IN IF \/ \E i \in DOMAIN edits : \/ old(i) = <<>> \/ ~match[i].found
                                   \/ countOccurrences(base, old(i))
        \/ Len(edits) = 2 /\ Overlap(match[3 - last], match[last])
        \/ text = base
     THEN <<>> ELSE <<[baseContent |-> base, newContent |-> text]>>

\* access, readFile and the replacement; each of the first two can fail, and an abort throws
Apply ==
  /\ execute = "begin"
  /\ LET r == applyEdits(normalizeToLF(file))
     IN IF r = <<>> THEN execute' = "thrown" /\ UNCHANGED result
        ELSE \/ execute' = "applied" /\ result' = r[1]
             \/ execute' = "thrown" /\ UNCHANGED result
  /\ UNCHANGED <<original, edits, file>>

\* writeFile; an abort during it throws although the file has changed
Write ==
  /\ execute = "applied" /\ execute' \in {"ok", "thrown"}
  /\ file' = restoreLineEndings(result.newContent, CRLF(original))
  /\ UNCHANGED <<original, edits, result>>

Next == Apply \/ Write

-----------------------------------------------------------------------------

\* Text "to" is text "from" with the edits in the order p made at places that do not
\* overlap, up to Norm in what they replace.
Edited(from, to, Norm(_)) ==
  LET o == [i \in DOMAIN edits |-> normalizeToLF(edits[i].oldText)]
      n == [i \in DOMAIN edits |-> normalizeToLF(edits[i].newText)]
      Place(s, i, k, l) == Norm(SubSeq(s, k, l - 1)) = Norm(o[i])
      Ends == 1 .. Len(from) + 1
  IN \E p \in {q \in [DOMAIN edits -> DOMAIN edits] : \A i, j \in DOMAIN edits : q[i] = q[j] => i = j} :
       \E k, l \in Ends :
         /\ k <= l /\ Place(from, p[1], k, l)
         /\ IF Len(edits) = 1
            THEN to = SubSeq(from, 1, k - 1) \o n[1] \o SubSeq(from, l, Len(from))
            ELSE \E k2, l2 \in Ends :
                   /\ l <= k2 /\ k2 <= l2 /\ Place(from, p[2], k2, l2)
                   /\ to = SubSeq(from, 1, k - 1) \o n[p[1]] \o SubSeq(from, l, k2 - 1)
                           \o n[p[2]] \o SubSeq(from, l2, Len(from))

Same(s) == s
Uniform(s) == restoreLineEndings(normalizeToLF(s), CRLF(s)) = s
Exact(s) == \A i \in DOMAIN edits : Occurrences(normalizeToLF(s), normalizeToLF(edits[i].oldText)) # {}

\* The diff that the user sees is a change of exactly the places named.
DiffIsEdit == execute # "begin" /\ result # NoResult => Edited(result.baseContent, result.newContent, normalizeForFuzzyMatch)

\* If every text is in the file as it was given, nothing else in the file changes, provided
\* that its line endings are all alike.
OnlyTheEdits ==
  /\ execute = "ok" /\ Uniform(original) /\ Exact(original)
  => /\ Edited(normalizeToLF(original), normalizeToLF(file), Same)
     /\ file = restoreLineEndings(normalizeToLF(file), CRLF(original))

\* No text that was replaced has another occurrence that it might have meant, but one that
\* overlaps the first.
NoGuess ==
  execute = "ok" =>
    \A i \in DOMAIN edits :
      LET t == normalizeForFuzzyMatch(normalizeToLF(edits[i].oldText))
          is == Occurrences(normalizeForFuzzyMatch(normalizeToLF(original)), t)
      IN t # <<>> => \A j, k \in is : j < k => k < j + Len(t)

\* A call that throws has left the file alone or written all of it.
AllOrNothing ==
  file # original => file = restoreLineEndings(result.newContent, CRLF(original)) /\ execute # "begin"

EditInv == DiffIsEdit /\ OnlyTheEdits /\ NoGuess /\ AllOrNothing
=============================================================================
