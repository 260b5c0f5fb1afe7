------------------------------- MODULE AutoScroll -------------------------------
(***************************************************************************)
(* The scrolling of the chat (packages/web/src/hooks/                      *)
(* use-chat-auto-scroll.ts and lib/smooth-scroll.ts).                      *)
(*                                                                         *)
(* Positions are counted in screens, each more than the thresholds of 80   *)
(* pixels: scrollTop is between 0 and the height, which is where the       *)
(* bottom is.  Between two frames the user acts, content arrives and React *)
(* runs effects; a frame dispatches the scroll event, runs the animation   *)
(* callbacks, then the resize observer and the intersection observer.      *)
(* Timers and durations are counted in frames.                             *)
(***************************************************************************)
EXTENDS Naturals, Sequences, FiniteSets

CONSTANTS MaxHeight,  \* bound on the content
          Duration,   \* frames of a smooth scroll (CHAT_SMOOTH_SCROLL_DURATION_MS)
          MaxActs     \* bound on what the user does

\* What the constants must satisfy
ASSUME ScrollAssumption == MaxHeight \in Nat \ {0} /\ Duration \in Nat \ {0} /\ MaxActs \in Nat

VARIABLES
  height, scrollTop,
  autoFollow, isAtBottom, streaming,
  programmatic,   \* programmaticScrollRef
  until,          \* frames to programmaticScrollUntilRef
  timers,         \* frames to the timeouts of markProgrammaticScroll
  unmark,         \* its animation frame is requested
  smooth,         \* the running animations: target and frames left
  aligning,       \* frames to the alignments after a layout change
  contentEffect, streamingEnded, \* effects that React has still to run
  scrolled, resized, observed,   \* the next frame's events; observed: what the observer last told, if anything
  frame,          \* the part of the frame that comes next
  acts,
  \* history: the user reads above and nothing was under way, where; the user wants to
  \* follow; an instant scroll has met a smooth one, or the content has shrunk above it
  reading, wants, mixed

geometry == <<height, scrollTop>>
refs == <<autoFollow, isAtBottom, streaming>>
marks == <<programmatic, until, timers, unmark>>
effects == <<contentEffect, streamingEnded>>
frameEvents == <<scrolled, resized, observed>>
memory == <<reading, wants, mixed>>
scrollVars == <<geometry, refs, marks, smooth, aligning, effects, frameEvents, frame, acts, memory>>

Nowhere == MaxHeight + 1

ScrollInit ==
  /\ height \in 0 .. 1 /\ scrollTop = height
  /\ autoFollow = TRUE /\ isAtBottom = TRUE /\ streaming = FALSE
  /\ programmatic = FALSE /\ until = 0 /\ timers = {} /\ unmark = FALSE
  /\ smooth = <<>> /\ aligning = {} /\ contentEffect = FALSE /\ streamingEnded = FALSE
  /\ scrolled = FALSE /\ resized = FALSE /\ observed = {TRUE}
  /\ frame = "idle" /\ acts = 0
  /\ reading = Nowhere /\ wants = TRUE /\ mixed = FALSE

-----------------------------------------------------------------------------
(* Scrolling by the code.                                                  *)

\* markProgrammaticScroll(0): the animation frame looks at until
MarkInstant == programmatic' = TRUE /\ until' = 0 /\ unmark' = TRUE /\ UNCHANGED timers

\* markProgrammaticScroll(CHAT_SMOOTH_SCROLL_DURATION_MS + 32): two frames of 16 ms
MarkSmooth == programmatic' = TRUE /\ until' = Duration + 2 /\ timers' = timers \cup {Duration + 2} /\ UNCHANGED unmark

\* scrollTop moves; a scroll event follows if that is a change
MoveTo(top) == scrollTop' = top /\ scrolled' = (scrolled \/ top # scrollTop)

\* A smooth scroll or its mark is still there.
SmoothMarked == smooth # <<>> \/ timers # {}

scrollToBottomInstant == MarkInstant /\ MoveTo(height) /\ mixed' = (mixed \/ SmoothMarked)

\* smoothScrollTop
Animate(target) ==
  smooth' = IF target = scrollTop THEN smooth ELSE Append(smooth, [from |-> scrollTop, target |-> target, left |-> Duration])

shouldAlignToBottom == autoFollow \/ isAtBottom

-----------------------------------------------------------------------------
(* Content.                                                                *)

BetweenFrames == frame = "idle"

\* A message or a delta, which may make the content higher; also the start of streaming
Content ==
  /\ BetweenFrames /\ ~contentEffect /\ contentEffect' = TRUE
  /\ height' \in {height, height + 1} /\ height' <= MaxHeight
  /\ streaming' \in {streaming, TRUE}
  /\ UNCHANGED <<scrollTop, autoFollow, isAtBottom, marks, smooth, aligning, streamingEnded, frameEvents, frame, acts, memory>>

StreamingEnds ==
  /\ BetweenFrames /\ streaming /\ streaming' = FALSE /\ streamingEnded' = TRUE /\ contentEffect' = TRUE
  /\ UNCHANGED <<geometry, autoFollow, isAtBottom, marks, smooth, aligning, frameEvents, frame, acts, memory>>

\* What folds at the end of a turn; who is below the new end is put there.
Shrink ==
  /\ BetweenFrames /\ ~streaming /\ height > 1 /\ height' = height - 1
  /\ MoveTo(IF scrollTop > height' THEN height' ELSE scrollTop)
  /\ mixed' = (mixed \/ scrollTop > height')
  /\ reading' = IF reading # Nowhere /\ reading > height' THEN height' ELSE reading
  /\ UNCHANGED <<refs, marks, smooth, aligning, effects, resized, observed, frame, acts, wants>>

\* The effects of a render: alignToBottomAfterLayout when streaming has ended, then the
\* content effect, which follows without asking where the bottom is
ContentEffect ==
  /\ BetweenFrames /\ contentEffect /\ contentEffect' = FALSE
  /\ streamingEnded' = FALSE
  /\ aligning' = IF streamingEnded /\ shouldAlignToBottom THEN aligning \cup {2} ELSE aligning
  /\ IF autoFollow THEN scrollToBottomInstant ELSE UNCHANGED <<scrollTop, marks, scrolled, mixed>>
  /\ UNCHANGED <<height, refs, smooth, resized, observed, frame, acts, reading, wants>>

\* The text area or the window changes its height.
Resize ==
  /\ BetweenFrames /\ ~resized /\ resized' = TRUE
  /\ UNCHANGED <<geometry, refs, marks, smooth, aligning, effects, scrolled, observed, frame, acts, memory>>

\* Another session is shown, and the observer is created anew.
SwitchSession ==
  /\ BetweenFrames /\ acts < MaxActs /\ acts' = acts + 1
  /\ autoFollow' = TRUE /\ isAtBottom' = TRUE /\ observed' = {}
  /\ scrollToBottomInstant
  /\ wants' = TRUE /\ reading' = Nowhere
  /\ UNCHANGED <<height, streaming, smooth, aligning, effects, resized, frame>>

-----------------------------------------------------------------------------
(* The user.                                                               *)

Act == BetweenFrames /\ acts < MaxActs /\ acts' = acts + 1
Leave == wants' = FALSE /\ reading' = Nowhere

\* The wheel or a finger, by a screen or by less than the threshold
ScrollUp ==
  /\ Act /\ autoFollow' = FALSE /\ Leave
  /\ \E top \in {scrollTop, scrollTop - 1} : top >= 0 /\ MoveTo(top)
  /\ UNCHANGED <<height, isAtBottom, streaming, marks, smooth, aligning, effects, resized, observed, frame, mixed>>

\* The scroll bar, the keyboard, or the wheel downwards
Drag ==
  /\ Act /\ Leave
  /\ \E top \in 0 .. height : top # scrollTop /\ MoveTo(top)
  /\ UNCHANGED <<height, refs, marks, smooth, aligning, effects, resized, observed, frame, mixed>>

\* resumeFollowing, on sending and on retrying
resumeFollowing ==
  /\ Act /\ autoFollow' = TRUE
  /\ MarkInstant /\ MoveTo(height)
  /\ wants' = TRUE /\ mixed' = SmoothMarked /\ reading' = Nowhere
  /\ UNCHANGED <<height, isAtBottom, streaming, smooth, aligning, effects, resized, observed, frame>>

\* Faulty scrollToBottomSmooth: its scroll events look like the user's.
ScrollUnmarked ==
  /\ Act /\ autoFollow' = TRUE
  /\ Animate(height)
  /\ wants' = TRUE /\ mixed' = SmoothMarked /\ reading' = Nowhere
  /\ UNCHANGED <<geometry, marks, isAtBottom, streaming, aligning, effects, frameEvents, frame>>

scrollToBottomSmooth ==
  /\ Act /\ autoFollow' = TRUE
  /\ MarkSmooth /\ Animate(height)
  /\ wants' = TRUE /\ mixed' = SmoothMarked /\ reading' = Nowhere
  /\ UNCHANGED <<geometry, isAtBottom, streaming, aligning, effects, frameEvents, frame>>

\* scrollToMessage and scrollToTop
Jump ==
  /\ Act /\ autoFollow' = FALSE /\ Leave
  /\ MarkSmooth /\ \E target \in 0 .. height : Animate(target)
  /\ UNCHANGED <<geometry, isAtBottom, streaming, aligning, effects, frameEvents, frame, mixed>>

-----------------------------------------------------------------------------
(* The frame.                                                              *)

StartFrame ==
  /\ BetweenFrames /\ frame' = "scroll"
  /\ until' = IF until = 0 THEN 0 ELSE until - 1
  /\ timers' = {n - 1 : n \in timers \ {1}}
  /\ programmatic' = (programmatic /\ ~(1 \in timers /\ until' = 0))
  /\ UNCHANGED <<geometry, refs, unmark, smooth, aligning, effects, frameEvents, acts, memory>>

\* onScroll: what the code does not know for its own is taken for the user's
OnScroll ==
  /\ frame = "scroll" /\ frame' = "animation"
  /\ autoFollow' = (autoFollow /\ ~(scrolled /\ ~programmatic /\ until = 0 /\ height > scrollTop))
  /\ scrolled' = FALSE
  /\ UNCHANGED <<geometry, isAtBottom, streaming, marks, smooth, aligning, effects, resized, observed, acts, memory>>

\* Where an animation has come to; the last one to step decides
Between(a) == {t \in 0 .. MaxHeight : IF a.from < a.target THEN a.from <= t /\ t < a.target ELSE a.target < t /\ t <= a.from}
Stepped == [i \in DOMAIN smooth |-> [smooth[i] EXCEPT !.left = @ - 1]]

\* Those that go on: the first to begin are the first to end.
Running(q) ==
  LET ended == CHOOSE n \in 0 .. Len(q) : \A i \in DOMAIN q : q[i].left > 0 <=> i > n
  IN SubSeq(q, ended + 1, Len(q))

\* The animation callbacks: unmark, the steps of the animations and the alignments, which
\* were decided on two frames ago
AnimationFrame ==
  /\ frame = "animation" /\ frame' = "resize"
  /\ LET last == Stepped[Len(smooth)]
         moved == IF smooth = <<>> THEN {scrollTop}
                  ELSE {IF t > height THEN height ELSE t : t \in IF last.left = 0 THEN {last.target} ELSE Between(last)}
     IN IF 1 \in aligning
        THEN MoveTo(height) /\ programmatic' = TRUE /\ until' = 0 /\ unmark' = TRUE
             /\ mixed' = (mixed \/ SmoothMarked)
        ELSE /\ \E top \in moved : MoveTo(top)
             /\ programmatic' = (programmatic /\ ~(unmark /\ until = 0))
             /\ unmark' = FALSE /\ UNCHANGED <<until, mixed>>
  /\ smooth' = Running(Stepped)
  /\ aligning' = {n - 1 : n \in aligning \ {1}}
  /\ UNCHANGED <<height, refs, timers, effects, resized, observed, acts, reading, wants>>

\* alignToBottomIfNeeded
OnResize ==
  /\ frame = "resize" /\ frame' = "intersection" /\ resized' = FALSE
  /\ IF resized /\ shouldAlignToBottom THEN scrollToBottomInstant
     ELSE UNCHANGED <<scrollTop, marks, scrolled, mixed>>
  /\ UNCHANGED <<height, refs, smooth, aligning, effects, observed, acts, reading, wants>>

\* Nothing that the code has begun can still move the page.
Calm == smooth = <<>> /\ aligning = {} /\ ~scrolled

\* The intersection observer tells of a change; at the bottom, following is resumed.  The
\* user who has left the bottom for some place reads there.
OnIntersection ==
  /\ frame = "intersection" /\ frame' = "idle"
  /\ LET atBottom == scrollTop = height IN
     /\ observed' = {atBottom}
     /\ IF {atBottom} # observed THEN isAtBottom' = atBottom /\ autoFollow' = (autoFollow \/ atBottom)
        ELSE UNCHANGED <<isAtBottom, autoFollow>>
     /\ reading' = IF atBottom THEN Nowhere ELSE IF ~wants /\ Calm /\ ~autoFollow' /\ reading = Nowhere THEN scrollTop ELSE reading
     /\ wants' = (wants \/ (atBottom /\ autoFollow' /\ Calm))
     /\ mixed' = (mixed /\ ~(atBottom /\ autoFollow' /\ Calm))
  /\ UNCHANGED <<geometry, streaming, marks, smooth, aligning, effects, scrolled, resized, acts>>

Frame == StartFrame \/ OnScroll \/ AnimationFrame \/ OnResize \/ OnIntersection
ReaderActs == SwitchSession \/ ScrollUp \/ Drag \/ resumeFollowing \/ scrollToBottomSmooth \/ Jump

ScrollNext == Content \/ StreamingEnds \/ Shrink \/ ContentEffect \/ Resize \/ ReaderActs \/ Frame

ScrollSpec == ScrollInit /\ [][ScrollNext]_scrollVars

-----------------------------------------------------------------------------

ScrollTypes ==
  /\ height \in 0 .. MaxHeight /\ scrollTop \in 0 .. height
  /\ autoFollow \in BOOLEAN /\ isAtBottom \in BOOLEAN /\ programmatic \in BOOLEAN
  /\ until \in 0 .. Duration + 2 /\ timers \subseteq 1 .. Duration + 2 /\ aligning \subseteq 1 .. 2

\* Who reads further up is left there, whatever arrives; when the content comes to end above,
\* at its end.
ReaderStays == reading # Nowhere => scrollTop = reading

\* Who wants to see the end, and whose smooth scroll was not overtaken by an instant one,
\* is followed, and sees it when the effects have run and nothing moves.
FollowerFollows ==
  wants /\ ~mixed =>
    /\ autoFollow
    /\ BetweenFrames /\ Calm /\ ~contentEffect => scrollTop = height

ScrollInv == ScrollTypes /\ ReaderStays /\ FollowerFollows
=============================================================================
