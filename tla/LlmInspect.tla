------------------------------ MODULE LlmInspect ------------------------------
(***************************************************************************)
(* The last exchange of a session with its model, kept for debugging: the  *)
(* buffers that the fetch interceptor and the harness fill                 *)
(* (llm-inspect-buffer.ts, muse-proxy-context.ts), the files to which they *)
(* are flushed and from which they are read again (llm-inspect-store.ts),  *)
(* and the panel that asks with the ETag of what it has                    *)
(* (use-session-llm-inspect.ts).                                           *)
(*                                                                         *)
(* A snapshot is the pair of the times at which its request and its        *)
(* response were captured, 0 when there is none; the text field of a       *)
(* response says to which request the message in it belongs.               *)
(***************************************************************************)
EXTENDS Naturals

CONSTANTS Sessions,
          Bounds,     \* captures, answers the panel asks for, restarts of the daemon
          Torn, None

VARIABLES
  buffer,   \* buffers: session -> None or [req, resp, dirty]
  saved,    \* its directory: None or [req, resp], each maybe Torn
  exchange, \* the turn of a session: idle, sent or answered; gone when it is deleted
  flushes,  \* flushes under way: [session, began, step, text, held]
  panel,    \* [session, enabled, inspect, etag, told]; None when no session is shown
  calls,    \* the panel's requests under way, numbered as they were sent
  clock, used,
  past      \* see the properties

Responses == [at : Nat, text : Nat]
Snapshots == [req : Nat, resp : Responses]
Files == [req : Nat \cup {Torn}, resp : Responses \cup {Torn}]

InspectAssumption ==
  /\ Bounds \in [{"captures", "asked", "restarts"} -> Nat]
  /\ None \notin Files \cup [req : Nat, resp : Responses, dirty : BOOLEAN] \cup (Nat \X Nat)
  /\ Torn \notin Nat \cup Responses

vars == <<buffer, saved, exchange, flushes, panel, calls, clock, used, past>>

NoResponse == [at |-> 0, text |-> 0]
NoSnapshot == [req |-> 0, resp |-> NoResponse]
Closed == [session |-> None, enabled |-> FALSE, inspect |-> None, etag |-> None, told |-> None]

Init ==
  /\ buffer = [s \in Sessions |-> None] /\ saved = [s \in Sessions |-> None]
  /\ exchange = [s \in Sessions |-> "idle"]
  /\ flushes = {} /\ calls = {}
  /\ panel = Closed
  /\ clock = 0 /\ used = [asked |-> 0, restarts |-> 0]
  /\ past = [mixed |-> {}, leftover |-> {}, late |-> FALSE, ended |-> FALSE]

Tick == clock < Bounds.captures /\ clock' = clock + 1
FlushesOf(s) == {f \in flushes : f.session = s}

\* past.mixed: sessions whose buffer was changed, or flushed once more, during a flush.
Disturb(s) == past' = [past EXCEPT !.mixed = IF FlushesOf(s) = {} THEN @ ELSE @ \cup {s}]

-----------------------------------------------------------------------------
(* Capturing. *)

\* The interceptor before the fetch of a chat or compaction: llmInspectBufferUpdateRequest.
\* The response of the exchange before stays, under the new request.
CaptureRequest(s) ==
  /\ exchange[s] = "idle" /\ Tick
  /\ exchange' = [exchange EXCEPT ![s] = "sent"]
  /\ buffer' = [buffer EXCEPT ![s] =
       [req |-> clock', resp |-> IF @ = None THEN NoResponse ELSE @.resp, dirty |-> TRUE]]
  /\ Disturb(s)
  /\ UNCHANGED <<saved, flushes, panel, calls, used>>

\* The interceptor after the fetch: llmInspectBufferUpdateResponseStatus; the message
\* that is there stays until the turn ends.
CaptureStatus(s) ==
  /\ exchange[s] = "sent" /\ Tick
  /\ exchange' = [exchange EXCEPT ![s] = "answered"]
  /\ buffer' = [buffer EXCEPT ![s] = [req |-> @.req, resp |-> [at |-> clock', text |-> @.resp.text], dirty |-> TRUE]]
  /\ Disturb(s)
  /\ UNCHANGED <<saved, flushes, panel, calls, used>>

\* flushSessionLlmInspectBuffer up to its mkdir; the caller does not wait.
Flush(s) == [session |-> s, began |-> clock', step |-> "mkdir", text |-> 0, held |-> None]

\* turn_end: llmInspectBufferUpdateResponseMessage, then the flush.  The message of a
\* request that failed says so; then there was no status.
TurnEnd(s) ==
  /\ exchange[s] \in {"sent", "answered"} /\ Tick
  /\ exchange' = [exchange EXCEPT ![s] = "idle"]
  /\ buffer' = [buffer EXCEPT ![s] = [req |-> @.req, resp |-> [at |-> clock', text |-> @.req], dirty |-> TRUE]]
  /\ flushes' = flushes \cup {Flush(s)}
  /\ Disturb(s)
  /\ UNCHANGED <<saved, panel, calls, used>>

\* A compaction, or a turn that the harness gives up, has no turn_end.
EndWithoutTurn(s) ==
  /\ exchange[s] \in {"sent", "answered"}
  /\ exchange' = [exchange EXCEPT ![s] = "idle"]
  /\ UNCHANGED <<buffer, saved, flushes, panel, calls, clock, used, past>>

-----------------------------------------------------------------------------
(* Flushing, and deleting the session meanwhile. *)

\* The buffer object that the flush holds
Held(f) == IF f.held # None THEN f.held ELSE buffer[f.session]

GoesOn(f, step, text) == flushes' = (flushes \ {f}) \cup {[f EXCEPT !.step = step, !.text = text]}

Mkdir(f) ==
  /\ f.step = "mkdir"
  /\ saved' = [saved EXCEPT ![f.session] = IF @ = None THEN NoSnapshot ELSE @]
  /\ GoesOn(f, "made", 0)
  /\ UNCHANGED <<buffer, exchange, panel, calls, clock, used, past>>

\* The daemon ends: memory is lost, files stay as they are.
Stopped ==
  /\ buffer' = [s \in Sessions |-> None]
  /\ exchange' = [s \in Sessions |-> IF exchange[s] = "gone" THEN "gone" ELSE "idle"]
  /\ flushes' = {}

\* A write after the directory was removed throws, and nobody handles the rejection of a
\* flush.  past.ended: the daemon has ended so.
WriteFails(f) ==
  /\ f.step # "mkdir" /\ saved[f.session] = None
  /\ Stopped
  /\ past' = [past EXCEPT !.ended = TRUE]
  /\ UNCHANGED <<saved, panel, calls, clock, used>>

\* writeFile of request.json: its text is made, the file is emptied
WriteRequest(f) ==
  /\ f.step = "made" /\ saved[f.session] # None
  /\ saved' = [saved EXCEPT ![f.session] = [req |-> Torn, resp |-> @.resp]]
  /\ GoesOn(f, "request", Held(f).req)
  /\ UNCHANGED <<buffer, exchange, panel, calls, clock, used, past>>

\* request.json is written; then the same for response.json
WriteResponse(f) ==
  /\ f.step = "request" /\ saved[f.session] # None
  /\ saved' = [saved EXCEPT ![f.session] = [req |-> f.text, resp |-> Torn]]
  /\ GoesOn(f, "response", Held(f).resp)
  /\ UNCHANGED <<buffer, exchange, panel, calls, clock, used, past>>

\* response.json is written, and the buffer is marked clean, whatever it is by now.
MarkClean(f) ==
  /\ f.step = "response" /\ saved[f.session] # None
  /\ saved' = [saved EXCEPT ![f.session] = [req |-> @.req, resp |-> f.text]]
  /\ buffer' = IF f.held # None THEN buffer
               ELSE [buffer EXCEPT ![f.session] = [req |-> @.req, resp |-> @.resp, dirty |-> FALSE]]
  /\ flushes' = flushes \ {f}
  /\ UNCHANGED <<exchange, panel, calls, clock, used, past>>

\* DELETE /sessions/:sessionId of a session that is not busy: deleteSessionLlmInspect.
\* past.leftover: a flush of its buffer is under way.
Delete(s) ==
  /\ exchange[s] = "idle"
  /\ exchange' = [exchange EXCEPT ![s] = "gone"]
  /\ buffer' = [buffer EXCEPT ![s] = None] /\ saved' = [saved EXCEPT ![s] = None]
  /\ flushes' = {IF f.session = s THEN [f EXCEPT !.held = buffer[s]] ELSE f : f \in flushes}
  /\ past' = [past EXCEPT !.leftover = IF FlushesOf(s) = {} THEN @ ELSE @ \cup {s}]
  /\ UNCHANGED <<panel, calls, clock, used>>

\* The daemon is stopped and started again.
Restart ==
  /\ used.restarts < Bounds.restarts /\ used' = [used EXCEPT !.restarts = @ + 1]
  /\ Stopped
  /\ UNCHANGED <<saved, panel, calls, clock, past>>

-----------------------------------------------------------------------------
(* The panel. *)

\* getSessionLlmInspect: the buffer, else the files; a torn file is an error.
Current(s) ==
  IF buffer[s] # None THEN [req |-> buffer[s].req, resp |-> buffer[s].resp]
  ELSE IF saved[s] = None THEN NoSnapshot ELSE saved[s]
Fails(s) == exchange[s] = "gone" \/ (buffer[s] = None /\ Torn \in {Current(s).req, Current(s).resp})

\* Faulty computeSessionLlmInspectETag: of the request only
RequestETag(s) == <<Current(s).req, 0>>

\* computeSessionLlmInspectETag
computeSessionLlmInspectETag(s) == <<Current(s).req, Current(s).resp.at>>

Ask(kind, s, etag, before) ==
  /\ used.asked < Bounds.asked /\ used' = [used EXCEPT !.asked = @ + 1]
  /\ calls' = before \cup {[n |-> used.asked, kind |-> kind, session |-> s, sent |-> etag, step |-> "sent",
                            etag |-> None, data |-> None, told |-> None, late |-> FALSE]}

\* The requests that survive a change of the panel: the effect's own is cancelled, those
\* of refresh go on and are late.
Late(cs) == {[c EXCEPT !.late = TRUE] : c \in cs}
Refreshes == Late({c \in calls : c.kind = "refresh"})

\* The panel is opened for s, or its session changes: etagRef and inspect stay.
Show(s) ==
  /\ exchange[s] # "gone" /\ ~(panel.enabled /\ panel.session = s)
  /\ Ask("effect", s, panel.etag, Refreshes)
  /\ panel' = [panel EXCEPT !.session = s, !.enabled = TRUE, !.told = None]
  /\ UNCHANGED <<buffer, saved, exchange, flushes, clock, past>>

\* Another tab of the right panel is opened: enabled is false, the hook stays mounted.
Hide ==
  /\ panel.enabled
  /\ calls' = Refreshes
  /\ panel' = [Closed EXCEPT !.session = panel.session]
  /\ UNCHANGED <<buffer, saved, exchange, flushes, clock, used, past>>

\* refresh, from the interval while the session streams or when the stream has ended
refresh ==
  /\ panel.enabled
  /\ Ask("refresh", panel.session, panel.etag, calls)
  /\ UNCHANGED <<buffer, saved, exchange, flushes, panel, clock, past>>

\* GET /sessions/:sessionId/llm-inspect
Answer(c) ==
  LET s == c.session etag == computeSessionLlmInspectETag(s) IN
  /\ c.step = "sent"
  /\ calls' = (calls \ {c}) \cup
       {IF Fails(s) THEN [c EXCEPT !.step = "failed"]
        ELSE [c EXCEPT !.step = "answered", !.etag = etag, !.told = Current(s),
                       !.data = IF c.sent = etag THEN None ELSE Current(s)]}
  /\ UNCHANGED <<buffer, saved, exchange, flushes, panel, clock, used, past>>

\* The answer in the panel.  The requests that are under way are late from now on.
\* past.late: a late answer came in, and no full one since.
Apply(c) ==
  /\ c.step # "sent"
  /\ panel' = IF c.step = "failed" THEN panel
              ELSE [panel EXCEPT !.etag = c.etag, !.told = c.told,
                                 !.inspect = IF c.data = None THEN @ ELSE c.data]
  /\ calls' = Late(calls \ {c})
  /\ past' = [past EXCEPT !.late = IF c.step = "failed" THEN @ ELSE c.late \/ (@ /\ c.data = None)]
  /\ UNCHANGED <<buffer, saved, exchange, flushes, clock, used>>

-----------------------------------------------------------------------------

Next ==
  \/ \E s \in Sessions : CaptureRequest(s) \/ CaptureStatus(s) \/ TurnEnd(s) \/ EndWithoutTurn(s)
                           \/ Delete(s) \/ Show(s)
  \/ \E f \in flushes : Mkdir(f) \/ WriteFails(f) \/ WriteRequest(f) \/ WriteResponse(f) \/ MarkClean(f)
  \/ \E c \in calls : Answer(c) \/ Apply(c)
  \/ Restart \/ Hide \/ refresh

Spec == Init /\ [][Next]_vars

-----------------------------------------------------------------------------

Buffers == [req : Nat, resp : Responses, dirty : BOOLEAN]
Maybe(S) == {None} \cup S
Flushes(steps, texts) == [session : Sessions, began : Nat, step : steps, text : texts, held : Maybe(Buffers)]
TypedFlush(f) == IF f.step = "response" THEN f \in Flushes({"response"}, Responses)
                 ELSE f \in Flushes({"mkdir", "made", "request"}, Nat)
ETags == Nat \X Nat
Calls == [n : Nat, kind : {"effect", "refresh"}, session : Sessions, sent : Maybe(ETags),
          step : {"sent", "answered", "failed"}, etag : Maybe(ETags), data : Maybe(Snapshots),
          told : Maybe(Snapshots), late : BOOLEAN]

Panels == [session : Maybe(Sessions), enabled : BOOLEAN, inspect : Maybe(Snapshots), etag : Maybe(ETags),
           told : Maybe(Snapshots)]
Pasts == [mixed : SUBSET Sessions, leftover : SUBSET Sessions, late : BOOLEAN, ended : BOOLEAN]

TypeOK ==
  /\ buffer \in [Sessions -> Maybe(Buffers)]
  /\ saved \in [Sessions -> Maybe(Files)]
  /\ exchange \in [Sessions -> {"idle", "sent", "answered", "gone"}]
  /\ \A f \in flushes : TypedFlush(f)
  /\ panel \in Panels
  /\ panel.enabled => panel.session \in Sessions
  /\ calls \subseteq Calls
  /\ clock \in Nat /\ used \in [asked : Nat, restarts : Nat]
  /\ past \in Pasts

\* Which buffers and which files there are, by the state of the exchange and of the flushes
BuffersThere ==
  /\ \A s \in Sessions : /\ exchange[s] \in {"sent", "answered"} => buffer[s] # None
                         /\ exchange[s] = "gone" => buffer[s] = None
  /\ \A f \in flushes : /\ Held(f) # None
                        /\ f.held # None => exchange[f.session] = "gone"
                        /\ f.session \notin past.leftover =>
                             exchange[f.session] # "gone" /\ (f.step # "mkdir" => saved[f.session] # None)

\* A flush that nobody disturbs writes the buffer as it is, and nobody else writes meanwhile.
FlushWritesBuffer ==
  \A s \in Sessions \ past.mixed : \A f \in FlushesOf(s) :
    /\ FlushesOf(s) = {f}
    /\ f.held = None =>
         /\ buffer[s].dirty
         /\ f.step = "request" => f.text = buffer[s].req
         /\ f.step = "response" => f.text = buffer[s].resp /\ (saved[s] # None => saved[s].req = buffer[s].req)

\* The responses that are kept anywhere
Kept ==
  LET There(S) == S \ {None} IN
  {NoResponse}
    \cup {b.resp : b \in There({buffer[s] : s \in Sessions} \cup {f.held : f \in flushes})}
    \cup ({b.resp : b \in There({saved[s] : s \in Sessions})} \ {Torn})
    \cup {f.text : f \in {g \in flushes : g.step = "response"}}
    \cup {b.resp : b \in There({panel.inspect, panel.told} \cup {c.told : c \in calls} \cup {c.data : c \in calls})}

\* The time of a response identifies it.
TimesIdentify == \A r, q \in Kept : r.at <= clock /\ (r.at = q.at => r = q)

TagOf(snapshot) == <<snapshot.req, snapshot.resp.at>>

\* The ETag of the panel is that of what it displays, and an answer on its way is right.
TagsTell ==
  /\ ~past.late /\ panel.etag # None => panel.inspect # None /\ panel.etag = TagOf(panel.inspect)
  /\ \A c \in calls :
       /\ ~c.late => c.sent = panel.etag
       /\ c.step = "answered" => /\ c.told # None /\ c.etag = TagOf(c.told)
                                 /\ c.data = IF c.sent = c.etag THEN None ELSE c.told

\* A buffer that is marked clean is on disk, request and response of the same moment,
\* unless it was changed or flushed once more while a flush was writing it.
CleanIsSaved ==
  \A s \in Sessions \ past.mixed :
    buffer[s] # None /\ ~buffer[s].dirty => saved[s] = [req |-> buffer[s].req, resp |-> buffer[s].resp]

\* Nothing stays of a deleted session, in memory or on disk, and the daemon survives its
\* deletion, unless a flush was under way when it was deleted.
DeletedIsGone ==
  /\ \A s \in Sessions \ past.leftover : exchange[s] = "gone" => buffer[s] = None /\ saved[s] = None
  /\ past.ended => past.leftover # {}

\* What the panel displays is what the daemon had when it answered last, also when it
\* answered that nothing has changed.  Excepted are answers that were under way while the
\* panel was closed, changed its session or received another answer, and what follows such
\* an answer until the next one that is not "not modified".
PanelIsTold ==
  ~past.late /\ panel.enabled /\ panel.told # None => panel.inspect = panel.told

LlmInspectInv ==
  /\ TypeOK /\ BuffersThere /\ FlushWritesBuffer /\ TimesIdentify /\ TagsTell
  /\ CleanIsSaved /\ DeletedIsGone /\ PanelIsTold
=============================================================================
