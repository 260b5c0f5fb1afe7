--------------------------- MODULE SessionEventHub ---------------------------
(***************************************************************************)
(* How the CLI daemon broadcasts the SSE events of one session             *)
(* (packages/cli/src/daemon/event-hub.ts).                                 *)
(*                                                                         *)
(* The hub awaits every write, so publishes, replays and reconnecting      *)
(* clients interleave at the writes.  What the code keeps across an await  *)
(* is a REFERENCE: a publish holds the Map object it found when it began   *)
(* and iterates over it live (a JS Map visits entries added meanwhile and  *)
(* skips deleted ones), and a replay holds the array it took from          *)
(* pendingEvents.  Map objects are therefore first-class here, named by    *)
(* the subscriber for which subscribe created them.                        *)
(*                                                                         *)
(* Sessions share nothing in the hub, so the module has one session.       *)
(* Subscribers are numbered in the order in which they subscribe, which is *)
(* the insertion order of the Maps.                                        *)
(***************************************************************************)
EXTENDS Naturals, Sequences, SequencesExt

CONSTANTS
    NSubs,        \* SSE connections over the life of the session
    Publishers,   \* the turn, the title service, ...: each awaits its publishes
    MaxSent,      \* events each publisher publishes
    MAX_PENDING_EVENTS

ASSUME HubAssumption ==
    /\ NSubs \in Nat /\ MaxSent \in Nat
    /\ MAX_PENDING_EVENTS \in Nat \ {0}

Subs == 1..NSubs
NoMap == 0
Events == Publishers \X (1..MaxSent)

VARIABLES
    current,     \* the Map object in `subscribers`, or NoMap
    members,     \* members[m]: the subscribers in Map object m
    client,      \* client[x]: the connection of subscriber x
    pendingEvents,
    replay,      \* replay[x]: what replayPending(x) still has to write
    replaying,   \* the subscribers whose replay awaits a write
    publishing,  \* publishing[p]: the publish of p under way
    sent,        \* sent[p]: events p has published
    written,     \* written[x]: the events handed to the stream of x, in order
    buffered,    \* history: the events that were ever in pendingEvents
    overflowed   \* history: the events dropped by the limit

hubVars     == <<current, members, pendingEvents>>
replayVars  == <<replay, replaying>>
historyVars == <<buffered, overflowed>>
vars == <<hubVars, client, replayVars, publishing, sent, written, historyVars>>

\* A connection is "closing" when its stream is gone but its AbortSignal has
\* not fired yet: writes to it may be swallowed or throw.
ClientState == {"none", "open", "closing", "aborted"}

\* writingTo = 0: no publish under way.
Idle == [event |-> <<>>, map |-> NoMap, writingTo |-> 0, dead |-> {}, delivered |-> FALSE]

Init ==
    /\ current = NoMap
    /\ members = [m \in Subs |-> {}]
    /\ client = [x \in Subs |-> "none"]
    /\ pendingEvents = <<>>
    /\ replay = [x \in Subs |-> <<>>]
    /\ replaying = {}
    /\ publishing = [p \in Publishers |-> Idle]
    /\ sent = [p \in Publishers |-> 0]
    /\ written = [x \in Subs |-> <<>>]
    /\ buffered = {}
    /\ overflowed = {}
-----------------------------------------------------------------------------
write(x, e) == written' = [written EXCEPT ![x] = Append(@, e)]

\* Push, and drop the oldest beyond the limit.
enqueuePending(e) ==
    LET queue == Append(pendingEvents, e)
        over  == IF Len(queue) > MAX_PENDING_EVENTS THEN Len(queue) - MAX_PENDING_EVENTS ELSE 0
    IN  /\ pendingEvents' = SubSeq(queue, over + 1, Len(queue))
        /\ buffered' = buffered \cup {e}
        /\ overflowed' = overflowed \cup {queue[i] : i \in 1..over}

\* subscribers.delete when the last one leaves.
unsubscribe(x) ==
    IF current = NoMap THEN UNCHANGED <<current, members>>
    ELSE /\ members' = [members EXCEPT ![current] = @ \ {x}]
         /\ current' = IF members'[current] = {} THEN NoMap ELSE current
-----------------------------------------------------------------------------
(* subscribe and replayPending                                             *)

\* replayPending up to its first write: the buffer is taken over whole, also
\* by a client that is already gone.
StartReplay(x) ==
    IF pendingEvents = <<>>
    THEN UNCHANGED <<pendingEvents, replayVars, written>>
    ELSE /\ pendingEvents' = <<>>
         /\ IF client'[x] = "aborted"
            THEN UNCHANGED <<replayVars, written>>
            ELSE /\ write(x, Head(pendingEvents))
                 /\ replay' = [replay EXCEPT ![x] = Tail(pendingEvents)]
                 /\ replaying' = replaying \cup {x}

\* Faulty subscribe: each connection starts a Map of its own.
SubscribeFresh(x) ==
    /\ client[x] = "none"
    /\ \A y \in Subs : y < x => client[y] # "none"
    /\ client' = [client EXCEPT ![x] = "open"]
    /\ current' = x
    /\ members' = [members EXCEPT ![x] = {x}]
    /\ StartReplay(x)
    /\ UNCHANGED <<publishing, sent, historyVars>>

\* The handler awaits sessionStore.get first, so that the request may already
\* be aborted; then no abort event follows and onAbort never runs.
subscribe(x) ==
    /\ client[x] = "none"
    /\ \A y \in Subs : y < x => client[y] # "none"
    /\ \E state \in {"open", "aborted"} : client' = [client EXCEPT ![x] = state]
    /\ LET m == IF current = NoMap THEN x ELSE current
       IN  /\ current' = m
           /\ members' = [members EXCEPT ![m] = @ \cup {x}]
    /\ StartReplay(x)
    /\ UNCHANGED <<publishing, sent, historyVars>>

EndReplay(x) ==
    /\ replaying' = replaying \ {x}
    /\ replay' = [replay EXCEPT ![x] = <<>>]

\* The awaited write came back: the next one, unless the client left.
replayNext(x) ==
    /\ x \in replaying
    /\ IF replay[x] = <<>> \/ client[x] = "aborted"
       THEN EndReplay(x) /\ UNCHANGED written
       ELSE /\ write(x, Head(replay[x]))
            /\ replay' = [replay EXCEPT ![x] = Tail(@)]
            /\ UNCHANGED replaying
    /\ UNCHANGED <<hubVars, client, publishing, sent, historyVars>>

\* The awaited write threw: the rest of the replay is dropped.
replayThrows(x) ==
    /\ x \in replaying
    /\ client[x] # "open"
    /\ EndReplay(x)
    /\ UNCHANGED <<hubVars, client, publishing, sent, written, historyVars>>
-----------------------------------------------------------------------------
(* The connection                                                          *)

Close(x) ==
    /\ client[x] = "open"
    /\ client' = [client EXCEPT ![x] = "closing"]
    /\ UNCHANGED <<hubVars, replayVars, publishing, sent, written, historyVars>>

\* The AbortSignal fires and onAbort runs.  The SSE handler unsubscribes a
\* second time, which finds nothing to delete.
Abort(x) ==
    /\ client[x] \in {"open", "closing"}
    /\ client' = [client EXCEPT ![x] = "aborted"]
    /\ unsubscribe(x)
    /\ UNCHANGED <<pendingEvents, replayVars, publishing, sent, written, historyVars>>
-----------------------------------------------------------------------------
(* publish                                                                 *)

\* The entries of Map object m that an iterator past `last` has still to visit.
Ahead(m, last)  == {x \in members[m] : x > last}
Target(m, last) == {x \in Ahead(m, last) :
    /\ client[x] # "aborted"
    /\ \A y \in Ahead(m, last) : client[y] # "aborted" => x <= y}

\* The loop from the entry after `last` to its next write, or to its end,
\* where the dead are deleted from the Map object it holds while the map entry
\* it deletes is whatever the session has now.
Iterate(p, e, m, last, dead, delivered) ==
    LET targets == Target(m, last)
    IN  IF targets # {}
        THEN LET x == CHOOSE t \in targets : TRUE
             IN  /\ write(x, e)
                 /\ publishing' = [publishing EXCEPT ![p] =
                        [event |-> e, map |-> m, writingTo |-> x, delivered |-> delivered,
                         dead |-> dead \cup {y \in Ahead(m, last) : y < x}]]
                 /\ UNCHANGED <<hubVars, historyVars>>
        ELSE /\ members' = [members EXCEPT ![m] = @ \ (dead \cup Ahead(m, last))]
             /\ current' = IF members'[m] = {} THEN NoMap ELSE current
             /\ IF delivered THEN UNCHANGED <<pendingEvents, historyVars>> ELSE enqueuePending(e)
             /\ publishing' = [publishing EXCEPT ![p] = Idle]
             /\ UNCHANGED written

\* Faulty publish: nothing is kept for the clients to come.
PublishLiveOnly(p) ==
    /\ publishing[p] = Idle
    /\ sent[p] < MaxSent
    /\ sent' = [sent EXCEPT ![p] = @ + 1]
    /\ IF current = NoMap
       THEN UNCHANGED <<hubVars, historyVars, publishing, written>>
       ELSE Iterate(p, <<p, sent[p] + 1>>, current, 0, {}, FALSE)
    /\ UNCHANGED <<client, replayVars>>

publish(p) ==
    /\ publishing[p] = Idle
    /\ sent[p] < MaxSent
    /\ sent' = [sent EXCEPT ![p] = @ + 1]
    /\ LET e == <<p, sent[p] + 1>>
       IN  IF current = NoMap
           THEN enqueuePending(e) /\ UNCHANGED <<current, members, publishing, written>>
           ELSE Iterate(p, e, current, 0, {}, FALSE)
    /\ UNCHANGED <<client, replayVars>>

\* The awaited write came back.
WriteReturns(p) ==
    LET w == publishing[p]
    IN  /\ w # Idle
        /\ Iterate(p, w.event, w.map, w.writingTo, w.dead, TRUE)
        /\ UNCHANGED <<client, replayVars, sent>>

\* The awaited write threw.
WriteThrows(p) ==
    LET w == publishing[p]
    IN  /\ w # Idle
        /\ client[w.writingTo] # "open"
        /\ Iterate(p, w.event, w.map, w.writingTo, w.dead \cup {w.writingTo}, w.delivered)
        /\ UNCHANGED <<client, replayVars, sent>>
-----------------------------------------------------------------------------
ClientStep(x) == subscribe(x) \/ Close(x) \/ Abort(x)
ReplayStep(x) == replayNext(x) \/ replayThrows(x)
WriteStep(p)  == WriteReturns(p) \/ WriteThrows(p)

Next ==
    \/ \E x \in Subs : ClientStep(x) \/ ReplayStep(x)
    \/ \E p \in Publishers : publish(p) \/ WriteStep(p)

Spec == Init /\ [][Next]_vars

\* Writes come back; clients and publishers owe nothing.
FairSpec ==
    /\ Spec
    /\ \A x \in Subs : WF_vars(ReplayStep(x))
    /\ \A p \in Publishers : WF_vars(WriteStep(p))
-----------------------------------------------------------------------------
HubTypeOK ==
    /\ current \in Subs \cup {NoMap}
    /\ members \in [Subs -> SUBSET Subs]
    /\ client \in [Subs -> ClientState]
    /\ pendingEvents \in Seq(Events)
    /\ replay \in [Subs -> Seq(Events)]
    /\ replaying \subseteq Subs
    /\ publishing \in [Publishers ->
          [event : Events \cup {<<>>}, map : Subs \cup {NoMap}, writingTo : 0..NSubs,
           dead : SUBSET Subs, delivered : BOOLEAN]]
    /\ sent \in [Publishers -> 0..MaxSent]
    /\ written \in [Subs -> Seq(Events)]
    /\ buffered \subseteq Events
    /\ overflowed \subseteq Events

\* A Map in use has a member; nothing is left to replay outside a replay; a
\* publish under way is its publisher's last, on a Map and a subscriber.
MapsInUse ==
    /\ current # NoMap => members[current] # {}
    /\ \A x \in Subs : x \notin replaying => replay[x] = <<>>
    /\ \A p \in Publishers : publishing[p] # Idle =>
          /\ publishing[p].event = <<p, sent[p]>>
          /\ publishing[p].map # NoMap
          /\ publishing[p].writingTo # 0
          /\ client[publishing[p].writingTo] # "none"

InFlight(e) == \E p \in Publishers : publishing[p].event = e
WrittenTo(x) == ToSet(written[x])
Seen == UNION {WrittenTo(x) : x \in Subs}

\* A client gets an event at most once, whether from the buffer, from a
\* publish that was under way when it connected, or from both.
NoDuplicates == \A x \in Subs : IsInjective(written[x])

\* The buffer never grows beyond its limit, keeps the events of a publisher in
\* their order and holds nothing twice.
PendingOrdered ==
    /\ Len(pendingEvents) <= MAX_PENDING_EVENTS
    /\ \A i, j \in 1..Len(pendingEvents) :
          i < j /\ pendingEvents[i][1] = pendingEvents[j][1] => pendingEvents[i][2] < pendingEvents[j][2]

\* An event that is over its publish was written to a client or went to the
\* buffer: a publish never loses its event, whatever the clients do meanwhile.
PublishKeepsEvent ==
    \A p \in Publishers : \A n \in 1..sent[p] :
        \/ InFlight(<<p, n>>)
        \/ <<p, n>> \in Seen
        \/ <<p, n>> \in buffered

\* Buffered events are not lost: each is still buffered, is being replayed,
\* was written to a client, or was dropped by the limit.
BufferedKept ==
    \A e \in buffered :
        \/ e \in ToSet(pendingEvents)
        \/ \E x \in Subs : e \in ToSet(replay[x])
        \/ e \in Seen
        \/ e \in overflowed

\* A connected client is in the Map that the next publish will use.
LiveIsRegistered ==
    \A x \in Subs : client[x] = "open" => current # NoMap /\ x \in members[current]

\* Browsers that stay.
NobodyLeft == \A x \in Subs : client[x] \in {"none", "open"}

\* While nobody has left, connected clients are registered and no buffered
\* event is lost.  (Neither holds of clients that leave.)
StayersServed == NobodyLeft => LiveIsRegistered /\ BufferedKept

\* Whose turn an event is: it is published when it is anywhere; what waits in
\* the buffer or a replay is not under way, and a replay still owes it to its
\* client; a publish has written its event only to entries it has passed.
DeliveryInv ==
    /\ \A x \in Subs : client[x] = "none" =>
          written[x] = <<>> /\ replay[x] = <<>> /\ \A m \in Subs : x \notin members[m]
    /\ \A x \in Subs : \A e \in WrittenTo(x) : e[2] <= sent[e[1]]
    /\ \A e \in ToSet(pendingEvents) : e[2] <= sent[e[1]] /\ ~InFlight(e)
    /\ \A x \in Subs : \A e \in ToSet(replay[x]) :
          e[2] <= sent[e[1]] /\ ~InFlight(e) /\ e \notin WrittenTo(x)
    /\ \A x \in Subs : IsInjective(replay[x])
    /\ \A p \in Publishers : publishing[p] # Idle =>
          LET w == publishing[p]
          IN  /\ w.event \in WrittenTo(w.writingTo)
              /\ \A x \in Subs : x > w.writingTo => w.event \notin WrittenTo(x)
              /\ NobodyLeft => w.map = current /\ w.dead = {}

\* The Maps, the buffer, the clients and every publish at any await: events are neither
\* duplicated nor lost by their publish, the buffer is bounded and in order, and clients
\* that stay are served.
HubInv ==
    /\ HubTypeOK /\ MapsInUse /\ DeliveryInv
    /\ NoDuplicates /\ PendingOrdered /\ PublishKeepsEvent /\ StayersServed

\* If nobody leaves, then once a client is connected whatever was published
\* before it came or comes later is written to some client, unless the limit
\* drops it.
EventsArrive == []NobodyLeft => \A p \in Publishers : \A n \in 1..MaxSent :
    (sent[p] >= n /\ \E x \in Subs : client[x] = "open")
        ~> (<<p, n>> \in Seen \/ <<p, n>> \in overflowed)
=============================================================================
