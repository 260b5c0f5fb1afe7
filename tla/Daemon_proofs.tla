----------------------------- MODULE Daemon_proofs -----------------------------
(***************************************************************************)
(* Proofs about two parts of the daemon that share no state: the event hub *)
(* (SessionEventHub) and the market packages of the machine                *)
(* (MarketInstaller).                                                      *)
(*                                                                         *)
(* HubInv is inductive, for any number of clients, publishers and events   *)
(* and any limit of the buffer.                                            *)
(*                                                                         *)
(* MarketInv holds for any packages, versions, agents and operations.  It  *)
(* is not inductive: MarketInd adds what each operation knows at each of   *)
(* its steps.  Every action is first shown to be a step of one of twelve   *)
(* shapes (Works); each part of MarketInd is then shown for the shapes.    *)
(***************************************************************************)
EXTENDS SessionEventHub, MarketInstaller, SequenceTheorems, WellFoundedInduction, TLAPS

-----------------------------------------------------------------------------
(* Market packages: what operations know. *)

OnAssets == {"check", "remove", "place", "placing", "read", "truncate", "writing"}
OffAssets == {"idle", "ready", "ended", "fetch", "compare", "lookup", "agent"}
Kinds == {"install", "update", "uninstall", "sync"}
Files == {f \in [torn : BOOLEAN, packages : [Packages -> Versions]] :
            \A p \in Packages : f.packages[p] \in DOMAIN Contents[p] \cup {0}}
Operation == [kind : Kinds \cup Agents \cup {None}, package : Packages \cup {None}, version : Versions,
              step : OnAssets \cup OffAssets, todo : Seq(Assets), read : Files \cup {None}]

Past == [lost : BOOLEAN, clash : BOOLEAN, dropped : SUBSET Assets, late : SUBSET Agents]

Pages == {g \in [device : BOOLEAN, package : Packages \cup {None}, installed : Versions, latest : Versions,
                 op : Ops \cup {None}] : g.op # None => g.package # None}

\* Every value stays in its set.
MarketTypes ==
  /\ disk \in [Assets -> Nat \cup {Torn}] /\ file \in Files
  /\ op \in [Ops -> Operation]
  /\ agents \in [Agents -> Personas \cup {None, Torn}]
  /\ page \in Pages
  /\ bound \in [commands : Nat, faults : Nat] /\ past \in Past

Elems(s) == {s[i] : i \in 1 .. Len(s)}

\* What an operation knows at each of its steps
InOrder(r) ==
  /\ r.step \in OnAssets \cup {"fetch", "compare", "lookup"} => r.package \in Packages /\ r.kind \in Kinds
  /\ r.step \in OnAssets \cup {"compare", "lookup"} => r.version \in DOMAIN Contents[r.package]
  /\ r.step \in {"remove", "place", "placing"} => r.todo # <<>> /\ Elems(r.todo) \subseteq Everything(r.package)
  /\ r.step \in {"place", "placing"} => Elems(r.todo) \subseteq AssetsOf(r.package, r.version)
  /\ r.step = "check" => r.kind = "uninstall"
  /\ r.step \in {"fetch", "compare", "lookup", "place", "placing", "read"} => r.kind # "uninstall"
  /\ (r.step \in {"truncate", "writing"} \/ (r.step \in OnAssets /\ r.kind = "uninstall")) => r.read \in Files
  /\ r.step = "agent" => r.kind \in Agents /\ r.todo # <<>> /\ r.todo[1] \in Personas

StepsInOrder == \A o \in Ops : InOrder(op[o])

-----------------------------------------------------------------------------
\* Lemmas about sequences and packages.

LEMMA SeqFacts ==
    ASSUME NEW S, NEW s \in Seq(S), s # <<>>
    PROVE  /\ Head(s) = s[1] /\ Head(s) \in S /\ Head(s) \in Elems(s)
           /\ Tail(s) \in Seq(S)
           /\ Elems(Tail(s)) \subseteq Elems(s)
           /\ Elems(s) \subseteq Elems(Tail(s)) \cup {Head(s)}
           /\ Len(s) = 1 <=> Tail(s) = <<>>
<1>1. Len(s) \in Nat /\ Len(s) >= 1 /\ Head(s) = s[1]
  OBVIOUS
<1>2. Tail(s) \in Seq(S) /\ Len(Tail(s)) = Len(s) - 1 /\ \A i \in 1 .. Len(s) - 1 : Tail(s)[i] = s[i + 1]
  OBVIOUS
<1>3. Elems(Tail(s)) \subseteq Elems(s)
  BY <1>1, <1>2 DEF Elems
<1>4. ASSUME NEW a \in Elems(s) PROVE a \in Elems(Tail(s)) \cup {Head(s)}
  <2>1. PICK i \in 1 .. Len(s) : a = s[i]
    BY DEF Elems
  <2>2. CASE i = 1
    BY <2>1, <2>2, <1>1
  <2>3. CASE i # 1
    <3>1. i - 1 \in 1 .. Len(s) - 1
      BY <2>1, <2>3, <1>1
    <3>2. Tail(s)[i - 1] = s[i]
      BY <3>1, <1>2, <1>1, <2>1
    <3> QED
      BY <3>1, <3>2, <1>2, <2>1 DEF Elems
  <2> QED
    BY <2>2, <2>3
<1>5. Head(s) \in S /\ Head(s) \in Elems(s)
  BY <1>1 DEF Elems
<1>6. Len(s) = 1 <=> Tail(s) = <<>>
  <2> DEFINE t == Tail(s)
  <2>1. t \in Seq(S) /\ Len(t) = Len(s) - 1
    BY <1>2
  <2> HIDE DEF t
  <2>2. Len(t) = 0 <=> t = <<>>
    BY <2>1, EmptySeq
  <2>3. Len(s) = 1 <=> t = <<>>
    BY <2>1, <2>2, <1>1
  <2> QED
    BY <2>3 DEF t
<1>7. Elems(s) \subseteq Elems(Tail(s)) \cup {Head(s)}
  BY <1>4
<1>8. Tail(s) \in Seq(S) /\ Head(s) = s[1]
  BY <1>1, <1>2
<1> QED
  BY <1>3, <1>5, <1>6, <1>7, <1>8

LEMMA PackageFacts ==
    ASSUME NEW p \in Packages, NEW v \in DOMAIN Contents[p] \cup {0}
    PROVE  /\ AssetsOf(p, v) \subseteq Everything(p) /\ Everything(p) \subseteq Assets
           /\ v \in Versions /\ v \in Nat /\ v # Torn
           /\ v # 0 => /\ Contents[p][v] \in Seq(Assets) /\ Elems(Contents[p][v]) = AssetsOf(p, v)
                       /\ (Contents[p][v] = <<>> => AssetsOf(p, v) = {})
           /\ AssetsOf(p, 0) = {}
<1>1. v \in Versions /\ v \in Nat /\ v # Torn
  BY MarketAssumption DEF Versions
<1>2. AssetsOf(p, v) \subseteq Everything(p)
  BY DEF AssetsOf, Everything
<1>3. Everything(p) \subseteq Assets
  <2> SUFFICES ASSUME NEW a, a \in Everything(p) PROVE a \in Assets
    OBVIOUS
  <2>1. PICK w \in DOMAIN Contents[p] : a \in AssetsOf(p, w)
    BY DEF Everything
  <2>2. a \in {Contents[p][w][i] : i \in 1 .. Len(Contents[p][w])}
    BY <2>1 DEF AssetsOf
  <2> QED
    BY <2>2 DEF Assets
<1>4. ASSUME v # 0
      PROVE  /\ Contents[p][v] \in Seq(Assets) /\ Elems(Contents[p][v]) = AssetsOf(p, v)
             /\ (Contents[p][v] = <<>> => AssetsOf(p, v) = {})
  <2>1. v \in DOMAIN Contents[p]
    BY <1>4
  <2>2. Contents[p][v] \in Seq(Assets)
    BY <2>1, MarketAssumption
  <2>3. Elems(Contents[p][v]) = AssetsOf(p, v)
    BY <1>4 DEF Elems, AssetsOf
  <2>4. Contents[p][v] = <<>> => AssetsOf(p, v) = {}
    BY <1>4 DEF AssetsOf
  <2> QED
    BY <2>2, <2>3, <2>4
<1>5. AssetsOf(p, 0) = {}
  BY DEF AssetsOf
<1> QED
  BY <1>1, <1>2, <1>3, <1>4, <1>5

\* No asset belongs to two packages.
LEMMA OnePackage ==
    ASSUME NEW p \in Packages, NEW q \in Packages, NEW a \in Everything(p), a \in Everything(q)
    PROVE  p = q
BY MarketAssumption

LEMMA PersonaHasPackage ==
    ASSUME NEW a \in Assets
    PROVE  \E p \in Packages : a \in Everything(p)
<1>1. PICK p \in Packages : a \in UNION {{Contents[p][v][i] : i \in 1 .. Len(Contents[p][v])} : v \in DOMAIN Contents[p]}
  BY DEF Assets
<1>2. PICK v \in DOMAIN Contents[p] : a \in {Contents[p][v][i] : i \in 1 .. Len(Contents[p][v])}
  BY <1>1
<1>3. v # 0
  BY MarketAssumption
<1>4. a \in AssetsOf(p, v)
  BY <1>2, <1>3 DEF AssetsOf
<1> QED
  BY <1>4 DEF Everything

LEMMA RegisteredFacts ==
    ASSUME NEW f \in Files, NEW p \in Packages
    PROVE  /\ Registered(f)[p] \in DOMAIN Contents[p] \cup {0}
           /\ Registered(f) \in [Packages -> Versions]
           /\ Registered(f)[p] # 0 => ~f.torn
           /\ ~f.torn => Registered(f) = f.packages
<1>1. 0 \in Versions
  BY DEF Versions
<1>2. f.packages \in [Packages -> Versions] /\ f.torn \in BOOLEAN /\ f.packages[p] \in DOMAIN Contents[p] \cup {0}
  BY DEF Files
<1> QED
  BY <1>1, <1>2 DEF Registered, NoPackages

-----------------------------------------------------------------------------
\* What the actions do.

\* n is r when what r had to remove is gone.
IsRemoved(r, n) ==
  /\ n \in Operation /\ InOrder(n)
  /\ n.kind = r.kind /\ n.package = r.package /\ n.version = r.version /\ n.read = r.read
  /\ \/ r.todo # <<>> /\ n.step = r.step /\ n.todo = r.todo
     \/ r.todo = <<>> /\ r.kind = "uninstall" /\ n.step = "truncate"
     \/ r.todo = <<>> /\ r.kind # "uninstall" /\ n.step = "read" /\ AssetsOf(r.package, r.version) = {}
     \/ r.todo = <<>> /\ r.kind # "uninstall" /\ n.step = "place" /\ Elems(n.todo) = AssetsOf(r.package, r.version)

LEMMA RemovedFacts ==
    ASSUME NEW r \in Operation, r.step = "remove", r.package \in Packages, r.kind \in Kinds,
           r.version \in DOMAIN Contents[r.package],
           r.kind = "uninstall" => r.read \in Files,
           Elems(r.todo) \subseteq Everything(r.package)
    PROVE  IsRemoved(r, Removed(r))
<1> DEFINE c == Contents[r.package][r.version]
<1>1. /\ c \in Seq(Assets) /\ Elems(c) = AssetsOf(r.package, r.version) /\ (c = <<>> => AssetsOf(r.package, r.version) = {})
      /\ AssetsOf(r.package, r.version) \subseteq Everything(r.package)
  BY PackageFacts, MarketAssumption
<1>2. CASE r.todo # <<>>
  <2>1. Removed(r) = r
    BY <1>2 DEF Removed
  <2> QED
    BY <2>1, <1>2 DEF IsRemoved, InOrder, OnAssets
<1>3. CASE r.todo = <<>> /\ r.kind = "uninstall"
  <2> DEFINE n == [r EXCEPT !.step = "truncate"]
  <2>1. Removed(r) = n
    BY <1>3 DEF Removed
  <2>2. n \in Operation /\ n.kind = r.kind /\ n.package = r.package /\ n.version = r.version /\ n.read = r.read
        /\ n.step = "truncate"
    BY DEF Operation, OnAssets
  <2> HIDE DEF n
  <2>3. InOrder(n)
    BY <2>2, <1>3 DEF InOrder, OnAssets
  <2> QED
    BY <2>1, <2>2, <2>3, <1>3 DEF IsRemoved
<1>4. CASE r.todo = <<>> /\ r.kind # "uninstall"
  <2> DEFINE n == [r EXCEPT !.step = IF c = <<>> THEN "read" ELSE "place", !.todo = c]
  <2>1. Removed(r) = n
    BY <1>4 DEF Removed
  <2>2. n \in Operation /\ n.kind = r.kind /\ n.package = r.package /\ n.version = r.version /\ n.read = r.read
        /\ n.step = (IF c = <<>> THEN "read" ELSE "place") /\ n.todo = c
    BY <1>1 DEF Operation, OnAssets
  <2> HIDE DEF n
  <2>3. InOrder(n)
    BY <2>2, <1>1, <1>4 DEF InOrder, OnAssets
  <2>4. CASE c = <<>>
    BY <2>1, <2>2, <2>3, <2>4, <1>1, <1>4 DEF IsRemoved
  <2>5. CASE c # <<>>
    BY <2>1, <2>2, <2>3, <2>5, <1>1, <1>4 DEF IsRemoved
  <2> QED
    BY <2>4, <2>5
<1> QED
  BY <1>2, <1>3, <1>4

\* The operation o, and none else, takes a step; what the past holds stays in it.
Step1(o) ==
  /\ op' \in [Ops -> Operation] /\ (\A q \in Ops \ {o} : op'[q] = op[q]) /\ InOrder(op'[o])
  /\ past' \in Past /\ (past.clash => past'.clash) /\ (past.lost => past'.lost)
  /\ past.dropped \subseteq past'.dropped /\ past.late \subseteq past'.late
  /\ bound'.faults = bound.faults

Keeps(o) == op'[o].kind = op[o].kind /\ op'[o].package = op[o].package /\ op'[o].version = op[o].version

Remembers == past'.lost = past.lost /\ past'.dropped = past.dropped /\ past'.late = past.late

Idling(o) ==
  /\ op[o].step \in OffAssets /\ op'[o].step \in OffAssets
  /\ UNCHANGED <<disk, file, agents>> /\ Remembers

Beginning(o) ==
  LET n == op'[o] IN
  /\ op[o].step \in OffAssets /\ n.step = "check" /\ n.kind = "uninstall" /\ n.read = file
  /\ n.version = Registered(file)[n.package] /\ n.version # 0
  /\ (~past'.clash => Working(n.package) = {})
  /\ UNCHANGED <<disk, file, agents>> /\ Remembers

LookedUp(o) ==
  LET p == op[o].package n == op'[o] previous == Registered(file)[p] IN
  /\ op[o].step = "lookup" /\ Keeps(o)
  /\ \/ previous # 0 /\ n.step = "remove" /\ Elems(n.todo) = AssetsOf(p, previous)
     \/ AssetsOf(p, previous) = {} /\ n.step = "read" /\ AssetsOf(p, n.version) = {}
     \/ AssetsOf(p, previous) = {} /\ n.step = "place" /\ Elems(n.todo) = AssetsOf(p, n.version)
  /\ (~past'.clash => Working(p) = {}) /\ (~past'.lost => ~file.torn)
  /\ past'.dropped = past.dropped \cup (AssetsOf(p, previous) \ AssetsOf(p, n.version))
  /\ past'.lost = (past.lost \/ file.torn) /\ past'.late = past.late
  /\ UNCHANGED <<disk, file, agents>>

Removing(o) ==
  LET r == op[o] n == op'[o] IN
  /\ r.step = "remove" /\ Keeps(o) /\ n.read = r.read
  /\ disk' = [disk EXCEPT ![Head(r.todo)] = 0]
  /\ \/ n.step = "remove" /\ n.todo = Tail(r.todo)
     \/ Tail(r.todo) = <<>> /\ r.kind = "uninstall" /\ n.step = "truncate"
     \/ Tail(r.todo) = <<>> /\ r.kind # "uninstall" /\ n.step = "read" /\ AssetsOf(r.package, r.version) = {}
     \/ Tail(r.todo) = <<>> /\ r.kind # "uninstall" /\ n.step = "place" /\ Elems(n.todo) = AssetsOf(r.package, r.version)
  /\ UNCHANGED <<file, agents, past>>

Placing(o) ==
  LET r == op[o] n == op'[o] IN
  /\ r.step = "place" /\ Keeps(o) /\ n.step = "placing" /\ n.todo = r.todo
  /\ disk' = [disk EXCEPT ![Head(r.todo)] = Torn]
  /\ UNCHANGED <<file, agents, past>>

PlacingDone(o) ==
  LET r == op[o] n == op'[o] IN
  /\ r.step = "placing" /\ Keeps(o)
  /\ n.step \in {"place", "read"} /\ n.todo = Tail(r.todo) /\ (n.step = "read" => Tail(r.todo) = <<>>)
  /\ disk' = [disk EXCEPT ![Head(r.todo)] = r.version]
  /\ UNCHANGED <<file, agents, past>>

Reading(o) ==
  /\ op[o].step = "read" /\ Keeps(o) /\ op'[o].step = "truncate"
  /\ UNCHANGED <<disk, file, agents, past>>

Truncating(o) ==
  /\ op[o].step = "truncate" /\ Keeps(o) /\ op'[o].step = "writing" /\ op'[o].read = op[o].read
  /\ file' = [file EXCEPT !.torn = TRUE]
  /\ past' = [past EXCEPT !.lost = @ \/ file # op[o].read \/ \E q \in Ops : op[q].step = "writing"]
  /\ UNCHANGED <<disk, agents>>

Writing(o) ==
  LET r == op[o] IN
  /\ r.step = "writing" /\ op'[o].step \in OffAssets
  /\ file' = [torn |-> FALSE, packages |->
       [Registered(r.read) EXCEPT ![r.package] = IF r.kind = "uninstall" THEN 0 ELSE r.version]]
  /\ UNCHANGED <<disk, agents, past>>

Allowed(o) ==
  LET r == op[o] n == op'[o] IN
  /\ r.step = "check" /\ Keeps(o) /\ n.read = r.read
  /\ References(r.package, r.version) = {}
  /\ \/ n.step = "remove" /\ Elems(n.todo) = AssetsOf(r.package, r.version)
     \/ n.step = "truncate" /\ AssetsOf(r.package, r.version) = {}
  /\ UNCHANGED <<disk, file, agents, past>>

Refused(o) ==
  /\ op[o].step = "check" /\ op'[o].step \in OffAssets
  /\ UNCHANGED <<disk, file, agents, past>>

AgentMade(o) ==
  LET x == op[o].kind a == Head(op[o].todo) IN
  /\ op[o].step = "agent" /\ op'[o].step \in OffAssets
  /\ agents' = [agents EXCEPT ![x] = a]
  /\ past' = [past EXCEPT !.late =
       IF \/ disk[a] = 0
          \/ \E q \in Ops : op[q].kind = "uninstall" /\ op[q].step = "remove" /\ a \in AssetsOf(op[q].package, op[q].version)
       THEN @ \cup {x} ELSE @]
  /\ UNCHANGED <<disk, file>>

Works(o) ==
  /\ Step1(o)
  /\ \/ Idling(o) \/ Beginning(o) \/ LookedUp(o) \/ Removing(o) \/ Placing(o) \/ PlacingDone(o)
     \/ Reading(o) \/ Truncating(o) \/ Writing(o) \/ Allowed(o) \/ Refused(o) \/ AgentMade(o)

\* Nothing happens that the properties are about.
Rests == UNCHANGED <<disk, file, op, agents, past, bound>>

\* Operations made from IdleOp.
Made(k, p, v, st) == [IdleOp EXCEPT !.kind = k, !.package = p, !.version = v, !.step = st]
AgentMaking(k, t) == [IdleOp EXCEPT !.kind = k, !.todo = t, !.step = "agent"]

LEMMA IdleIsTyped == IdleOp \in Operation
<1>1. 0 \in Versions /\ <<>> \in Seq(Assets)
  BY DEF Versions
<1> QED
  BY <1>1 DEF IdleOp, Operation, OffAssets

LEMMA MadeOfIdle ==
    ASSUME NEW k \in Kinds, NEW p \in Packages, NEW v \in Versions, NEW st \in OffAssets
    PROVE  /\ Made(k, p, v, st) \in Operation /\ Made(k, p, v, st).kind = k /\ Made(k, p, v, st).package = p
           /\ Made(k, p, v, st).version = v /\ Made(k, p, v, st).step = st
<1> DEFINE k1 == [IdleOp EXCEPT !.kind = k]  p1 == [k1 EXCEPT !.package = p]
           v1 == [p1 EXCEPT !.version = v]  n1 == [v1 EXCEPT !.step = st]
<1>2. k1 \in Operation /\ k1.kind = k
  BY IdleIsTyped DEF Operation
<1> HIDE DEF k1
<1>3. p1 \in Operation /\ p1.kind = k /\ p1.package = p
  BY <1>2 DEF Operation
<1> HIDE DEF p1
<1>4. v1 \in Operation /\ v1.kind = k /\ v1.package = p /\ v1.version = v
  BY <1>3 DEF Operation
<1> HIDE DEF v1
<1>5. n1 \in Operation /\ n1.kind = k /\ n1.package = p /\ n1.version = v /\ n1.step = st
  BY <1>4 DEF Operation
<1>6. n1 = Made(k, p, v, st)
  BY DEF v1, p1, k1, Made
<1> HIDE DEF n1
<1> QED
  BY <1>5, <1>6

LEMMA AgentMadeOfIdle ==
    ASSUME NEW k \in Agents, NEW t \in Seq(Assets)
    PROVE  /\ AgentMaking(k, t) \in Operation /\ AgentMaking(k, t).kind = k /\ AgentMaking(k, t).todo = t
           /\ AgentMaking(k, t).step = "agent"
<1> DEFINE k1 == [IdleOp EXCEPT !.kind = k]  t1 == [k1 EXCEPT !.todo = t]  m1 == [t1 EXCEPT !.step = "agent"]
<1>1. k1 \in Operation /\ k1.kind = k
  BY IdleIsTyped DEF Operation
<1> HIDE DEF k1
<1>2. t1 \in Operation /\ t1.kind = k /\ t1.todo = t
  BY <1>1 DEF Operation
<1> HIDE DEF t1
<1>3. m1 \in Operation /\ m1.kind = k /\ m1.todo = t /\ m1.step = "agent"
  BY <1>2 DEF Operation, OffAssets
<1>4. m1 = AgentMaking(k, t)
  BY DEF t1, k1, AgentMaking
<1> HIDE DEF m1
<1> QED
  BY <1>3, <1>4

LEMMA IdleFacts ==
    /\ IdleOp \in Operation /\ IdleOp.step = "idle" /\ IdleOp.kind = None
    /\ \A st \in OffAssets : [IdleOp EXCEPT !.step = st] \in Operation /\ [IdleOp EXCEPT !.step = st].step = st
    /\ \A st \in {"idle", "ready", "ended"}, r \in Operation : r.step = st => InOrder(r)
<1>1. 0 \in Versions /\ <<>> \in Seq(Assets)
  BY DEF Versions
<1>2. IdleOp \in Operation
  BY <1>1 DEF IdleOp, Operation, OffAssets
<1>3. ASSUME NEW st \in OffAssets
      PROVE  [IdleOp EXCEPT !.step = st] \in Operation /\ [IdleOp EXCEPT !.step = st].step = st
  BY <1>1 DEF IdleOp, Operation
<1>4. ASSUME NEW st \in {"idle", "ready", "ended"}, NEW r \in Operation, r.step = st PROVE InOrder(r)
  BY <1>4 DEF InOrder, OnAssets
<1> QED
  BY <1>2, <1>3, <1>4 DEF IdleOp

LEMMA OneStep ==
    ASSUME MarketTypes, NEW o \in Ops, NEW n \in Operation, op' = [op EXCEPT ![o] = n]
    PROVE  op' \in [Ops -> Operation] /\ op'[o] = n /\ \A q \in Ops \ {o} : op'[q] = op[q]
BY DEF MarketTypes

LEMMA EndFacts ==
    ASSUME MarketTypes, NEW o \in Ops, End(o)
    PROVE  /\ op' \in [Ops -> Operation] /\ \A q \in Ops \ {o} : op'[q] = op[q]
           /\ InOrder(op'[o]) /\ op'[o].step \in OffAssets
<1> DEFINE n == IF op[o].kind = "sync" THEN [IdleOp EXCEPT !.step = "ready"]
                ELSE [IdleOp EXCEPT !.step = IF page.op = o THEN "ended" ELSE "idle"]
<1>1. op' = [op EXCEPT ![o] = n]
  BY DEF End
<1>2. n \in Operation /\ n.step \in {"idle", "ready", "ended"}
  BY IdleFacts DEF OffAssets
<1> HIDE DEF n
<1>3. InOrder(n) /\ n.step \in OffAssets
  BY <1>2, IdleFacts DEF OffAssets
<1> QED
  BY <1>1, <1>2, <1>3, OneStep

\* Begun: an uninstallation that has found its entry, or what asks the server first.
LEMMA BegunFacts ==
    ASSUME MarketTypes, NEW kind \in {"install", "update", "uninstall"}, NEW p \in Packages
    PROVE  /\ Begun(kind, p) \in Operation /\ InOrder(Begun(kind, p))
           /\ \/ Begun(kind, p).step \in {"idle", "fetch"}
              \/ /\ Begun(kind, p).step = "check" /\ kind = "uninstall" /\ Begun(kind, p).kind = kind
                 /\ Begun(kind, p).read = file /\ Begun(kind, p).package = p
                 /\ Begun(kind, p).version = Registered(file)[p] /\ Begun(kind, p).version # 0
           /\ Begun(kind, p).step = "idle" => Begun(kind, p) = IdleOp
<1> DEFINE entry == Registered(file)[p]
           r == [IdleOp EXCEPT !.kind = kind, !.package = p]
           f == [r EXCEPT !.step = "fetch"]
           c == [r EXCEPT !.step = "check", !.version = entry, !.read = file]
<1>1. file \in Files /\ entry \in DOMAIN Contents[p] \cup {0}
  BY RegisteredFacts DEF MarketTypes
<1>2. entry \in Versions
  BY <1>1, PackageFacts
<1>3. IdleOp \in Operation /\ IdleOp.step = "idle" /\ InOrder(IdleOp)
  BY IdleFacts
<1>4. r \in Operation /\ r.kind = kind /\ r.package = p
  BY <1>3 DEF Operation, Kinds
<1>5. f \in Operation /\ f.step = "fetch" /\ f.kind = kind /\ f.package = p
  BY <1>4 DEF Operation, OffAssets
<1>6. c \in Operation /\ c.step = "check" /\ c.kind = kind /\ c.package = p /\ c.version = entry /\ c.read = file
  BY <1>1, <1>2, <1>4 DEF Operation, OnAssets
<1> HIDE DEF f, c, r, entry
<1>7. Begun(kind, p) = CASE kind = "install" -> f
                         [] kind = "update" -> IF entry = 0 THEN IdleOp ELSE f
                         [] kind = "uninstall" -> IF p = BasicKit \/ entry = 0 THEN IdleOp ELSE c
  BY DEF Begun, f, c, r, entry
<1>8. kind # "uninstall" => InOrder(f)
  BY <1>5 DEF InOrder, OnAssets, Kinds
<1>9. kind = "uninstall" /\ entry # 0 => InOrder(c)
  BY <1>6, <1>1 DEF InOrder, OnAssets, Kinds
<1>10. CASE kind = "uninstall"
  BY <1>1, <1>3, <1>6, <1>7, <1>9, <1>10 DEF entry
<1>11. CASE kind # "uninstall"
  BY <1>3, <1>5, <1>7, <1>8, <1>11
<1> QED
  BY <1>10, <1>11

\* Each action of an operation is one of the steps above.
LEMMA StartWorks ==
    ASSUME MarketTypes, StepsInOrder, NEW o \in Ops, NEW v, Start(o, v)
    PROVE  MarketTypes' /\ Works(o)
<1> DEFINE n == [IdleOp EXCEPT !.kind = "sync", !.package = BasicKit, !.version = v, !.step = "compare"]
<1>1. v \in DOMAIN Contents[BasicKit] /\ BasicKit \in Packages /\ v \in Versions
  BY PackageFacts, MarketAssumption DEF Start
<1>2. n \in Operation /\ n.step = "compare" /\ n.kind = "sync" /\ n.package = BasicKit /\ n.version = v
  <2>1. "sync" \in Kinds /\ "compare" \in OffAssets
    BY DEF Kinds, OffAssets
  <2>2. n = Made("sync", BasicKit, v, "compare")
    BY DEF Made
  <2> HIDE DEF n
  <2> QED
    BY <1>1, <2>1, <2>2, MadeOfIdle
<1> HIDE DEF n
<1>3. InOrder(n)
  BY <1>1, <1>2 DEF InOrder, OnAssets, Kinds
<1>4. op' = [op EXCEPT ![o] = n] /\ bound' = [bound EXCEPT !.commands = @ + 1] /\ op[o].step = "idle"
      /\ UNCHANGED <<disk, file, agents, latest, page, past>>
  BY DEF Start, Issue, n
<1>5. op' \in [Ops -> Operation] /\ op'[o] = n /\ \A q \in Ops \ {o} : op'[q] = op[q]
  BY <1>2, <1>4, OneStep
<1>6. bound' \in [commands : Nat, faults : Nat] /\ bound'.faults = bound.faults
  BY <1>4 DEF MarketTypes
<1>7. MarketTypes'
  BY <1>4, <1>5, <1>6 DEF MarketTypes
<1>8. Step1(o)
  BY <1>3, <1>4, <1>5, <1>6 DEF Step1, MarketTypes
<1>9. Idling(o)
  BY <1>2, <1>4, <1>5 DEF Idling, OffAssets, Remembers
<1> QED
  BY <1>7, <1>8, <1>9 DEF Works

\* An operation that is issued and leaves the assets alone
LEMMA IssueWorks ==
    ASSUME MarketTypes, StepsInOrder, NEW o \in Ops, NEW n \in Operation, InOrder(n), n.step \in OffAssets,
           op[o].step \in OffAssets, op' = [op EXCEPT ![o] = n], bound'.faults = bound.faults,
           bound' \in [commands : Nat, faults : Nat],
           page' \in Pages,
           past' \in Past, Remembers, past.clash => past'.clash,
           UNCHANGED <<disk, file, agents>>
    PROVE  MarketTypes' /\ Works(o)
<1>1. op' \in [Ops -> Operation] /\ op'[o] = n /\ \A q \in Ops \ {o} : op'[q] = op[q]
  BY OneStep
<1>2. MarketTypes'
  BY <1>1 DEF MarketTypes
<1>3. Step1(o)
  BY <1>1 DEF Step1, Remembers
<1>4. Idling(o)
  BY <1>1 DEF Idling
<1> QED
  BY <1>2, <1>3, <1>4 DEF Works

\* An operation that Begun returns
LEMMA BeginWorks ==
    ASSUME MarketTypes, StepsInOrder, NEW o \in Ops, NEW kind \in {"install", "update", "uninstall"}, NEW p \in Packages,
           NEW n, op' = [op EXCEPT ![o] = n], op[o].step \in OffAssets,
           \/ n = Begun(kind, p)
           \/ n = [Begun(kind, p) EXCEPT !.step = IF @ = "idle" THEN "ended" ELSE @],
           bound'.faults = bound.faults, bound' \in [commands : Nat, faults : Nat],
           page' \in Pages,
           past' = [past EXCEPT !.clash = @ \/ Clashes(kind, p)],
           UNCHANGED <<disk, file, agents>>
    PROVE  MarketTypes' /\ Works(o)
<1> DEFINE b == Begun(kind, p)
<1>1. b \in Operation /\ InOrder(b) /\ (b.step = "idle" => b = IdleOp)
      /\ \/ b.step \in {"idle", "fetch"}
         \/ b.step = "check" /\ kind = "uninstall" /\ b.kind = kind /\ b.read = file /\ b.package = p
            /\ b.version = Registered(file)[p] /\ b.version # 0
  BY BegunFacts
<1>2. past' \in Past /\ Remembers /\ (past.clash => past'.clash) /\ (~past'.clash => ~Clashes(kind, p))
  <2>1. past.clash \in BOOLEAN /\ Clashes(kind, p) \in BOOLEAN
    BY DEF MarketTypes, Past, Clashes
  <2>2. past'.clash = (past.clash \/ Clashes(kind, p))
    BY DEF MarketTypes, Past
  <2>3. past' \in Past /\ Remembers
    BY <2>1 DEF MarketTypes, Past, Remembers
  <2> QED
    BY <2>2, <2>3
<1> HIDE DEF b
<1>3. CASE b.step = "check"
  <2> DEFINE e == [b EXCEPT !.step = IF @ = "idle" THEN "ended" ELSE @]
  <2>1. e = b
    BY <1>1, <1>3 DEF Operation
  <2>2. n = b
    BY <2>1 DEF b
  <2>3. op' \in [Ops -> Operation] /\ op'[o] = b /\ \A q \in Ops \ {o} : op'[q] = op[q]
    BY <2>2, <1>1, OneStep
  <2>4. MarketTypes'
    BY <2>3, <1>2 DEF MarketTypes
  <2>5. Step1(o)
    BY <2>3, <1>1, <1>2 DEF Step1, Remembers
  <2>6. ~past'.clash => Working(p) = {}
    BY <1>1, <1>2, <1>3 DEF Clashes
  <2>7. Beginning(o)
    BY <1>1, <1>2, <1>3, <2>3, <2>6 DEF Beginning
  <2> QED
    BY <2>4, <2>5, <2>7 DEF Works
<1>4. CASE b.step = "fetch"
  <2>1. [b EXCEPT !.step = IF @ = "idle" THEN "ended" ELSE @] = b
    BY <1>1, <1>4 DEF Operation
  <2>2. n = b /\ n \in Operation /\ InOrder(n) /\ n.step \in OffAssets
    BY <2>1, <1>1, <1>4 DEF b, OffAssets
  <2> QED
    BY <2>2, <1>2, IssueWorks
<1>5. CASE b.step = "idle"
  <2>1. b = IdleOp
    BY <1>1, <1>5
  <2>2. n = IdleOp \/ n = [IdleOp EXCEPT !.step = "ended"]
    <3>1. n = b \/ n = [b EXCEPT !.step = IF @ = "idle" THEN "ended" ELSE @]
      BY DEF b
    <3>2. CASE n = b
      BY <2>1, <3>2
    <3>3. CASE n = [b EXCEPT !.step = IF @ = "idle" THEN "ended" ELSE @]
      BY <2>1, <3>3, IdleFacts
    <3> QED
      BY <3>1, <3>2, <3>3
  <2>3. n \in Operation /\ n.step \in {"idle", "ended"}
    BY <2>2, IdleFacts DEF OffAssets
  <2>4. InOrder(n) /\ n.step \in OffAssets
    BY <2>3, IdleFacts DEF OffAssets
  <2> QED
    BY <2>3, <2>4, <1>2, IssueWorks
<1> QED
  BY <1>1, <1>3, <1>4, <1>5

LEMMA CommandWorks ==
    ASSUME MarketTypes, StepsInOrder, NEW o \in Ops, NEW kind \in {"install", "update", "uninstall"}, NEW p \in Packages,
           Command(o, kind, p) \/ (runAction(o, kind) /\ page.package = p)
    PROVE  MarketTypes' /\ Works(o)
<1>1. CASE Command(o, kind, p)
  <2>1. /\ op' = [op EXCEPT ![o] = Begun(kind, p)] /\ op[o].step \in OffAssets
        /\ past' = [past EXCEPT !.clash = @ \/ Clashes(kind, p)]
        /\ UNCHANGED <<disk, file, agents, page, bound>>
    BY <1>1 DEF Command, OffAssets
  <2> QED
    BY <2>1, BeginWorks DEF MarketTypes
<1>2. CASE runAction(o, kind) /\ page.package = p
  <2>1. /\ op' = [op EXCEPT ![o] = [Begun(kind, p) EXCEPT !.step = IF @ = "idle" THEN "ended" ELSE @]]
        /\ op[o].step \in OffAssets /\ page' = [page EXCEPT !.op = o]
        /\ bound' = [bound EXCEPT !.commands = @ + 1]
        /\ past' = [past EXCEPT !.clash = @ \/ Clashes(kind, p)]
        /\ UNCHANGED <<disk, file, agents>>
    BY <1>2 DEF runAction, Issue, OffAssets
  <2>2. bound' \in [commands : Nat, faults : Nat] /\ bound'.faults = bound.faults
    BY <2>1 DEF MarketTypes
  <2>3. page' \in Pages
    BY <2>1, <1>2 DEF MarketTypes, Pages, runAction
  <2> QED
    BY <2>1, <2>2, <2>3, BeginWorks
<1> QED
  BY <1>1, <1>2

LEMMA CalmWorks ==
    ASSUME MarketTypes, StepsInOrder, NEW o \in Ops,
           \/ Serve(o) \/ Compare(o)
           \/ \E p \in Packages : \E v \in DOMAIN Contents[p] : InstallFile(o, p, v)
           \/ \E v \in Versions : Fetch(o, v)
           \/ \E x \in Agents, a \in Personas : createAgent(o, x, a)
    PROVE  MarketTypes' /\ Works(o)
<1>1. op[o] \in Operation /\ InOrder(op[o])
  BY DEF MarketTypes, StepsInOrder
<1>2. CASE Serve(o)
  <2>1. page' \in Pages
    BY <1>2 DEF Serve, MarketTypes, Pages
  <2>2. op' = [op EXCEPT ![o] = IdleOp] /\ op[o].step = "ready" /\ UNCHANGED <<disk, file, agents, bound, past>>
    BY <1>2 DEF Serve
  <2>3. IdleOp \in Operation /\ IdleOp.step = "idle" /\ InOrder(IdleOp)
    BY IdleFacts
  <2> QED
    BY <2>1, <2>2, <2>3, IssueWorks DEF MarketTypes, Remembers, OffAssets
<1>3. CASE Compare(o)
  <2> DEFINE st == IF op[o].version > Registered(file)[BasicKit] THEN "lookup" ELSE "ready"
             n == [op[o] EXCEPT !.step = st]
  <2>1. op' = [op EXCEPT ![o] = n] /\ op[o].step = "compare"
        /\ UNCHANGED <<disk, file, agents, page, bound, past>>
    BY <1>3 DEF Compare, Step
  <2>2. st \in {"lookup", "ready"}
    OBVIOUS
  <2> HIDE DEF st
  <2>3. n \in Operation /\ n.step = st /\ n.kind = op[o].kind /\ n.package = op[o].package /\ n.version = op[o].version
    BY <1>1, <2>2 DEF Operation, OffAssets
  <2> HIDE DEF n
  <2>4. InOrder(n)
    BY <1>1, <2>1, <2>2, <2>3 DEF InOrder, OnAssets
  <2> QED
    BY <2>1, <2>2, <2>3, <2>4, IssueWorks DEF MarketTypes, Remembers, OffAssets
<1>4. ASSUME NEW p \in Packages, NEW v \in DOMAIN Contents[p], InstallFile(o, p, v) PROVE MarketTypes' /\ Works(o)
  <2> DEFINE n == [IdleOp EXCEPT !.kind = "install", !.package = p, !.version = v, !.step = "lookup"]
  <2>1. op' = [op EXCEPT ![o] = n] /\ op[o].step = "ready" /\ UNCHANGED <<disk, file, agents, page, bound, past>>
    BY <1>4 DEF InstallFile
  <2>2. v \in Versions
    BY PackageFacts
  <2>0. n = Made("install", p, v, "lookup")
    BY DEF Made
  <2>5. "install" \in Kinds /\ "lookup" \in OffAssets
    BY DEF Kinds, OffAssets
  <2> HIDE DEF n
  <2>3. n \in Operation /\ n.step = "lookup" /\ n.kind = "install" /\ n.package = p /\ n.version = v
    BY <2>0, <2>5, <2>2, MadeOfIdle
  <2>4. InOrder(n)
    BY <2>3 DEF InOrder, OnAssets, Kinds
  <2> QED
    BY <2>1, <2>3, <2>4, IssueWorks DEF MarketTypes, Remembers, OffAssets
<1>5. ASSUME NEW v \in Versions, Fetch(o, v) PROVE MarketTypes' /\ Works(o)
  <2>1. op[o].step = "fetch" /\ UNCHANGED <<disk, file, agents, page, bound, past>>
    BY <1>5 DEF Fetch
  <2>2. CASE AskLatest(op[o].package, v) /\ op' = [op EXCEPT ![o].version = v, ![o].step = "lookup"]
    <3> DEFINE n == [op[o] EXCEPT !.version = v, !.step = "lookup"]
    <3>1. op' = [op EXCEPT ![o] = n]
      <4>1. DOMAIN op = Ops
        BY DEF MarketTypes
      <4> QED
        BY <2>2, <4>1
    <3>2. n \in Operation /\ n.step = "lookup" /\ n.version = v /\ n.kind = op[o].kind /\ n.package = op[o].package
      BY <1>1 DEF Operation, OffAssets
    <3>3. v \in DOMAIN Contents[op[o].package]
      BY <2>2 DEF AskLatest
    <3> HIDE DEF n
    <3>4. InOrder(n)
      BY <1>1, <2>1, <3>2, <3>3 DEF InOrder, OnAssets
    <3> QED
      BY <2>1, <3>1, <3>2, <3>4, IssueWorks DEF MarketTypes, Remembers, OffAssets
  <2>3. CASE End(o)
    <3>1. op' \in [Ops -> Operation] /\ (\A q \in Ops \ {o} : op'[q] = op[q]) /\ InOrder(op'[o]) /\ op'[o].step \in OffAssets
      BY <2>3, EndFacts
    <3>2. MarketTypes'
      BY <3>1, <2>1 DEF MarketTypes
    <3>3. Step1(o)
      BY <3>1, <2>1 DEF Step1, MarketTypes
    <3>4. Idling(o)
      BY <3>1, <2>1 DEF Idling, OffAssets, Remembers
    <3> QED
      BY <3>2, <3>3, <3>4 DEF Works
  <2> QED
    BY <1>5, <2>2, <2>3 DEF Fetch
<1>6. ASSUME NEW x \in Agents, NEW a \in Personas, createAgent(o, x, a) PROVE MarketTypes' /\ Works(o)
  <2> DEFINE n == [IdleOp EXCEPT !.kind = x, !.todo = <<a>>, !.step = "agent"]
  <2>1. op' = [op EXCEPT ![o] = n] /\ op[o].step = "idle" /\ UNCHANGED <<disk, file, agents, page, past>>
        /\ bound' = [bound EXCEPT !.commands = @ + 1]
    BY <1>6 DEF createAgent, Issue
  <2>2. a \in Assets /\ <<a>> \in Seq(Assets) /\ <<a>> # <<>> /\ <<a>>[1] = a
    BY DEF Personas
  <2>0. n = AgentMaking(x, <<a>>)
    BY DEF AgentMaking
  <2> HIDE DEF n
  <2>3. n \in Operation /\ n.step = "agent" /\ n.kind = x /\ n.todo = <<a>>
    BY <2>0, <2>2, AgentMadeOfIdle
  <2>4. InOrder(n)
    BY <2>2, <2>3 DEF InOrder, OnAssets
  <2>5. bound' \in [commands : Nat, faults : Nat] /\ bound'.faults = bound.faults
    BY <2>1 DEF MarketTypes
  <2> QED
    BY <2>1, <2>3, <2>4, <2>5, IssueWorks DEF MarketTypes, Remembers, OffAssets
<1> QED
  BY <1>2, <1>3, <1>4, <1>5, <1>6

LEMMA DoneWorks ==
    ASSUME MarketTypes, StepsInOrder, ActionDone
    PROVE  MarketTypes' /\ \E o \in Ops : Works(o)
<1> DEFINE o == page.op
<1>1. o \in Ops /\ op[o].step = "ended" /\ op' = [op EXCEPT ![o] = IdleOp]
      /\ UNCHANGED <<disk, file, agents, bound, past>>
  BY DEF ActionDone, MarketTypes, Pages
<1>2. page' \in Pages
  <2>1. page' = [page EXCEPT !.op = None, !.installed = Registered(file)[page.package]]
    BY DEF ActionDone
  <2>2. page.package \in Packages
    BY DEF ActionDone, MarketTypes, Pages
  <2>3. Registered(file)[page.package] \in Versions
    BY <2>2, RegisteredFacts DEF MarketTypes
  <2> QED
    BY <2>1, <2>3 DEF MarketTypes, Pages
<1>3. IdleOp \in Operation /\ IdleOp.step = "idle" /\ InOrder(IdleOp)
  BY IdleFacts
<1> QED
  BY <1>1, <1>2, <1>3, IssueWorks DEF MarketTypes, Remembers, OffAssets

LEMMA LookupWorks ==
    ASSUME MarketTypes, StepsInOrder, NEW o \in Ops, Lookup(o)
    PROVE  MarketTypes' /\ Works(o)
<1> DEFINE p == op[o].package
           previous == Registered(file)[p]
           todo == IF previous = 0 THEN <<>> ELSE Contents[p][previous]
           r == [op[o] EXCEPT !.step = "remove", !.todo = todo]
           n == Removed(r)
           gone == AssetsOf(p, previous) \ AssetsOf(p, op[o].version)
<1>1. /\ op[o] \in Operation /\ op[o].step = "lookup" /\ p \in Packages /\ op[o].kind \in Kinds /\ op[o].kind # "uninstall"
      /\ op[o].version \in DOMAIN Contents[p]
  BY DEF MarketTypes, StepsInOrder, InOrder, Lookup
<1>2. previous \in DOMAIN Contents[p] \cup {0}
  BY <1>1, RegisteredFacts DEF MarketTypes
<1>3. todo \in Seq(Assets) /\ Elems(todo) = AssetsOf(p, previous) /\ AssetsOf(p, previous) \subseteq Everything(p)
      /\ Everything(p) \subseteq Assets
  <2>1. CASE previous = 0
    BY <1>1, <1>2, <2>1, PackageFacts DEF Elems
  <2>2. CASE previous # 0
    BY <1>1, <1>2, <2>2, PackageFacts
  <2> QED
    BY <2>1, <2>2
<1>4. /\ op' = [op EXCEPT ![o] = n]
      /\ past' = [past EXCEPT !.dropped = @ \cup gone, !.lost = @ \/ file.torn, !.clash = @ \/ Working(p) # {}]
      /\ UNCHANGED <<disk, file, agents, page, bound>>
  BY DEF Lookup
<1> HIDE DEF todo, gone, previous, p
<1>5. /\ r \in Operation /\ r.step = "remove" /\ r.todo = todo
      /\ r.kind = op[o].kind /\ r.package = p /\ r.version = op[o].version
  BY <1>1, <1>3 DEF Operation, OnAssets, p
<1> HIDE DEF r
<1>6. IsRemoved(r, n)
  BY <1>1, <1>3, <1>5, RemovedFacts
<1> HIDE DEF n
<1>7. op' \in [Ops -> Operation] /\ op'[o] = n /\ \A q \in Ops \ {o} : op'[q] = op[q]
  BY <1>4, <1>6, OneStep DEF IsRemoved
<1>8. gone \subseteq Assets
  BY <1>3 DEF gone
<1>9. /\ past' \in Past /\ past'.dropped = past.dropped \cup gone /\ past'.late = past.late
      /\ past'.lost = (past.lost \/ file.torn) /\ past'.clash = (past.clash \/ Working(p) # {})
  <2>1. file.torn \in BOOLEAN /\ past.lost \in BOOLEAN /\ past.clash \in BOOLEAN
    BY DEF MarketTypes, Files, Past
  <2> DEFINE w == Working(p) # {}
  <2>2. w \in BOOLEAN
    OBVIOUS
  <2>3. past' = [past EXCEPT !.dropped = @ \cup gone, !.lost = @ \/ file.torn, !.clash = @ \/ w]
    BY <1>4
  <2> HIDE DEF w
  <2>4. past'.lost = (past.lost \/ file.torn) /\ past'.clash = (past.clash \/ w)
    BY <2>3 DEF MarketTypes, Past
  <2>5. past' \in Past /\ past'.dropped = past.dropped \cup gone /\ past'.late = past.late
    BY <2>1, <2>2, <2>3, <1>8 DEF MarketTypes, Past
  <2> QED
    BY <2>4, <2>5 DEF w
<1>10. MarketTypes'
  BY <1>4, <1>7, <1>9 DEF MarketTypes
<1>11. Step1(o)
  BY <1>4, <1>6, <1>7, <1>9 DEF Step1, IsRemoved
<1>12. /\ Keeps(o)
       /\ \/ previous # 0 /\ n.step = "remove" /\ Elems(n.todo) = AssetsOf(p, previous)
          \/ AssetsOf(p, previous) = {} /\ n.step = "read" /\ AssetsOf(p, n.version) = {}
          \/ AssetsOf(p, previous) = {} /\ n.step = "place" /\ Elems(n.todo) = AssetsOf(p, n.version)
  <2>1. Keeps(o)
    BY <1>5, <1>6, <1>7 DEF Keeps, IsRemoved, p
  <2>2. CASE todo # <<>>
    <3>1. n.step = "remove" /\ n.todo = todo
      BY <2>2, <1>5, <1>6 DEF IsRemoved
    <3>2. previous # 0
      BY <2>2 DEF todo
    <3> QED
      BY <2>1, <3>1, <3>2, <1>3
  <2>3. CASE todo = <<>>
    <3>1. AssetsOf(p, previous) = {}
      BY <2>3, <1>3 DEF Elems
    <3>2. \/ n.step = "read" /\ AssetsOf(p, n.version) = {}
          \/ n.step = "place" /\ Elems(n.todo) = AssetsOf(p, n.version)
      BY <2>3, <1>1, <1>5, <1>6 DEF IsRemoved
    <3> QED
      BY <2>1, <3>1, <3>2
  <2> QED
    BY <2>2, <2>3
<1>13. gone = AssetsOf(p, previous) \ AssetsOf(p, n.version)
  BY <1>5, <1>6 DEF gone, IsRemoved
<1>14. LookedUp(o)
  BY <1>1, <1>4, <1>7, <1>9, <1>12, <1>13 DEF LookedUp, p, previous
<1> QED
  BY <1>10, <1>11, <1>14 DEF Works

LEMMA RemoveWorks ==
    ASSUME MarketTypes, StepsInOrder, NEW o \in Ops, RemoveAsset(o)
    PROVE  MarketTypes' /\ Works(o)
<1> DEFINE h == Head(op[o].todo)
           t == Tail(op[o].todo)
           r == [op[o] EXCEPT !.todo = t]
           n == Removed(r)
<1>1. /\ op[o] \in Operation /\ op[o].step = "remove" /\ op[o].package \in Packages /\ op[o].kind \in Kinds
      /\ op[o].version \in DOMAIN Contents[op[o].package]
      /\ op[o].todo # <<>> /\ Elems(op[o].todo) \subseteq Everything(op[o].package)
      /\ (op[o].kind = "uninstall" => op[o].read \in Files)
  BY DEF MarketTypes, StepsInOrder, InOrder, RemoveAsset, OnAssets
<1>2. op[o].todo \in Seq(Assets)
  BY <1>1 DEF Operation
<1>3. h \in Assets /\ t \in Seq(Assets) /\ Elems(t) \subseteq Elems(op[o].todo)
  BY <1>1, <1>2, SeqFacts
<1>4. op' = [op EXCEPT ![o] = n] /\ disk' = [disk EXCEPT ![h] = 0]
      /\ UNCHANGED <<file, agents, page, bound, past>>
  BY DEF RemoveAsset
<1> HIDE DEF t
<1>5. /\ r \in Operation /\ r.todo = t /\ r.step = "remove" /\ r.kind = op[o].kind /\ r.package = op[o].package
      /\ r.version = op[o].version /\ r.read = op[o].read
  BY <1>1, <1>3 DEF Operation
<1> HIDE DEF r
<1>6. IsRemoved(r, n)
  BY <1>1, <1>3, <1>5, RemovedFacts
<1> HIDE DEF n
<1>7. op' \in [Ops -> Operation] /\ op'[o] = n /\ \A q \in Ops \ {o} : op'[q] = op[q]
  BY <1>4, <1>6, OneStep DEF IsRemoved
<1>8. disk' \in [Assets -> Nat \cup {Torn}]
  BY <1>3, <1>4 DEF MarketTypes
<1>9. MarketTypes'
  BY <1>4, <1>7, <1>8 DEF MarketTypes
<1>10. Step1(o)
  BY <1>4, <1>6, <1>7 DEF Step1, IsRemoved, MarketTypes
<1>11. /\ op'[o].kind = op[o].kind /\ op'[o].package = op[o].package /\ op'[o].version = op[o].version
       /\ op'[o].read = op[o].read
       /\ \/ op'[o].step = "remove" /\ op'[o].todo = t
          \/ t = <<>> /\ op[o].kind = "uninstall" /\ op'[o].step = "truncate"
          \/ t = <<>> /\ op[o].kind # "uninstall" /\ op'[o].step = "read" /\ AssetsOf(op[o].package, op[o].version) = {}
          \/ t = <<>> /\ op[o].kind # "uninstall" /\ op'[o].step = "place"
               /\ Elems(op'[o].todo) = AssetsOf(op[o].package, op[o].version)
  BY <1>5, <1>6, <1>7 DEF IsRemoved
<1>12. Removing(o)
  BY <1>1, <1>4, <1>11 DEF Removing, Keeps, t
<1> QED
  BY <1>9, <1>10, <1>12 DEF Works

\* One step of an operation whose package, version and kind stay
LEMMA StepWorks ==
    ASSUME MarketTypes, StepsInOrder, NEW o \in Ops, NEW n \in Operation, InOrder(n),
           n.kind = op[o].kind, n.package = op[o].package, n.version = op[o].version,
           op' = [op EXCEPT ![o] = n], disk' \in [Assets -> Nat \cup {Torn}], file' \in Files, past' \in Past,
           past.clash => past'.clash, past.lost => past'.lost, past.dropped = past'.dropped, past.late = past'.late,
           UNCHANGED <<agents, page, bound>>
    PROVE  MarketTypes' /\ Step1(o) /\ Keeps(o) /\ op'[o] = n
<1>1. op' \in [Ops -> Operation] /\ op'[o] = n /\ \A q \in Ops \ {o} : op'[q] = op[q]
  BY OneStep
<1>2. MarketTypes'
  BY <1>1 DEF MarketTypes
<1> QED
  BY <1>1, <1>2 DEF Step1, Keeps

LEMMA PlaceWorks ==
    ASSUME MarketTypes, StepsInOrder, NEW o \in Ops, Place(o) \/ Placed(o) \/ Read(o) \/ Truncate(o)
    PROVE  MarketTypes' /\ Works(o)
<1> DEFINE r == op[o]
           h == Head(r.todo)
           t == Tail(r.todo)
<1>1. r \in Operation /\ InOrder(r) /\ r.todo \in Seq(Assets)
  BY DEF MarketTypes, StepsInOrder, Operation
<1>2. disk \in [Assets -> Nat \cup {Torn}] /\ file \in Files /\ past \in Past /\ DOMAIN op = Ops
  BY DEF MarketTypes
<1>3. CASE Place(o)
  <2> DEFINE n == [r EXCEPT !.step = "placing"]
  <2>1. r.step = "place" /\ disk' = [disk EXCEPT ![h] = Torn] /\ op' = [op EXCEPT ![o] = n]
        /\ UNCHANGED <<file, agents, page, bound, past>>
    BY <1>3, <1>2 DEF Place, Step
  <2>2. r.todo # <<>>
    BY <1>1, <2>1 DEF InOrder
  <2>3. h \in Assets
    BY <1>1, <2>2, SeqFacts
  <2>4. n \in Operation /\ n.step = "placing" /\ n.kind = r.kind /\ n.package = r.package /\ n.version = r.version
        /\ n.todo = r.todo /\ n.read = r.read
    BY <1>1 DEF Operation, OnAssets
  <2> HIDE DEF n
  <2>5. InOrder(n)
    BY <1>1, <2>1, <2>4 DEF InOrder, OnAssets
  <2>6. disk' \in [Assets -> Nat \cup {Torn}]
    BY <1>2, <2>1, <2>3
  <2>7. MarketTypes' /\ Step1(o) /\ Keeps(o) /\ op'[o] = n
    BY <1>2, <2>1, <2>4, <2>5, <2>6, StepWorks
  <2>8. Placing(o)
    BY <2>1, <2>4, <2>7 DEF Placing
  <2> QED
    BY <2>7, <2>8 DEF Works
<1>4. CASE Placed(o)
  <2> DEFINE st == IF Len(r.todo) = 1 THEN "read" ELSE "place"
             n == [r EXCEPT !.todo = t, !.step = st]
  <2>1. r.step = "placing" /\ disk' = [disk EXCEPT ![h] = r.version] /\ op' = [op EXCEPT ![o] = n]
        /\ UNCHANGED <<file, agents, page, bound, past>>
    BY <1>4, <1>2 DEF Placed
  <2>2. /\ r.todo # <<>> /\ r.version \in DOMAIN Contents[r.package] /\ r.package \in Packages
        /\ Elems(r.todo) \subseteq Everything(r.package) /\ Elems(r.todo) \subseteq AssetsOf(r.package, r.version)
    BY <1>1, <2>1 DEF InOrder, OnAssets
  <2>3. h \in Assets /\ t \in Seq(Assets) /\ Elems(t) \subseteq Elems(r.todo) /\ (Len(r.todo) = 1 <=> t = <<>>)
    BY <1>1, <2>2, SeqFacts
  <2>4. st \in {"read", "place"} /\ (st = "read" <=> t = <<>>)
    BY <2>3
  <2> HIDE DEF st, t
  <2>5. n \in Operation /\ n.step = st /\ n.kind = r.kind /\ n.package = r.package /\ n.version = r.version
        /\ n.todo = t /\ n.read = r.read
    BY <1>1, <2>3, <2>4 DEF Operation, OnAssets
  <2> HIDE DEF n
  <2>6. InOrder(n)
    BY <1>1, <2>1, <2>2, <2>3, <2>4, <2>5 DEF InOrder, OnAssets
  <2>7. r.version \in Nat
    BY <2>2, PackageFacts
  <2>8. disk' \in [Assets -> Nat \cup {Torn}]
    BY <1>2, <2>1, <2>3, <2>7
  <2>9. MarketTypes' /\ Step1(o) /\ Keeps(o) /\ op'[o] = n
    BY <1>2, <2>1, <2>5, <2>6, <2>8, StepWorks
  <2>10. PlacingDone(o)
    BY <2>1, <2>4, <2>5, <2>9 DEF PlacingDone, t
  <2> QED
    BY <2>9, <2>10 DEF Works
<1>5. CASE Read(o)
  <2> DEFINE n == [r EXCEPT !.read = file, !.step = "truncate"]
  <2>1. r.step = "read" /\ op' = [op EXCEPT ![o] = n] /\ UNCHANGED <<disk, file, agents, page, bound, past>>
    BY <1>5, <1>2 DEF Read
  <2>2. n \in Operation /\ n.step = "truncate" /\ n.kind = r.kind /\ n.package = r.package /\ n.version = r.version
        /\ n.read = file
    BY <1>1, <1>2 DEF Operation, OnAssets
  <2> HIDE DEF n
  <2>3. InOrder(n)
    BY <1>1, <1>2, <2>1, <2>2 DEF InOrder, OnAssets
  <2>4. MarketTypes' /\ Step1(o) /\ Keeps(o) /\ op'[o] = n
    BY <1>2, <2>1, <2>2, <2>3, StepWorks
  <2>5. Reading(o)
    BY <2>1, <2>2, <2>4 DEF Reading
  <2> QED
    BY <2>4, <2>5 DEF Works
<1>6. CASE Truncate(o)
  <2> DEFINE n == [r EXCEPT !.step = "writing"]
             w == \E q \in Ops : op[q].step = "writing"
             l == past.lost \/ file # r.read \/ w
  <2>1. /\ r.step = "truncate" /\ file' = [file EXCEPT !.torn = TRUE] /\ op' = [op EXCEPT ![o] = n]
        /\ past' = [past EXCEPT !.lost = @ \/ file # r.read \/ w]
        /\ UNCHANGED <<disk, agents, page, bound>>
    BY <1>6, <1>2 DEF Truncate, Step
  <2>2. n \in Operation /\ n.step = "writing" /\ n.kind = r.kind /\ n.package = r.package /\ n.version = r.version
        /\ n.read = r.read
    BY <1>1 DEF Operation, OnAssets
  <2> HIDE DEF n
  <2>3. InOrder(n)
    BY <1>1, <1>2, <2>1, <2>2 DEF InOrder, OnAssets
  <2>4. l \in BOOLEAN /\ past' = [past EXCEPT !.lost = l] /\ (past.lost => l)
    BY <1>2, <2>1 DEF Past
  <2> HIDE DEF l
  <2>5. past' \in Past /\ past'.lost = l /\ past'.clash = past.clash /\ past'.dropped = past.dropped
        /\ past'.late = past.late
    BY <1>2, <2>4 DEF Past
  <2>6. file' \in Files
    BY <1>2, <2>1 DEF Files
  <2>7. MarketTypes' /\ Step1(o) /\ Keeps(o) /\ op'[o] = n
    BY <1>2, <2>1, <2>2, <2>3, <2>4, <2>5, <2>6, StepWorks
  <2>8. Truncating(o)
    BY <2>1, <2>2, <2>7 DEF Truncating
  <2> QED
    BY <2>7, <2>8 DEF Works
<1> QED
  BY <1>3, <1>4, <1>5, <1>6

LEMMA WriteWorks ==
    ASSUME MarketTypes, StepsInOrder, NEW o \in Ops, Write(o)
    PROVE  MarketTypes' /\ Works(o)
<1> DEFINE r == op[o]
           v == IF r.kind = "uninstall" THEN 0 ELSE r.version
           g == Registered(r.read)
<1>1. r \in Operation /\ InOrder(r) /\ r.step = "writing"
  BY DEF MarketTypes, StepsInOrder, Write
<1>2. r.package \in Packages /\ r.version \in DOMAIN Contents[r.package] /\ r.read \in Files
  BY <1>1 DEF InOrder, OnAssets
<1>3. /\ file' = [torn |-> FALSE, packages |-> [g EXCEPT ![r.package] = v]] /\ End(o)
      /\ UNCHANGED <<disk, agents, page, bound, past>>
  BY DEF Write
<1>4. v \in DOMAIN Contents[r.package] \cup {0} /\ v \in Versions
  BY <1>2, PackageFacts
<1>5. g \in [Packages -> Versions] /\ \A p \in Packages : g[p] \in DOMAIN Contents[p] \cup {0}
  BY <1>2, RegisteredFacts
<1> HIDE DEF v, g
<1>6. file' \in Files
  BY <1>3, <1>4, <1>5 DEF Files
<1>7. op' \in [Ops -> Operation] /\ (\A q \in Ops \ {o} : op'[q] = op[q]) /\ InOrder(op'[o]) /\ op'[o].step \in OffAssets
  BY <1>3, EndFacts
<1>8. MarketTypes'
  BY <1>3, <1>6, <1>7 DEF MarketTypes
<1>9. Step1(o)
  BY <1>3, <1>7 DEF Step1, MarketTypes
<1>10. Writing(o)
  BY <1>1, <1>3, <1>7 DEF Writing, v, g
<1> QED
  BY <1>8, <1>9, <1>10 DEF Works

LEMMA CheckWorks ==
    ASSUME MarketTypes, StepsInOrder, NEW o \in Ops, Check(o)
    PROVE  MarketTypes' /\ Works(o)
<1> DEFINE r == op[o]
           c == Contents[r.package][r.version]
           m == [r EXCEPT !.step = "remove", !.todo = c]
           n == Removed(m)
<1>1. r \in Operation /\ InOrder(r) /\ r.step = "check" /\ UNCHANGED <<disk, file, agents, page, bound, past>>
  BY DEF MarketTypes, StepsInOrder, Check
<1>2. /\ r.package \in Packages /\ r.kind = "uninstall" /\ r.version \in DOMAIN Contents[r.package] /\ r.read \in Files
  BY <1>1 DEF InOrder, OnAssets
<1>3. c \in Seq(Assets) /\ Elems(c) = AssetsOf(r.package, r.version) /\ AssetsOf(r.package, r.version) \subseteq Everything(r.package)
      /\ (c = <<>> => AssetsOf(r.package, r.version) = {})
  BY <1>2, PackageFacts, MarketAssumption
<1>4. CASE AgentsReadable /\ References(r.package, r.version) = {} /\ op' = [op EXCEPT ![o] = n]
  <2> HIDE DEF c
  <2>1. /\ m \in Operation /\ m.step = "remove" /\ m.todo = c /\ m.kind = r.kind /\ m.package = r.package
        /\ m.version = r.version /\ m.read = r.read
    BY <1>1, <1>3 DEF Operation, OnAssets
  <2> HIDE DEF m
  <2>2. IsRemoved(m, n)
    BY <1>2, <1>3, <2>1, RemovedFacts DEF Kinds
  <2> HIDE DEF n
  <2>3. MarketTypes' /\ Step1(o) /\ Keeps(o) /\ op'[o] = n
    BY <1>1, <1>4, <2>1, <2>2, StepWorks DEF IsRemoved, MarketTypes
  <2>4. \/ n.step = "remove" /\ Elems(n.todo) = AssetsOf(r.package, r.version)
        \/ n.step = "truncate" /\ AssetsOf(r.package, r.version) = {}
    BY <1>2, <1>3, <2>1, <2>2 DEF IsRemoved
  <2>5. Allowed(o)
    BY <1>1, <1>4, <2>1, <2>2, <2>3, <2>4 DEF Allowed, IsRemoved
  <2> QED
    BY <2>3, <2>5 DEF Works
<1>5. CASE End(o)
  <2>1. op' \in [Ops -> Operation] /\ (\A q \in Ops \ {o} : op'[q] = op[q]) /\ InOrder(op'[o]) /\ op'[o].step \in OffAssets
    BY <1>5, EndFacts
  <2>2. MarketTypes'
    BY <2>1, <1>1 DEF MarketTypes
  <2>3. Step1(o)
    BY <2>1, <1>1 DEF Step1, MarketTypes
  <2>4. Refused(o)
    BY <2>1, <1>1 DEF Refused
  <2> QED
    BY <2>2, <2>3, <2>4 DEF Works
<1> QED
  BY <1>4, <1>5 DEF Check

LEMMA AgentWorks ==
    ASSUME MarketTypes, StepsInOrder, NEW o \in Ops, AgentWritten(o)
    PROVE  MarketTypes' /\ Works(o)
<1> DEFINE x == op[o].kind
           a == Head(op[o].todo)
           l == \/ disk[a] = 0
                \/ \E q \in Ops : op[q].kind = "uninstall" /\ op[q].step = "remove" /\ a \in AssetsOf(op[q].package, op[q].version)
           late == IF l THEN past.late \cup {x} ELSE past.late
<1>1. op[o] \in Operation /\ InOrder(op[o]) /\ op[o].step = "agent"
  BY DEF MarketTypes, StepsInOrder, AgentWritten
<1>2. x \in Agents /\ a \in Personas
  <2>1. op[o].todo \in Seq(Assets) /\ op[o].todo # <<>> /\ op[o].todo[1] \in Personas /\ x \in Agents
    BY <1>1 DEF InOrder, Operation
  <2> QED
    BY <2>1, SeqFacts
<1>3. /\ agents' = [agents EXCEPT ![x] = a] /\ End(o) /\ UNCHANGED <<disk, file, page, bound>>
      /\ past' = [past EXCEPT !.late = IF l THEN @ \cup {x} ELSE @]
  BY DEF AgentWritten
<1>4. past' = [past EXCEPT !.late = late]
  BY <1>3
<1> HIDE DEF l, a, x
<1>5. late \subseteq Agents /\ past.late \subseteq late
  BY <1>2 DEF MarketTypes, Past
<1> HIDE DEF late
<1>6. past' \in Past /\ past'.lost = past.lost /\ past'.clash = past.clash /\ past'.dropped = past.dropped
      /\ past'.late = late
  BY <1>4, <1>5 DEF MarketTypes, Past
<1>7. agents' \in [Agents -> Personas \cup {None, Torn}]
  BY <1>2, <1>3 DEF MarketTypes
<1>8. op' \in [Ops -> Operation] /\ (\A q \in Ops \ {o} : op'[q] = op[q]) /\ InOrder(op'[o]) /\ op'[o].step \in OffAssets
  BY <1>3, EndFacts
<1>9. MarketTypes'
  BY <1>3, <1>6, <1>7, <1>8 DEF MarketTypes
<1>10. Step1(o)
  BY <1>3, <1>5, <1>6, <1>8 DEF Step1, MarketTypes
<1>11. AgentMade(o)
  BY <1>1, <1>3, <1>8 DEF AgentMade, a, x, l
<1> QED
  BY <1>9, <1>10, <1>11 DEF Works


\* A crash only counts: what it leaves behind is past the properties' premise.
LEMMA CrashFacts ==
    ASSUME MarketTypes, StepsInOrder, NEW o \in Ops, Crash(o)
    PROVE  MarketTypes' /\ StepsInOrder' /\ ~Undisturbed'
<1> DEFINE n == [IdleOp EXCEPT !.step = IF page.op = o THEN "ended" ELSE "idle"]
           torn == [agents EXCEPT ![op[o].kind] = Torn]
<1>1. /\ op' = [op EXCEPT ![o] = n] /\ bound' = [bound EXCEPT !.faults = @ + 1]
      /\ UNCHANGED <<disk, file, page, past>>
      /\ agents' \in {agents, IF op[o].step = "agent" THEN torn ELSE agents}
  BY DEF Crash
<1>2. n \in Operation /\ n.step \in {"idle", "ended"}
  BY IdleFacts DEF OffAssets
<1> HIDE DEF n
<1>3. op' \in [Ops -> Operation] /\ op'[o] = n /\ \A q \in Ops \ {o} : op'[q] = op[q]
  BY <1>1, <1>2, OneStep
<1>4. InOrder(n)
  BY <1>2, IdleFacts
<1>50. \A q \in Ops : InOrder(op'[q])
  BY <1>3, <1>4 DEF StepsInOrder
<1>5. StepsInOrder'
  BY <1>50 DEF StepsInOrder, InOrder
<1>6. bound' \in [commands : Nat, faults : Nat] /\ bound'.faults # 0
  BY <1>1 DEF MarketTypes
<1>7. agents' \in [Agents -> Personas \cup {None, Torn}]
  BY <1>1 DEF MarketTypes
<1>8. MarketTypes'
  BY <1>1, <1>3, <1>6, <1>7 DEF MarketTypes
<1> QED
  BY <1>5, <1>6, <1>8 DEF Undisturbed

LEMMA LoadRests ==
    ASSUME MarketTypes, StepsInOrder, NEW p \in Packages, NEW v \in Versions, LoadPage(p, v)
    PROVE  MarketTypes' /\ Rests
<1>1. /\ page.package = None /\ UNCHANGED <<disk, file, op, agents, bound, past>>
      /\ page' = [page EXCEPT !.package = p, !.latest = v, !.installed = Registered(file)[p]]
  BY DEF LoadPage
<1>2. Registered(file)[p] \in Versions
  BY RegisteredFacts, PackageFacts DEF MarketTypes
<1>3. page' \in Pages
  BY <1>1, <1>2, MarketAssumption DEF MarketTypes, Pages
<1> QED
  BY <1>1, <1>3 DEF MarketTypes, Rests

\* Every step of the system is one of these.
LEMMA EveryStep ==
    ASSUME MarketTypes, StepsInOrder, [MarketNext]_marketVars
    PROVE  /\ MarketTypes' /\ StepsInOrder'
           /\ Rests \/ ~Undisturbed' \/ \E o \in Ops : Works(o)
<1>1. ASSUME NEW o \in Ops, Works(o) PROVE StepsInOrder'
  <2>1. \A q \in Ops : InOrder(op'[q])
    BY <1>1 DEF Works, Step1, StepsInOrder
  <2> QED
    BY <2>1 DEF StepsInOrder, InOrder
<1>2. CASE UNCHANGED marketVars
  BY <1>2 DEF marketVars, Rests, MarketTypes, StepsInOrder, InOrder
<1>3. ASSUME NEW o \in Ops, Lookup(o) \/ RemoveAsset(o) \/ Place(o) \/ Placed(o) \/ Read(o) \/ Truncate(o)
                            \/ Write(o) \/ Check(o) \/ AgentWritten(o)
      PROVE  MarketTypes' /\ Works(o)
  BY <1>3, LookupWorks, RemoveWorks, PlaceWorks, WriteWorks, CheckWorks, AgentWorks
<1>4. ASSUME NEW o \in Ops,
             \/ Serve(o) \/ Compare(o)
             \/ \E p \in Packages : \E v \in DOMAIN Contents[p] : InstallFile(o, p, v)
             \/ \E v \in Versions : Fetch(o, v)
             \/ \E x \in Agents, a \in Personas : createAgent(o, x, a)
             \/ \E v \in Versions : Start(o, v)
      PROVE  MarketTypes' /\ Works(o)
  BY <1>4, CalmWorks, StartWorks
<1>5. ASSUME NEW o \in Ops, NEW kind \in {"install", "update", "uninstall"},
             runAction(o, kind) \/ \E p \in Packages : Command(o, kind, p)
      PROVE  MarketTypes' /\ Works(o)
  <2>1. CASE runAction(o, kind)
    <3>1. page.package \in Packages
      BY <2>1 DEF runAction, MarketTypes, Pages
    <3> QED
      BY <2>1, <3>1, CommandWorks
  <2> QED
    BY <1>5, <2>1, CommandWorks
<1>6. CASE ActionDone
  BY <1>1, <1>6, DoneWorks
<1>7. CASE \E p \in Packages, v \in Versions : LoadPage(p, v)
  BY <1>7, LoadRests DEF Rests, StepsInOrder, InOrder
<1>8. CASE \E o \in Ops : Crash(o)
  BY <1>8, CrashFacts
<1> QED
  BY <1>1, <1>2, <1>3, <1>4, <1>5, <1>6, <1>7, <1>8 DEF MarketNext

-----------------------------------------------------------------------------
\* The inductive invariant.

\* One operation at a time works on a package.
OneWorker == \A p \in Packages : \A o, q \in Working(p) : o = q

\* One operation at a time writes installed.json, and what it read is what is there.
OneWriter ==
  ~past.lost =>
    /\ file.torn => \E o \in Ops : op[o].step = "writing"
    /\ \A o \in Ops : op[o].step = "writing" =>
         /\ file.torn /\ ~op[o].read.torn /\ file.packages = op[o].read.packages
         /\ \A q \in Ops : op[q].step = "writing" => q = o

\* What has been placed of the version that an operation brings is there.
Brought(r) ==
  r.kind # "uninstall" /\ r.step \in {"place", "placing", "read", "truncate", "writing"} =>
    \A a \in AssetsOf(r.package, r.version) :
      disk[a] = r.version \/ (r.step \in {"place", "placing"} /\ a \in Elems(r.todo))
PlacedStays == \A o \in Ops : Brought(op[o])

TornIsPlaced == \A a \in Assets : disk[a] = Torn => \E o \in Ops : op[o].step = "placing" /\ Head(op[o].todo) = a

\* The directories of p are those of version v.
Holds(p, v) == \A a \in Everything(p) : disk[a] = IF a \in AssetsOf(p, v) THEN v ELSE 0

\* What is on disk while an operation works on its package.
Expects(r) ==
  /\ r.step = "check" => r.version = file.packages[r.package] /\ Holds(r.package, r.version)
  /\ r.step = "remove" => \A a \in Everything(r.package) \ Elems(r.todo) : disk[a] = 0
  /\ r.step \in OnAssets \ {"check", "remove"} =>
       \A a \in Everything(r.package) : r.kind = "uninstall" \/ a \notin AssetsOf(r.package, r.version) => disk[a] = 0
DiskOfWork ==
  ~past.lost =>
    /\ \A o \in Ops : Expects(op[o])
    /\ \A p \in Packages : Working(p) = {} => Holds(p, file.packages[p])

\* What an operation removes it brings again, or past.dropped holds it.
RemovesKnown ==
  \A o \in Ops :
    op[o].step = "remove" =>
      Elems(op[o].todo) \subseteq AssetsOf(op[o].package, op[o].version)
                                    \cup (IF op[o].kind = "uninstall" THEN {} ELSE past.dropped)

\* An uninstallation that removes was allowed to, but for agents that came late.
UninstallsUnused ==
  \A o \in Ops, x \in Agents :
    op[o].kind = "uninstall" /\ op[o].step = "remove" /\ agents[x] \in AssetsOf(op[o].package, op[o].version)
      => x \in past.late

\* The operation r is about to bring a.
Brings(r, a) == r.kind # "uninstall" /\ r.step \in {"remove", "place", "placing"} /\ a \in AssetsOf(r.package, r.version)

\* The persona of an agent is there, or about to be there again.
PersonaComes ==
  \A x \in Agents : agents[x] \in Personas =>
    \/ agents[x] \in past.dropped \/ x \in past.late \/ disk[agents[x]] \notin {0, Torn}
    \/ \E o \in Ops : Brings(op[o], agents[x])

Calm ==
  /\ OneWorker /\ OneWriter /\ PlacedStays /\ TornIsPlaced /\ DiskOfWork
  /\ RemovesKnown /\ UninstallsUnused /\ PersonaComes

MarketInd == MarketTypes /\ StepsInOrder /\ (Undisturbed => Calm)


LEMMA WorkingIs ==
    ASSUME NEW p, NEW o \in Ops
    PROVE  o \in Working(p) <=> op[o].package = p /\ op[o].step \in OnAssets
BY DEF Working, OnAssets

\* A step changes at most the directory that its operation is at.
LEMMA DiskElsewhere ==
    ASSUME MarketTypes, StepsInOrder, NEW o \in Ops, Works(o), NEW a \in Assets, disk'[a] # disk[a]
    PROVE  /\ op[o].step \in {"remove", "place", "placing"}
           /\ a = Head(op[o].todo) /\ a \in Everything(op[o].package) /\ op[o].package \in Packages
           /\ op[o].package = op'[o].package
<1>1. Removing(o) \/ Placing(o) \/ PlacingDone(o)
  BY DEF Works, Idling, Beginning, LookedUp, Reading, Truncating, Writing, Allowed,
        Refused, AgentMade
<1>2. op[o].step \in {"remove", "place", "placing"} /\ op'[o].package = op[o].package
  BY <1>1 DEF Removing, Placing, PlacingDone, Keeps
<1>3. a = Head(op[o].todo)
  BY <1>1 DEF Removing, Placing, PlacingDone, MarketTypes
<1>4. op[o].package \in Packages /\ op[o].todo # <<>> /\ Elems(op[o].todo) \subseteq Everything(op[o].package)
  BY <1>2 DEF StepsInOrder, InOrder, OnAssets
<1>5. op[o].todo \in Seq(Assets)
  BY DEF MarketTypes, Operation
<1>6. a \in Everything(op[o].package)
  BY <1>3, <1>4, <1>5, SeqFacts
<1> QED
  BY <1>2, <1>3, <1>4, <1>6

\* Only an operation that finds nobody at its package begins to work on it.
LEMMA WorkersAfter ==
    ASSUME MarketTypes, NEW o \in Ops, Works(o), ~past'.clash, op'[o].step \in OnAssets
    PROVE  \/ op[o].step \in OnAssets /\ op[o].package = op'[o].package
           \/ op[o].step \in OffAssets /\ Working(op'[o].package) = {}
<1>1. CASE Beginning(o)
  BY <1>1 DEF Beginning
<1>2. CASE LookedUp(o)
  BY <1>2 DEF LookedUp, Keeps, OffAssets
<1>3. CASE Removing(o) \/ Placing(o) \/ PlacingDone(o) \/ Reading(o) \/ Truncating(o) \/ Allowed(o)
  BY <1>3 DEF Removing, Placing, PlacingDone, Reading, Truncating, Allowed, Keeps, OnAssets
<1>4. CASE Idling(o) \/ Writing(o) \/ Refused(o) \/ AgentMade(o)
  BY <1>4 DEF Idling, Writing, Refused, AgentMade, OnAssets, OffAssets
<1> QED
  BY <1>1, <1>2, <1>3, <1>4 DEF Works

LEMMA OneWorkerStep ==
    ASSUME MarketTypes, StepsInOrder, Calm, NEW o \in Ops, Works(o), ~past'.clash
    PROVE  OneWorker'
<1> SUFFICES ASSUME NEW p \in Packages, NEW q \in Ops, NEW s \in Ops, q # s,
                    op'[q].package = p, op'[s].package = p, op'[q].step \in OnAssets, op'[s].step \in OnAssets
             PROVE  FALSE
  BY DEF OneWorker, Working, OnAssets
<1>1. ASSUME NEW t \in Ops, t # o, op'[t].package = p, op'[t].step \in OnAssets PROVE t \in Working(p)
  BY <1>1, WorkingIs DEF Works, Step1
<1>2. CASE q # o /\ s # o
  BY <1>1, <1>2 DEF Calm, OneWorker
<1>3. ASSUME NEW t \in Ops, t # o, op'[t].package = p, op'[t].step \in OnAssets,
             op'[o].package = p, op'[o].step \in OnAssets
      PROVE  FALSE
  <2>1. t \in Working(p)
    BY <1>1, <1>3
  <2>2. o \in Working(p)
    BY <1>3, <2>1, WorkersAfter, WorkingIs
  <2> QED
    BY <1>3, <2>1, <2>2 DEF Calm, OneWorker
<1> QED
  BY <1>2, <1>3

\* While o changes a directory, no other operation works on its package.
LEMMA OthersKeepDisk ==
    ASSUME MarketTypes, StepsInOrder, Calm, NEW o \in Ops, Works(o),
           NEW q \in Ops, q # o, op[q].step \in OnAssets
    PROVE  /\ op'[q] = op[q] /\ op[q].package \in Packages
           /\ \A a \in Everything(op[q].package) : a \in Assets /\ disk'[a] = disk[a]
<1>1. op'[q] = op[q]
  BY DEF Works, Step1
<1>2. op[q].package \in Packages
  BY DEF StepsInOrder, InOrder
<1>3. q \in Working(op[q].package)
  BY WorkingIs
<1>4. ASSUME NEW a \in Everything(op[q].package) PROVE a \in Assets /\ disk'[a] = disk[a]
  <2>1. a \in Assets
    BY <1>2, PackageFacts
  <2>2. SUFFICES ASSUME disk'[a] # disk[a] PROVE FALSE
    BY <2>1
  <2>3. op[o].step \in {"remove", "place", "placing"} /\ a \in Everything(op[o].package) /\ op[o].package \in Packages
    BY <2>1, <2>2, DiskElsewhere
  <2>4. op[o].package = op[q].package
    BY <1>2, <2>3, OnePackage
  <2>5. o \in Working(op[q].package)
    BY <2>3, <2>4, WorkingIs DEF OnAssets
  <2> QED
    BY <1>2, <1>3, <2>5 DEF Calm, OneWorker
<1> QED
  BY <1>1, <1>2, <1>4

LEMMA OneWriterStep ==
    ASSUME MarketTypes, StepsInOrder, Calm, NEW o \in Ops, Works(o)
    PROVE  OneWriter'
<1> SUFFICES ASSUME ~past'.lost PROVE OneWriter'
  BY DEF OneWriter
<1>1. ~past.lost /\ \A q \in Ops \ {o} : op'[q] = op[q]
  BY DEF Works, Step1
<1>2. /\ file.torn => \E s \in Ops : op[s].step = "writing"
      /\ \A s \in Ops : op[s].step = "writing" =>
           /\ file.torn /\ ~op[s].read.torn /\ file.packages = op[s].read.packages
           /\ \A q \in Ops : op[q].step = "writing" => q = s
  BY <1>1 DEF Calm, OneWriter
<1>3. CASE Truncating(o)
  <2> DEFINE w == \E q \in Ops : op[q].step = "writing"
  <2>1. /\ file' = [file EXCEPT !.torn = TRUE] /\ op'[o].step = "writing" /\ op'[o].read = op[o].read
        /\ past' = [past EXCEPT !.lost = @ \/ file # op[o].read \/ w]
    BY <1>3 DEF Truncating
  <2>2. past'.lost = (past.lost \/ file # op[o].read \/ w)
    BY <2>1 DEF MarketTypes, Past
  <2>3. file = op[o].read /\ ~w
    BY <2>2
  <2>4. ~file.torn
    BY <1>2, <2>3
  <2>5. file'.torn /\ file'.packages = file.packages
    BY <2>1 DEF MarketTypes, Files
  <2> QED
    BY <1>1, <2>1, <2>3, <2>4, <2>5 DEF OneWriter
<1>4. CASE Writing(o)
  <2>1. ~file'.torn /\ op[o].step = "writing" /\ op'[o].step # "writing"
    BY <1>4 DEF Writing, OffAssets
  <2> QED
    BY <1>1, <1>2, <2>1 DEF OneWriter
<1>5. CASE ~Truncating(o) /\ ~Writing(o)
  <2>1. file' = file /\ op[o].step # "writing" /\ op'[o].step # "writing"
    BY <1>5 DEF Works, Idling, Beginning, LookedUp, Removing, Placing, PlacingDone,
          Reading, Allowed, Refused, AgentMade,
       OffAssets
  <2> QED
    BY <1>1, <1>2, <2>1 DEF OneWriter
<1> QED
  BY <1>3, <1>4, <1>5


\* The next asset of an operation, and what is left after it.
LEMMA NextAsset ==
    ASSUME MarketTypes, StepsInOrder, NEW o \in Ops, op[o].step \in {"remove", "place", "placing"}
    PROVE  LET s == op[o].todo IN
           /\ op[o].package \in Packages /\ op[o].version \in DOMAIN Contents[op[o].package]
           /\ Head(s) \in Elems(s) /\ Elems(s) \subseteq Everything(op[o].package) /\ Head(s) \in Assets
           /\ Elems(Tail(s)) \subseteq Elems(s) /\ Elems(s) \subseteq Elems(Tail(s)) \cup {Head(s)}
           /\ (Tail(s) = <<>> => Elems(Tail(s)) = {})
           /\ (op[o].step \in {"place", "placing"} =>
                 op[o].kind # "uninstall" /\ Elems(s) \subseteq AssetsOf(op[o].package, op[o].version))
<1>1. /\ op[o].package \in Packages /\ op[o].version \in DOMAIN Contents[op[o].package]
      /\ op[o].todo # <<>> /\ Elems(op[o].todo) \subseteq Everything(op[o].package)
      /\ op[o].step \in {"place", "placing"} => op[o].kind # "uninstall" /\ Elems(op[o].todo) \subseteq AssetsOf(op[o].package, op[o].version)
  BY DEF StepsInOrder, InOrder, OnAssets
<1>2. op[o].todo \in Seq(Assets)
  BY DEF MarketTypes, Operation
<1>3. Tail(op[o].todo) = <<>> => Elems(Tail(op[o].todo)) = {}
  <2>1. Elems(<<>>) = {}
    BY DEF Elems
  <2> QED
    BY <2>1
<1>4. LET s == op[o].todo IN
      /\ Head(s) \in Elems(s) /\ Head(s) \in Assets
      /\ Elems(Tail(s)) \subseteq Elems(s) /\ Elems(s) \subseteq Elems(Tail(s)) \cup {Head(s)}
  BY <1>1, <1>2, SeqFacts
<1> QED
  BY <1>1, <1>3, <1>4

LEMMA PlacedStaysStep ==
    ASSUME MarketTypes, StepsInOrder, Calm, NEW o \in Ops, Works(o)
    PROVE  PlacedStays'
<1> DEFINE r == op[o]
           n == op'[o]
<1>1. ASSUME NEW q \in Ops, q # o PROVE Brought(op[q])'
  <2> SUFFICES ASSUME op[q].step \in OnAssets PROVE Brought(op[q])'
    BY <1>1 DEF Works, Step1, Brought, OnAssets
  <2>1. Brought(op[q])
    BY DEF Calm, PlacedStays
  <2>2. /\ op'[q] = op[q] /\ op[q].package \in Packages
        /\ \A a \in Everything(op[q].package) : a \in Assets /\ disk'[a] = disk[a]
    BY <1>1, OthersKeepDisk
  <2>3. AssetsOf(op[q].package, op[q].version) \subseteq Everything(op[q].package)
    <3>1. op[q].version \in DOMAIN Contents[op[q].package]
      BY DEF StepsInOrder, InOrder
    <3> QED
      BY <2>2, <3>1, PackageFacts
  <2> QED
    BY <2>1, <2>2, <2>3 DEF Brought
<1> SUFFICES Brought(op[o])'
  <2>1. ASSUME NEW q \in Ops, Brought(op[o])' PROVE Brought(op[q])'
    BY <1>1, <2>1
  <2> QED
    BY <2>1 DEF PlacedStays
<1>2. Brought(r)
  BY DEF Calm, PlacedStays
<1>3. DOMAIN disk = Assets
  BY DEF MarketTypes
<1>4. CASE Idling(o) \/ Beginning(o) \/ Writing(o) \/ Refused(o) \/ AgentMade(o) \/ Allowed(o)
  <2>1. n.step \in OffAssets \/ n.kind = "uninstall"
    BY <1>4 DEF Idling, Beginning, Writing, Refused, AgentMade, Allowed, Keeps,
          StepsInOrder, InOrder
  <2> QED
    BY <2>1 DEF Brought, OffAssets
<1>5. CASE LookedUp(o)
  BY <1>5 DEF LookedUp, Keeps, Brought
<1>6. CASE Reading(o) \/ Truncating(o)
  <2>1. disk' = disk /\ Keeps(o) /\ r.step \in {"read", "truncate"} /\ n.step \in {"truncate", "writing"}
    BY <1>6 DEF Reading, Truncating
  <2> QED
    BY <1>2, <2>1 DEF Brought, Keeps
<1>7. CASE Removing(o)
  BY <1>7 DEF Removing, Keeps, Brought
<1>8. CASE Placing(o)
  <2>1. Keeps(o) /\ r.step = "place" /\ n.step = "placing" /\ n.todo = r.todo /\ disk' = [disk EXCEPT ![Head(r.todo)] = Torn]
    BY <1>8 DEF Placing
  <2>2. Head(r.todo) \in Elems(r.todo)
    BY <2>1, NextAsset
  <2> QED
    BY <1>2, <1>3, <2>1, <2>2 DEF Brought, Keeps
<1>9. CASE PlacingDone(o)
  <2>1. /\ Keeps(o) /\ r.step = "placing" /\ n.step \in {"place", "read"} /\ n.todo = Tail(r.todo)
        /\ (n.step = "read" => Tail(r.todo) = <<>>)
        /\ disk' = [disk EXCEPT ![Head(r.todo)] = r.version]
    BY <1>9 DEF PlacingDone
  <2>2. /\ Elems(r.todo) \subseteq Elems(Tail(r.todo)) \cup {Head(r.todo)} /\ Head(r.todo) \in Assets
        /\ (Tail(r.todo) = <<>> => Elems(Tail(r.todo)) = {})
    BY <2>1, NextAsset
  <2>3. ASSUME n.kind # "uninstall", NEW a \in AssetsOf(n.package, n.version)
        PROVE  disk'[a] = n.version \/ (n.step = "place" /\ a \in Elems(n.todo))
    <3>1. disk[a] = r.version \/ a \in Elems(r.todo)
      BY <1>2, <2>1, <2>3 DEF Brought, Keeps
    <3>2. CASE a = Head(r.todo)
      BY <2>1, <2>2, <3>2, <1>3 DEF Keeps
    <3>3. CASE a # Head(r.todo) /\ disk[a] = r.version
      BY <2>1, <3>3, <1>3 DEF Keeps
    <3>4. CASE a # Head(r.todo) /\ a \in Elems(r.todo)
      BY <2>1, <2>2, <3>4
    <3> QED
      BY <3>1, <3>2, <3>3, <3>4
  <2> QED
    BY <2>1, <2>3 DEF Brought
<1> QED
  BY <1>4, <1>5, <1>6, <1>7, <1>8, <1>9 DEF Works

LEMMA TornIsPlacedStep ==
    ASSUME MarketTypes, StepsInOrder, Calm, NEW o \in Ops, Works(o)
    PROVE  TornIsPlaced'
<1> DEFINE h == Head(op[o].todo)
<1>1. SUFFICES ASSUME NEW a \in Assets, disk'[a] = Torn
               PROVE  \E q \in Ops : op'[q].step = "placing" /\ Head(op'[q].todo) = a
  BY DEF TornIsPlaced
<1>2. disk \in [Assets -> Nat \cup {Torn}] /\ \A q \in Ops \ {o} : op'[q] = op[q]
  BY DEF MarketTypes, Works, Step1
<1>3. CASE Placing(o) /\ a = h
  BY <1>3 DEF Placing
<1>4. CASE ~(Placing(o) /\ a = h)
  <2>1. disk[a] = Torn /\ ~(PlacingDone(o) /\ a = h)
    <3>1. CASE Placing(o)
      BY <1>1, <1>2, <1>4, <3>1 DEF Placing
    <3>2. CASE PlacingDone(o)
      <4>1. op[o].step = "placing" /\ disk' = [disk EXCEPT ![h] = op[o].version]
        BY <3>2 DEF PlacingDone
      <4>2. op[o].version # Torn
        BY <4>1, NextAsset, PackageFacts
      <4> QED
        BY <1>1, <1>2, <4>1, <4>2
    <3>3. CASE Removing(o)
      BY <1>1, <1>2, <3>3, MarketAssumption DEF Removing, PlacingDone
    <3>4. CASE ~Placing(o) /\ ~PlacingDone(o) /\ ~Removing(o)
      BY <1>1, <3>4 DEF Works, Idling, Beginning, LookedUp, Reading, Truncating, Writing,
            Allowed, Refused, AgentMade
    <3> QED
      BY <3>1, <3>2, <3>3, <3>4
  <2>2. PICK q \in Ops : op[q].step = "placing" /\ Head(op[q].todo) = a
    BY <2>1 DEF Calm, TornIsPlaced
  <2>3. q # o
    BY <2>1, <2>2 DEF Works, Idling, Beginning, LookedUp, Removing, Placing, PlacingDone,
          Reading, Truncating, Writing,
       Allowed, Refused, AgentMade, OffAssets
  <2> QED
    BY <1>2, <2>2, <2>3
<1> QED
  BY <1>3, <1>4

LEMMA RemovesKnownStep ==
    ASSUME MarketTypes, StepsInOrder, Calm, NEW o \in Ops, Works(o)
    PROVE  RemovesKnown'
<1> DEFINE Known(r) == Elems(r.todo) \subseteq AssetsOf(r.package, r.version)
                                                \cup (IF r.kind = "uninstall" THEN {} ELSE past.dropped)
<1>1. \A q \in Ops : op[q].step = "remove" => Known(op[q])
  BY DEF Calm, RemovesKnown
<1>2. past.dropped \subseteq past'.dropped /\ \A q \in Ops \ {o} : op'[q] = op[q]
  BY DEF Works, Step1
<1>3. ASSUME op'[o].step = "remove"
      PROVE  Elems(op'[o].todo) \subseteq AssetsOf(op'[o].package, op'[o].version)
                                            \cup (IF op'[o].kind = "uninstall" THEN {} ELSE past'.dropped)
  <2>1. LookedUp(o) \/ Removing(o) \/ Allowed(o)
    BY <1>3 DEF Works, Idling, Beginning, Placing, PlacingDone, Reading, Truncating,
          Writing, Refused, AgentMade, OffAssets
  <2>2. CASE LookedUp(o)
    <3>1. op[o].kind # "uninstall"
      BY <2>2 DEF LookedUp, StepsInOrder, InOrder
    <3> QED
      BY <1>3, <2>2, <3>1 DEF LookedUp, Keeps
  <2>3. CASE Removing(o)
    <3>1. op[o].step = "remove" /\ Keeps(o) /\ op'[o].todo = Tail(op[o].todo)
      BY <1>3, <2>3 DEF Removing
    <3>2. Elems(Tail(op[o].todo)) \subseteq Elems(op[o].todo) /\ Known(op[o])
      BY <3>1, <1>1, NextAsset
    <3> QED
      BY <1>2, <3>1, <3>2 DEF Keeps
  <2>4. CASE Allowed(o)
    BY <1>3, <2>4 DEF Allowed, Keeps
  <2> QED
    BY <2>1, <2>2, <2>3, <2>4
<1> QED
  BY <1>1, <1>2, <1>3 DEF RemovesKnown

LEMMA UninstallsUnusedStep ==
    ASSUME MarketTypes, StepsInOrder, Calm, NEW o \in Ops, Works(o)
    PROVE  UninstallsUnused'
<1>1. SUFFICES ASSUME NEW q \in Ops, NEW x \in Agents, op'[q].kind = "uninstall", op'[q].step = "remove",
                      agents'[x] \in AssetsOf(op'[q].package, op'[q].version)
               PROVE  x \in past'.late
  BY DEF UninstallsUnused
<1>2. past.late \subseteq past'.late /\ \A s \in Ops \ {o} : op'[s] = op[s]
  BY DEF Works, Step1
<1>3. CASE AgentMade(o) /\ op[o].kind = x
  <2> DEFINE a == Head(op[o].todo)
             l == \/ disk[a] = 0
                  \/ \E s \in Ops : op[s].kind = "uninstall" /\ op[s].step = "remove" /\ a \in AssetsOf(op[s].package, op[s].version)
  <2>1. /\ op'[o].step \in OffAssets /\ agents' = [agents EXCEPT ![x] = a]
        /\ past' = [past EXCEPT !.late = IF l THEN @ \cup {x} ELSE @]
    BY <1>3 DEF AgentMade
  <2>2. agents'[x] = a
    BY <2>1 DEF MarketTypes
  <2>3. q # o
    BY <1>1, <2>1 DEF OffAssets
  <2>4. l
    BY <1>1, <1>2, <2>2, <2>3
  <2>5. past' = [past EXCEPT !.late = @ \cup {x}]
    BY <2>1, <2>4
  <2> QED
    BY <2>5 DEF MarketTypes, Past
<1>4. CASE ~(AgentMade(o) /\ op[o].kind = x)
  <2>1. agents'[x] = agents[x]
    BY <1>4 DEF Works, Idling, Beginning, LookedUp, Removing, Placing, PlacingDone,
          Reading, Truncating, Writing,
       Allowed, Refused, AgentMade, MarketTypes
  <2>2. CASE q # o \/ Removing(o)
    <3>1. op[q].kind = "uninstall" /\ op[q].step = "remove" /\ op[q].package = op'[q].package /\ op[q].version = op'[q].version
      BY <1>1, <1>2, <2>2 DEF Removing, Keeps
    <3> QED
      BY <1>1, <1>2, <2>1, <3>1 DEF Calm, UninstallsUnused
  <2>3. CASE q = o /\ Allowed(o)
    <3>1. References(op[o].package, op[o].version) = {} /\ Keeps(o)
      BY <2>3 DEF Allowed
    <3> QED
      BY <1>1, <2>1, <2>3, <3>1 DEF References, Keeps
  <2>4. CASE q = o /\ ~Removing(o) /\ ~Allowed(o)
    <3>1. op[o].step = "lookup" /\ Keeps(o)
      BY <1>1, <2>4 DEF Works, Idling, Beginning, LookedUp, Placing, PlacingDone,
            Reading, Truncating, Writing, Refused,
         AgentMade, OffAssets
    <3> QED
      BY <1>1, <2>4, <3>1 DEF Keeps, StepsInOrder, InOrder
  <2> QED
    BY <2>2, <2>3, <2>4
<1> QED
  BY <1>3, <1>4


LEMMA PersonaComesStep ==
    ASSUME MarketTypes, StepsInOrder, Calm, NEW o \in Ops, Works(o)
    PROVE  PersonaComes'
<1> DEFINE r == op[o]
           n == op'[o]
           h == Head(op[o].todo)
<1>1. SUFFICES ASSUME NEW x \in Agents, agents'[x] \in Personas, agents'[x] \notin past'.dropped, x \notin past'.late
               PROVE  disk'[agents'[x]] \notin {0, Torn} \/ \E q \in Ops : Brings(op'[q], agents'[x])
  BY DEF PersonaComes, Brings
<1> DEFINE a == agents'[x]
<1>2. /\ a \in Assets /\ a \notin past.dropped /\ x \notin past.late /\ \A q \in Ops \ {o} : op'[q] = op[q]
      /\ disk \in [Assets -> Nat \cup {Torn}]
  BY <1>1 DEF Works, Step1, Personas, MarketTypes
<1>3. CASE AgentMade(o) /\ op[o].kind = x
  <2> DEFINE l == \/ disk[h] = 0
                  \/ \E s \in Ops : op[s].kind = "uninstall" /\ op[s].step = "remove" /\ h \in AssetsOf(op[s].package, op[s].version)
  <2>1. /\ op[o].step = "agent" /\ agents' = [agents EXCEPT ![x] = h] /\ disk' = disk
        /\ past' = [past EXCEPT !.late = IF l THEN @ \cup {x} ELSE @]
    BY <1>3 DEF AgentMade
  <2>2. a = h
    BY <2>1 DEF MarketTypes
  <2>3. ~l
    <3>1. SUFFICES ASSUME l PROVE FALSE
      OBVIOUS
    <3>2. past' = [past EXCEPT !.late = @ \cup {x}]
      BY <2>1, <3>1
    <3> QED
      BY <1>1, <3>2 DEF MarketTypes, Past
  <2>4. CASE disk[a] # Torn
    BY <2>1, <2>2, <2>3, <2>4
  <2>5. CASE disk[a] = Torn
    <3>1. PICK q \in Ops : op[q].step = "placing" /\ Head(op[q].todo) = a
      BY <1>2, <2>5 DEF Calm, TornIsPlaced
    <3>2. Brings(op[q], a)
      BY <3>1, NextAsset DEF Brings
    <3>3. q # o
      BY <2>1, <3>1
    <3> QED
      BY <1>2, <3>2, <3>3
  <2> QED
    BY <2>4, <2>5
<1>4. CASE ~(AgentMade(o) /\ op[o].kind = x)
  <2>1. agents'[x] = agents[x]
    BY <1>4 DEF Works, Idling, Beginning, LookedUp, Removing, Placing, PlacingDone,
          Reading, Truncating, Writing,
       Allowed, Refused, AgentMade, MarketTypes
  <2> HIDE DEF a
  <2>2. disk[a] \notin {0, Torn} \/ \E q \in Ops : Brings(op[q], a)
    BY <1>1, <1>2, <2>1 DEF Calm, PersonaComes, a
  <2>3. ASSUME NEW q \in Ops, q # o, Brings(op[q], a) PROVE Brings(op'[q], a)
    BY <1>2, <2>3
  <2>4. SUFFICES ASSUME disk[a] \notin {0, Torn} \/ Brings(r, a) PROVE disk'[a] \notin {0, Torn} \/ Brings(n, a)
    BY <2>2, <2>3 DEF a
  <2>5. CASE Removing(o)
    <3>1. r.step = "remove" /\ Keeps(o) /\ disk' = [disk EXCEPT ![h] = 0]
      BY <2>5 DEF Removing
    <3>2. CASE a # h /\ disk[a] \notin {0, Torn}
      BY <1>2, <3>1, <3>2
    <3>3. CASE a = h /\ r.kind = "uninstall"
      <4>1. h \in AssetsOf(r.package, r.version)
        BY <3>1, <3>3, NextAsset DEF Calm, RemovesKnown
      <4>2. x \in past.late
        BY <2>1, <3>1, <3>3, <4>1 DEF Calm, UninstallsUnused, a
      <4> QED
        BY <1>2, <4>2
    <3>4. CASE a = h /\ r.kind # "uninstall"
      <4>1. h \in AssetsOf(r.package, r.version) \cup past.dropped
        BY <3>1, <3>4, NextAsset DEF Calm, RemovesKnown
      <4>2. a \in AssetsOf(r.package, r.version)
        BY <1>2, <3>4, <4>1 DEF a
      <4> QED
        BY <2>5, <3>1, <3>4, <4>2 DEF Removing, Keeps, Brings
    <3>5. CASE Brings(r, a)
      BY <2>5, <3>1, <3>5 DEF Removing, Keeps, Brings
    <3> QED
      BY <2>4, <3>2, <3>3, <3>4, <3>5
  <2>6. CASE Placing(o)
    <3>1. r.step = "place" /\ Keeps(o) /\ n.step = "placing" /\ disk' = [disk EXCEPT ![h] = Torn]
      BY <2>6 DEF Placing
    <3>2. h \in AssetsOf(r.package, r.version) /\ r.kind # "uninstall"
      BY <3>1, NextAsset
    <3>3. CASE a = h \/ Brings(r, a)
      BY <3>1, <3>2, <3>3 DEF Keeps, Brings
    <3>4. CASE a # h /\ ~Brings(r, a)
      BY <1>2, <2>4, <3>1, <3>4
    <3> QED
      BY <3>3, <3>4
  <2>7. CASE PlacingDone(o)
    <3>1. /\ r.step = "placing" /\ Keeps(o) /\ disk' = [disk EXCEPT ![h] = r.version]
          /\ n.step \in {"place", "read"} /\ n.todo = Tail(r.todo) /\ (n.step = "read" => Tail(r.todo) = <<>>)
      BY <2>7 DEF PlacingDone
    <3>2. /\ r.package \in Packages /\ r.version \in DOMAIN Contents[r.package]
          /\ Elems(r.todo) \subseteq Elems(Tail(r.todo)) \cup {h} /\ (Tail(r.todo) = <<>> => Elems(Tail(r.todo)) = {})
      BY <3>1, NextAsset
    <3>3. r.version \notin {0, Torn}
      BY <3>2, MarketAssumption
    <3>4. CASE a = h
      BY <1>2, <3>1, <3>3, <3>4 DEF a
    <3>5. CASE a # h /\ disk[a] \notin {0, Torn}
      BY <1>2, <3>1, <3>5
    <3>6. CASE a # h /\ Brings(r, a)
      <4>1. CASE n.step = "place"
        BY <3>1, <3>6, <4>1 DEF Keeps, Brings
      <4>2. CASE n.step = "read"
        <5>1. disk[a] = r.version \/ a \in Elems(r.todo)
          BY <3>1, <3>6 DEF Calm, PlacedStays, Brought, Brings
        <5>2. disk[a] = r.version
          BY <3>1, <3>2, <3>6, <4>2, <5>1
        <5> QED
          BY <1>2, <3>1, <3>3, <3>6, <5>2
      <4> QED
        BY <3>1, <4>1, <4>2
    <3> QED
      BY <2>4, <3>4, <3>5, <3>6
  <2>8. CASE ~Removing(o) /\ ~Placing(o) /\ ~PlacingDone(o)
    <3>1. disk' = disk /\ r.step \notin {"remove", "place", "placing"}
      BY <2>8 DEF Works, Idling, Beginning, LookedUp, Reading, Truncating, Writing,
            Allowed, Refused, AgentMade, OffAssets
    <3> QED
      BY <2>4, <3>1 DEF Brings
  <2> QED
    BY <2>5, <2>6, <2>7, <2>8
<1> QED
  BY <1>3, <1>4

\* What is expected of the disk while one operation, o, takes a step.
LEMMA ExpectsStep ==
    ASSUME MarketTypes, StepsInOrder, Calm, NEW o \in Ops, Works(o), ~past'.lost, ~past'.clash
    PROVE  Expects(op[o])'
<1> DEFINE r == op[o]
           n == op'[o]
           h == Head(op[o].todo)
<1>1. Expects(r) /\ \A p \in Packages : Working(p) = {} => Holds(p, file.packages[p])
  BY DEF Calm, DiskOfWork, Works, Step1
<1>2. disk \in [Assets -> Nat \cup {Torn}] /\ file \in Files
  BY DEF MarketTypes
<1>3. CASE Idling(o) \/ Writing(o) \/ Refused(o) \/ AgentMade(o)
  <2>1. n.step \in OffAssets
    BY <1>3 DEF Idling, Writing, Refused, AgentMade
  <2> QED
    BY <2>1 DEF Expects, OffAssets, OnAssets
<1>4. CASE Beginning(o)
  <2>1. /\ n.step = "check" /\ n.version = Registered(file)[n.package] /\ n.version # 0
        /\ Working(n.package) = {} /\ disk' = disk /\ file' = file
    BY <1>4 DEF Beginning
  <2>2. n.package \in Packages
    BY <2>1 DEF Works, Step1, InOrder, OnAssets
  <2>3. n.version = file.packages[n.package]
    BY <1>2, <2>1, <2>2, RegisteredFacts
  <2>4. Holds(n.package, n.version)
    BY <1>1, <2>1, <2>2, <2>3
  <2> QED
    BY <2>1, <2>3, <2>4 DEF Expects, Holds, OnAssets
<1>5. CASE LookedUp(o)
  <2> DEFINE p == r.package
             previous == Registered(file)[p]
  <2>1. /\ r.step = "lookup" /\ Keeps(o) /\ Working(p) = {} /\ ~file.torn /\ disk' = disk /\ file' = file
        /\ \/ n.step = "remove" /\ Elems(n.todo) = AssetsOf(p, previous)
           \/ AssetsOf(p, previous) = {} /\ n.step \in {"read", "place"}
    BY <1>5 DEF LookedUp
  <2>2. p \in Packages
    BY <2>1 DEF StepsInOrder, InOrder
  <2>3. previous = file.packages[p]
    BY <1>2, <2>1, <2>2, RegisteredFacts
  <2>4. Holds(p, previous)
    BY <1>1, <2>1, <2>2, <2>3
  <2> QED
    BY <2>1, <2>4 DEF Expects, Holds, Keeps, OnAssets
<1>6. CASE Removing(o)
  <2>1. /\ r.step = "remove" /\ Keeps(o) /\ disk' = [disk EXCEPT ![h] = 0] /\ file' = file
        /\ \/ n.step = "remove" /\ n.todo = Tail(r.todo)
           \/ n.step \in {"truncate", "read", "place"} /\ Tail(r.todo) = <<>>
    BY <1>6 DEF Removing
  <2>2. /\ Elems(r.todo) \subseteq Elems(Tail(r.todo)) \cup {h} /\ (Tail(r.todo) = <<>> => Elems(Tail(r.todo)) = {})
        /\ r.package \in Packages /\ h \in Assets
    BY <2>1, NextAsset
  <2>3. ASSUME NEW a \in Everything(r.package) \ Elems(Tail(r.todo)) PROVE disk'[a] = 0
    <3>1. a \in Assets
      BY <2>2, PackageFacts
    <3>2. a = h \/ disk[a] = 0
      BY <1>1, <2>1, <2>2, <2>3 DEF Expects
    <3> QED
      BY <1>2, <2>1, <3>1, <3>2
  <2> QED
    BY <2>1, <2>2, <2>3 DEF Expects, Keeps, OnAssets
<1>7. CASE Placing(o) \/ PlacingDone(o)
  <2>1. /\ r.step \in {"place", "placing"} /\ Keeps(o) /\ file' = file /\ n.step \in {"place", "placing", "read"}
        /\ \A a \in Assets : a # h => disk'[a] = disk[a]
    BY <1>2, <1>7 DEF Placing, PlacingDone
  <2>2. h \in AssetsOf(r.package, r.version) /\ r.kind # "uninstall" /\ r.package \in Packages
    BY <2>1, NextAsset
  <2>3. ASSUME NEW a \in Everything(r.package), a \notin AssetsOf(r.package, r.version) PROVE disk'[a] = 0
    <3>1. a \in Assets
      BY <2>2, PackageFacts
    <3>2. disk[a] = 0
      BY <1>1, <2>1, <2>3 DEF Expects, OnAssets
    <3> QED
      BY <2>1, <2>2, <2>3, <3>1, <3>2
  <2> QED
    BY <2>1, <2>2, <2>3 DEF Expects, Keeps
<1>8. CASE Reading(o) \/ Truncating(o)
  <2>1. r.step \in {"read", "truncate"} /\ Keeps(o) /\ n.step \in {"truncate", "writing"} /\ disk' = disk
    BY <1>8 DEF Reading, Truncating
  <2> QED
    BY <1>1, <2>1 DEF Expects, Keeps, OnAssets
<1>9. CASE Allowed(o)
  <2>1. /\ r.step = "check" /\ Keeps(o) /\ disk' = disk
        /\ \/ n.step = "remove" /\ Elems(n.todo) = AssetsOf(r.package, r.version)
           \/ n.step = "truncate" /\ AssetsOf(r.package, r.version) = {}
    BY <1>9 DEF Allowed
  <2>2. Holds(r.package, r.version)
    BY <1>1, <2>1 DEF Expects
  <2> QED
    BY <2>1, <2>2 DEF Expects, Keeps, Holds, OnAssets
<1> QED
  BY <1>3, <1>4, <1>5, <1>6, <1>7, <1>8, <1>9 DEF Works


LEMMA DiskOfWorkStep ==
    ASSUME MarketTypes, MarketTypes', StepsInOrder, StepsInOrder', Calm, NEW o \in Ops, Works(o), ~past'.clash
    PROVE  DiskOfWork'
<1> SUFFICES ASSUME ~past'.lost PROVE DiskOfWork'
  BY DEF DiskOfWork
<1> DEFINE r == op[o]
           n == op'[o]
<1>1. /\ \A q \in Ops : Expects(op[q])
      /\ \A p \in Packages : Working(p) = {} => Holds(p, file.packages[p])
      /\ \A q \in Ops \ {o} : op'[q] = op[q]
  BY DEF Calm, DiskOfWork, Works, Step1
<1>2. file \in Files /\ file' \in Files
  BY DEF MarketTypes
\* The entries of the other packages stay.
<1>3. ASSUME NEW p \in Packages, p # r.package \/ ~Writing(o) PROVE file'.packages[p] = file.packages[p]
  <2>1. CASE Truncating(o)
    BY <1>2, <2>1 DEF Truncating, Files
  <2>2. CASE Writing(o)
    <3>1. r.step = "writing" /\ file'.packages = [Registered(r.read) EXCEPT ![r.package] = IF r.kind = "uninstall" THEN 0 ELSE r.version]
      BY <2>2 DEF Writing
    <3>2. r.read \in Files /\ ~r.read.torn /\ file.packages = r.read.packages
      BY <3>1 DEF Calm, OneWriter, Works, Step1, StepsInOrder, InOrder
    <3>3. Registered(r.read) = file.packages
      BY <3>2, RegisteredFacts
    <3> QED
      BY <1>2, <1>3, <2>2, <3>1, <3>3 DEF Files
  <2>3. CASE ~Truncating(o) /\ ~Writing(o)
    BY <2>3 DEF Works, Idling, Beginning, LookedUp, Removing, Placing, PlacingDone,
          Reading, Allowed, Refused, AgentMade
  <2> QED
    BY <2>1, <2>2, <2>3
<1>4. ASSUME NEW q \in Ops, q # o PROVE Expects(op[q])'
  <2> SUFFICES ASSUME op[q].step \in OnAssets PROVE Expects(op[q])'
    BY <1>1, <1>4 DEF Expects, OnAssets
  <2>1. /\ op'[q] = op[q] /\ op[q].package \in Packages
        /\ \A a \in Everything(op[q].package) : a \in Assets /\ disk'[a] = disk[a]
    BY <1>4, OthersKeepDisk
  <2>2. Expects(op[q])
    BY <1>1
  <2>3. op[q].package # r.package \/ ~Writing(o)
    <3>1. SUFFICES ASSUME op[q].package = r.package, r.step = "writing" PROVE FALSE
      BY DEF Writing
    <3>2. q \in Working(op[q].package) /\ o \in Working(op[q].package)
      BY <3>1, WorkingIs DEF OnAssets
    <3> QED
      BY <1>4, <2>1, <3>2 DEF Calm, OneWorker
  <2>4. file'.packages[op[q].package] = file.packages[op[q].package]
    BY <1>3, <2>1, <2>3
  <2> QED
    BY <2>1, <2>2, <2>4 DEF Expects, Holds
<1>5. Expects(op[o])'
  BY ExpectsStep
<1>6. ASSUME NEW p \in Packages, Working(p)' = {} PROVE Holds(p, file.packages[p])'
  \* A package that nobody works on before either
  <2>1. CASE Working(p) = {}
    <3>1. p # r.package \/ ~Writing(o)
      BY <2>1, WorkingIs DEF Writing, OnAssets
    <3>2. file'.packages[p] = file.packages[p] /\ Holds(p, file.packages[p])
      BY <1>1, <1>3, <2>1, <3>1
    <3>3. ASSUME NEW a \in Everything(p) PROVE disk'[a] = disk[a]
      <4>1. a \in Assets
        BY PackageFacts, MarketAssumption
      <4>2. SUFFICES ASSUME disk'[a] # disk[a] PROVE FALSE
        OBVIOUS
      <4>3. r.step \in OnAssets /\ a \in Everything(r.package) /\ r.package \in Packages
        BY <4>1, <4>2, DiskElsewhere DEF OnAssets
      <4>4. r.package = p
        BY <4>3, OnePackage
      <4> QED
        BY <2>1, <4>3, <4>4, WorkingIs
    <3> QED
      BY <3>2, <3>3 DEF Holds
  \* A package whose worker is done
  <2>2. CASE Working(p) # {}
    <3>1. PICK q \in Ops : q \in Working(p)
      BY <2>2 DEF Working
    <3>2. q = o
      <4>1. SUFFICES ASSUME q # o PROVE FALSE
        OBVIOUS
      <4>2. q \in Working(p)'
        BY <1>1, <3>1, <4>1 DEF Working
      <4> QED
        BY <1>6, <4>2
    <3>3. r.package = p /\ r.step \in OnAssets
      BY <3>1, <3>2, WorkingIs
    <3>4. ~(n.package = p /\ n.step \in OnAssets)
      BY <1>6 DEF Working, OnAssets
    <3>5. Writing(o) \/ Refused(o)
      BY <3>3, <3>4 DEF Works, Step1, InOrder, Idling, Beginning, LookedUp, Removing,
            Placing, PlacingDone, Reading, Truncating, Allowed,
         AgentMade, Keeps, OnAssets, OffAssets
    <3>6. Expects(r)
      BY <1>1
    <3>7. CASE Refused(o)
      <4>1. r.step = "check" /\ disk' = disk /\ file' = file
        BY <3>7 DEF Refused
      <4> QED
        BY <3>3, <3>6, <4>1 DEF Expects, Holds
    <3>8. CASE Writing(o)
      <4> DEFINE v == IF r.kind = "uninstall" THEN 0 ELSE r.version
      <4>1. r.step = "writing" /\ disk' = disk /\ file'.packages = [Registered(r.read) EXCEPT ![p] = v]
        BY <3>3, <3>8 DEF Writing
      <4>2. r.read \in Files
        BY <4>1 DEF StepsInOrder, InOrder
      <4>3. file'.packages[p] = v
        <5>1. Registered(r.read) \in [Packages -> Versions]
          BY <4>2, RegisteredFacts
        <5> QED
          BY <4>1, <5>1
      <4>4. \A a \in Everything(p) : r.kind = "uninstall" \/ a \notin AssetsOf(p, r.version) => disk[a] = 0
        BY <3>3, <3>6, <4>1 DEF Expects, OnAssets
      <4>5. r.kind # "uninstall" => \A a \in AssetsOf(p, r.version) : disk[a] = r.version
        BY <3>3, <4>1 DEF Calm, PlacedStays, Brought
      <4>6. AssetsOf(p, 0) = {}
        BY DEF AssetsOf
      <4> QED
        BY <4>1, <4>3, <4>4, <4>5, <4>6 DEF Holds
    <3> QED
      BY <3>5, <3>7, <3>8
  <2> QED
    BY <2>1, <2>2
<1>7. ASSUME NEW q \in Ops PROVE Expects(op[q])'
  BY <1>4, <1>5
<1> QED
  BY <1>6, <1>7 DEF DiskOfWork

LEMMA CalmStep ==
    ASSUME MarketTypes, MarketTypes', StepsInOrder, StepsInOrder', Calm, NEW o \in Ops, Works(o), ~past'.clash
    PROVE  Calm'
BY OneWorkerStep, OneWriterStep, PlacedStaysStep, TornIsPlacedStep, DiskOfWorkStep,
      RemovesKnownStep,
   UninstallsUnusedStep, PersonaComesStep DEF Calm

LEMMA MarketStep == MarketInd /\ [MarketNext]_marketVars => MarketInd'
<1> SUFFICES ASSUME MarketInd, [MarketNext]_marketVars PROVE MarketInd'
  OBVIOUS
<1>1. /\ MarketTypes' /\ StepsInOrder'
      /\ Rests \/ ~Undisturbed' \/ \E o \in Ops : Works(o)
  BY EveryStep DEF MarketInd
<1>2. CASE ~Undisturbed'
  BY <1>1, <1>2 DEF MarketInd
<1>3. CASE Rests
  <2>1. Calm' <=> Calm
    BY <1>3 DEF Rests, Calm, OneWorker, OneWriter, PlacedStays, TornIsPlaced, DiskOfWork,
          RemovesKnown,
       UninstallsUnused, PersonaComes, Working, Brought, Expects, Holds, Brings
  <2>2. Undisturbed' <=> Undisturbed
    BY <1>3 DEF Rests, Undisturbed
  <2> QED
    BY <1>1, <2>1, <2>2 DEF MarketInd
<1>4. ASSUME NEW o \in Ops, Works(o), Undisturbed' PROVE Calm'
  <2>1. ~past'.clash /\ Undisturbed
    BY <1>4 DEF Undisturbed, Works, Step1
  <2> QED
    BY <1>1, <1>4, <2>1, CalmStep DEF MarketInd
<1> QED
  BY <1>1, <1>2, <1>3, <1>4 DEF MarketInd

LEMMA MarketStart == MarketInit => MarketInd
<1> SUFFICES ASSUME MarketInit PROVE MarketInd
  OBVIOUS
<1> DEFINE d(used) == [a \in Assets |-> IF used /\ \E p \in Packages : a \in AssetsOf(p, 1) THEN 1 ELSE 0]
           f(used) == [torn |-> FALSE, packages |-> [p \in Packages |-> IF used THEN 1 ELSE 0]]
<1>1. PICK used \in BOOLEAN : disk = d(used) /\ file = f(used) /\ page = [Blank EXCEPT !.device = used]
  BY DEF MarketInit
<1>2. /\ op = [o \in Ops |-> IdleOp] /\ agents = [x \in Agents |-> None]
      /\ bound = [commands |-> 0, faults |-> 0]
      /\ past = [lost |-> FALSE, clash |-> FALSE, dropped |-> {}, late |-> {}]
  BY DEF MarketInit
<1>3. IdleOp \in Operation /\ IdleOp.step = "idle" /\ InOrder(IdleOp)
  BY IdleFacts
<1>4. \A o \in Ops : op[o] = IdleOp
  BY <1>2
<1>5. StepsInOrder
  BY <1>3, <1>4 DEF StepsInOrder
<1>6. file \in Files
  <2>1. 0 \in Versions /\ \A p \in Packages : 1 \in DOMAIN Contents[p] /\ 1 \in Versions
    BY PackageFacts, MarketAssumption DEF Versions
  <2> QED
    BY <1>1, <2>1 DEF Files
<1>7. MarketTypes
  <2>1. disk \in [Assets -> Nat \cup {Torn}]
    BY <1>1
  <2>2. page \in Pages
    BY <1>1 DEF Pages, Blank, Versions
  <2> QED
    BY <1>2, <1>3, <1>6, <2>1, <2>2 DEF MarketTypes, Past
<1>8. ASSUME NEW p \in Packages PROVE Working(p) = {}
  BY <1>3, <1>4 DEF Working
<1>9. ASSUME NEW p \in Packages PROVE Holds(p, file.packages[p])
  <2>1. file.packages[p] = IF used THEN 1 ELSE 0
    BY <1>1
  <2>2. 1 \in DOMAIN Contents[p] /\ \A q \in Packages : 1 \in DOMAIN Contents[q]
    BY MarketAssumption
  <2>3. ASSUME NEW a \in Everything(p) PROVE disk[a] = IF a \in AssetsOf(p, file.packages[p]) THEN file.packages[p] ELSE 0
    <3>1. a \in Assets
      BY <2>2, PackageFacts
    <3>2. AssetsOf(p, 0) = {}
      BY DEF AssetsOf
    <3>3. ASSUME NEW q \in Packages, a \in AssetsOf(q, 1) PROVE a \in AssetsOf(p, 1)
      <4>1. a \in Everything(q)
        BY <2>2, <3>3, PackageFacts
      <4> QED
        BY <3>3, <4>1, OnePackage
    <3>4. disk[a] = IF used /\ a \in AssetsOf(p, 1) THEN 1 ELSE 0
      BY <1>1, <3>1, <3>3
    <3> QED
      BY <2>1, <3>2, <3>4
  <2> QED
    BY <2>3 DEF Holds
<1>10. ASSUME NEW a \in Assets PROVE disk[a] # Torn
  BY <1>1, MarketAssumption
<1>11. None \notin Personas
  BY MarketAssumption DEF Personas
<1>12. OneWriter /\ OneWorker
  BY <1>1, <1>3, <1>4, <1>8 DEF OneWriter, OneWorker
<1>13. PlacedStays /\ TornIsPlaced
  BY <1>3, <1>4, <1>10 DEF PlacedStays, TornIsPlaced, Brought
<1>14. DiskOfWork
  BY <1>3, <1>4, <1>9 DEF DiskOfWork, Expects, OnAssets
<1>15. RemovesKnown /\ UninstallsUnused
  BY <1>3, <1>4 DEF RemovesKnown, UninstallsUnused
<1>16. PersonaComes
  BY <1>2, <1>11 DEF PersonaComes
<1> QED
  BY <1>5, <1>7, <1>12, <1>13, <1>14, <1>15, <1>16 DEF MarketInd, Calm

LEMMA MarketEnd == MarketInd => MarketInv
<1> SUFFICES ASSUME MarketInd PROVE MarketInv
  OBVIOUS
<1>1. TypeOK
  BY DEF MarketInd, MarketTypes, StepsInOrder, InOrder, Files, TypeOK
<1>2. RegisteredIsThere
  BY DEF MarketInd, Calm, DiskOfWork, Holds, RegisteredIsThere
<1>3. AgentsResolve
  <2> SUFFICES ASSUME Undisturbed, NEW x \in Agents, agents[x] \in Personas,
                      agents[x] \notin past.dropped, x \notin past.late, disk[agents[x]] \in {0, Torn}
               PROVE  \E p \in Packages : agents[x] \in Everything(p) /\ Working(p) # {}
    BY DEF AgentsResolve
  <2>1. PICK o \in Ops : Brings(op[o], agents[x])
    BY DEF MarketInd, Calm, PersonaComes
  <2>2. op[o].package \in Packages /\ op[o].version \in DOMAIN Contents[op[o].package] /\ op[o].step \in OnAssets
    BY <2>1 DEF Brings, MarketInd, StepsInOrder, InOrder, OnAssets
  <2>3. agents[x] \in Everything(op[o].package)
    BY <2>1, <2>2, PackageFacts DEF Brings
  <2>4. o \in Working(op[o].package)
    BY <2>2, WorkingIs
  <2> QED
    BY <2>2, <2>3, <2>4
<1> QED
  BY <1>1, <1>2, <1>3 DEF MarketInv

\* Once no command runs and nothing has failed or raced, the packages the registry file names are
\* there with all their assets, and every persona an agent was created from can still be resolved,
\* unless it was uninstalled: for any packages, versions, agents and number of operations.
THEOREM MarketIsWhole == MarketSpec => []MarketInv
BY MarketStart, MarketStep, MarketEnd, PTL DEF MarketSpec

-----------------------------------------------------------------------------
(* The event hub. *)

USE HubAssumption

-----------------------------------------------------------------------------
(* Sequences                                                               *)

\* What a sequence holds is what it is a sequence of.
LEMMA HeldIsTyped ==
    ASSUME NEW S, NEW s \in Seq(S), NEW f \in ToSet(s)
    PROVE  f \in S
BY DEF ToSet

\* Append adds its element, at the end.
LEMMA AppendHolds ==
    ASSUME NEW S, NEW s \in Seq(S), NEW e \in S
    PROVE  /\ Append(s, e) \in Seq(S)
           /\ Len(Append(s, e)) = Len(s) + 1
           /\ \A i \in 1..Len(s) : Append(s, e)[i] = s[i]
           /\ Append(s, e)[Len(s) + 1] = e
           /\ ToSet(Append(s, e)) = ToSet(s) \cup {e}
<1>1. /\ Append(s, e) \in Seq(S)
      /\ Len(s) \in Nat
      /\ Len(Append(s, e)) = Len(s) + 1
      /\ \A i \in 1..Len(s) : Append(s, e)[i] = s[i]
      /\ Append(s, e)[Len(s) + 1] = e
  OBVIOUS
<1>2. DOMAIN s = 1..Len(s) /\ DOMAIN Append(s, e) = 1..(Len(s) + 1)
  BY <1>1
<1>3. ASSUME NEW i \in DOMAIN Append(s, e) PROVE Append(s, e)[i] \in ToSet(s) \cup {e}
  <2>1. CASE i = Len(s) + 1
    BY <2>1, <1>1
  <2>2. CASE i \in 1..Len(s)
    BY <2>2, <1>1, <1>2 DEF ToSet
  <2>3. QED
    BY <2>1, <2>2, <1>1, <1>2
<1>4. ASSUME NEW i \in DOMAIN s PROVE s[i] \in ToSet(Append(s, e))
  BY <1>1, <1>2 DEF ToSet
<1>5. e \in ToSet(Append(s, e))
  BY <1>1, <1>2 DEF ToSet
<1>6. QED
  BY <1>1, <1>3, <1>4, <1>5 DEF ToSet

\* Appending what a sequence does not hold repeats nothing.
LEMMA AppendKeepsInjective ==
    ASSUME NEW S, NEW s \in Seq(S), NEW e \in S, IsInjective(s), e \notin ToSet(s)
    PROVE  IsInjective(Append(s, e))
<1> SUFFICES ASSUME NEW i \in DOMAIN Append(s, e), NEW j \in DOMAIN Append(s, e),
                    Append(s, e)[i] = Append(s, e)[j]
             PROVE  i = j
  BY DEF IsInjective
<1>1. Len(s) \in Nat /\ DOMAIN s = 1..Len(s) /\ DOMAIN Append(s, e) = 1..(Len(s) + 1)
  OBVIOUS
<1>2. \A k \in 1..Len(s) : s[k] # e
  BY <1>1 DEF ToSet
<1>3. CASE i \in 1..Len(s) /\ j \in 1..Len(s)
  <2>1. s[i] = s[j]
    BY <1>3, AppendHolds
  <2>2. QED
    BY <2>1, <1>1, <1>3 DEF IsInjective
<1>4. CASE i = Len(s) + 1 /\ j \in 1..Len(s)
  <2>1. e = s[j]
    BY <1>4, AppendHolds
  <2>2. QED
    BY <2>1, <1>2, <1>4
<1>5. CASE i \in 1..Len(s) /\ j = Len(s) + 1
  <2>1. s[i] = e
    BY <1>5, AppendHolds
  <2>2. QED
    BY <2>1, <1>2, <1>5
<1>6. (i \in 1..Len(s) \/ i = Len(s) + 1) /\ (j \in 1..Len(s) \/ j = Len(s) + 1)
  BY <1>1
<1>7. QED
  BY <1>3, <1>4, <1>5, <1>6

\* Head and tail share out what a sequence holds.
LEMMA HeadTail ==
    ASSUME NEW S, NEW s \in Seq(S), s # <<>>
    PROVE  /\ Head(s) \in S /\ Tail(s) \in Seq(S)
           /\ Len(Tail(s)) = Len(s) - 1
           /\ Head(s) = s[1]
           /\ \A i \in 1..Len(Tail(s)) : Tail(s)[i] = s[i + 1]
           /\ ToSet(s) = {Head(s)} \cup ToSet(Tail(s))
<1>1. /\ Len(s) \in Nat \ {0} /\ DOMAIN s = 1..Len(s)
      /\ Head(s) = s[1] /\ Head(s) \in S /\ Tail(s) \in Seq(S)
      /\ Len(Tail(s)) = Len(s) - 1
      /\ DOMAIN Tail(s) = 1..(Len(s) - 1)
      /\ \A i \in 1..(Len(s) - 1) : Tail(s)[i] = s[i + 1]
  OBVIOUS
<1>2. ASSUME NEW i \in DOMAIN s PROVE s[i] \in {Head(s)} \cup ToSet(Tail(s))
  <2>1. CASE i = 1
    BY <2>1, <1>1
  <2>2. CASE i # 1
    <3>1. i - 1 \in 1..(Len(s) - 1) /\ (i - 1) + 1 = i
      BY <2>2, <1>1
    <3>2. Tail(s)[i - 1] = s[i]
      BY <3>1, <1>1
    <3>3. QED
      BY <3>1, <3>2, <1>1 DEF ToSet
  <2>3. QED
    BY <2>1, <2>2
<1>3. ASSUME NEW i \in DOMAIN Tail(s) PROVE Tail(s)[i] \in ToSet(s)
  BY <1>1 DEF ToSet
<1>4. Head(s) \in ToSet(s)
  BY <1>1 DEF ToSet
<1>5. QED
  BY <1>1, <1>2, <1>3, <1>4 DEF ToSet

\* The tail of a sequence without repetition has none, nor the head.
LEMMA TailInjective ==
    ASSUME NEW S, NEW s \in Seq(S), s # <<>>, IsInjective(s)
    PROVE  IsInjective(Tail(s)) /\ Head(s) \notin ToSet(Tail(s))
<1>1. /\ Len(s) \in Nat \ {0} /\ DOMAIN s = 1..Len(s)
      /\ Head(s) = s[1]
      /\ DOMAIN Tail(s) = 1..(Len(s) - 1)
      /\ \A i \in 1..(Len(s) - 1) : Tail(s)[i] = s[i + 1]
  OBVIOUS
<1>2. ASSUME NEW i \in DOMAIN Tail(s), NEW j \in DOMAIN Tail(s), Tail(s)[i] = Tail(s)[j] PROVE i = j
  <2>1. s[i + 1] = s[j + 1] /\ i + 1 \in DOMAIN s /\ j + 1 \in DOMAIN s
    BY <1>1, <1>2
  <2>2. i + 1 = j + 1
    BY <2>1 DEF IsInjective
  <2>3. QED
    BY <2>2, <1>1
<1>3. ASSUME NEW i \in DOMAIN Tail(s), Tail(s)[i] = Head(s) PROVE FALSE
  <2>1. s[i + 1] = s[1] /\ i + 1 \in DOMAIN s /\ 1 \in DOMAIN s
    BY <1>1, <1>3
  <2>2. i + 1 = 1
    BY <2>1 DEF IsInjective
  <2>3. QED
    BY <2>2, <1>1
<1>4. QED
  BY <1>2, <1>3 DEF IsInjective, ToSet
-----------------------------------------------------------------------------
(* The buffer                                                              *)

\* What the order of PendingOrdered says of a buffer.
Ordered(queue) == \A i, j \in 1..Len(queue) :
    i < j /\ queue[i][1] = queue[j][1] => queue[i][2] < queue[j][2]

\* An ordered buffer holds nothing twice.
LEMMA OrderedInjective ==
    ASSUME NEW s \in Seq(Events), Ordered(s)
    PROVE  IsInjective(s)
<1> SUFFICES ASSUME NEW i \in 1..Len(s), NEW j \in 1..Len(s), s[i] = s[j], i < j PROVE FALSE
  BY DEF IsInjective
<1>1. s[i] \in Events /\ s[i][2] < s[j][2]
  BY DEF Ordered
<1>2. s[i][2] \in Nat
  BY <1>1 DEF Events
<1>3. QED
  BY <1>1, <1>2

\* enqueuePending keeps the buffer within its limit and in order, loses only
\* what it drops, and holds nothing but the event besides what it held.
LEMMA EnqueueHolds ==
    ASSUME NEW e \in Events, enqueuePending(e),
           pendingEvents \in Seq(Events), PendingOrdered,
           overflowed \subseteq Events, buffered \subseteq Events,
           \A f \in ToSet(pendingEvents) : f[1] = e[1] => f[2] < e[2]
    PROVE  /\ pendingEvents' \in Seq(Events)
           /\ PendingOrdered'
           /\ overflowed' \subseteq Events /\ buffered' = buffered \cup {e}
           /\ overflowed \subseteq overflowed'
           /\ ToSet(pendingEvents') \subseteq ToSet(pendingEvents) \cup {e}
           /\ ToSet(pendingEvents) \cup {e} \subseteq ToSet(pendingEvents') \cup overflowed'
<1> DEFINE queue == Append(pendingEvents, e)
           n == Len(pendingEvents)
           over == IF n + 1 > MAX_PENDING_EVENTS THEN n + 1 - MAX_PENDING_EVENTS ELSE 0
<1>1. /\ n \in Nat /\ n <= MAX_PENDING_EVENTS
      /\ queue \in Seq(Events) /\ Len(queue) = n + 1
      /\ \A i \in 1..n : queue[i] = pendingEvents[i]
      /\ queue[n + 1] = e
      /\ ToSet(queue) = ToSet(pendingEvents) \cup {e}
  BY AppendHolds DEF PendingOrdered
<1>2. Ordered(queue)
  <2> SUFFICES ASSUME NEW i \in 1..(n + 1), NEW j \in 1..(n + 1), i < j, queue[i][1] = queue[j][1]
               PROVE  queue[i][2] < queue[j][2]
    BY <1>1 DEF Ordered
  <2>1. i \in 1..n /\ queue[i] = pendingEvents[i] /\ pendingEvents[i] \in ToSet(pendingEvents)
    BY <1>1 DEF ToSet
  <2>2. CASE j = n + 1
    BY <2>1, <2>2, <1>1
  <2>3. CASE j \in 1..n
    <3>1. queue[j] = pendingEvents[j]
      BY <2>3, <1>1
    <3>2. QED
      BY <2>1, <2>3, <3>1 DEF PendingOrdered
  <2>4. QED
    BY <1>1, <2>2, <2>3
<1>3. /\ over \in {0, 1} /\ (over = 0 => n + 1 <= MAX_PENDING_EVENTS)
      /\ pendingEvents' = SubSeq(queue, over + 1, n + 1)
      /\ overflowed' = overflowed \cup {queue[i] : i \in 1..over}
      /\ buffered' = buffered \cup {e}
  <2>1. over \in {0, 1} /\ (over = 0 => n + 1 <= MAX_PENDING_EVENTS)
    BY <1>1
  <2>2. Len(Append(pendingEvents, e)) = n + 1
    BY <1>1
  <2> DEFINE longer == Len(queue) > MAX_PENDING_EVENTS
             dropped == IF longer THEN Len(queue) - MAX_PENDING_EVENTS ELSE 0
  <2>3. /\ pendingEvents' = SubSeq(queue, dropped + 1, Len(queue))
        /\ overflowed' = overflowed \cup {queue[i] : i \in 1..dropped}
        /\ buffered' = buffered \cup {e}
    BY DEF enqueuePending
  <2> HIDE DEF queue
  <2>4. dropped = over /\ Len(queue) = n + 1
    BY <1>1
  <2> HIDE DEF dropped, over
  <2>5. /\ pendingEvents' = SubSeq(queue, over + 1, n + 1)
        /\ overflowed' = overflowed \cup {queue[i] : i \in 1..over}
    BY <2>3, <2>4
  <2>6. QED
    BY <2>1, <2>3, <2>5
<1> HIDE DEF queue, n, over
<1>4. CASE over = 0
  <2>1. pendingEvents' = queue
    BY <1>1, <1>3, <1>4
  <2>2. overflowed' = overflowed
    BY <1>3, <1>4
  <2>3. PendingOrdered'
    BY <1>1, <1>2, <1>3, <1>4, <2>1 DEF PendingOrdered, Ordered
  <2>4. QED
    BY <1>1, <1>3, <2>1, <2>2, <2>3
<1>5. CASE over = 1
  <2>1. queue # <<>> /\ pendingEvents' = Tail(queue)
    BY <1>1, <1>3, <1>5
  <2>2. overflowed' = overflowed \cup {Head(queue)}
    <3>1. {queue[i] : i \in 1..over} = {queue[1]} /\ Head(queue) = queue[1]
      BY <1>1, <1>5
    <3>2. QED
      BY <3>1, <1>3
  <2>3. /\ Head(queue) \in Events /\ pendingEvents' \in Seq(Events) /\ Len(pendingEvents') = n
        /\ \A i \in 1..n : pendingEvents'[i] = queue[i + 1]
        /\ ToSet(queue) = {Head(queue)} \cup ToSet(pendingEvents')
    BY <2>1, <1>1, HeadTail
  <2>4. PendingOrdered'
    <3>1. ASSUME NEW i \in 1..n, NEW j \in 1..n, i < j, pendingEvents'[i][1] = pendingEvents'[j][1]
          PROVE  pendingEvents'[i][2] < pendingEvents'[j][2]
      <4>1. pendingEvents'[i] = queue[i + 1] /\ pendingEvents'[j] = queue[j + 1]
        BY <2>3
      <4>2. i + 1 \in 1..(n + 1) /\ j + 1 \in 1..(n + 1) /\ i + 1 < j + 1
        BY <3>1, <1>1
      <4>3. QED
        BY <3>1, <4>1, <4>2, <1>1, <1>2 DEF Ordered
    <3>2. QED
      BY <3>1, <2>3, <1>1 DEF PendingOrdered
  <2>5. QED
    BY <1>1, <1>3, <2>2, <2>3, <2>4
<1>6. QED
  BY <1>3, <1>4, <1>5
-----------------------------------------------------------------------------
(* The steps                                                               *)

\* A write adds its event to what one client was given.
LEMMA WriteHolds ==
    ASSUME HubTypeOK, NoDuplicates, NEW x \in Subs, NEW e \in Events, e \notin WrittenTo(x), write(x, e)
    PROVE  /\ written' \in [Subs -> Seq(Events)]
           /\ \A y \in Subs : y # x => written'[y] = written[y] /\ WrittenTo(y)' = WrittenTo(y)
           /\ WrittenTo(x)' = WrittenTo(x) \cup {e}
           /\ NoDuplicates'
           /\ Seen \subseteq Seen' /\ e \in Seen'
<1>1. /\ written \in [Subs -> Seq(Events)]
      /\ written' = [written EXCEPT ![x] = Append(@, e)]
      /\ written[x] \in Seq(Events)
  BY DEF HubTypeOK, write
<1>2. /\ Append(written[x], e) \in Seq(Events)
      /\ ToSet(Append(written[x], e)) = ToSet(written[x]) \cup {e}
  BY <1>1, AppendHolds
<1>3. /\ written' \in [Subs -> Seq(Events)]
      /\ written'[x] = Append(written[x], e)
      /\ \A y \in Subs : y # x => written'[y] = written[y]
  BY <1>1, <1>2
<1>4. WrittenTo(x)' = WrittenTo(x) \cup {e} /\ \A y \in Subs : y # x => WrittenTo(y)' = WrittenTo(y)
  BY <1>2, <1>3 DEF WrittenTo
<1>5. NoDuplicates'
  <2>1. IsInjective(written'[x])
    <3>1. IsInjective(written[x]) /\ e \notin ToSet(written[x])
      BY DEF NoDuplicates, WrittenTo
    <3>2. QED
      BY <3>1, <1>1, <1>3, AppendKeepsInjective
  <2>2. ASSUME NEW y \in Subs, y # x PROVE IsInjective(written'[y])
    BY <2>2, <1>3 DEF NoDuplicates
  <2>3. QED
    BY <2>1, <2>2 DEF NoDuplicates
<1>6. Seen \subseteq Seen' /\ e \in Seen'
  <2>1. \A y \in Subs : WrittenTo(y) \subseteq WrittenTo(y)'
    BY <1>4
  <2>2. QED
    BY <2>1, <1>4 DEF Seen
<1>7. QED
  BY <1>3, <1>4, <1>5, <1>6

\* An event under way is the last of its publisher, which is not idle.
LEMMA InFlightIsLast ==
    ASSUME HubInv, NEW e \in Events
    PROVE  InFlight(e) <=> publishing[e[1]] # Idle /\ publishing[e[1]].event = e
<1>1. e = <<e[1], e[2]>> /\ e[1] \in Publishers /\ e # <<>>
  BY DEF Events
<1>2. ASSUME NEW p \in Publishers, publishing[p].event = e
      PROVE  publishing[p] # Idle /\ e = <<p, sent[p]>> /\ p = e[1]
  <2>1. publishing[p] # Idle
    BY <1>1, <1>2 DEF Idle
  <2>2. QED
    BY <2>1, <1>1, <1>2 DEF HubInv, MapsInUse
<1>3. QED
  BY <1>1, <1>2 DEF InFlight

\* A subscriber in a Map has connected.
LEMMA MembersConnected ==
    ASSUME HubInv, NEW m \in Subs, NEW x \in Subs, x \in members[m]
    PROVE  client[x] # "none"
BY DEF HubInv, DeliveryInv

\* e is what publisher p publishes in this step or has under way, and waits in
\* no buffer.
Newest(p, e) ==
    /\ sent' \in [Publishers -> 0..MaxSent]
    /\ \A q \in Publishers : q # p => sent'[q] = sent[q]
    /\ sent'[p] = sent[p] \/ sent'[p] = sent[p] + 1
    /\ sent'[p] # 0 /\ e = <<p, sent'[p]>>
    /\ publishing[p] # Idle => publishing[p].event = e
    /\ e \notin ToSet(pendingEvents)
    /\ \A x \in Subs : e \notin ToSet(replay[x])

\* What publisher p knows when it comes back to its loop over Map m: its event
\* has passed no entry after `last`.
LoopState(p, e, m, last, dead, delivered) ==
    /\ m \in Subs /\ last \in 0..NSubs /\ dead \subseteq Subs /\ delivered \in BOOLEAN
    /\ Newest(p, e)
    /\ \A x \in Subs : x > last => e \notin WrittenTo(x)
    /\ delivered => e \in Seen
    /\ NobodyLeft => current = m /\ dead = {}

\* What follows of the numbers of events, whatever the loop then does.
LEMMA LoopNumbers ==
    ASSUME HubInv, NEW p \in Publishers, NEW e, Newest(p, e)
    PROVE  /\ e \in Events
           /\ \A q \in Publishers : sent[q] \in Nat /\ sent'[q] \in Nat /\ sent[q] <= sent'[q]
           /\ \A f \in Events : f[2] <= sent[f[1]] => f[2] <= sent'[f[1]]
           /\ \A f \in Events : f[2] <= sent[f[1]] /\ f[1] = p /\ f # e => f[2] < e[2]
           /\ \A q \in Publishers : \A n \in 1..sent'[q] : <<q, n>> # e => n \in 1..sent[q]
           /\ \A f \in Events : InFlight(f) /\ f # e => f[1] # p
<1>1. /\ sent \in [Publishers -> 0..MaxSent] /\ sent' \in [Publishers -> 0..MaxSent]
      /\ \A q \in Publishers : q # p => sent'[q] = sent[q]
      /\ sent'[p] = sent[p] \/ sent'[p] = sent[p] + 1
      /\ sent'[p] # 0 /\ e = <<p, sent'[p]>>
      /\ publishing[p] # Idle => publishing[p].event = e
  BY DEF HubInv, HubTypeOK, Newest
<1>2. e \in Events
  BY <1>1 DEF Events
<1>3. \A q \in Publishers : sent[q] \in Nat /\ sent'[q] \in Nat /\ sent[q] <= sent'[q]
  BY <1>1
<1>4. ASSUME NEW f \in Events PROVE f[1] \in Publishers /\ f[2] \in Nat /\ f = <<f[1], f[2]>>
  BY DEF Events
<1>5. ASSUME NEW f \in Events, f[2] <= sent[f[1]] PROVE f[2] <= sent'[f[1]]
  BY <1>3, <1>4, <1>5
<1>6. ASSUME NEW f \in Events, f[2] <= sent[f[1]], f[1] = p, f # e PROVE f[2] < e[2]
  <2>1. f[2] # sent'[p] /\ f[2] <= sent'[p] /\ e[2] = sent'[p]
    BY <1>1, <1>4, <1>5, <1>6
  <2>2. QED
    BY <2>1, <1>3, <1>4
<1>7. ASSUME NEW q \in Publishers, NEW n \in 1..sent'[q], <<q, n>> # e PROVE n \in 1..sent[q]
  BY <1>1, <1>3, <1>7
<1>8. ASSUME NEW f \in Events, InFlight(f), f # e PROVE f[1] # p
  <2>1. publishing[f[1]] # Idle /\ publishing[f[1]].event = f
    BY <1>8, InFlightIsLast
  <2>2. QED
    BY <2>1, <1>1, <1>8
<1>9. QED
  BY <1>2, <1>3, <1>5, <1>6, <1>7, <1>8

\* The loop stops for a write to the next living entry.
LEMMA LoopWrites ==
    ASSUME HubInv, NEW p \in Publishers, NEW e, NEW m, NEW last, NEW dead, NEW delivered,
           LoopState(p, e, m, last, dead, delivered),
           Iterate(p, e, m, last, dead, delivered), UNCHANGED <<client, replayVars>>,
           Target(m, last) # {}
    PROVE  HubInv'
<1>1. PICK x \in Target(m, last) :
        /\ write(x, e)
        /\ publishing' = [publishing EXCEPT ![p] =
              [event |-> e, map |-> m, writingTo |-> x, delivered |-> delivered,
               dead |-> dead \cup {y \in Ahead(m, last) : y < x}]]
        /\ UNCHANGED <<hubVars, historyVars>>
  BY DEF Iterate
<1>2. /\ m \in Subs /\ last \in 0..NSubs /\ dead \subseteq Subs /\ delivered \in BOOLEAN
      /\ sent' \in [Publishers -> 0..MaxSent]
      /\ \A q \in Publishers : q # p => sent'[q] = sent[q]
      /\ e = <<p, sent'[p]>>
      /\ e \notin ToSet(pendingEvents)
      /\ \A y \in Subs : e \notin ToSet(replay[y])
      /\ \A y \in Subs : y > last => e \notin WrittenTo(y)
      /\ NobodyLeft => current = m /\ dead = {}
      /\ Newest(p, e)
  BY DEF LoopState, Newest
<1> DEFINE w == [event |-> e, map |-> m, writingTo |-> x, delivered |-> delivered,
                 dead |-> dead \cup {y \in Ahead(m, last) : y < x}]
<1>3. /\ HubTypeOK /\ MapsInUse /\ DeliveryInv
      /\ NoDuplicates /\ PendingOrdered /\ PublishKeepsEvent /\ StayersServed
  BY DEF HubInv
<1>4. /\ x \in Subs /\ x > last /\ x \in members[m] /\ client[x] # "aborted" /\ client[x] # "none"
      /\ \A y \in Ahead(m, last) : client[y] # "aborted" => x <= y
      /\ Ahead(m, last) \subseteq Subs
  <2>1. members[m] \subseteq Subs
    BY <1>2, <1>3 DEF HubTypeOK
  <2>2. QED
    BY <2>1, <1>1, <1>2, MembersConnected DEF Target, Ahead
<1>5. /\ e \in Events /\ e # <<>>
      /\ \A f \in Events : f[2] <= sent[f[1]] => f[2] <= sent'[f[1]]
      /\ \A q \in Publishers : \A n \in 1..sent'[q] : <<q, n>> # e => n \in 1..sent[q]
  BY LoopNumbers, <1>2
<1>6. /\ written' \in [Subs -> Seq(Events)]
      /\ \A y \in Subs : y # x => written'[y] = written[y] /\ WrittenTo(y)' = WrittenTo(y)
      /\ WrittenTo(x)' = WrittenTo(x) \cup {e}
      /\ NoDuplicates'
      /\ Seen \subseteq Seen' /\ e \in Seen'
  BY <1>1, <1>2, <1>3, <1>4, <1>5, WriteHolds
<1>7. /\ publishing'[p] = w /\ w # Idle
      /\ \A q \in Publishers : q # p => publishing'[q] = publishing[q]
  <2>1. publishing \in [Publishers -> [event : Events \cup {<<>>}, map : Subs \cup {NoMap}, writingTo : 0..NSubs,
           dead : SUBSET Subs, delivered : BOOLEAN]]
    BY <1>3 DEF HubTypeOK
  <2>2. w.event # Idle.event
    BY <1>5 DEF Idle
  <2>3. QED
    BY <2>1, <2>2, <1>1
<1>8. /\ InFlight(e)'
      /\ \A f \in Events : f # e => (InFlight(f)' <=> InFlight(f))
  <2>1. InFlight(e)'
    BY <1>7 DEF InFlight
  <2>2. ASSUME NEW f \in Events, f # e, InFlight(f) PROVE InFlight(f)'
    <3>1. f[1] \in Publishers /\ f[1] # p /\ publishing[f[1]].event = f
      BY <2>2, <1>2, InFlightIsLast, LoopNumbers DEF Events
    <3>2. QED
      BY <3>1, <1>7 DEF InFlight
  <2>3. ASSUME NEW f \in Events, f # e, InFlight(f)' PROVE InFlight(f)
    BY <2>3, <1>7 DEF InFlight
  <2>4. QED
    BY <2>1, <2>2, <2>3
<1>9. UNCHANGED <<current, members, pendingEvents, client, replay, replaying, buffered, overflowed>>
  BY <1>1 DEF hubVars, replayVars, historyVars
<1>10. HubTypeOK'
  <2>1. w \in [event : Events \cup {<<>>}, map : Subs \cup {NoMap}, writingTo : 0..NSubs,
               dead : SUBSET Subs, delivered : BOOLEAN]
    <3>1. m \in Subs /\ dead \subseteq Subs /\ delivered \in BOOLEAN
      BY <1>2
    <3>2. x \in 0..NSubs /\ {y \in Ahead(m, last) : y < x} \subseteq Subs
      BY <1>4 DEF Subs
    <3>3. QED
      BY <3>1, <3>2, <1>5
  <2>2. publishing' \in [Publishers -> [event : Events \cup {<<>>}, map : Subs \cup {NoMap}, writingTo : 0..NSubs,
           dead : SUBSET Subs, delivered : BOOLEAN]]
    <3>1. publishing' = [publishing EXCEPT ![p] = w]
      BY <1>1
    <3> HIDE DEF w
    <3>2. QED
      BY <2>1, <3>1, <1>3 DEF HubTypeOK
  <2>3. QED
    BY <2>2, <1>2, <1>3, <1>6, <1>9 DEF HubTypeOK
<1>11. MapsInUse'
  <2>1. /\ publishing'[p].event = <<p, sent'[p]>> /\ publishing'[p].map = m
        /\ publishing'[p].writingTo = x
    BY <1>2, <1>7
  <2>2. m # NoMap /\ x # 0
    BY <1>2, <1>4 DEF NoMap, Subs
  <2>3. QED
    BY <2>1, <2>2, <1>2, <1>3, <1>4, <1>7, <1>9 DEF MapsInUse
<1>12. DeliveryInv'
  <2>1. ASSUME NEW y \in Subs, client'[y] = "none"
        PROVE  written'[y] = <<>> /\ replay'[y] = <<>> /\ \A k \in Subs : y \notin members'[k]
    BY <2>1, <1>3, <1>4, <1>6, <1>9 DEF DeliveryInv
  <2>2. ASSUME NEW y \in Subs, NEW f \in WrittenTo(y)' PROVE f[2] <= sent'[f[1]]
    <3>1. CASE f = e
      <4>1. f[1] = p /\ f[2] = sent'[p] /\ sent'[p] \in Nat
        BY <3>1, <1>2
      <4>2. QED
        BY <4>1
    <3>2. CASE f \in WrittenTo(y)
      <4>1. f \in Events
        BY <3>2, <1>3 DEF HubTypeOK, WrittenTo, ToSet
      <4>2. f[2] <= sent[f[1]]
        BY <3>2, <1>3 DEF DeliveryInv
      <4>3. QED
        BY <4>1, <4>2, <1>5
    <3>3. QED
      BY <3>1, <3>2, <1>6, <2>2
  <2>3. ASSUME NEW f \in ToSet(pendingEvents') PROVE f[2] <= sent'[f[1]] /\ ~InFlight(f)'
    <3>1. f \in ToSet(pendingEvents) /\ f \in Events /\ f # e
      BY <2>3, <1>2, <1>3, <1>9 DEF HubTypeOK, ToSet
    <3>2. f[2] <= sent[f[1]] /\ ~InFlight(f)
      BY <3>1, <1>3 DEF DeliveryInv
    <3>3. QED
      BY <3>1, <3>2, <1>5, <1>8
  <2>4. ASSUME NEW y \in Subs, NEW f \in ToSet(replay'[y])
        PROVE  f[2] <= sent'[f[1]] /\ ~InFlight(f)' /\ f \notin WrittenTo(y)'
    <3>1. f \in ToSet(replay[y]) /\ f \in Events /\ f # e
      <4>1. f \in ToSet(replay[y]) /\ replay[y] \in Seq(Events)
        BY <2>4, <1>3, <1>9 DEF HubTypeOK
      <4>2. f \in Events
        BY <4>1, HeldIsTyped
      <4>3. f # e
        BY <4>1, <1>2
      <4>4. QED
        BY <4>1, <4>2, <4>3
    <3>2. f[2] <= sent[f[1]] /\ ~InFlight(f) /\ f \notin WrittenTo(y)
      BY <3>1, <1>3 DEF DeliveryInv
    <3>3. QED
      BY <3>1, <3>2, <1>5, <1>6, <1>8
  <2>5. \A y \in Subs : IsInjective(replay'[y])
    BY <1>3, <1>9 DEF DeliveryInv
  <2>6. ASSUME NEW q \in Publishers, publishing'[q] # Idle
        PROVE  /\ publishing'[q].event \in ToSet(written'[publishing'[q].writingTo])
               /\ \A y \in Subs : y > publishing'[q].writingTo => publishing'[q].event \notin ToSet(written'[y])
               /\ NobodyLeft' => publishing'[q].map = current' /\ publishing'[q].dead = {}
    <3>1. CASE q = p
      <4>1. /\ publishing'[p].event = e /\ publishing'[p].writingTo = x /\ publishing'[p].map = m
            /\ publishing'[p].dead = dead \cup {y \in Ahead(m, last) : y < x}
        BY <1>7
      <4>2. \A y \in Subs : y > x => e \notin WrittenTo(y)'
        <5>1. ASSUME NEW y \in Subs, y > x PROVE y > last /\ y # x
          BY <5>1, <1>2, <1>4 DEF Subs
        <5>2. QED
          BY <5>1, <1>2, <1>6
      <4>3. ASSUME NobodyLeft PROVE {y \in Ahead(m, last) : y < x} = {}
        <5>1. \A y \in Subs : client[y] # "aborted"
          BY <4>3 DEF NobodyLeft
        <5>2. \A y \in Ahead(m, last) : x <= y /\ y \in Nat /\ x \in Nat
          BY <5>1, <1>4 DEF Subs
        <5>3. QED
          BY <5>2
      <4>4. NobodyLeft' => NobodyLeft
        BY <1>9 DEF NobodyLeft
      <4>5. QED
        <5>1. e \in ToSet(written'[x]) /\ \A y \in Subs : y > x => e \notin ToSet(written'[y])
          BY <4>2, <1>6 DEF WrittenTo
        <5>2. NobodyLeft' => m = current' /\ dead \cup {y \in Ahead(m, last) : y < x} = {}
          BY <4>3, <4>4, <1>2, <1>9
        <5>3. QED
          BY <3>1, <4>1, <5>1, <5>2
    <3>2. CASE q # p
      <4>1. publishing'[q] = publishing[q] /\ publishing[q] # Idle
        BY <3>2, <2>6, <1>7
      <4>2. publishing[q].event # e /\ publishing[q].writingTo \in Subs
        <5>1. publishing[q].event = <<q, sent[q]>>
          BY <4>1, <1>3 DEF MapsInUse
        <5>2. publishing[q].writingTo \in 0..NSubs /\ publishing[q].writingTo # 0
          BY <4>1, <1>3 DEF MapsInUse, HubTypeOK
        <5>3. QED
          BY <5>1, <5>2, <3>2, <1>2 DEF Subs
      <4>3. /\ publishing[q].event \in WrittenTo(publishing[q].writingTo)
            /\ \A y \in Subs : y > publishing[q].writingTo => publishing[q].event \notin WrittenTo(y)
            /\ NobodyLeft => publishing[q].map = current /\ publishing[q].dead = {}
        BY <4>1, <1>3 DEF DeliveryInv
      <4>4. NobodyLeft' => NobodyLeft
        BY <1>9 DEF NobodyLeft
      <4>5. PICK z \in Subs : z = publishing[q].writingTo
        BY <4>2
      <4>6. publishing[q].event \in WrittenTo(z)'
        BY <4>3, <4>5, <1>6
      <4>7. \A y \in Subs : y > z => publishing[q].event \notin WrittenTo(y)'
        BY <4>2, <4>3, <4>5, <1>6
      <4>8. QED
        BY <4>1, <4>3, <4>4, <4>5, <4>6, <4>7, <1>9 DEF WrittenTo
    <3>3. QED
      BY <3>1, <3>2
  <2>7. QED
    BY <2>1, <2>2, <2>3, <2>4, <2>5, <2>6 DEF DeliveryInv, WrittenTo
<1>13. PendingOrdered'
  BY <1>3, <1>9 DEF PendingOrdered
<1>14. PublishKeepsEvent'
  <2> SUFFICES ASSUME NEW q \in Publishers, NEW n \in 1..sent'[q]
               PROVE  InFlight(<<q, n>>)' \/ <<q, n>> \in Seen' \/ <<q, n>> \in buffered'
    BY DEF PublishKeepsEvent
  <2>1. CASE <<q, n>> = e
    BY <2>1, <1>6
  <2>2. CASE <<q, n>> # e
    <3>1. n \in 1..sent[q] /\ <<q, n>> \in Events
      BY <2>2, <1>3, <1>5 DEF HubTypeOK, Events
    <3>2. InFlight(<<q, n>>) \/ <<q, n>> \in Seen \/ <<q, n>> \in buffered
      BY <3>1, <1>3 DEF PublishKeepsEvent
    <3>3. QED
      BY <2>2, <3>1, <3>2, <1>6, <1>8, <1>9
  <2>3. QED
    BY <2>1, <2>2
<1>15. StayersServed'
  <2>1. NobodyLeft' => NobodyLeft
    BY <1>9 DEF NobodyLeft
  <2>2. LiveIsRegistered => LiveIsRegistered'
    BY <1>9 DEF LiveIsRegistered
  <2>3. BufferedKept => BufferedKept'
    BY <1>6, <1>9 DEF BufferedKept
  <2>4. QED
    BY <2>1, <2>2, <2>3, <1>3 DEF StayersServed
<1>16. QED
  BY <1>6, <1>10, <1>11, <1>12, <1>13, <1>14, <1>15 DEF HubInv

\* A set of numbers has a least one: a loop that finds no living entry before
\* all others has none before it.
LEMMA LeastNumber ==
    ASSUME NEW S, S \subseteq Nat, S # {}
    PROVE  \E x \in S : \A y \in S : x <= y
<1> DEFINE less == OpToRel(<, Nat)
<1>1. less = {ss \in Nat \X Nat : ss[1] < ss[2]}
  BY DEF OpToRel
<1>2. IsWellFoundedOn(less, Nat)
  BY NatLessThanWellFounded
<1> HIDE DEF less
<1>3. PICK x \in S : \A y \in S : <<y, x>> \notin less
  BY <1>2, WFMin
<1>4. ASSUME NEW y \in S PROVE x <= y
  <2>1. x \in Nat /\ y \in Nat /\ <<y, x>> \in Nat \X Nat /\ <<y, x>> \notin less
    BY <1>3
  <2>2. ~(y < x)
    BY <2>1, <1>1
  <2>3. QED
    BY <2>1, <2>2
<1>5. QED
  BY <1>4

\* A publish that ends, with its event delivered to a client or put into the
\* buffer, and with what it deletes from the Maps.
LEMMA PublishEnds ==
    ASSUME HubInv, NEW p \in Publishers, NEW e, NEW delivered \in BOOLEAN, Newest(p, e),
           delivered => e \in Seen,
           IF delivered THEN UNCHANGED <<pendingEvents, historyVars>> ELSE enqueuePending(e),
           publishing' = [publishing EXCEPT ![p] = Idle],
           members' \in [Subs -> SUBSET Subs],
           \A m \in Subs : members'[m] \subseteq members[m],
           current' \in Subs \cup {NoMap},
           current' # NoMap => members'[current'] # {},
           NobodyLeft => UNCHANGED <<current, members>>,
           UNCHANGED <<client, replayVars, written>>
    PROVE  HubInv'
<1>1. /\ HubTypeOK /\ MapsInUse /\ DeliveryInv
      /\ NoDuplicates /\ PendingOrdered /\ PublishKeepsEvent /\ StayersServed
  BY DEF HubInv
<1>2. /\ sent' \in [Publishers -> 0..MaxSent]
      /\ \A q \in Publishers : q # p => sent'[q] = sent[q]
      /\ e = <<p, sent'[p]>> /\ sent'[p] \in Nat
      /\ publishing[p] # Idle => publishing[p].event = e
      /\ e \notin ToSet(pendingEvents)
      /\ \A x \in Subs : e \notin ToSet(replay[x])
  BY DEF Newest
<1>3. /\ e \in Events /\ e # <<>>
      /\ \A f \in Events : f[2] <= sent[f[1]] => f[2] <= sent'[f[1]]
      /\ \A f \in Events : f[2] <= sent[f[1]] /\ f[1] = p /\ f # e => f[2] < e[2]
      /\ \A q \in Publishers : \A n \in 1..sent'[q] : <<q, n>> # e => n \in 1..sent[q]
      /\ \A f \in Events : InFlight(f) /\ f # e => f[1] # p
  BY LoopNumbers, <1>2
<1>4. UNCHANGED <<client, replay, replaying, written>>
  BY DEF replayVars
<1>5. /\ pendingEvents' \in Seq(Events) /\ PendingOrdered'
      /\ overflowed' \subseteq Events /\ buffered' \subseteq buffered \cup {e}
      /\ overflowed \subseteq overflowed' /\ buffered \subseteq buffered'
      /\ ToSet(pendingEvents') \subseteq ToSet(pendingEvents) \cup {e}
      /\ ToSet(pendingEvents) \subseteq ToSet(pendingEvents') \cup overflowed'
      /\ delivered => buffered' = buffered
      /\ ~delivered => e \in buffered' /\ e \in ToSet(pendingEvents') \cup overflowed'
  <2>1. CASE delivered
    <3>1. UNCHANGED <<pendingEvents, buffered, overflowed>>
      BY <2>1 DEF historyVars
    <3>2. PendingOrdered'
      BY <3>1, <1>1 DEF PendingOrdered
    <3>3. QED
      BY <3>1, <3>2, <2>1, <1>1 DEF HubTypeOK
  <2>2. CASE ~delivered
    <3>1. enqueuePending(e)
      BY <2>2
    <3>2. /\ pendingEvents \in Seq(Events) /\ PendingOrdered
          /\ overflowed \subseteq Events /\ buffered \subseteq Events
      BY <1>1 DEF HubTypeOK
    <3>3. ASSUME NEW f \in ToSet(pendingEvents), f[1] = e[1] PROVE f[2] < e[2]
      <4>1. f \in Events /\ f # e /\ f[1] = p
        BY <3>2, <3>3, <1>2, HeldIsTyped
      <4>2. f[2] <= sent[f[1]]
        BY <1>1 DEF DeliveryInv
      <4>3. QED
        BY <4>1, <4>2, <1>3
    <3>4. QED
      BY <3>1, <3>2, <3>3, <2>2, <1>3, EnqueueHolds
  <2>3. QED
    BY <2>1, <2>2
<1>6. /\ publishing'[p] = Idle
      /\ \A q \in Publishers : q # p => publishing'[q] = publishing[q]
      /\ publishing' \in [Publishers -> [event : Events \cup {<<>>}, map : Subs \cup {NoMap},
             writingTo : 0..NSubs, dead : SUBSET Subs, delivered : BOOLEAN]]
  <2>1. Idle \in [event : Events \cup {<<>>}, map : Subs \cup {NoMap},
             writingTo : 0..NSubs, dead : SUBSET Subs, delivered : BOOLEAN]
    BY DEF Idle
  <2>2. QED
    BY <2>1, <1>1 DEF HubTypeOK
<1>7. /\ ~InFlight(e)'
      /\ \A f \in Events : f # e => (InFlight(f)' <=> InFlight(f))
  <2>1. ASSUME NEW q \in Publishers PROVE publishing'[q].event # e
    <3>1. CASE q = p
      BY <3>1, <1>3, <1>6 DEF Idle
    <3>2. CASE q # p
      <4>1. publishing[q] # Idle => publishing[q].event = <<q, sent[q]>>
        BY <1>1 DEF MapsInUse
      <4>2. publishing[q] # Idle => publishing[q].event # e
        BY <4>1, <3>2, <1>2
      <4>3. QED
        BY <4>2, <3>2, <1>3, <1>6 DEF Idle
    <3>3. QED
      BY <3>1, <3>2
  <2>2. ASSUME NEW f \in Events, f # e, InFlight(f) PROVE InFlight(f)'
    <3>1. f[1] \in Publishers /\ f[1] # p /\ publishing[f[1]].event = f
      BY <2>2, <1>3, InFlightIsLast DEF Events
    <3>2. QED
      BY <3>1, <1>6 DEF InFlight
  <2>3. ASSUME NEW f \in Events, f # e, InFlight(f)' PROVE InFlight(f)
    <3>1. PICK q \in Publishers : publishing'[q].event = f
      BY <2>3 DEF InFlight
    <3>2. f # <<>>
      BY DEF Events
    <3>3. q # p
      BY <3>1, <3>2, <1>6 DEF Idle
    <3>4. QED
      BY <3>1, <3>3, <1>6 DEF InFlight
  <2>4. QED
    BY <2>1, <2>2, <2>3 DEF InFlight
<1>8. HubTypeOK'
  BY <1>1, <1>2, <1>3, <1>4, <1>5, <1>6 DEF HubTypeOK
<1>9. MapsInUse'
  BY <1>1, <1>2, <1>4, <1>6 DEF MapsInUse
<1>10. NobodyLeft' => NobodyLeft
  BY <1>4 DEF NobodyLeft
<1>11. DeliveryInv'
  <2>1. ASSUME NEW x \in Subs, client'[x] = "none"
        PROVE  written'[x] = <<>> /\ replay'[x] = <<>> /\ \A m \in Subs : x \notin members'[m]
    BY <2>1, <1>1, <1>4 DEF DeliveryInv
  <2>2. ASSUME NEW x \in Subs, NEW f \in ToSet(written'[x]) PROVE f[2] <= sent'[f[1]]
    <3>1. f \in ToSet(written[x]) /\ written[x] \in Seq(Events)
      BY <2>2, <1>1, <1>4 DEF HubTypeOK
    <3>2. f \in Events /\ f[2] <= sent[f[1]]
      BY <3>1, <1>1, HeldIsTyped DEF DeliveryInv, WrittenTo
    <3>3. QED
      BY <3>2, <1>3
  <2>3. ASSUME NEW f \in ToSet(pendingEvents') PROVE f[2] <= sent'[f[1]] /\ ~InFlight(f)'
    <3>1. CASE f = e
      BY <3>1, <1>2, <1>7
    <3>2. CASE f # e
      <4>1. f \in ToSet(pendingEvents) /\ pendingEvents \in Seq(Events)
        BY <2>3, <3>2, <1>1, <1>5 DEF HubTypeOK
      <4>2. f \in Events /\ f[2] <= sent[f[1]] /\ ~InFlight(f)
        BY <4>1, <1>1, HeldIsTyped DEF DeliveryInv
      <4>3. QED
        BY <3>2, <4>2, <1>3, <1>7
    <3>3. QED
      BY <3>1, <3>2
  <2>4. ASSUME NEW x \in Subs, NEW f \in ToSet(replay'[x])
        PROVE  f[2] <= sent'[f[1]] /\ ~InFlight(f)' /\ f \notin ToSet(written'[x])
    <3>1. f \in ToSet(replay[x]) /\ replay[x] \in Seq(Events)
      BY <2>4, <1>1, <1>4 DEF HubTypeOK
    <3>2. f \in Events /\ f # e /\ f[2] <= sent[f[1]] /\ ~InFlight(f) /\ f \notin ToSet(written[x])
      <4>1. f \in Events
        BY <3>1, HeldIsTyped
      <4>2. f # e
        BY <3>1, <1>2
      <4>3. QED
        BY <3>1, <4>1, <4>2, <1>1 DEF DeliveryInv, WrittenTo
    <3>3. QED
      BY <3>2, <1>3, <1>4, <1>7
  <2>5. \A x \in Subs : IsInjective(replay'[x])
    BY <1>1, <1>4 DEF DeliveryInv
  <2>6. ASSUME NEW q \in Publishers, publishing'[q] # Idle
        PROVE  /\ publishing'[q].event \in ToSet(written'[publishing'[q].writingTo])
               /\ \A x \in Subs : x > publishing'[q].writingTo => publishing'[q].event \notin ToSet(written'[x])
               /\ NobodyLeft' => publishing'[q].map = current' /\ publishing'[q].dead = {}
    <3>1. publishing'[q] = publishing[q] /\ publishing[q] # Idle
      BY <2>6, <1>6
    <3>2. QED
      BY <3>1, <1>1, <1>4, <1>10 DEF DeliveryInv, WrittenTo
  <2>7. QED
    BY <2>1, <2>2, <2>3, <2>4, <2>5, <2>6 DEF DeliveryInv, WrittenTo
<1>12. NoDuplicates' /\ Seen' = Seen
  BY <1>1, <1>4 DEF NoDuplicates, Seen, WrittenTo
<1>13. PublishKeepsEvent'
  <2> SUFFICES ASSUME NEW q \in Publishers, NEW n \in 1..sent'[q]
               PROVE  InFlight(<<q, n>>)' \/ <<q, n>> \in Seen' \/ <<q, n>> \in buffered'
    BY DEF PublishKeepsEvent
  <2>1. CASE <<q, n>> = e
    BY <2>1, <1>5, <1>12
  <2>2. CASE <<q, n>> # e
    <3>1. n \in 1..sent[q] /\ <<q, n>> \in Events
      BY <2>2, <1>1, <1>3 DEF HubTypeOK, Events
    <3>2. InFlight(<<q, n>>) \/ <<q, n>> \in Seen \/ <<q, n>> \in buffered
      BY <3>1, <1>1 DEF PublishKeepsEvent
    <3>3. QED
      BY <2>2, <3>1, <3>2, <1>5, <1>7, <1>12
  <2>3. QED
    BY <2>1, <2>2
<1>14. StayersServed'
  <2> SUFFICES ASSUME NobodyLeft' PROVE LiveIsRegistered' /\ BufferedKept'
    BY DEF StayersServed
  <2>1. NobodyLeft /\ LiveIsRegistered /\ BufferedKept /\ UNCHANGED <<current, members>>
    BY <1>1, <1>10 DEF StayersServed
  <2>2. LiveIsRegistered'
    BY <2>1, <1>4 DEF LiveIsRegistered
  <2>3. BufferedKept'
    <3> SUFFICES ASSUME NEW f \in buffered'
                 PROVE  \/ f \in ToSet(pendingEvents')
                        \/ \E x \in Subs : f \in ToSet(replay'[x])
                        \/ f \in Seen'
                        \/ f \in overflowed'
      BY DEF BufferedKept
    <3>1. CASE f \in buffered
      BY <3>1, <2>1, <1>4, <1>5, <1>12 DEF BufferedKept
    <3>2. CASE f \notin buffered
      BY <3>2, <1>5
    <3>3. QED
      BY <3>1, <3>2
  <2>4. QED
    BY <2>2, <2>3
<1>15. QED
  BY <1>5, <1>8, <1>9, <1>11, <1>12, <1>13, <1>14 DEF HubInv

\* The loop comes to the end of its Map.
LEMMA LoopEnds ==
    ASSUME HubInv, NEW p \in Publishers, NEW e, NEW m, NEW last, NEW dead, NEW delivered,
           LoopState(p, e, m, last, dead, delivered),
           Iterate(p, e, m, last, dead, delivered), UNCHANGED <<client, replayVars>>,
           Target(m, last) = {}
    PROVE  HubInv'
<1>1. /\ members' = [members EXCEPT ![m] = @ \ (dead \cup Ahead(m, last))]
      /\ current' = IF members'[m] = {} THEN NoMap ELSE current
      /\ IF delivered THEN UNCHANGED <<pendingEvents, historyVars>> ELSE enqueuePending(e)
      /\ publishing' = [publishing EXCEPT ![p] = Idle]
      /\ UNCHANGED written
  BY DEF Iterate
<1>2. /\ m \in Subs /\ delivered \in BOOLEAN
      /\ delivered => e \in Seen
      /\ NobodyLeft => current = m /\ dead = {}
  BY DEF LoopState
<1>3. Newest(p, e)
  BY DEF LoopState
<1>4. /\ members \in [Subs -> SUBSET Subs] /\ current \in Subs \cup {NoMap}
      /\ current # NoMap => members[current] # {}
  BY DEF HubInv, HubTypeOK, MapsInUse
<1>5. /\ members' \in [Subs -> SUBSET Subs]
      /\ \A k \in Subs : members'[k] \subseteq members[k]
      /\ \A k \in Subs : k # m => members'[k] = members[k]
  BY <1>1, <1>2, <1>4
<1>6. /\ current' \in Subs \cup {NoMap}
      /\ current' # NoMap => members'[current'] # {}
  BY <1>1, <1>2, <1>4, <1>5
<1>7. ASSUME NobodyLeft PROVE UNCHANGED <<current, members>>
  <2>1. Ahead(m, last) = {}
    <3> SUFFICES ASSUME Ahead(m, last) # {} PROVE FALSE
      OBVIOUS
    <3>1. Ahead(m, last) \subseteq Subs /\ Ahead(m, last) \subseteq Nat
      BY <1>2, <1>4 DEF Ahead, Subs
    <3>2. PICK x \in Ahead(m, last) : \A y \in Ahead(m, last) : x <= y
      BY <3>1, LeastNumber
    <3>3. client[x] # "aborted"
      BY <3>1, <1>7 DEF NobodyLeft
    <3>4. x \in Target(m, last)
      BY <3>2, <3>3 DEF Target
    <3>5. QED
      BY <3>4
  <2>2. dead \cup Ahead(m, last) = {}
    BY <2>1, <1>2, <1>7
  <2>3. members' = members
    BY <2>2, <1>1, <1>4
  <2>4. members[m] # {}
    BY <1>2, <1>4, <1>7 DEF NoMap, Subs
  <2>5. QED
    BY <2>3, <2>4, <1>1
<1>8. QED
  BY <1>1, <1>2, <1>3, <1>5, <1>6, <1>7, PublishEnds

\* The loop of a publish, whether it stops at a write or comes to its end.
LEMMA LoopKeeps ==
    ASSUME HubInv, NEW p \in Publishers, NEW e, NEW m, NEW last, NEW dead, NEW delivered,
           LoopState(p, e, m, last, dead, delivered),
           Iterate(p, e, m, last, dead, delivered), UNCHANGED <<client, replayVars>>
    PROVE  HubInv'
BY LoopWrites, LoopEnds

\* A new event is nowhere yet.
LEMMA PublishKeeps ==
    ASSUME HubInv, NEW p \in Publishers, publish(p)
    PROVE  HubInv'
<1> DEFINE n == sent[p] + 1
<1>1. /\ publishing[p] = Idle /\ sent[p] < MaxSent /\ sent' = [sent EXCEPT ![p] = n]
      /\ UNCHANGED <<client, replayVars>>
      /\ IF current = NoMap
         THEN enqueuePending(<<p, n>>) /\ UNCHANGED <<current, members, publishing, written>>
         ELSE Iterate(p, <<p, n>>, current, 0, {}, FALSE)
  BY DEF publish
<1>2. /\ HubTypeOK /\ MapsInUse /\ DeliveryInv
      /\ sent \in [Publishers -> 0..MaxSent] /\ current \in Subs \cup {NoMap}
  BY DEF HubInv, HubTypeOK
<1>3. PICK k \in 1..MaxSent : k = n
  BY <1>1, <1>2
<1> DEFINE e == <<p, k>>
<1>4. sent' \in [Publishers -> 0..MaxSent] /\ sent'[p] = k /\ k = sent[p] + 1 /\ k > sent[p]
  BY <1>1, <1>2, <1>3
<1>5. e \notin ToSet(pendingEvents) /\ \A x \in Subs : e \notin ToSet(replay[x]) /\ e \notin WrittenTo(x)
  <2>1. ~(e[2] <= sent[e[1]])
    BY <1>2, <1>4
  <2>2. QED
    BY <2>1, <1>2 DEF DeliveryInv
<1>6. Newest(p, e)
  BY <1>1, <1>2, <1>4, <1>5 DEF Newest
<1>7. CASE current = NoMap
  <2>1. enqueuePending(e) /\ UNCHANGED <<current, members, publishing, written>>
    BY <1>1, <1>3, <1>7
  <2>2. publishing' = [publishing EXCEPT ![p] = Idle]
    BY <2>1, <1>1, <1>2 DEF HubTypeOK
  <2>3. members' \in [Subs -> SUBSET Subs] /\ \A m \in Subs : members'[m] \subseteq members[m]
    BY <2>1, <1>2 DEF HubTypeOK
  <2>4. current' \in Subs \cup {NoMap} /\ (current' # NoMap => members'[current'] # {})
    BY <2>1, <1>2, <1>7
  <2>5. QED
    BY <2>1, <2>2, <2>3, <2>4, <1>1, <1>6, PublishEnds
<1>8. CASE current # NoMap
  <2>1. PICK m \in Subs : m = current
    BY <1>2, <1>8
  <2>2. Iterate(p, e, m, 0, {}, FALSE)
    BY <2>1, <1>1, <1>3, <1>8
  <2>3. LoopState(p, e, m, 0, {}, FALSE)
    BY <2>1, <1>5, <1>6 DEF LoopState
  <2>4. QED
    BY <2>2, <2>3, <1>1, LoopKeeps
<1>9. QED
  BY <1>7, <1>8

\* A write that returns or throws leaves the publish where it was in its Map.
LEMMA WriteStepKeeps ==
    ASSUME HubInv, NEW p \in Publishers, WriteStep(p)
    PROVE  HubInv'
<1>1. /\ HubTypeOK /\ MapsInUse /\ DeliveryInv
      /\ sent \in [Publishers -> 0..MaxSent]
  BY DEF HubInv, HubTypeOK
<1>2. publishing[p] # Idle /\ UNCHANGED <<client, replayVars, sent>>
  BY DEF WriteStep, WriteReturns, WriteThrows
<1>3. PICK w \in [event : Events \cup {<<>>}, map : Subs \cup {NoMap}, writingTo : 0..NSubs,
                  dead : SUBSET Subs, delivered : BOOLEAN] : w = publishing[p]
  BY <1>1 DEF HubTypeOK
<1>4. /\ w.event = <<p, sent[p]>> /\ w.map \in Subs /\ w.writingTo \in Subs
      /\ w.event \in WrittenTo(w.writingTo)
      /\ \A x \in Subs : x > w.writingTo => w.event \notin WrittenTo(x)
      /\ NobodyLeft => w.map = current /\ w.dead = {}
  BY <1>1, <1>2, <1>3 DEF MapsInUse, DeliveryInv, Subs
<1>5. w.event \in Events /\ w.event # <<>> /\ InFlight(w.event) /\ sent[p] # 0
  <2>1. w.event # <<>>
    BY <1>4
  <2>2. w.event \in Events
    BY <2>1, <1>3
  <2>3. QED
    BY <2>1, <2>2, <1>3, <1>4 DEF InFlight, Events
<1>6. w.event \notin ToSet(pendingEvents) /\ \A x \in Subs : w.event \notin ToSet(replay[x])
  BY <1>1, <1>5 DEF DeliveryInv
<1>7. Newest(p, w.event)
  BY <1>1, <1>2, <1>3, <1>4, <1>5, <1>6 DEF Newest
<1>8. w.event \in Seen
  BY <1>4 DEF Seen
<1>9. CASE WriteReturns(p)
  <2>1. Iterate(p, w.event, w.map, w.writingTo, w.dead, TRUE)
    BY <1>3, <1>9 DEF WriteReturns
  <2>2. LoopState(p, w.event, w.map, w.writingTo, w.dead, TRUE)
    BY <1>3, <1>4, <1>7, <1>8 DEF LoopState
  <2>3. QED
    BY <2>1, <2>2, <1>2, LoopKeeps
<1>10. CASE WriteThrows(p)
  <2>1. /\ client[w.writingTo] # "open"
        /\ Iterate(p, w.event, w.map, w.writingTo, w.dead \cup {w.writingTo}, w.delivered)
    BY <1>3, <1>10 DEF WriteThrows
  <2>2. ~NobodyLeft
    <3>1. client[w.writingTo] # "none"
      BY <1>1, <1>2, <1>3 DEF MapsInUse
    <3>2. QED
      BY <2>1, <3>1, <1>4 DEF NobodyLeft
  <2>3. LoopState(p, w.event, w.map, w.writingTo, w.dead \cup {w.writingTo}, w.delivered)
    BY <2>2, <1>3, <1>4, <1>7, <1>8 DEF LoopState
  <2>4. QED
    BY <2>1, <2>3, <1>2, LoopKeeps
<1>11. QED
  BY <1>9, <1>10 DEF WriteStep

\* What one client does: it connects, leaves or gets its next event, from the
\* buffer or its replay, and while nobody leaves nothing of either is lost.
LEMMA ClientMoves ==
    ASSUME HubInv, NEW x \in Subs,
           UNCHANGED <<publishing, sent, historyVars>>,
           client' \in [Subs -> ClientState], written' \in [Subs -> Seq(Events)],
           replay' \in [Subs -> Seq(Events)], replaying' \subseteq Subs,
           members' \in [Subs -> SUBSET Subs], current' \in Subs \cup {NoMap},
           pendingEvents' \in {pendingEvents, <<>>},
           \A y \in Subs : y # x =>
               /\ client'[y] = client[y] /\ written'[y] = written[y] /\ replay'[y] = replay[y]
               /\ y \in replaying' <=> y \in replaying,
           client[x] # "none" => client'[x] # "none",
           x \notin replaying' => replay'[x] = <<>>,
           \A y \in Subs : client'[y] = "none" =>
               written'[y] = <<>> /\ replay'[y] = <<>> /\ \A m \in Subs : y \notin members'[m],
           current' # NoMap => members'[current'] # {},
           IsInjective(written'[x]), IsInjective(replay'[x]),
           ToSet(written'[x]) \subseteq ToSet(written[x]) \cup ToSet(replay[x]) \cup ToSet(pendingEvents),
           ToSet(replay'[x]) \subseteq ToSet(replay[x]) \cup ToSet(pendingEvents),
           ToSet(written[x]) \subseteq ToSet(written'[x]),
           \A f \in ToSet(replay'[x]) : f \notin ToSet(written'[x]),
           NobodyLeft' =>
               /\ NobodyLeft
               /\ current' = current \/ current = NoMap
               /\ LiveIsRegistered => LiveIsRegistered'
               /\ ToSet(replay[x]) \cup ToSet(pendingEvents)
                    \subseteq ToSet(written'[x]) \cup ToSet(replay'[x]) \cup ToSet(pendingEvents')
    PROVE  HubInv'
<1>1. /\ HubTypeOK /\ MapsInUse /\ DeliveryInv
      /\ NoDuplicates /\ PendingOrdered /\ PublishKeepsEvent /\ StayersServed
  BY DEF HubInv
<1>2. UNCHANGED <<publishing, sent, buffered, overflowed>>
  BY DEF historyVars
<1>3. \A f : InFlight(f)' <=> InFlight(f)
  BY <1>2 DEF InFlight
<1>4. /\ pendingEvents' \in Seq(Events)
      /\ ToSet(pendingEvents') \subseteq ToSet(pendingEvents)
      /\ PendingOrdered'
  <2>1. CASE pendingEvents' = pendingEvents
    BY <2>1, <1>1 DEF HubTypeOK, PendingOrdered
  <2>2. CASE pendingEvents' = <<>>
    <3>1. Len(pendingEvents') = 0 /\ ToSet(pendingEvents') = {}
      BY <2>2 DEF ToSet
    <3>2. QED
      BY <2>2, <3>1 DEF PendingOrdered
  <2>3. QED
    BY <2>1, <2>2
<1>5. Seen \subseteq Seen'
  <2>1. \A y \in Subs : ToSet(written[y]) \subseteq ToSet(written'[y])
    OBVIOUS
  <2>2. QED
    BY <2>1 DEF Seen, WrittenTo
<1>6. ASSUME NEW f \in ToSet(pendingEvents) \cup ToSet(replay[x])
      PROVE  f \in Events /\ f[2] <= sent[f[1]] /\ ~InFlight(f)
  <2>1. pendingEvents \in Seq(Events) /\ replay[x] \in Seq(Events)
    BY <1>1 DEF HubTypeOK
  <2>2. QED
    BY <2>1, <1>1, HeldIsTyped DEF DeliveryInv
<1>7. HubTypeOK'
  BY <1>1, <1>2, <1>4 DEF HubTypeOK
<1>8. MapsInUse'
  <2>1. ASSUME NEW p \in Publishers, publishing'[p] # Idle
        PROVE  /\ publishing'[p].event = <<p, sent'[p]>>
               /\ publishing'[p].map # NoMap
               /\ publishing'[p].writingTo # 0
               /\ client'[publishing'[p].writingTo] # "none"
    <3>1. publishing[p] # Idle /\ publishing'[p] = publishing[p]
      BY <2>1, <1>2
    <3>2. PICK z \in Subs : z = publishing[p].writingTo
      BY <3>1, <1>1 DEF MapsInUse, HubTypeOK, Subs
    <3>3. client[z] # "none"
      BY <3>1, <3>2, <1>1 DEF MapsInUse
    <3>4. client'[z] # "none"
      BY <3>3
    <3>5. QED
      BY <3>1, <3>2, <3>4, <1>1, <1>2 DEF MapsInUse
  <2>2. ASSUME NEW y \in Subs, y \notin replaying' PROVE replay'[y] = <<>>
    BY <2>2, <1>1 DEF MapsInUse
  <2>3. QED
    BY <2>1, <2>2 DEF MapsInUse
<1>9. DeliveryInv'
  <2>1. ASSUME NEW y \in Subs, NEW f \in ToSet(written'[y]) PROVE f[2] <= sent'[f[1]]
    <3>1. f \in ToSet(written[y]) \/ (y = x /\ f \in ToSet(replay[x]) \cup ToSet(pendingEvents))
      BY <2>1
    <3>2. QED
      BY <3>1, <1>1, <1>2, <1>6 DEF DeliveryInv, WrittenTo
  <2>2. ASSUME NEW f \in ToSet(pendingEvents') PROVE f[2] <= sent'[f[1]] /\ ~InFlight(f)'
    BY <2>2, <1>2, <1>3, <1>4, <1>6
  <2>3. ASSUME NEW y \in Subs, NEW f \in ToSet(replay'[y])
        PROVE  f[2] <= sent'[f[1]] /\ ~InFlight(f)' /\ f \notin ToSet(written'[y])
    <3>1. CASE y = x
      BY <2>3, <3>1, <1>2, <1>3, <1>6
    <3>2. CASE y # x
      <4>1. f \in ToSet(replay[y]) /\ written'[y] = written[y]
        BY <2>3, <3>2
      <4>2. QED
        BY <4>1, <1>1, <1>2, <1>3 DEF DeliveryInv, WrittenTo
    <3>3. QED
      BY <3>1, <3>2
  <2>4. \A y \in Subs : IsInjective(replay'[y])
    BY <1>1 DEF DeliveryInv
  <2>5. ASSUME NEW p \in Publishers, publishing'[p] # Idle
        PROVE  /\ publishing'[p].event \in ToSet(written'[publishing'[p].writingTo])
               /\ \A y \in Subs : y > publishing'[p].writingTo => publishing'[p].event \notin ToSet(written'[y])
               /\ NobodyLeft' => publishing'[p].map = current' /\ publishing'[p].dead = {}
    <3>1. /\ publishing[p] # Idle /\ publishing'[p] = publishing[p]
          /\ publishing[p].map # NoMap /\ InFlight(publishing[p].event)
      BY <2>5, <1>1, <1>2 DEF MapsInUse, InFlight
    <3>2. PICK z \in Subs : z = publishing[p].writingTo
      BY <3>1, <1>1 DEF MapsInUse, HubTypeOK, Subs
    <3>3. /\ publishing[p].event \in ToSet(written[z])
          /\ \A y \in Subs : y > z => publishing[p].event \notin ToSet(written[y])
          /\ NobodyLeft => publishing[p].map = current /\ publishing[p].dead = {}
      BY <3>1, <3>2, <1>1 DEF DeliveryInv, WrittenTo
    <3>4. publishing[p].event \in ToSet(written'[z])
      BY <3>3
    <3>5. ASSUME NEW y \in Subs, y > z PROVE publishing[p].event \notin ToSet(written'[y])
      <4>1. publishing[p].event \notin ToSet(replay[x]) \cup ToSet(pendingEvents)
        BY <3>1, <1>6
      <4>2. QED
        BY <4>1, <3>3, <3>5
    <3>6. NobodyLeft' => publishing[p].map = current' /\ publishing[p].dead = {}
      BY <3>1, <3>3
    <3>7. QED
      BY <3>1, <3>2, <3>4, <3>5, <3>6
  <2>6. QED
    BY <2>1, <2>2, <2>3, <2>4, <2>5 DEF DeliveryInv, WrittenTo
<1>10. NoDuplicates'
  BY <1>1 DEF NoDuplicates
<1>11. PublishKeepsEvent'
  <2> SUFFICES ASSUME NEW q \in Publishers, NEW n \in 1..sent'[q]
               PROVE  InFlight(<<q, n>>)' \/ <<q, n>> \in Seen' \/ <<q, n>> \in buffered'
    BY DEF PublishKeepsEvent
  <2>1. InFlight(<<q, n>>) \/ <<q, n>> \in Seen \/ <<q, n>> \in buffered
    BY <1>1, <1>2 DEF PublishKeepsEvent
  <2>2. QED
    BY <2>1, <1>2, <1>3, <1>5
<1>12. StayersServed'
  <2> SUFFICES ASSUME NobodyLeft' PROVE LiveIsRegistered' /\ BufferedKept'
    BY DEF StayersServed
  <2>1. LiveIsRegistered' /\ BufferedKept
    BY <1>1 DEF StayersServed
  <2>2. BufferedKept'
    <3> SUFFICES ASSUME NEW f \in buffered
                 PROVE  \/ f \in ToSet(pendingEvents')
                        \/ \E y \in Subs : f \in ToSet(replay'[y])
                        \/ f \in Seen'
                        \/ f \in overflowed
      BY <1>2 DEF BufferedKept
    <3>1. CASE f \in ToSet(pendingEvents) \cup ToSet(replay[x])
      <4>1. f \in ToSet(written'[x]) => f \in Seen'
        BY DEF Seen, WrittenTo
      <4>2. QED
        BY <3>1, <4>1
    <3>2. CASE \E y \in Subs \ {x} : f \in ToSet(replay[y])
      BY <3>2
    <3>3. CASE f \in Seen \/ f \in overflowed
      BY <3>3, <1>5
    <3>4. QED
      BY <3>1, <3>2, <3>3, <2>1 DEF BufferedKept
  <2>3. QED
    BY <2>1, <2>2
<1>13. QED
  BY <1>4, <1>7, <1>8, <1>9, <1>10, <1>11, <1>12 DEF HubInv

\* The buffer and every replay hold nothing twice.
LEMMA HeldOnce ==
    ASSUME HubInv
    PROVE  /\ pendingEvents \in Seq(Events) /\ IsInjective(pendingEvents)
           /\ \A x \in Subs : /\ replay[x] \in Seq(Events) /\ IsInjective(replay[x])
                              /\ written[x] \in Seq(Events) /\ IsInjective(written[x])
<1>1. HubTypeOK /\ Ordered(pendingEvents) /\ DeliveryInv /\ NoDuplicates
  BY DEF HubInv, PendingOrdered, Ordered
<1>2. QED
  BY <1>1, OrderedInjective DEF HubTypeOK, DeliveryInv, NoDuplicates

\* A client that connects takes the buffer over, and writes its head at once.
LEMMA SubscribeKeeps ==
    ASSUME HubInv, NEW x \in Subs, subscribe(x)
    PROVE  HubInv'
<1>1. /\ client[x] = "none"
      /\ StartReplay(x)
      /\ UNCHANGED <<publishing, sent, historyVars>>
  BY DEF subscribe
<1>2. PICK state \in {"open", "aborted"} : client' = [client EXCEPT ![x] = state]
  BY DEF subscribe
<1>3. PICK m \in Subs :
        /\ m = IF current = NoMap THEN x ELSE current
        /\ current' = m
        /\ members' = [members EXCEPT ![m] = @ \cup {x}]
  BY DEF subscribe, HubInv, HubTypeOK
<1>4. /\ HubTypeOK /\ MapsInUse /\ DeliveryInv
      /\ pendingEvents \in Seq(Events) /\ IsInjective(pendingEvents)
      /\ written[x] = <<>> /\ replay[x] = <<>>
  BY <1>1, HeldOnce DEF HubInv, DeliveryInv
<1>5. ToSet(<<>>) = {} /\ IsInjective(<<>>) /\ <<>> \in Seq(Events)
  BY DEF ToSet, IsInjective
<1>6. /\ client' \in [Subs -> ClientState] /\ client'[x] = state
      /\ \A y \in Subs : y # x => client'[y] = client[y]
  BY <1>2, <1>4 DEF HubTypeOK, ClientState
<1>7. /\ members' \in [Subs -> SUBSET Subs] /\ current' \in Subs \cup {NoMap}
      /\ current' # NoMap => members'[current'] # {}
      /\ \A y \in Subs : \A k \in Subs : y \in members'[k] => y \in members[k] \/ y = x
      /\ \A y \in Subs : \A k \in Subs : y \in members[k] => y \in members'[k]
      /\ x \in members'[m]
  BY <1>3, <1>4 DEF HubTypeOK
<1>8. current' = current \/ current = NoMap
  BY <1>3
<1>9. NobodyLeft' => NobodyLeft /\ state = "open"
  BY <1>1, <1>6 DEF NobodyLeft
<1>10. LiveIsRegistered => LiveIsRegistered'
  <2> SUFFICES ASSUME LiveIsRegistered, NEW y \in Subs, client'[y] = "open"
               PROVE  current' # NoMap /\ y \in members'[current']
    BY DEF LiveIsRegistered
  <2>1. current' # NoMap
    BY <1>3 DEF NoMap, Subs
  <2>2. CASE y = x
    BY <2>1, <2>2, <1>3, <1>7
  <2>3. CASE y # x
    <3>1. current # NoMap /\ y \in members[current]
      BY <2>3, <1>6 DEF LiveIsRegistered
    <3>2. current = m
      BY <3>1, <1>3
    <3>3. QED
      BY <2>1, <3>1, <3>2, <1>3, <1>7
  <2>4. QED
    BY <2>2, <2>3
<1>11. /\ written' \in [Subs -> Seq(Events)] /\ replay' \in [Subs -> Seq(Events)] /\ replaying' \subseteq Subs
       /\ pendingEvents' \in {pendingEvents, <<>>}
       /\ \A y \in Subs : y # x =>
            written'[y] = written[y] /\ replay'[y] = replay[y] /\ (y \in replaying' <=> y \in replaying)
       /\ x \notin replaying' => replay'[x] = <<>>
       /\ IsInjective(written'[x]) /\ IsInjective(replay'[x])
       /\ ToSet(written'[x]) \subseteq ToSet(pendingEvents) /\ ToSet(replay'[x]) \subseteq ToSet(pendingEvents)
       /\ \A f \in ToSet(replay'[x]) : f \notin ToSet(written'[x])
       /\ state = "open" =>
            ToSet(pendingEvents) \subseteq ToSet(written'[x]) \cup ToSet(replay'[x]) \cup ToSet(pendingEvents')
  <2>1. CASE pendingEvents = <<>> \/ state = "aborted"
    <3>1. UNCHANGED <<replay, replaying, written>>
      BY <2>1, <1>1, <1>6 DEF StartReplay, replayVars
    <3>2. pendingEvents' \in {pendingEvents, <<>>}
      BY <1>1 DEF StartReplay
    <3>3. pendingEvents = <<>> => pendingEvents' = pendingEvents
      BY <1>1 DEF StartReplay
    <3>4. QED
      BY <2>1, <3>1, <3>2, <3>3, <1>4, <1>5 DEF HubTypeOK
  <2>2. CASE pendingEvents # <<>> /\ state # "aborted"
    <3>1. /\ pendingEvents' = <<>>
          /\ written' = [written EXCEPT ![x] = Append(@, Head(pendingEvents))]
          /\ replay' = [replay EXCEPT ![x] = Tail(pendingEvents)]
          /\ replaying' = replaying \cup {x}
      BY <2>2, <1>1, <1>6 DEF StartReplay, write
    <3>2. /\ Head(pendingEvents) \in Events /\ Tail(pendingEvents) \in Seq(Events)
          /\ ToSet(pendingEvents) = {Head(pendingEvents)} \cup ToSet(Tail(pendingEvents))
          /\ IsInjective(Tail(pendingEvents)) /\ Head(pendingEvents) \notin ToSet(Tail(pendingEvents))
      BY <2>2, <1>4, HeadTail, TailInjective
    <3>3. /\ Append(written[x], Head(pendingEvents)) \in Seq(Events)
          /\ ToSet(Append(written[x], Head(pendingEvents))) = {Head(pendingEvents)}
          /\ IsInjective(Append(written[x], Head(pendingEvents)))
      <4>1. /\ written[x] \in Seq(Events) /\ ToSet(written[x]) = {} /\ IsInjective(written[x])
            /\ Head(pendingEvents) \in Events /\ Head(pendingEvents) \notin ToSet(written[x])
        BY <3>2, <1>4, <1>5
      <4>2. QED
        BY <4>1, AppendHolds, AppendKeepsInjective
    <3>4. written \in [Subs -> Seq(Events)] /\ replay \in [Subs -> Seq(Events)] /\ replaying \subseteq Subs
      BY <1>4 DEF HubTypeOK
    <3>5. written'[x] = Append(written[x], Head(pendingEvents)) /\ replay'[x] = Tail(pendingEvents)
      BY <3>1, <3>4
    <3>6. written' \in [Subs -> Seq(Events)] /\ replay' \in [Subs -> Seq(Events)]
      BY <3>1, <3>2, <3>3, <3>4
    <3>7. QED
      BY <3>1, <3>2, <3>3, <3>4, <3>5, <3>6
  <2>3. QED
    BY <2>1, <2>2, <1>2
<1>12. \A y \in Subs : client'[y] = "none" =>
          written'[y] = <<>> /\ replay'[y] = <<>> /\ \A k \in Subs : y \notin members'[k]
  <2> SUFFICES ASSUME NEW y \in Subs, client'[y] = "none"
               PROVE  written'[y] = <<>> /\ replay'[y] = <<>> /\ \A k \in Subs : y \notin members'[k]
    OBVIOUS
  <2>1. y # x /\ client[y] = "none"
    BY <1>6
  <2>2. written[y] = <<>> /\ replay[y] = <<>> /\ \A k \in Subs : y \notin members[k]
    BY <2>1, <1>4 DEF DeliveryInv
  <2>3. written'[y] = written[y] /\ replay'[y] = replay[y]
    BY <2>1, <1>11
  <2>4. \A k \in Subs : y \notin members'[k]
    BY <2>1, <2>2, <1>7
  <2>5. QED
    BY <2>2, <2>3, <2>4
<1>13. /\ ToSet(written'[x]) \subseteq ToSet(written[x]) \cup ToSet(replay[x]) \cup ToSet(pendingEvents)
       /\ ToSet(replay'[x]) \subseteq ToSet(replay[x]) \cup ToSet(pendingEvents)
       /\ ToSet(written[x]) \subseteq ToSet(written'[x])
  BY <1>4, <1>5, <1>11
<1>14. NobodyLeft' =>
         /\ NobodyLeft
         /\ current' = current \/ current = NoMap
         /\ LiveIsRegistered => LiveIsRegistered'
         /\ ToSet(replay[x]) \cup ToSet(pendingEvents)
              \subseteq ToSet(written'[x]) \cup ToSet(replay'[x]) \cup ToSet(pendingEvents')
  BY <1>4, <1>5, <1>8, <1>9, <1>10, <1>11
<1>15. /\ UNCHANGED <<publishing, sent, historyVars>>
       /\ written' \in [Subs -> Seq(Events)] /\ replay' \in [Subs -> Seq(Events)]
       /\ replaying' \subseteq Subs /\ pendingEvents' \in {pendingEvents, <<>>}
       /\ \A y \in Subs : y # x =>
            /\ client'[y] = client[y] /\ written'[y] = written[y] /\ replay'[y] = replay[y]
            /\ y \in replaying' <=> y \in replaying
       /\ client[x] # "none" => client'[x] # "none"
       /\ x \notin replaying' => replay'[x] = <<>>
       /\ IsInjective(written'[x]) /\ IsInjective(replay'[x])
       /\ \A f \in ToSet(replay'[x]) : f \notin ToSet(written'[x])
  BY <1>1, <1>6, <1>11
<1>16. QED
  BY <1>6, <1>7, <1>12, <1>13, <1>14, <1>15, ClientMoves, ZenonT(60)

\* A step of a replay hands its next event over, or ends it.
LEMMA ReplayStepKeeps ==
    ASSUME HubInv, NEW x \in Subs, ReplayStep(x)
    PROVE  HubInv'
<1>1. /\ x \in replaying
      /\ UNCHANGED <<current, members, pendingEvents, client, publishing, sent, historyVars>>
  BY DEF ReplayStep, replayNext, replayThrows, hubVars
<1>2. /\ HubTypeOK /\ MapsInUse /\ DeliveryInv /\ NoDuplicates
      /\ replay[x] \in Seq(Events) /\ IsInjective(replay[x])
      /\ written[x] \in Seq(Events) /\ IsInjective(written[x])
      /\ \A f \in ToSet(replay[x]) : f \notin ToSet(written[x])
  BY HeldOnce DEF HubInv, DeliveryInv, WrittenTo
<1>3. ToSet(<<>>) = {} /\ IsInjective(<<>>) /\ <<>> \in Seq(Events)
  BY DEF ToSet, IsInjective
<1>4. /\ written' \in [Subs -> Seq(Events)] /\ replay' \in [Subs -> Seq(Events)] /\ replaying' \subseteq Subs
      /\ \A y \in Subs : y # x =>
            written'[y] = written[y] /\ replay'[y] = replay[y] /\ (y \in replaying' <=> y \in replaying)
      /\ x \notin replaying' => replay'[x] = <<>>
      /\ IsInjective(written'[x]) /\ IsInjective(replay'[x])
      /\ ToSet(written'[x]) \subseteq ToSet(written[x]) \cup ToSet(replay[x])
      /\ ToSet(replay'[x]) \subseteq ToSet(replay[x])
      /\ ToSet(written[x]) \subseteq ToSet(written'[x])
      /\ \A f \in ToSet(replay'[x]) : f \notin ToSet(written'[x])
      /\ NobodyLeft => ToSet(replay[x]) \subseteq ToSet(written'[x]) \cup ToSet(replay'[x])
      /\ client[x] = "none" => written'[x] = written[x] /\ replay'[x] = <<>>
  <2>1. CASE EndReplay(x) /\ UNCHANGED written /\ (replay[x] = <<>> \/ client[x] # "open")
    <3>1. replay' = [replay EXCEPT ![x] = <<>>] /\ replaying' = replaying \ {x} /\ written' = written
      BY <2>1 DEF EndReplay
    <3>2. NobodyLeft => replay[x] = <<>>
      BY <2>1, <1>2 DEF NobodyLeft, DeliveryInv
    <3>3. replay' \in [Subs -> Seq(Events)] /\ replay'[x] = <<>>
      BY <3>1, <1>2, <1>3 DEF HubTypeOK
    <3>4. QED
      BY <3>1, <3>2, <3>3, <1>2, <1>3 DEF HubTypeOK
  <2>2. CASE /\ replay[x] # <<>> /\ client[x] # "aborted"
             /\ write(x, Head(replay[x]))
             /\ replay' = [replay EXCEPT ![x] = Tail(@)]
             /\ UNCHANGED replaying
    <3>1. /\ Head(replay[x]) \in Events /\ Tail(replay[x]) \in Seq(Events)
          /\ ToSet(replay[x]) = {Head(replay[x])} \cup ToSet(Tail(replay[x]))
          /\ IsInjective(Tail(replay[x])) /\ Head(replay[x]) \notin ToSet(Tail(replay[x]))
      BY <2>2, <1>2, HeadTail, TailInjective
    <3>2. PICK e \in Events : e = Head(replay[x])
      BY <3>1
    <3>3. write(x, e) /\ e \notin WrittenTo(x)
      BY <2>2, <3>1, <3>2, <1>2 DEF WrittenTo
    <3>4. /\ written' \in [Subs -> Seq(Events)]
          /\ \A y \in Subs : y # x => written'[y] = written[y]
          /\ ToSet(written'[x]) = ToSet(written[x]) \cup {e}
          /\ IsInjective(written'[x])
      BY <3>3, <1>2, WriteHolds DEF NoDuplicates, WrittenTo
    <3>5. /\ replay' \in [Subs -> Seq(Events)] /\ replay'[x] = Tail(replay[x])
          /\ \A y \in Subs : y # x => replay'[y] = replay[y]
      BY <2>2, <3>1, <1>2 DEF HubTypeOK
    <3>6. replaying' = replaying /\ replaying \subseteq Subs /\ client[x] # "none"
      BY <2>2, <1>2 DEF HubTypeOK, DeliveryInv
    <3>7. QED
      BY <3>1, <3>2, <3>4, <3>5, <3>6, <1>1, <1>2
  <2>3. QED
    BY <2>1, <2>2 DEF ReplayStep, replayNext, replayThrows
<1>5. NobodyLeft' => NobodyLeft
  BY <1>1 DEF NobodyLeft
<1>6. LiveIsRegistered => LiveIsRegistered'
  BY <1>1 DEF LiveIsRegistered
<1>7. \A y \in Subs : client'[y] = "none" =>
          written'[y] = <<>> /\ replay'[y] = <<>> /\ \A k \in Subs : y \notin members'[k]
  BY <1>1, <1>2, <1>4 DEF DeliveryInv
<1>8. /\ client' \in [Subs -> ClientState] /\ members' \in [Subs -> SUBSET Subs]
      /\ current' \in Subs \cup {NoMap} /\ (current' # NoMap => members'[current'] # {})
  BY <1>1, <1>2 DEF HubTypeOK, MapsInUse
<1>9. QED
  BY <1>1, <1>4, <1>5, <1>6, <1>7, <1>8, ClientMoves

\* A connection that breaks, and the abort that takes it out of its Map.
LEMMA LeaveKeeps ==
    ASSUME HubInv, NEW x \in Subs, Close(x) \/ Abort(x)
    PROVE  HubInv'
<1>1. /\ client[x] \in {"open", "closing"}
      /\ client' = [client EXCEPT ![x] = "closing"] \/ client' = [client EXCEPT ![x] = "aborted"]
      /\ UNCHANGED <<pendingEvents, replay, replaying, publishing, sent, written, historyVars>>
      /\ unsubscribe(x) \/ UNCHANGED <<current, members>>
  BY DEF Close, Abort, hubVars, replayVars
<1>2. /\ HubTypeOK /\ MapsInUse /\ DeliveryInv /\ IsInjective(written[x]) /\ IsInjective(replay[x])
  BY HeldOnce DEF HubInv
<1>3. /\ client' \in [Subs -> ClientState] /\ client'[x] \in {"closing", "aborted"}
      /\ \A y \in Subs : y # x => client'[y] = client[y]
  BY <1>1, <1>2 DEF HubTypeOK, ClientState
<1>4. ~NobodyLeft'
  BY <1>3 DEF NobodyLeft
<1>5. /\ members' \in [Subs -> SUBSET Subs] /\ current' \in Subs \cup {NoMap}
      /\ current' # NoMap => members'[current'] # {}
      /\ \A k \in Subs : members'[k] \subseteq members[k]
  <2>1. CASE UNCHANGED <<current, members>>
    BY <2>1, <1>2 DEF HubTypeOK, MapsInUse
  <2>2. CASE /\ current # NoMap
             /\ members' = [members EXCEPT ![current] = @ \ {x}]
             /\ current' = IF members'[current] = {} THEN NoMap ELSE current
    <3>1. members \in [Subs -> SUBSET Subs] /\ current \in Subs
      BY <2>2, <1>2 DEF HubTypeOK
    <3>2. members' \in [Subs -> SUBSET Subs] /\ \A k \in Subs : members'[k] \subseteq members[k]
      BY <2>2, <3>1
    <3>3. QED
      BY <2>2, <3>1, <3>2
  <2>3. QED
    BY <2>1, <2>2, <1>1 DEF unsubscribe
<1>6. \A y \in Subs : client'[y] = "none" =>
          written'[y] = <<>> /\ replay'[y] = <<>> /\ \A k \in Subs : y \notin members'[k]
  BY <1>1, <1>2, <1>3, <1>5 DEF DeliveryInv
<1>7. \A f \in ToSet(replay'[x]) : f \notin ToSet(written'[x])
  BY <1>1, <1>2 DEF DeliveryInv, WrittenTo
<1>8. /\ written' \in [Subs -> Seq(Events)] /\ replay' \in [Subs -> Seq(Events)] /\ replaying' \subseteq Subs
      /\ x \notin replaying' => replay'[x] = <<>>
      /\ IsInjective(written'[x]) /\ IsInjective(replay'[x])
  BY <1>1, <1>2 DEF HubTypeOK, MapsInUse
<1>9. client[x] # "none" => client'[x] # "none"
  BY <1>3
<1>10. QED
  BY <1>1, <1>3, <1>4, <1>5, <1>6, <1>7, <1>8, <1>9, ClientMoves
-----------------------------------------------------------------------------
\* A hub without clients, publishes and events.
LEMMA InitHubInv == Init => HubInv
<1> SUFFICES ASSUME Init PROVE HubInv
  OBVIOUS
<1> USE DEF Init
<1>1. HubTypeOK
  BY DEF HubTypeOK, ClientState, Idle
<1>2. MapsInUse /\ StayersServed
  BY DEF MapsInUse, StayersServed, LiveIsRegistered, BufferedKept
<1>3. ToSet(<<>>) = {} /\ IsInjective(<<>>) /\ Len(<<>>) = 0
  BY DEF ToSet, IsInjective
<1>4. DeliveryInv /\ NoDuplicates
  BY <1>3 DEF DeliveryInv, NoDuplicates, WrittenTo
<1>5. PendingOrdered /\ PublishKeepsEvent
  BY <1>3 DEF PendingOrdered, PublishKeepsEvent
<1>6. QED
  BY <1>1, <1>2, <1>4, <1>5 DEF HubInv

\* One case per actor: clients, replays, publishers.
LEMMA NextHubInv == HubInv /\ [Next]_vars => HubInv'
<1> SUFFICES ASSUME HubInv, [Next]_vars PROVE HubInv'
  OBVIOUS
<1>1. ASSUME NEW x \in Subs, ClientStep(x) PROVE HubInv'
  BY <1>1, SubscribeKeeps, LeaveKeeps DEF ClientStep
<1>2. ASSUME NEW x \in Subs, ReplayStep(x) PROVE HubInv'
  BY <1>2, ReplayStepKeeps
<1>3. ASSUME NEW p \in Publishers, publish(p) PROVE HubInv'
  BY <1>3, PublishKeeps
<1>4. ASSUME NEW p \in Publishers, WriteStep(p) PROVE HubInv'
  BY <1>4, WriteStepKeeps
<1>5. CASE UNCHANGED vars
  <2>1. UNCHANGED <<current, members, client, pendingEvents, replay, replaying, publishing, sent, written,
                    buffered, overflowed>>
    BY <1>5 DEF vars, hubVars, replayVars, historyVars
  <2>2. HubTypeOK' /\ MapsInUse' /\ PendingOrdered' /\ NoDuplicates'
    BY <2>1 DEF HubInv, HubTypeOK, MapsInUse, PendingOrdered, NoDuplicates
  <2>3. DeliveryInv'
    BY <2>1 DEF HubInv, DeliveryInv, WrittenTo, InFlight, NobodyLeft
  <2>4. PublishKeepsEvent'
    BY <2>1 DEF HubInv, PublishKeepsEvent, InFlight, Seen, WrittenTo
  <2>5. StayersServed'
    BY <2>1 DEF HubInv, StayersServed, NobodyLeft, LiveIsRegistered, BufferedKept, Seen,
          WrittenTo
  <2>6. QED
    BY <2>2, <2>3, <2>4, <2>5 DEF HubInv
<1>6. QED
  BY <1>1, <1>2, <1>3, <1>4, <1>5 DEF Next

\* Whatever clients and publishers do and however their awaits interleave: no
\* client is given an event twice, the buffer is bounded and in order, a publish
\* never loses its event, and clients that stay are served.
THEOREM HubIsSafe == Spec => []HubInv
<1>1. QED
  BY InitHubInv, NextHubInv, PTL DEF Spec

=============================================================================
