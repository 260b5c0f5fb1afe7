---------------------------- MODULE DeviceDirectory ----------------------------
(***************************************************************************)
(* One user, one machine and the server's directory of devices: pairing    *)
(* with a code (device-service.ts, commands/pair.ts), config.json, which   *)
(* every muse process reads and writes (paths.ts), the daemon's heartbeats *)
(* (heartbeat.ts) and the web page on which the user selects a device      *)
(* (devices-page.tsx).                                                     *)
(*                                                                         *)
(* A device is a row of the server and stands for its token; nothing       *)
(* deletes a row.  All devices of the machine have the same endpoint.      *)
(***************************************************************************)
EXTENDS Naturals, FiniteSets

CONSTANTS Codes,      \* pairing codes, each made once
          Commands,   \* processes of muse pair and muse agent use
          Limits,     \* bounds: devices, daemon starts, heartbeats on their way, faults
          Nothing

ASSUME DirectoryAssumption ==
  /\ Limits \in [devices : Nat, starts : Nat, faults : Nat, beats : Nat]
  /\ Nothing \notin Codes

VARIABLES
  code,      \* redis: code -> "unused", "live", "gone" (used or expired)
  owner,     \* database: device -> the code it was paired with; DOMAIN is the rows
  online,    \* redis: the devices with a live online key
  config,    \* config.json: [text |-> absent, valid or torn, token, agent]
  command,   \* command -> where it is and what it holds
  daemon,    \* the daemon: [step, token |-> authState.deviceToken]
  beats,     \* heartbeats under way: [id, device, reports]
  session,   \* the web client: the device it has selected, or 0
  bound,     \* what the bounds have been used for
  saved, chosen, \* history: the token and the agent that were last saved in config.json,
  mixed,     \* 1 once two processes wrote it at once or one was killed,
  shared,    \* 1 once two requests used a code at once,
  excused    \* the devices that may be online without a daemon

directoryVars == <<code, owner, online, config, command, daemon, beats, session, bound,
                   saved, chosen, mixed, shared, excused>>
directoryHistory == <<saved, chosen, mixed, shared, excused>>

Rows == DOMAIN owner
Devices == 1 .. Limits.devices
NoDevice == 0
Idle == [step |-> "idle", kind |-> Nothing, code |-> Nothing, device |-> NoDevice, read |-> Nothing]
Ended == [Idle EXCEPT !.kind = "ended"]
Config(text, token, agent) == [text |-> text, token |-> token, agent |-> agent]

DirectoryInit ==
  /\ code = [c \in Codes |-> "unused"]
  /\ owner = <<>>
  /\ online = {}
  /\ config = Config("absent", NoDevice, 0)
  /\ command = [p \in Commands |-> Idle]
  /\ daemon = [step |-> "off", token |-> NoDevice]
  /\ beats = {} /\ session = NoDevice
  /\ bound = [starts |-> 0, faults |-> 0, beats |-> 0]
  /\ saved = NoDevice /\ chosen = 0 /\ mixed = 0 /\ shared = 0 /\ excused = {}

Fault == bound.faults < Limits.faults /\ bound' = [bound EXCEPT !.faults = @ + 1]

-----------------------------------------------------------------------------
(* Pairing on the server. *)

\* createPairCode, for the page's onGeneratePairCode
createPairCode(c) ==
  /\ code[c] = "unused" /\ code' = [code EXCEPT ![c] = "live"]
  /\ UNCHANGED <<owner, online, config, command, daemon, beats, session, bound, directoryHistory>>

ExpireCode(c) ==
  /\ code[c] = "live" /\ code' = [code EXCEPT ![c] = "gone"]
  /\ UNCHANGED <<owner, online, config, command, daemon, beats, session, bound, directoryHistory>>

\* pair, the code is looked up.  shared: two requests use a code at once.
PairGet(p) ==
  /\ command[p].step = "sent"
  /\ LET c == command[p].code IN
     /\ command' = [command EXCEPT ![p] = IF code[c] = "live" THEN [@ EXCEPT !.step = "found"] ELSE Ended]
     /\ shared' = IF \E q \in Commands \ {p} :
                          command[q].code = c /\ command[q].step \in {"found", "inserted"}
                  THEN 1 ELSE shared
  /\ UNCHANGED <<code, owner, online, config, daemon, beats, session, bound, saved, chosen, mixed, excused>>

\* pair, the row is inserted
PairInsert(p) ==
  LET d == Cardinality(Rows) + 1 IN
  /\ command[p].step = "found" /\ d \in Devices
  /\ owner' = [e \in Rows \cup {d} |-> IF e = d THEN command[p].code ELSE owner[e]]
  /\ command' = [command EXCEPT ![p].step = "inserted", ![p].device = d]
  /\ UNCHANGED <<code, online, config, daemon, beats, session, bound, directoryHistory>>

\* Faulty PairDel: the code stays until it expires.
PairDelNot(p) ==
  /\ command[p].step = "inserted"
  /\ command' = [command EXCEPT ![p].step = "deleted"]
  /\ UNCHANGED <<code, owner, online, config, daemon, beats, session, bound, directoryHistory>>

\* pair, redis.del
PairDel(p) ==
  /\ command[p].step = "inserted"
  /\ code' = [code EXCEPT ![command[p].code] = "gone"]
  /\ command' = [command EXCEPT ![p].step = "deleted"]
  /\ UNCHANGED <<owner, online, config, daemon, beats, session, bound, directoryHistory>>

\* pair, markOnline: the device counts as online whether or not a daemon runs.
PairOnline(p) ==
  /\ command[p].step = "deleted"
  /\ online' = online \cup {command[p].device}
  /\ command' = [command EXCEPT ![p].step = "load"]
  /\ excused' = excused \cup {command[p].device}
  /\ UNCHANGED <<code, owner, config, daemon, beats, session, bound, saved, chosen, mixed, shared>>

\* The request, one of the server's steps or the answer fails; runPairCommand gives up.
PairFails(p) ==
  /\ command[p].step \in {"sent", "found", "inserted", "deleted", "load"} /\ command[p].kind = "pair"
  /\ Fault
  /\ command' = [command EXCEPT ![p] = Ended]
  /\ UNCHANGED <<code, owner, online, config, daemon, beats, session, directoryHistory>>

-----------------------------------------------------------------------------
(* config.json.  Every process first runs ensureMuseDir. *)

\* ensureMuseDir: hadConfig.  Then pair sends its request; use has found its agent.
Ensured(kind) == IF kind = "pair" THEN "sent" ELSE "load"

Run(p, kind, c) ==
  /\ command[p].step = "idle" /\ command[p].kind = Nothing
  /\ command' = [command EXCEPT ![p] =
       [step |-> IF config.text = "absent" THEN "create" ELSE Ensured(kind),
        kind |-> kind, code |-> c, device |-> NoDevice, read |-> Nothing]]
  /\ UNCHANGED <<code, owner, online, config, daemon, beats, session, bound, directoryHistory>>

\* ensureMuseDir: the default config is written, whatever is there by now.
CreateConfig(p) ==
  /\ command[p].step = "create"
  /\ config' = Config("valid", NoDevice, 0)
  /\ command' = [command EXCEPT ![p].step = Ensured(command[p].kind)]
  /\ mixed' = (IF config.text = "absent" THEN mixed ELSE 1)
  /\ excused' = excused \cup {config.token}
  /\ UNCHANGED <<code, owner, online, daemon, beats, session, bound, saved, chosen, shared>>

\* saveMuseConfig: loadMuseConfig; a text that does not parse ends the command.
LoadConfig(p) ==
  /\ command[p].step = "load"
  /\ command' = [command EXCEPT ![p] =
       IF config.text = "torn" THEN Ended ELSE [@ EXCEPT !.step = "write", !.read = config]]
  /\ UNCHANGED <<code, owner, online, config, daemon, beats, session, bound, directoryHistory>>

\* saveMuseConfig: writeFile truncates.  mixed: the file is no longer what this
\* process has read, or another process is writing it.
Truncate(p) ==
  /\ command[p].step = "write"
  /\ config' = [config EXCEPT !.text = "torn"]
  /\ command' = [command EXCEPT ![p].step = "writing"]
  /\ mixed' = (IF config = command[p].read THEN mixed ELSE 1)
  /\ UNCHANGED <<code, owner, online, daemon, beats, session, bound, saved, chosen, shared, excused>>

\* saveMuseConfig: ...current, ...patch
Merged(p) ==
  IF command[p].kind = "pair" THEN Config("valid", command[p].device, command[p].read.agent)
                              ELSE Config("valid", command[p].read.token, 1)

\* saveMuseConfig: the text is written.  excused: a running daemon now reports
\* for another device.
WriteConfig(p) ==
  /\ command[p].step = "writing"
  /\ config' = Merged(p)
  /\ command' = [command EXCEPT ![p] = Ended]
  /\ saved' = (IF command[p].kind = "pair" THEN command[p].device ELSE saved)
  /\ chosen' = (IF command[p].kind = "use" THEN 1 ELSE chosen)
  /\ excused' = excused \cup {config.token}
  /\ UNCHANGED <<code, owner, online, daemon, beats, session, bound, mixed, shared>>

\* The command is killed while it writes.
KillCommand(p) ==
  /\ command[p].step = "writing" /\ Fault
  /\ command' = [command EXCEPT ![p] = Ended]
  /\ mixed' = 1 /\ excused' = excused \cup {config.token}
  /\ UNCHANGED <<code, owner, online, config, daemon, beats, session, saved, chosen, shared>>

-----------------------------------------------------------------------------
(* The daemon. *)

\* ensureMuseDir, then createCliDaemonDeps: the token is read once.
StartDaemon ==
  /\ daemon.step = "off" /\ bound.starts < Limits.starts
  /\ bound' = [bound EXCEPT !.starts = @ + 1]
  /\ config' = IF config.text = "absent" THEN Config("valid", NoDevice, 0) ELSE config
  /\ daemon' = [step |-> "running", token |-> IF config.text = "valid" THEN config.token ELSE NoDevice]
  /\ UNCHANGED <<code, owner, online, command, beats, session, directoryHistory>>

\* sendDeviceRegistryHeartbeat up to the request; nothing when config.json has no token
\* or does not parse.
Send(reports) ==
  IF config.text = "valid" /\ config.token # NoDevice
  THEN beats' = beats \cup {[id |-> bound.beats, device |-> config.token, reports |-> reports]}
  ELSE UNCHANGED beats

\* tickOnline; the timer runs only in a daemon that was paired when it started.
tickOnline ==
  /\ daemon.step = "running" /\ daemon.token # NoDevice
  /\ bound.beats < Limits.beats /\ bound' = [bound EXCEPT !.beats = @ + 1]
  /\ Send("online")
  /\ UNCHANGED <<code, owner, online, config, command, daemon, session, directoryHistory>>

\* shutdown: the timer is cleared and the offline report goes out.
shutdown ==
  /\ daemon.step = "running"
  /\ daemon' = [daemon EXCEPT !.step = "stopping"]
  /\ IF daemon.token = NoDevice
     THEN UNCHANGED <<beats, excused>>
     ELSE /\ Send("offline")
          /\ excused' = excused \cup (IF config.text = "valid" THEN {} ELSE Rows)
  /\ UNCHANGED <<code, owner, online, config, command, session, bound, saved, chosen, mixed, shared>>

\* shutdown, when the report has been answered or has failed
DaemonExits ==
  /\ daemon.step = "stopping"
  /\ ~\E b \in beats : b.reports = "offline"
  /\ daemon' = [daemon EXCEPT !.step = "off"]
  /\ UNCHANGED <<code, owner, online, config, command, beats, session, bound, directoryHistory>>

\* The daemon is killed; requests it has sent may still arrive.
KillDaemon ==
  /\ daemon.step \in {"running", "stopping"} /\ Fault
  /\ daemon' = [daemon EXCEPT !.step = "off"]
  /\ excused' = excused \cup online \cup {b.device : b \in beats}
  /\ UNCHANGED <<code, owner, online, config, command, beats, session, saved, chosen, mixed, shared>>

\* A daemon renews the online key of a device.
Reporting(d) == /\ daemon.step = "running" /\ daemon.token # NoDevice
                /\ config.text = "valid" /\ config.token = d

\* heartbeat on the server.  excused: an online heartbeat that arrives when no
\* daemon reports for its device any more.
heartbeat(b) ==
  /\ beats' = beats \ {b}
  /\ online' = IF b.reports = "online" THEN online \cup {b.device} ELSE online \ {b.device}
  /\ excused' = (IF b.reports = "offline" \/ Reporting(b.device)
                 THEN excused \ {b.device} ELSE excused \cup {b.device})
  /\ UNCHANGED <<code, owner, config, command, daemon, session, bound, saved, chosen, mixed, shared>>

LoseBeat(b) ==
  /\ Fault /\ beats' = beats \ {b}
  /\ excused' = (IF b.reports = "online" THEN excused ELSE excused \cup {b.device})
  /\ UNCHANGED <<code, owner, online, config, command, daemon, session, saved, chosen, mixed, shared>>

\* Faulty Expire: the online key of a paired device has no expiry.
ExpireUnconfigured(d) ==
  /\ d \in online /\ d # config.token
  /\ online' = online \ {d}
  /\ UNCHANGED <<code, owner, config, command, daemon, beats, session, bound, directoryHistory>>

\* The online key lives for 90 seconds; a daemon that reports for the device renews it
\* every 30 seconds.
Expire(d) ==
  /\ d \in online /\ ~Reporting(d)
  /\ online' = online \ {d}
  /\ UNCHANGED <<code, owner, config, command, daemon, beats, session, bound, directoryHistory>>

-----------------------------------------------------------------------------
(* The web page. *)

\* onSelectDevice: the credentials of a row, then the health check of its endpoint, which
\* any daemon of the machine answers without looking at the token.
onSelectDevice(d) ==
  /\ d \in Rows /\ daemon.step # "off" /\ session # d
  /\ session' = d
  /\ UNCHANGED <<code, owner, online, config, command, daemon, beats, bound, directoryHistory>>

\* createCliAuthMiddleware
Accepts(d) == daemon.token \in {NoDevice, d}

-----------------------------------------------------------------------------

DirectoryNext ==
  \/ \E c \in Codes : createPairCode(c) \/ ExpireCode(c)
  \/ \E p \in Commands :
       \/ \E c \in Codes : code[c] # "unused" /\ Run(p, "pair", c)
       \/ Run(p, "use", Nothing)
       \/ PairGet(p) \/ PairInsert(p) \/ PairDel(p) \/ PairOnline(p) \/ PairFails(p)
       \/ CreateConfig(p) \/ LoadConfig(p) \/ Truncate(p) \/ WriteConfig(p) \/ KillCommand(p)
  \/ StartDaemon \/ tickOnline \/ shutdown \/ DaemonExits \/ KillDaemon
  \/ \E b \in beats : heartbeat(b) \/ LoseBeat(b)
  \/ \E d \in Devices : Expire(d) \/ onSelectDevice(d)

DirectoryFairness ==
  /\ \A d \in Devices : WF_directoryVars(Expire(d))
  /\ WF_directoryVars(\E b \in beats : heartbeat(b))

DirectorySpec == DirectoryInit /\ [][DirectoryNext]_directoryVars
DirectoryFairSpec == DirectorySpec /\ DirectoryFairness

-----------------------------------------------------------------------------

Kinds == {"pair", "use", "ended"}
Steps == {"idle", "sent", "found", "inserted", "deleted", "create", "load", "write", "writing"}
Configs == [text : {"absent", "valid", "torn"}, token : Devices \cup {NoDevice}, agent : {0, 1}]

CommandState == [step : Steps, kind : Kinds \cup {Nothing}, code : Codes \cup {Nothing},
                 device : Rows \cup {NoDevice}, read : Configs \cup {Nothing}]

DirectoryTypeOK ==
  /\ code \in [Codes -> {"unused", "live", "gone"}]
  /\ Rows \subseteq Devices /\ (\A d \in Rows : owner[d] \in Codes)
  /\ online \subseteq Rows
  /\ config \in Configs /\ config.token \in Rows \cup {NoDevice}
  /\ command \in [Commands -> CommandState]
  /\ daemon \in [step : {"off", "running", "stopping"}, token : Rows \cup {NoDevice}]
  /\ beats \subseteq [id : Nat, device : Rows, reports : {"online", "offline"}]
  /\ session \in Rows \cup {NoDevice}
  /\ bound \in [starts : Nat, faults : Nat, beats : Nat]
  /\ saved \in Rows \cup {NoDevice} /\ chosen \in {0, 1} /\ mixed \in {0, 1} /\ shared \in {0, 1}
  /\ excused \subseteq Rows \cup {NoDevice}

\* Devices are numbered as their rows are inserted.
RowsInOrder == \E n \in 0 .. Limits.devices : Rows = 1 .. n

\* What a command holds: a code while it pairs, the device it has got, the config it has
\* read and will write back.
CommandsHold ==
  \A p \in Commands : LET o == command[p] IN
    /\ o.step \in {"sent", "found", "inserted", "deleted"} => o.kind = "pair"
    /\ o.step # "idle" => o.kind \in {"pair", "use"} /\ (o.kind = "pair" => o.code \in Codes)
    /\ o.kind = "pair" /\ o.step \in {"inserted", "deleted", "load", "write", "writing"} =>
          o.device \in Rows
    /\ o.step \in {"write", "writing"} =>
          o.read \in Configs /\ o.read.text # "torn" /\ o.read.token \in Rows \cup {NoDevice}

\* A pairing code registers one device, unless two requests use it at the same time:
\* only then does the second find it before the first has deleted it, or a request has
\* failed between the insertion and the deletion.
CodePairsOnce ==
  shared = 1 \/ bound.faults > 0 \/ \A d, e \in Rows : owner[d] = owner[e] => d = e

\* What the processes have saved in config.json is there, the token of the last pairing
\* and the choice of an agent, unless two processes wrote at once or one was killed.
ConfigKeepsSaved ==
  mixed = 0 => config.token = saved /\ config.agent = chosen

\* After a regular stop no device of the machine is shown as online, except one whose
\* online heartbeat arrived late, whose report was lost, that was only just paired, or
\* for which the daemon no longer reported because the machine was paired again.
StoppedIsOffline ==
  daemon.step = "off" => online \subseteq excused

\* A daemon never turns away the only device its machine has ever been paired with, also
\* when it was paired while the daemon ran or the daemon was restarted since.
OnlyDeviceAccepted ==
  Cardinality(Rows) = 1 /\ session # NoDevice => Accepts(session)

\* Without a failure and without a second request at the same time, a code that was found
\* has no row yet, one that has a row is about to be deleted or is gone, and no two
\* requests are between the lookup and the deletion.
CodesInUse ==
  shared = 0 /\ bound.faults = 0 =>
    /\ \A p \in Commands : command[p].step = "found" =>
          \A d \in Rows : owner[d] # command[p].code
    /\ \A p, q \in Commands :
          /\ command[p].step \in {"found", "inserted"} /\ command[q].step \in {"found", "inserted"}
          /\ command[p].code = command[q].code
          => p = q
    /\ \A d \in Rows : \/ code[owner[d]] = "gone"
                       \/ \E p \in Commands : command[p].step = "inserted" /\ command[p].code = owner[d]

\* One process at a time writes config.json, on top of what was saved last.
WriterHasSaved ==
  /\ config.text = "absent" => config.token = NoDevice /\ config.agent = 0
  /\ mixed = 0 => \A p \in Commands : command[p].step = "writing" =>
        /\ config.text = "torn"
        /\ command[p].read.token = saved /\ command[p].read.agent = chosen
        /\ \A q \in Commands : command[q].step = "writing" => p = q

\* A device that is online without an excuse is the one in config.json while its daemon
\* runs, or its daemon is stopping and its offline report is on its way.
OnlineExplained ==
  \A d \in online \ excused :
    \/ daemon.step = "running" /\ daemon.token # NoDevice /\ config.token = d
    \/ daemon.step = "stopping" /\ \E b \in beats : b.reports = "offline" /\ b.device = d

DirectoryInv ==
  /\ DirectoryTypeOK /\ RowsInOrder /\ CommandsHold
  /\ CodesInUse /\ CodePairsOnce
  /\ WriterHasSaved /\ ConfigKeepsSaved
  /\ OnlineExplained /\ StoppedIsOffline
  /\ OnlyDeviceAccepted

\* However a daemon ended, and whatever was still on its way, its device does not stay
\* online in the directory unless a daemon is started again or the user pairs again.
StoppedGoesOffline ==
  daemon.step = "off" ~> (online = {} \/ daemon.step # "off" \/ \E p \in Commands : command[p].step # "idle")
=============================================================================
