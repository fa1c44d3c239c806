------------------------------ MODULE MapLink ------------------------------
(***************************************************************************)
(* The map output of the client (WebMapper): a worker that keeps either a     *)
(* connection to the cloud map or a server for maps on the LAN, publishes the *)
(* bearings there and tells the cloud the settings of the receiver; the loop   *)
(* thread of the web server, where the map output is configured and where the *)
(* settings that the cloud pushes are applied; and the packets of heimdall,    *)
(* which overwrite the centre frequency the receiver believes in.              *)
(*                                                                           *)
(* Frequencies are small integers, a VFO is its offset from the centre.        *)
(***************************************************************************)
EXTENDS Integers, Sequences, FiniteSets, SequencesExt

CONSTANTS
    MapKeys,       \* API keys
    Tunings,       \* frequencies of the receiver; 0 in a push is none
    CloudPushes,   \* settings the cloud may push: key, centre, count, vfos
    LanClients,    \* maps on the LAN
    MapVfos,       \* bound: VFOs of the receiver
    MaxMapEvents   \* bound: commands, pushes and failures

ASSUME MapAssumption ==
    /\ MapKeys # {} /\ Tunings \subseteq Nat \ {0}
    /\ {MapVfos, MaxMapEvents} \subseteq Nat /\ MapVfos > 0
    /\ \A p \in CloudPushes :
        /\ p.key \in MapKeys \cup {"none"} /\ p.centre \in Tunings \cup {0}
        /\ p.count \in 0 .. MapVfos /\ p.vfos \in Seq(Int)

VARIABLES
    mapConf,    \* enabled_, mode_, key_ and config_gen_
    mapper,     \* the worker: pc, its copy of the configuration, the last payload
    cloud,      \* the connection, and what the map has been told on it
    pushes,     \* settings on their way from the cloud
    lan,        \* the LAN server: listening, clients and their streams
    ahead,     \* of the worker's times those that have not come yet
    deferred,   \* settings handed to the loop thread
    applying,   \* the loop thread: pc, the settings, how far it is
    tuner,      \* the receiver: centre, VFOs; heimdall's frequency, a packet
    mapEvents   \* events left

mapVars == <<mapConf, mapper, cloud, pushes, lan, ahead, deferred, applying, tuner, mapEvents>>

MapEvent == mapEvents > 0 /\ mapEvents' = mapEvents - 1
Untold == [key |-> "none", centre |-> 0, vfos |-> <<>>]
NoPush == [key |-> "none", centre |-> 0, count |-> 0, vfos |-> <<>>]
ClosedCloud == [link |-> "none", keys |-> {}, known |-> Untold]
ClosedLan == [lan EXCEPT !.open = FALSE,
                         !.clients = [c \in LanClients |-> IF @[c] = "out" THEN "out" ELSE "cut"]]

-----------------------------------------------------------------------------
\* The loop thread: configuration.

\* setMode, setKey: the value and the generation under one lock.
Bumped(c) == [c EXCEPT !.gen = IF c # mapConf THEN @ + 1 ELSE @]

MapConfigure ==
    /\ applying.pc = "idle" /\ MapEvent
    /\ \/ \E m \in {"remote", "local"} \ {mapConf.mode} : mapConf' = Bumped([mapConf EXCEPT !.mode = m])
       \/ \E k \in MapKeys \ {mapConf.key} : mapConf' = Bumped([mapConf EXCEPT !.key = k])
    /\ UNCHANGED <<mapper, cloud, pushes, lan, ahead, deferred, applying, tuner>>

\* setEnabled: the flag, then the generation.
MapEnable ==
    /\ applying.pc = "idle" /\ MapEvent
    /\ mapConf' = [mapConf EXCEPT !.enabled = ~@]
    /\ applying' = [applying EXCEPT !.pc = "bump"]
    /\ UNCHANGED <<mapper, cloud, pushes, lan, ahead, deferred, tuner>>

MapBump ==
    /\ applying.pc = "bump"
    /\ mapConf' = [mapConf EXCEPT !.gen = @ + 1]
    /\ applying' = [applying EXCEPT !.pc = "idle"]
    /\ UNCHANGED <<mapper, cloud, pushes, lan, ahead, deferred, tuner, mapEvents>>

-----------------------------------------------------------------------------
\* The loop thread: apply_cloud_settings_on_loop, command after command.

ApplyBegin ==
    /\ applying.pc = "idle" /\ deferred # <<>>
    /\ LET p == Head(deferred) IN
       /\ applying' = [applying EXCEPT !.pc = "freq", !.push = p]
       /\ mapConf' = IF p.key = "none" THEN mapConf ELSE Bumped([mapConf EXCEPT !.key = p.key])
    /\ deferred' = Tail(deferred)
    /\ UNCHANGED <<mapper, cloud, pushes, lan, ahead, tuner, mapEvents>>

\* FREQ: the receiver believes in the frequency at once, heimdall hears of it.
Tuned_Sent(f) == [tuner EXCEPT !.wanted = f]
Tuned(f) == [tuner EXCEPT !.wanted = f, !.centre = f]

ApplyFreq ==
    /\ applying.pc = "freq"
    /\ tuner' = IF applying.push.centre = 0 THEN tuner ELSE Tuned(applying.push.centre)
    /\ applying' = [applying EXCEPT !.pc = "count",
                        !.stale = applying.push.centre = 0 /\ tuner.centre # tuner.wanted]
    /\ UNCHANGED <<mapConf, mapper, cloud, pushes, lan, ahead, deferred, mapEvents>>

\* ADD_DECIMATOR or REMOVE_DECIMATOR, one after the other: the last one goes.
ApplyCount ==
    /\ applying.pc = "count"
    /\ LET n == applying.push.count
           now == Len(tuner.vfos) IN
       IF n = 0 \/ n = now
       THEN applying' = [applying EXCEPT !.pc = "centre"] /\ UNCHANGED tuner
       ELSE /\ tuner' = [tuner EXCEPT !.vfos = IF now < n THEN Append(@, 0) ELSE Front(@)]
            /\ UNCHANGED applying
    /\ UNCHANGED <<mapConf, mapper, cloud, pushes, lan, ahead, deferred, mapEvents>>

ReadCentre ==
    /\ applying.pc = "centre"
    /\ applying' = [applying EXCEPT !.pc = "vfo", !.centre = tuner.centre, !.next = 1]
    /\ UNCHANGED <<mapConf, mapper, cloud, pushes, lan, ahead, deferred, tuner, mapEvents>>

\* The VFOs the settings name, of those there are.
Asked(p, vfos) == 1 .. (IF Len(p.vfos) < Len(vfos) THEN Len(p.vfos) ELSE Len(vfos))

ApplyVfo ==
    /\ applying.pc = "vfo"
    /\ IF applying.next \in Asked(applying.push, tuner.vfos)
       THEN /\ tuner' = [tuner EXCEPT !.vfos[applying.next] = applying.push.vfos[applying.next] - applying.centre]
            /\ applying' = [applying EXCEPT !.next = @ + 1]
       ELSE UNCHANGED tuner /\ applying' = [applying EXCEPT !.pc = "idle", !.centre = 0, !.next = 0]
    /\ UNCHANGED <<mapConf, mapper, cloud, pushes, lan, ahead, deferred, mapEvents>>

LoopStep == MapBump \/ ApplyBegin \/ ApplyFreq \/ ApplyCount \/ ReadCentre \/ ApplyVfo

-----------------------------------------------------------------------------
\* heimdall, and the data thread that takes its packets.

HeimRetunes ==
    /\ tuner.heim # tuner.wanted /\ tuner' = [tuner EXCEPT !.heim = tuner.wanted]
    /\ UNCHANGED <<mapConf, mapper, cloud, pushes, lan, ahead, deferred, applying, mapEvents>>

\* The next packet is then on its way.
PacketTaken ==
    /\ tuner' = [tuner EXCEPT !.centre = tuner.packet, !.packet = tuner.heim]
    /\ applying' = [applying EXCEPT !.stale =
                        @ \/ (applying.pc \in {"count", "centre"} /\ tuner.packet # tuner.wanted)]
    /\ UNCHANGED <<mapConf, mapper, cloud, pushes, lan, ahead, deferred, mapEvents>>

-----------------------------------------------------------------------------
\* The worker.

\* A new generation: everything is closed, then the configuration copied.
Reload ==
    \/ /\ mapper.pc = "top" /\ mapConf.gen # mapper.seen
       /\ mapper' = [mapper EXCEPT !.pc = "copy", !.seen = mapConf.gen]
       /\ cloud' = ClosedCloud /\ pushes' = <<>> /\ lan' = ClosedLan
       /\ UNCHANGED ahead
    \/ /\ mapper.pc = "copy"
       /\ mapper' = [mapper EXCEPT !.pc = "go", !.mode = mapConf.mode, !.key = mapConf.key, !.last = Untold]
       /\ ahead' = ahead \ {"reconnect"}
       /\ UNCHANGED <<cloud, pushes, lan>>

MapperReload == Reload /\ UNCHANGED <<mapConf, deferred, applying, tuner, mapEvents>>

MapperGo ==
    /\ mapper.pc = "go" \/ (mapper.pc = "top" /\ mapConf.gen = mapper.seen)
    /\ mapper' = [mapper EXCEPT !.pc = IF mapConf.enabled THEN "sink" ELSE "top"]
    /\ UNCHANGED <<mapConf, cloud, pushes, lan, ahead, deferred, applying, tuner, mapEvents>>

\* A new connection starts with a push of the settings.
Connected_Remembers == mapper
Connected == [mapper EXCEPT !.last = Untold]

MapConnect ==
    /\ mapper.pc = "sink" /\ mapper.mode = "remote" /\ cloud.link = "none" /\ "reconnect" \notin ahead
    /\ \/ /\ mapper' = Connected /\ ahead' = ahead \ {"settings"} /\ UNCHANGED mapEvents
          /\ cloud' = [ClosedCloud EXCEPT !.link = "up"]
       \/ /\ MapEvent /\ mapper' = [mapper EXCEPT !.pc = "capture"]
          /\ ahead' = ahead \cup {"reconnect"} /\ UNCHANGED cloud
    /\ UNCHANGED <<mapConf, pushes, lan, deferred, applying, tuner>>

MapConnectLater ==
    /\ mapper.pc = "sink" /\ mapper.mode = "remote" /\ cloud.link = "none" /\ "reconnect" \in ahead
    /\ mapper' = [mapper EXCEPT !.pc = "capture"]
    /\ UNCHANGED <<mapConf, cloud, pushes, lan, ahead, deferred, applying, tuner, mapEvents>>

\* What has come is handed to the loop thread; a connection that is gone is
\* noticed, and what had come on it is dropped.
MapPump ==
    /\ mapper.pc = "sink" /\ mapper.mode = "remote" /\ cloud.link # "none"
    /\ IF cloud.link = "up"
       THEN /\ deferred' = deferred \o pushes /\ pushes' = <<>>
            /\ mapper' = [mapper EXCEPT !.pc = "settings"] /\ UNCHANGED <<cloud, ahead>>
       ELSE /\ mapper' = [mapper EXCEPT !.pc = "capture"]
            /\ cloud' = ClosedCloud /\ ahead' = ahead \cup {"reconnect"}
            /\ UNCHANGED <<deferred, pushes>>
    /\ UNCHANGED <<mapConf, lan, applying, tuner, mapEvents>>

\* On a connection that is up the map gets what is sent. On one that is broken
\* it is lost, or the write fails and the connection is closed.
Told(k, what) ==
    \/ cloud.link = "up" /\ cloud' = [cloud EXCEPT !.keys = @ \cup {k}, !.known = what]
    \/ cloud.link = "broken" /\ cloud' \in {cloud, ClosedCloud}

\* build_settings_payload: the centre is read first, the VFOs later.
MapSettings ==
    /\ mapper.pc = "settings"
    /\ mapper' = IF "settings" \in ahead THEN [mapper EXCEPT !.pc = "capture"]
                 ELSE [mapper EXCEPT !.pc = "payload", !.centre = tuner.centre]
    /\ ahead' = ahead \cup {"settings"}
    /\ UNCHANGED <<mapConf, cloud, pushes, lan, deferred, applying, tuner, mapEvents>>

Payload(key, centre) == [key |-> key, centre |-> centre, vfos |-> tuner.vfos]

MapPayload ==
    /\ mapper.pc = "payload"
    /\ LET p == Payload(mapper.key, mapper.centre) IN
       /\ mapper' = [mapper EXCEPT !.pc = "capture", !.centre = 0, !.last = p]
       /\ IF p = mapper.last THEN UNCHANGED cloud ELSE Told(mapper.key, p)
    /\ UNCHANGED <<mapConf, pushes, lan, ahead, deferred, applying, tuner, mapEvents>>

\* The LAN server: the port, then comings and goings of clients.
MapListen ==
    /\ mapper.pc = "sink" /\ mapper.mode = "local"
    /\ \/ lan' = [lan EXCEPT !.open = TRUE,
                             !.clients = [c \in LanClients |->
                                            CASE @[c] = "new" -> "open" [] @[c] = "left" -> "out" [] OTHER -> @[c]]]
          /\ UNCHANGED mapEvents
       \/ ~lan.open /\ MapEvent /\ UNCHANGED lan
    /\ mapper' = [mapper EXCEPT !.pc = "capture"]
    /\ UNCHANGED <<mapConf, cloud, pushes, ahead, deferred, applying, tuner>>

\* A record to every client: one whose socket takes less is dropped.
AfterShort(c) == "cut"
Fed(short) ==
    [lan EXCEPT !.clients = [c \in LanClients |-> IF c \in short THEN AfterShort(c) ELSE @[c]],
                !.stream = [c \in LanClients |->
                    CASE lan.clients[c] # "open" -> @[c]
                      [] lan.clients[c] = "open" /\ @[c] # "whole" -> "spliced"
                      [] OTHER -> IF c \in short THEN "torn" ELSE "whole"]]

\* The tick of 200 ms comes in some of the rounds.
MapCapture ==
    /\ mapper.pc = "capture" /\ mapper' = [mapper EXCEPT !.pc = "top"]
    /\ \/ UNCHANGED <<cloud, lan>>
       \/ mapper.mode = "remote" /\ Told(mapper.key, cloud.known) /\ UNCHANGED lan
       \/ /\ mapper.mode = "local" /\ UNCHANGED cloud
          /\ \E short \in SUBSET {c \in LanClients : lan.clients[c] = "open"} : lan' = Fed(short)
    /\ UNCHANGED <<mapConf, pushes, ahead, deferred, applying, tuner, mapEvents>>

MapperStep ==
    \/ MapperReload \/ MapperGo \/ MapConnect \/ MapConnectLater \/ MapPump
    \/ MapSettings \/ MapPayload \/ MapListen \/ MapCapture

\* Some of the times come, in time all of them.
MapTime ==
    /\ \E t \in ahead : ahead' \in {ahead \ {t}, {}}
    /\ UNCHANGED <<mapConf, mapper, cloud, pushes, lan, deferred, applying, tuner, mapEvents>>

-----------------------------------------------------------------------------
\* The other ends.

CloudPush ==
    /\ cloud.link = "up" /\ MapEvent
    /\ \E p \in CloudPushes : pushes' = Append(pushes, p)
    /\ UNCHANGED <<mapConf, mapper, cloud, lan, ahead, deferred, applying, tuner>>

CloudBreaks ==
    /\ cloud.link = "up" /\ MapEvent
    /\ cloud' = [cloud EXCEPT !.link = "broken"] /\ pushes' = <<>>
    /\ UNCHANGED <<mapConf, mapper, lan, ahead, deferred, applying, tuner>>

LanClient(c) ==
    /\ \/ lan.clients[c] = "out" /\ lan.open
          /\ lan' = [lan EXCEPT !.clients[c] = "new", !.stream[c] = "whole"]
       \/ lan.clients[c] = "open" /\ lan' = [lan EXCEPT !.clients[c] = "left"]
       \/ lan.clients[c] = "cut" /\ lan' = [lan EXCEPT !.clients[c] = "out", !.stream[c] = "whole"]
    /\ UNCHANGED <<mapConf, mapper, cloud, pushes, ahead, deferred, applying, tuner, mapEvents>>

-----------------------------------------------------------------------------
\* What is saved has been restored.
MapInit ==
    /\ mapConf \in [enabled : BOOLEAN, mode : {"remote", "local"},
                    key : {CHOOSE k \in MapKeys : TRUE}, gen : {0}]
    /\ mapper = [pc |-> "top", seen |-> -1, mode |-> "none", key |-> "none", last |-> Untold, centre |-> 0]
    /\ cloud = ClosedCloud /\ pushes = <<>>
    /\ lan = [open |-> FALSE, clients |-> [c \in LanClients |-> "out"],
              stream |-> [c \in LanClients |-> "whole"]]
    /\ ahead = {} /\ deferred = <<>>
    /\ applying = [pc |-> "idle", push |-> NoPush, centre |-> 0, next |-> 0, stale |-> FALSE]
    /\ \E f \in Tunings : tuner = [centre |-> f, vfos |-> <<0>>, wanted |-> f, heim |-> f, packet |-> f]
    /\ mapEvents = MaxMapEvents

MapNext ==
    \/ MapConfigure \/ MapEnable \/ LoopStep \/ HeimRetunes \/ PacketTaken
    \/ MapperStep \/ MapTime \/ CloudPush \/ CloudBreaks
    \/ \E c \in LanClients : LanClient(c)

MapFairness ==
    /\ WF_mapVars(LoopStep) /\ WF_mapVars(HeimRetunes) /\ WF_mapVars(PacketTaken)
    /\ WF_mapVars(MapperStep) /\ WF_mapVars(MapTime /\ ahead' = {})

MapSpec == MapInit /\ [][MapNext]_mapVars /\ MapFairness

-----------------------------------------------------------------------------
\* Types; one sink at a time, and pushes only on a connection.
MapTypeOK ==
    /\ mapper.pc \in {"top", "copy", "go", "sink", "settings", "payload", "capture"}
    /\ applying.pc \in {"idle", "bump", "freq", "count", "centre", "vfo"}
    /\ cloud.link \in {"none", "up", "broken"} /\ lan.open \in BOOLEAN
    /\ ~(lan.open /\ cloud.link # "none") /\ (pushes # <<>> => cloud.link = "up")
    /\ Len(tuner.vfos) \in 1 .. MapVfos /\ mapEvents \in 0 .. MaxMapEvents

(***************************************************************************)
(* A worker that has seen the present generation works under the present       *)
(* configuration: no change is lost, however the setters and the two reads of  *)
(* workerThread interleave ("applies live - the worker rebuilds its            *)
(* connection/server when a relevant value changes", web_mapper.hpp).          *)
(***************************************************************************)
ConfigTaken ==
    mapper.seen = mapConf.gen /\ mapper.pc # "copy" =>
        mapper.mode = mapConf.mode /\ mapper.key = mapConf.key

(***************************************************************************)
(* On one connection the map is given one key: what is published never         *)
(* changes its owner under the map (the close on a new generation).            *)
(***************************************************************************)
OneKeyPerConnection == Cardinality(cloud.keys) <= 1

(***************************************************************************)
(* When settings from the cloud have been applied the VFOs they name stand at  *)
(* the frequencies they name, once heimdall is where it was sent: the centre   *)
(* comes first ("Center frequency must be applied BEFORE per-VFO offsets").    *)
(* Not so if a packet from before the retune was taken in between.             *)
(***************************************************************************)
VfosAsAsked ==
    applying.pc \in {"idle", "bump"} /\ ~applying.stale =>
        \A i \in Asked(applying.push, tuner.vfos) :
            tuner.wanted + tuner.vfos[i] = applying.push.vfos[i]

(***************************************************************************)
(* Nothing follows a frame that a LAN client got a part of ("a partial          *)
(* non-blocking send would corrupt their frame stream", LocalSink::broadcast). *)
(***************************************************************************)
LanStreamsWhole == \A c \in LanClients : lan.stream[c] # "spliced"

(***************************************************************************)
(* While the output to the cloud stays on, the map comes to know the settings  *)
(* the receiver has, over every break and whatever was pushed meanwhile, and   *)
(* keeps knowing them (the push after a connect and on a change).              *)
(***************************************************************************)
MapLearns ==
    <>[](mapConf.enabled /\ mapConf.mode = "remote")
        => <>[](cloud.known = Payload(mapConf.key, tuner.centre))

\* The map output works under its configuration, and what it is told is done.
MapSound ==
    /\ MapTypeOK
    /\ ConfigTaken
    /\ OneKeyPerConnection
    /\ VfosAsAsked
    /\ LanStreamsWhole
=============================================================================
