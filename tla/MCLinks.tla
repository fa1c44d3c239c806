------------------------------ MODULE MCLinks ------------------------------
(* What leaves the two programs, on small instances: heimdall's data servers *)
(* with a reader of the client's kind, the GNU Radio block, the recordings   *)
(* of bearings and the map output. They share no state: a behaviour is one   *)
(* of one of them.                                                           *)
EXTENDS DataLink, RadioSource, Recorder, MapLink

VARIABLE part   \* whose behaviour this is

\* Samples of the antennas, calibration noise in a retune, too few channels.
SomeMetadata ==
    LET Header(f, n, r, x) == [freq |-> f, noise |-> n, retuning |-> r, few |-> x] IN
    {Header(1, FALSE, FALSE, FALSE), Header(1, TRUE, TRUE, FALSE),
     Header(2, FALSE, FALSE, TRUE)}

\* A retune that adds a VFO and moves both, and another key with fewer VFOs.
SomePushes ==
    LET Push(k, c, n, v) == [key |-> k, centre |-> c, count |-> n, vfos |-> v] IN
    {Push("none", 2, 2, <<2, 3>>), Push("k2", 0, 1, <<1>>)}

vars == <<part, linkVars, radioVars, recVars, mapVars>>

\* The two servers of heimdall only share the thread that feeds them, which
\* waits for neither: one has no clients while the other is looked at.
Data(A) == part = "data" /\ A /\ UNCHANGED rtl
Rtl(A) == part = "rtl" /\ A /\ UNCHANGED <<conn, reader, breaks>>
Link(A) == (Data(A) \/ Rtl(A)) /\ UNCHANGED <<part, radioVars, recVars, mapVars>>

\* The block's stream and its settings share the start and the stop only:
\* the settings change in one part, samples arrive in the other.
Samples(A) == part = "samples" /\ A /\ UNCHANGED <<wanted, cmds, server>>
Tuner(A) == part = "tuner" /\ A /\ UNCHANGED <<frames, work>>
Radio(A) == (Samples(A) \/ Tuner(A)) /\ UNCHANGED <<part, linkVars, recVars, mapVars>>

Recording(A) == part = "recording" /\ A /\ UNCHANGED <<part, linkVars, radioVars, mapVars>>
Mapping(A) == part = "map" /\ A /\ UNCHANGED <<part, linkVars, radioVars, recVars>>

\* The names of recordings are alike, and the format is the default: a command
\* changes it. The map output is on, but for the other parts.
Init ==
    /\ part \in {"data", "rtl", "samples", "tuner", "recording", "map"}
    /\ LinkInit /\ RadioInit /\ RecInit /\ MapInit
    /\ (server.set = wanted) = (part = "samples")
    /\ conf = [format |-> "sqlite", file |-> CHOOSE f \in Files : TRUE]
    /\ tuner.centre = 1
    /\ mapConf.enabled = (part = "map") /\ (mapConf.mode = "local" => part = "map")

Next == Link(LinkNext) \/ Radio(RadioNext) \/ Recording(RecNext) \/ Mapping(MapNext)

\* The fairness of the four specifications, each for its part: the conjuncts
\* are put together, for only the actions of one part are ever enabled.
LiveSpec ==
    /\ Init /\ [][Next]_vars
    /\ WF_vars(Link(Conversion) \/ Radio(Control) \/ Recording(LoggerStep) \/ Mapping(MapperStep))
    /\ WF_vars(Link(Serve) \/ Radio(Joined) \/ Recording(NoiseTurns) \/ Mapping(LoopStep))
    /\ WF_vars(Link(Worker) \/ Radio(ServerApply) \/ Recording(IntervalPasses)
                \/ Mapping(MapTime /\ ahead' = {}))
    /\ \A r \in Readers :
        /\ WF_vars(Link(Accept(r)) \/ Radio(ReaderConnect \/ ReaderRegister \/ ReaderQuit)
                    \/ Mapping(HeimRetunes))
        /\ WF_vars(Link(Read(r)) \/ Mapping(PacketTaken))

\* What a reader gets, what the block puts out and what heimdall is set to never
\* goes back, over overflows, restarts and connections.
NothingBackwards ==
    /\ RtlInOrder
    /\ FramesInOrder
    /\ NeverBack

\* What was sent, asked for or published arrives, and who is to end ends, over
\* every break of a connection.
EverythingArrives ==
    /\ ReadersComeBack
    /\ SettingsArrive
    /\ StopEnds
    /\ FramesAreLogged
    /\ MapLearns
=============================================================================
