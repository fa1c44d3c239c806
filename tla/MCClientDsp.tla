----------------------------- MODULE MCClientDsp -----------------------------
(* Direction finding, beamforming and audio of the client on small           *)
(* instances. They hand each other blocks and bearings, which are inputs of  *)
(* each, and share no other state: a behaviour is one of one of the three.   *)
EXTENDS DirectionFinder, AudioPath, BeamFormer

VARIABLE side   \* whose behaviour this is

\* Two stored settings: the default squelch with automatic source counting,
\* and the squelch that learns its threshold.
MCStored == {[method |-> "fft", squelch |-> FALSE, autoK |-> TRUE],
             [method |-> "auto", squelch |-> TRUE, autoK |-> FALSE]}

dspVars == <<side, vars, audioVars, beamVars>>

\* Each starts from one state of the others.
Bearing(A) == side = "doa" /\ A /\ UNCHANGED <<side, audioVars, beamVars>>
Sound(A) == side = "audio" /\ A /\ UNCHANGED <<side, vars, beamVars>>
Beam(A) == side = "beam" /\ A /\ UNCHANGED <<side, vars, audioVars>>

Init ==
    /\ side \in {"doa", "audio", "beam"}
    /\ FinderInit /\ AudioInit /\ BeamInit
    /\ side # "audio" => Cardinality(Existing) = 1
    /\ side # "doa" => set.method = "fft"
    /\ side # "beam" => beam.mode = "das"

Next == Bearing(FinderNext) \/ Sound(AudioNext) \/ Beam(BeamNext)

Spec == Init /\ [][Next]_dspVars

\* Frames move on, a source count changes on evidence, the audio keeps a source.
StepsSound ==
    /\ FramesAdvance
    /\ CountIsStable
    /\ SourceOutlives
=============================================================================
