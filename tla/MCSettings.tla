----------------------------- MODULE MCSettings -----------------------------
(* The settings on a small instance.                                          *)
EXTENDS Settings

Cmd(k, v) == [key |-> k, val |-> v]

Session(offers, commands, faults, restarts, events) ==
    [offers |-> offers, commands |-> commands, faults |-> faults, disk |-> 0,
     restarts |-> restarts, events |-> events, late |-> FALSE]

Late(s) == [s EXCEPT !.late = TRUE]
Disk(s) == [s EXCEPT !.disk = 1]

\* The tuner, with messages lost and either end restarted.
Retunes == {Cmd("frequency", 1), Cmd("frequency", 2)}
Tuning == {Cmd("frequency", 2), Cmd("mixer_side", "below")}
\* A side chosen while the replay retunes.
Side == {Cmd("mixer_side", "low")}
\* A set of VFOs whose identifiers are not their positions, over a restart.
Vfos == {Cmd("add", 0), Cmd("remove", 0), Cmd("offset", << 1, 2 >>), Cmd("set_fm", 1)}
\* The ring follows the frequency of a wideband array.
Array == {Cmd("topology", "WIDEBAND"), Cmd("radius", 5), Cmd("frequency", 1)}
\* DoA switched by commands of other names.
Doa == {Cmd("wideband", TRUE), Cmd("wideband", FALSE), Cmd("doa", FALSE), Cmd("beamforming", TRUE)}
\* The reset, in and out of a replay, with writes that fail or come short.
Plain == {Cmd("edge_clip", 9), Cmd("malformed", 0), Cmd("reset", 0)}

AllSessions ==
    {Session(Tuning, 1, 1, 0, 2), Late(Session(Tuning \cup Retunes, 2, 1, 1, 3)),
     Session(Vfos, 2, 0, 1, 2), Late(Session(Vfos, 3, 0, 1, 4)),
     Session(Side, 1, 0, 0, 1),
     Session(Array, 1, 0, 1, 2), Late(Session(Array, 3, 0, 1, 4)),
     Session(Doa, 2, 0, 1, 2), Late(Session(Doa, 3, 0, 1, 4)),
     Session(Plain, 2, 0, 0, 2), Disk(Session(Plain, 1, 0, 1, 3))}

\* Nobody does anything but try the edge of the spectrum: the saved settings are replayed.
Quiet == {Session({Cmd("edge_clip", 9)}, 1, 0, 0, 1)}

=============================================================================
