------------------------------ MODULE MCScanners ------------------------------
(* The two scanners of the suite on small instances.  They share no state: a  *)
(* behaviour is one of the first or one of the second, and of the second      *)
(* either a sweep the user starts and leaves alone, or one he interferes with.*)
EXTENDS DiscreteScan, ContinuousScan

VARIABLE part   \* whose behaviour this is

Entry(f, on) == [f |-> f, on |-> on]
\* Two groups, the second of two frequencies; and one group.
TwoLists == {<<Entry(12, FALSE), Entry(4, TRUE), Entry(14, TRUE)>>, <<Entry(14, TRUE)>>}

\* A band with one signal and one with two.
OneAndTwo == {[b \in Bands |-> IF b = 0 THEN {1} ELSE Positions]}

vars == <<part, scanVars, contVars>>

Discrete(A) == part = "discrete" /\ A /\ UNCHANGED <<part, contVars>>
Sweep(A) == part = "sweep" /\ A /\ UNCHANGED <<part, scanVars>>
User(A) == part = "user" /\ A /\ UNCHANGED <<part, scanVars>>

Init ==
    /\ part \in {"discrete", "sweep", "user"}
    /\ ScanInit /\ ScannerInit
    /\ budget = [commands |-> CASE part = "discrete" -> 0 [] part = "sweep" -> 1
                                [] part = "user" -> MaxScanCommands,
                faults |-> IF part = "sweep" THEN MaxFaults ELSE 0]
    /\ part = "discrete" => ~opt.wide /\ ~opt.decay /\ decs = Decs
    /\ part # "discrete" => conf = <<Entry(14, TRUE)>>

Next == Discrete(ScanNext) \/ Sweep(ScannerNext) \/ User(ScannerNext)

\* The fairness of ScanSpec and of ScannerSpec, each for its part: the conjuncts
\* are paired, for only the actions of one part are ever enabled.
LiveSpec ==
    /\ Init /\ [][Next]_vars
    /\ WF_vars(Discrete(WorkerStep) \/ Sweep(Refresh))
    /\ WF_vars(Discrete(ControlStep) \/ Sweep(Poll))
    /\ WF_vars(Discrete(HopStep) \/ Sweep(Packet))
    /\ WF_vars(Discrete(StartGoes) \/ Sweep(Frame))
    /\ WF_vars(Discrete(Settle) \/ Sweep(Retuned))
    /\ WF_vars(Discrete(LoseSignal) \/ Sweep(CalibrationStep))
    /\ WF_vars(Sweep(Forgets)) /\ WF_vars(Sweep(MinutePasses /\ Stuck))
    /\ SF_vars(Sweep(QuietPasses)) /\ SF_vars(Sweep(HoldPasses)) /\ SF_vars(Sweep(WaitPasses))

\* The user who interferes owes the scan nothing.
EveryBandIsSwept == part = "sweep" => EveryBandComesBack
SignalsAreSwept == part = "sweep" => SignalsAreTuned

\* Scans go on: every group, band and signal has its turn, and every lock ends.
ScansGoOn ==
    /\ EveryGroupIsScanned
    /\ LockEnds
    /\ EveryBandIsSwept
    /\ SignalsAreSwept
=============================================================================
