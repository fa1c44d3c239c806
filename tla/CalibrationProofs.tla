------------------------- MODULE CalibrationProofs -------------------------
(***************************************************************************)
(* Theorems about Calibration, for any set of channels and command         *)
(* handlers, any counts of readings and any bounds.                        *)
(*                                                                         *)
(* The loss of coherence is latched by the sample path and acted on by the *)
(* watchdog.  Every other thread leaves the latch and the watchdog's place *)
(* alone and can only flush L1 (Steady); the steps of the watchdog are     *)
(* looked at one by one.                                                   *)
(*                                                                         *)
(* Of a KerberosSDR, whatever its clients send: what switches the noise    *)
(* source on, and what takes a finished calibration away.  Of every        *)
(* system: out of wideband mode a calibration is completed out of its      *)
(* verification, whatever restarts it meanwhile.  While clients only       *)
(* retune: a finished calibration rests on readings of its own.  While one *)
(* command, or checks and the recoveries they ask for, are all there is:   *)
(* the noise source is on when it is measured, and a check leaves it off.  *)
(*                                                                         *)
(* First the type invariant: one lemma for each thread.  Its steps follow   *)
(* the parts of TypeOK, each citing the thread's actions and what they call *)
(* that writes that part.                                                  *)
(***************************************************************************)
EXTENDS Calibration, TLAPS

-----------------------------------------------------------------------------
(* Constants and operators.                                                  *)

\* The threads are told apart.
LEMMA ThreadsDiffer ==
    /\ Watchdog \in Threads /\ Checker \in Threads /\ Driver \in Threads
    /\ Checker # Watchdog /\ Driver # Watchdog /\ Driver # Checker
    /\ Driver \in Channels /\ Driver \notin Others
    /\ \A c \in Others : c \in Threads /\ c # Watchdog /\ c # Checker /\ c \in Channels
    /\ \A c \in Channels : c \in Threads /\ c # Watchdog /\ (c = Driver \/ c \in Others)
    /\ \A t \in Commanders : /\ t \in Threads /\ t # Watchdog /\ t # Checker
                             /\ t # Driver /\ t \notin Others
BY ConstantsAssumption DEF Threads, Channels

LEMMA ConstantsTyped ==
    /\ RequiredStable \in Nat \ {0} /\ QuietUpdates \in Nat \ {0} /\ Snapshots \in Nat \ {0}
    /\ MaxCommands \in Nat /\ MaxLosses \in Nat /\ MaxPeriodic \in Nat
    /\ Kerberos \in BOOLEAN /\ PerBin \in BOOLEAN /\ Expiring \subseteq Deadlines
BY ConstantsAssumption

\* The updates of the measurements on their way keep their type.
LEMMA FlowTypes ==
    ASSUME NEW f \in FlowRecord
    PROVE  /\ Outdated(f) \in FlowRecord /\ Done(f) \in FlowRecord
           /\ Flushed(f) \subseteq FlowRecord
           /\ [f EXCEPT !.l2 = "fresh"] \in FlowRecord
           /\ [f EXCEPT !.l2 = "none", !.result = Aged(f.result)] \in FlowRecord
           /\ [f EXCEPT !.at = "taken", !.taken = f.l2, !.l2 = "none"] \in FlowRecord
           /\ [f EXCEPT !.reading = f.result] \in FlowRecord
           /\ [f EXCEPT !.at = "idle", !.taken = "none", !.result = f.taken] \in FlowRecord
           /\ \A a \in Ages : [f EXCEPT !.at = "computed", !.taken = a] \in FlowRecord
BY DEF FlowRecord, Ages, Aged, Outdated, Done, Flushed

\* The updates of the phase machine.
LEMMA PhaseTypes ==
    ASSUME NEW p \in PhaseRecord
    PROVE  /\ \A state \in States : [p EXCEPT !.state = state] \in PhaseRecord
           /\ \A n \in 0..RequiredStable : [p EXCEPT !.stable_nonzero_count = n] \in PhaseRecord
           /\ \A n \in Nat : [p EXCEPT !.convergence_count = n] \in PhaseRecord
           /\ \A n \in Nat : [p EXCEPT !.failed_convergence_attempts = n] \in PhaseRecord
           /\ \A n \in Nat : [p EXCEPT !.checks_since_compensation = n] \in PhaseRecord
           /\ p.state \in States /\ p.compensation_applied \in BOOLEAN
           /\ p.stable_nonzero_count \in 0..RequiredStable
           /\ p.convergence_count \in Nat /\ p.failed_convergence_attempts \in Nat
           /\ p.checks_since_compensation \in Nat
BY DEF PhaseRecord

\* Updates of several fields: measuring begins, a correction is applied, wideband
\* mode is entered.
LEMMA PhaseStepTypes ==
    ASSUME NEW p \in PhaseRecord, NEW n \in 0..RequiredStable
    PROVE  /\ [p EXCEPT !.state = "MEASURING_INITIAL_PHASE", !.stable_nonzero_count = n] \in PhaseRecord
           /\ [p EXCEPT !.stable_nonzero_count = n, !.compensation_applied = TRUE,
                        !.state = "VERIFYING_CONVERGENCE", !.checks_since_compensation = 0]
                 \in PhaseRecord
           /\ [p EXCEPT !.state = "WAITING_FOR_LAG_COMPLETION", !.compensation_applied = FALSE,
                        !.convergence_count = 0, !.stable_nonzero_count = n] \in PhaseRecord
BY DEF PhaseRecord, States

\* The updates of the equalizer.
LEMMA PerBinTypes ==
    ASSUME NEW p \in PerBinRecord
    PROVE  /\ [p EXCEPT !.measured = TRUE] \in PerBinRecord
           /\ [p EXCEPT !.measured = FALSE, !.ready = FALSE] \in PerBinRecord
           /\ [p EXCEPT !.ready = FALSE, !.snapshots = 0] \in PerBinRecord
           /\ [p EXCEPT !.enabled = TRUE] \in PerBinRecord
           /\ [p EXCEPT !.enabled = FALSE, !.ready = FALSE] \in PerBinRecord
           /\ \A b \in BOOLEAN : [p EXCEPT !.ready = b] \in PerBinRecord
           /\ p.ready \in BOOLEAN /\ p.snapshots \in 0..Snapshots
<1>1. 0 \in 0..Snapshots
  BY ConstantsTyped
<1> QED  BY <1>1 DEF PerBinRecord

\* Records of switches.
LEMMA SwitchTypes ==
    ASSUME NEW a \in BOOLEAN, NEW b \in BOOLEAN, NEW c \in BOOLEAN, NEW d \in BOOLEAN
    PROVE  /\ [fft_enabled |-> a, auto_disabled |-> b, user_override |-> c] \in FFTRecord
           /\ [noise |-> a, enabled |-> b, override |-> c, bad |-> d] \in SnapshotRecord
BY DEF FFTRecord, SnapshotRecord

LEMMA FFTTypes == FFTOn \/ FFTOff => fft_control' \in FFTRecord
BY SwitchTypes, Zenon DEF FFTOn, FFTOff

\* A thread that goes to one of its labels keeps the places well formed.
LEMMA PlaceTypes ==
    ASSUME PlacesOK, cmd' \in [Commanders -> Retunes \cup {"none"}], NEW label
    PROVE  /\ Goto(Driver, label) /\ label \in DriverLabels \cup SettingsLabels => PlacesOK'
           /\ Goto(Watchdog, label) /\ label \in WatchdogLabels => PlacesOK'
           /\ Goto(Checker, label) /\ label \in CheckerLabels => PlacesOK'
           /\ \A c \in Others : Goto(c, label) /\ label \in {"rest", "lag"} => PlacesOK'
           /\ \A t \in Commanders : Goto(t, label) /\ label \in CommandLabels => PlacesOK'
BY ThreadsDiffer DEF PlacesOK, Goto

-----------------------------------------------------------------------------
(* Correlation and compensation threads.                                     *)

LEMMA CorrelationTyped ==
    ASSUME TypeOK, Convert \/ Correlation
    PROVE  TypeOK'
<1>1. PlacesOK' /\ PhaseOK' /\ LagOK' /\ SwitchesOK' /\ TriggersOK'
  BY DEF TypeOK, PlacesOK, PhaseOK, LagOK, SwitchesOK, TriggersOK, Convert, Correlation, CorrSkip,
         CorrTake, CorrCompute, CorrPublish, machine, plant, mode, triggers
<1>2. PerBinOK'
  BY ConstantsTyped
  DEF TypeOK, PerBinOK, PerBinRecord, Convert, Correlation, CorrSkip, CorrTake, CorrCompute,
      CorrPublish, Accumulated, machine
<1>3. FlowOK'
  <2>1. PhasesOf \in Ages
    BY DEF TypeOK, PhasesOf, FlowOK, FlowRecord, Ages
  <2> QED
    BY <2>1, FlowTypes
    DEF TypeOK, FlowOK, Convert, Correlation, CorrSkip, CorrTake, CorrCompute, CorrPublish
<1>4. MeasuredOK'
  BY DEF TypeOK, MeasuredOK, Convert, Correlation, CorrSkip, CorrTake, CorrCompute, CorrPublish,
         AllLocked, counted, history
<1> QED  BY <1>1, <1>2, <1>3, <1>4 DEF TypeOK

LEMMA ServoTyped ==
    ASSUME TypeOK, NEW c \in Channels, Poll(c) \/ LagStep(c)
    PROVE  TypeOK'
<1>1. PhaseOK' /\ PerBinOK' /\ SwitchesOK' /\ TriggersOK'
  BY DEF TypeOK, PhaseOK, PerBinOK, SwitchesOK, TriggersOK, Poll, LagStep, machine, plant, mode,
         triggers
<1>2. PlacesOK'
  <2>1. UNCHANGED cmd /\ (UNCHANGED pc \/ \E label \in {"rest", "lag", "judge"} :
           Goto(c, label) /\ (label = "judge" => c = Driver))
    BY DEF Poll, LagStep
  <2> QED
    BY <2>1, PlaceTypes, ThreadsDiffer DEF TypeOK, PlacesOK, DriverLabels
<1>3. LagOK'
  <2>1. lag[c] \in LagRecord
    BY DEF TypeOK, LagOK
  <2>2. \A l \in LagRecord : ServoStates(l) \subseteq LagRecord
    BY ConstantsTyped DEF LagRecord, ServoStates
  <2> QED
    BY <2>1, <2>2 DEF TypeOK, LagOK, Poll, LagStep, machine
<1>4. FlowOK'
  BY FlowTypes DEF TypeOK, FlowOK, Poll, LagStep, measured
<1>5. MeasuredOK'
  BY DEF TypeOK, MeasuredOK, Poll, LagStep, measured, counted, history
<1> QED  BY <1>1, <1>2, <1>3, <1>4, <1>5 DEF TypeOK

-----------------------------------------------------------------------------
(* handle_settings_change and the driver.                                    *)

\* A restart of the phase machine.
LEMMA RestartTyped ==
    ASSUME TypeOK, NEW state \in States, RestartPhase(state)
    PROVE  PhaseOK' /\ PerBinOK' /\ LagOK' /\ FlowOK'
<1>1. PhaseOK'
  BY ConstantsTyped DEF RestartPhase, Restarted, PhaseOK, PhaseRecord
<1>2. PerBinOK' /\ LagOK'
  BY DEF TypeOK, RestartPhase, PerBinOK, PerBinRecord, LagOK
<1>3. FlowOK'
  BY FlowTypes DEF TypeOK, RestartPhase, FlowOK
<1> QED  BY <1>1, <1>2, <1>3

LEMMA SettingsTyped ==
    ASSUME TypeOK, NEW t \in Commanders \cup {Driver}, HandleSettingsChange(t)
    PROVE  TypeOK'
<1>1. PhaseOK' /\ PerBinOK' /\ LagOK' /\ FlowOK'
  <2>1. CASE SettingsPhase(t)
    BY <2>1, RestartTyped DEF SettingsPhase, States
  <2>2. CASE ~SettingsPhase(t)
    BY <2>2, FlowTypes
    DEF TypeOK, PhaseOK, PerBinOK, LagOK, FlowOK, HandleSettingsChange, SettingsDecide, SettingsNoise,
        SettingsFFT, OnlyNoise, machine, measured
  <2> QED  BY <2>1, <2>2
<1>2. PlacesOK'
  <2>1. UNCHANGED cmd /\ \E label \in SettingsLabels \cup {"rest"} : Goto(t, label)
    BY DEF HandleSettingsChange, SettingsDecide, SettingsNoise, SettingsPhase, SettingsFFT, Moves,
           OnlyNoise, OnlyCalibration, SettingsLabels
  <2> QED
    BY <2>1, PlaceTypes DEF TypeOK, PlacesOK, DriverLabels, CommandLabels
<1>3. SwitchesOK' /\ TriggersOK'
  <2>1. CASE SettingsDecide(t)
    BY <2>1 DEF TypeOK, SwitchesOK, TriggersOK, SettingsDecide, plant, mode, triggers
  <2>2. CASE SettingsNoise(t)
    BY <2>2 DEF TypeOK, SwitchesOK, TriggersOK, SettingsNoise, NoiseOn, OnlyNoise, mode, triggers
  <2>3. CASE SettingsPhase(t)
    BY <2>3 DEF TypeOK, SwitchesOK, TriggersOK, SettingsPhase, OnlyCalibration, plant, mode, triggers
  <2>4. CASE SettingsFFT(t)
    BY <2>4 DEF TypeOK, SwitchesOK, FFTRecord, TriggersOK, SettingsFFT, FFTOn, mode, triggers
  <2> QED  BY <2>1, <2>2, <2>3, <2>4 DEF HandleSettingsChange
<1>4. MeasuredOK'
  BY DEF TypeOK, MeasuredOK, HandleSettingsChange, SettingsDecide, SettingsNoise, SettingsPhase,
         SettingsFFT, RestartPhase, OnlyNoise, OnlyCalibration, measured, counted, history
<1> QED  BY <1>1, <1>2, <1>3, <1>4 DEF TypeOK

\* What the end of a verification does to the machine.
LEMMA ProceedTyped ==
    ASSUME TypeOK, NEW phase \in PhaseRecord, Proceed(phase) \/ Continue(phase)
    PROVE  /\ PhaseOK' /\ PerBinOK' /\ due' \subseteq Deadlines
           /\ recovery_in_progress' \in BOOLEAN /\ kerberos_cal_stale' \in BOOLEAN
           /\ \E label \in DriverLabels : Goto(Driver, label)
<1>1. PhaseOK'
  BY PhaseTypes DEF Proceed, Continue, Complete, PhaseOK, States
<1>2. PerBinOK'
  BY PerBinTypes DEF TypeOK, Proceed, Continue, Complete, PerBinOK
<1>3. /\ due' \subseteq Deadlines
      /\ recovery_in_progress' \in BOOLEAN /\ kerberos_cal_stale' \in BOOLEAN
  BY DEF TypeOK, TriggersOK, Proceed, Continue, Complete
<1>4. \E label \in DriverLabels : Goto(Driver, label)
  BY DEF Proceed, Continue, Complete, DriverLabels
<1> QED  BY <1>1, <1>2, <1>3, <1>4

\* A judged reading leaves a counted record, with which the driver proceeds or
\* goes on.
LEMMA VerifyCases ==
    ASSUME PhaseOK, Verify
    PROVE \E phase \in PhaseRecord : Proceed(phase) \/ Continue(phase)
<1> DEFINE checked == [phase_compensation EXCEPT !.checks_since_compensation = @ + 1]
           counted_in == [checked EXCEPT !.convergence_count = @ + 1]
           missed == [checked EXCEPT !.convergence_count = 0]
           failed == [missed EXCEPT !.failed_convergence_attempts = @ + 1]
           again == [failed EXCEPT !.checks_since_compensation = 0]
<1>1. checked \in PhaseRecord
  BY PhaseTypes DEF PhaseOK
<1>2. counted_in \in PhaseRecord /\ missed \in PhaseRecord
  <2> HIDE DEF checked
  <2>1. checked.convergence_count + 1 \in Nat
    BY <1>1, PhaseTypes
  <2> QED BY <1>1, <2>1, PhaseTypes
<1>3. failed \in PhaseRecord
  <2> HIDE DEF missed
  <2>1. missed.failed_convergence_attempts + 1 \in Nat
    BY <1>2, PhaseTypes
  <2> QED BY <1>2, <2>1, PhaseTypes
<1>4. again \in PhaseRecord
  <2> HIDE DEF failed
  <2> QED BY <1>3, PhaseTypes
<1>5. \E phase \in {counted_in, missed, again, failed} : Proceed(phase) \/ Continue(phase)
  BY DEF Verify, VerifyConverged, VerifyMissed
<1> QED  BY <1>2, <1>3, <1>4, <1>5

LEMMA VerifyTyped ==
    ASSUME TypeOK, Verify
    PROVE  TypeOK'
<1>1. \E phase \in PhaseRecord : Proceed(phase) \/ Continue(phase)
  BY VerifyCases DEF TypeOK
<1>2. /\ PhaseOK' /\ PerBinOK' /\ due' \subseteq Deadlines
      /\ recovery_in_progress' \in BOOLEAN /\ kerberos_cal_stale' \in BOOLEAN
      /\ \E label \in DriverLabels : Goto(Driver, label)
  BY <1>1, ProceedTyped
<1>3. PlacesOK'
  BY <1>2, PlaceTypes DEF TypeOK, PlacesOK, Verify
<1>4. LagOK' /\ SwitchesOK' /\ TriggersOK'
  BY <1>2 DEF TypeOK, LagOK, SwitchesOK, TriggersOK, Verify, plant, mode
<1>5. FlowOK'
  BY FlowTypes DEF TypeOK, FlowOK, Verify, VerifyConverged, VerifyMissed
<1>6. MeasuredOK'
  BY DEF TypeOK, MeasuredOK, Verify, VerifyConverged, VerifyMissed, Seen, counted
<1> QED  BY <1>2, <1>3, <1>4, <1>5, <1>6 DEF TypeOK

LEMMA DriverTyped ==
    ASSUME TypeOK, Judge \/ Apply \/ FinishPerBin \/ CompleteNoise \/ CompleteFFT
    PROVE  TypeOK'
<1>1. PhaseOK'
  <2> DEFINE opened == [phase_compensation EXCEPT !.state = "MEASURING_INITIAL_PHASE",
                                                  !.stable_nonzero_count = 0]
  <2>1. CASE Judge \/ CompleteNoise \/ CompleteFFT
    <3>1. opened \in PhaseRecord
      <4>1. 0 \in 0..RequiredStable
        BY ConstantsTyped
      <4> QED  BY <4>1, PhaseStepTypes DEF TypeOK, PhaseOK
    <3>2. phase_compensation' = phase_compensation \/ phase_compensation' = opened
      BY <2>1 DEF Judge, JudgeStability, JudgeLag, JudgePhase, CompleteNoise, CompleteFFT, OnlyNoise,
                  OnlyFFT, machine
    <3> QED  BY <3>1, <3>2 DEF TypeOK, PhaseOK
  <2>2. CASE Apply
    <3>1. CASE UNCHANGED phase_compensation
      BY <3>1 DEF TypeOK, PhaseOK
    <3>2. CASE Applied
      <4>1. RequiredStable \in 0..RequiredStable
        BY ConstantsTyped
      <4> QED  BY <3>2, <4>1, PhaseStepTypes DEF TypeOK, PhaseOK, Applied
    <3>3. ASSUME NEW aligned \in BOOLEAN, ~(Streak(aligned) >= RequiredStable),
                 phase_compensation' = [phase_compensation EXCEPT
                                          !.stable_nonzero_count = Streak(aligned)]
          PROVE  PhaseOK'
      <4>1. Streak(aligned) \in 0..RequiredStable
        BY <3>3, ConstantsTyped, PhaseTypes DEF TypeOK, PhaseOK, Streak
      <4> QED  BY <3>3, <4>1, PhaseTypes DEF TypeOK, PhaseOK
    <3> QED  BY <2>2, <3>1, <3>2, <3>3 DEF Apply, Verdicts
  <2>3. CASE FinishPerBin
    BY <2>3, PhaseTypes DEF TypeOK, PhaseOK, States, FinishPerBin, Continue, Complete
  <2> QED  BY <2>1, <2>2, <2>3
<1>2. PerBinOK'
  BY DEF TypeOK, PerBinOK, PerBinRecord, Judge, JudgeStability, JudgeLag, JudgePhase, Apply,
         FinishPerBin, Continue, Complete, CompleteNoise, CompleteFFT, OnlyNoise, OnlyFFT, machine
<1>3. PlacesOK'
  <2>1. UNCHANGED cmd /\ \E label \in DriverLabels : Goto(Driver, label)
    BY DEF Judge, JudgeStability, JudgeLag, JudgePhase, DriverRests, Apply, FinishPerBin, Continue,
           Complete, CompleteNoise, CompleteFFT, Moves, OnlyNoise, OnlyFFT, DriverLabels
  <2> QED  BY <2>1, PlaceTypes DEF TypeOK, PlacesOK
<1>4. LagOK' /\ SwitchesOK' /\ TriggersOK'
  <2>1. CASE Judge \/ Apply
    BY <2>1 DEF TypeOK, LagOK, SwitchesOK, TriggersOK, Judge, JudgeStability, JudgeLag, JudgePhase,
                Apply, machine, plant, mode, triggers
  <2>2. CASE FinishPerBin
    BY <2>2 DEF TypeOK, LagOK, SwitchesOK, TriggersOK, FinishPerBin, Continue, Complete, plant, mode
  <2>3. CASE CompleteNoise
    BY <2>3 DEF TypeOK, LagOK, SwitchesOK, TriggersOK, CompleteNoise, NoiseOff, OnlyNoise, machine,
                mode, triggers
  <2>4. CASE CompleteFFT
    BY <2>4 DEF TypeOK, LagOK, SwitchesOK, FFTRecord, TriggersOK, CompleteFFT, FFTOff, OnlyFFT,
                machine, mode, triggers
  <2> QED  BY <2>1, <2>2, <2>3, <2>4
<1>5. FlowOK'
  BY FlowTypes
  DEF TypeOK, FlowOK, Judge, JudgeStability, JudgeLag, JudgePhase, DriverRests, Apply, Applied,
      FinishPerBin, CompleteNoise, CompleteFFT, OnlyNoise, OnlyFFT, measured
<1>6. MeasuredOK'
  BY DEF TypeOK, MeasuredOK, Judge, Apply, Applied, FinishPerBin, CompleteNoise, CompleteFFT,
         OnlyNoise, OnlyFFT, measured, counted, history
<1> QED  BY <1>1, <1>2, <1>3, <1>4, <1>5, <1>6 DEF TypeOK

LEMMA DriveTyped ==
    ASSUME TypeOK, Drive
    PROVE  TypeOK'
BY VerifyTyped, DriverTyped, SettingsTyped DEF Drive

-----------------------------------------------------------------------------
(* Watchdog and periodic check.                                              *)

\* A reset of all lags, by a recovery or a command.
LEMMA ResetTyped ==
    ASSUME TypeOK, ResetLag
    PROVE  PhaseOK' /\ PerBinOK' /\ LagOK' /\ FlowOK'
<1>1. PhaseOK' /\ PerBinOK'
  BY DEF TypeOK, ResetLag, PhaseOK, PerBinOK
<1>2. LagOK'
  BY ConstantsTyped DEF ResetLag, LagOK, LagRecord
<1>3. FlowOK'
  BY FlowTypes DEF TypeOK, ResetLag, FlowOK
<1> QED  BY <1>1, <1>2, <1>3

LEMMA WatchTyped ==
    ASSUME TypeOK, Watch
    PROVE  TypeOK'
<1>1. PhaseOK' /\ PerBinOK' /\ LagOK' /\ FlowOK'
  <2>1. CASE RecoverLag \/ ParkLag
    BY <2>1, ResetTyped DEF RecoverLag, ParkLag
  <2>2. CASE RecoverPhase \/ ParkPhase
    BY <2>2, RestartTyped DEF RecoverPhase, ParkPhase, States
  <2>3. CASE ~(RecoverLag \/ ParkLag \/ RecoverPhase \/ ParkPhase)
    BY <2>3, FlowTypes
    DEF TypeOK, PhaseOK, PerBinOK, LagOK, FlowOK, Watch, WatchdogAbort, WatchdogAbortFFT,
        WatchdogConsume, RecoverCoherence, RecoverDecide, RecoverFlushOnly, RecoverNoise,
        RecoverRecheck, RecoverFFT, ParkNoise, ParkFFT, OnlyNoise, OnlyFFT, machine, measured
  <2> QED  BY <2>1, <2>2, <2>3
<1>2. PlacesOK'
  <2>1. UNCHANGED cmd /\ (UNCHANGED pc \/ \E label \in WatchdogLabels : Goto(Watchdog, label))
    BY DEF Watch, WatchdogAbort, WatchdogAbortFFT, WatchdogConsume, RecoverCoherence, RecoverDecide,
           RecoverFlushOnly, RecoverNoise, RecoverLag, RecoverPhase, RecoverRecheck, RecoverFFT,
           ParkNoise, ParkLag, ParkPhase, ParkFFT, Moves, OnlyNoise, OnlyFFT, OnlyCalibration,
           WatchdogLabels
  <2> QED  BY <2>1, PlaceTypes DEF TypeOK, PlacesOK
<1>3. SwitchesOK'
  <2>1. CASE WatchdogAbortFFT \/ RecoverFFT \/ ParkFFT
    <3>1. fft_control' \in FFTRecord
      BY <2>1, FFTTypes DEF WatchdogAbortFFT, RecoverFFT, ParkFFT
    <3>2. UNCHANGED <<noise, operating_mode, scanner, snapshot>>
      BY <2>1 DEF WatchdogAbortFFT, RecoverFFT, ParkFFT, OnlyFFT, mode
    <3> QED  BY <3>1, <3>2 DEF TypeOK, SwitchesOK
  <2>2. CASE ~(WatchdogAbortFFT \/ RecoverFFT \/ ParkFFT)
    BY <2>2 DEF TypeOK, SwitchesOK, Watch, WatchdogAbort, WatchdogConsume, RecoverCoherence,
                RecoverDecide, RecoverFlushOnly, RecoverNoise, RecoverLag, RecoverPhase,
                RecoverRecheck, ParkNoise, ParkLag, ParkPhase, NoiseOn, NoiseOff, OnlyNoise,
                OnlyCalibration, plant, mode
  <2> QED  BY <2>1, <2>2
<1>4. TriggersOK'
  BY DEF TypeOK, TriggersOK, Watch, WatchdogAbort, WatchdogAbortFFT, WatchdogConsume,
         RecoverCoherence, RecoverDecide, RecoverFlushOnly, RecoverNoise, RecoverLag, RecoverPhase,
         RecoverRecheck, RecoverFFT, ParkNoise, ParkLag, ParkPhase, ParkFFT, Moves, NoiseOn,
         NoiseOff, OnlyNoise, OnlyFFT, OnlyCalibration, triggers
<1>5. MeasuredOK'
  BY DEF TypeOK, MeasuredOK, Watch, WatchdogAbort, WatchdogAbortFFT, WatchdogConsume,
         RecoverCoherence, RecoverDecide, RecoverFlushOnly, RecoverNoise, RecoverLag, RecoverPhase,
         RecoverRecheck, RecoverFFT, ParkNoise, ParkLag, ParkPhase, ParkFFT, Moves, OnlyNoise,
         OnlyFFT, OnlyCalibration, ResetLag, RestartPhase, measured, counted, history
<1> QED  BY <1>1, <1>2, <1>3, <1>4, <1>5 DEF TypeOK

LEMMA CheckTyped ==
    ASSUME TypeOK, PeriodicCheck
    PROVE  TypeOK'
<1>1. PhaseOK' /\ PerBinOK' /\ LagOK' /\ FlowOK'
  BY DEF TypeOK, PhaseOK, PerBinOK, LagOK, FlowOK, PeriodicCheck, CheckBegin, CheckNoise, CheckFFT,
         CheckMeasure, CheckRestore, CheckFFTBack, CheckNoiseBack, CheckReport, OnlyControl,
         OnlyNoise, OnlyFFT, machine, measured
<1>2. PlacesOK'
  <2>1. UNCHANGED cmd /\ \E label \in CheckerLabels : Goto(Checker, label)
    BY DEF PeriodicCheck, CheckBegin, CheckNoise, CheckFFT, CheckMeasure, CheckRestore,
           CheckFFTBack, CheckNoiseBack, CheckReport, Moves, OnlyControl, OnlyNoise, OnlyFFT,
           CheckerLabels
  <2> QED  BY <2>1, PlaceTypes DEF TypeOK, PlacesOK
<1>3. SwitchesOK'
  <2>1. CASE CheckBegin \/ CheckMeasure \/ CheckReport
    <3>1. snapshot' \in SnapshotRecord
      <4>1. CASE CheckBegin \/ CheckReport
        <5>1. /\ fft_control.fft_enabled \in BOOLEAN /\ fft_control.user_override \in BOOLEAN
              /\ noise \in BOOLEAN
          BY DEF TypeOK, SwitchesOK, FFTRecord
        <5> QED  BY <4>1, <5>1, SwitchTypes, Zenon DEF CheckBegin, CheckReport
      <4>2. CASE CheckMeasure
        BY <4>2 DEF TypeOK, SwitchesOK, SnapshotRecord, CheckMeasure
      <4> QED  BY <2>1, <4>1, <4>2
    <3>2. UNCHANGED <<noise, fft_control, operating_mode, scanner>>
      BY <2>1 DEF CheckBegin, CheckMeasure, CheckReport, plant, mode
    <3> QED  BY <3>1, <3>2 DEF TypeOK, SwitchesOK
  <2>2. CASE CheckNoise \/ CheckNoiseBack \/ CheckRestore
    BY <2>2 DEF TypeOK, SwitchesOK, CheckNoise, CheckNoiseBack, CheckRestore, NoiseOn, NoiseOff,
                OnlyNoise, OnlyControl, plant, mode
  <2>3. CASE CheckFFT \/ CheckFFTBack
    <3>1. FFTBack \in FFTRecord
      <4>1. /\ (fft_control.fft_enabled /\ snapshot.enabled) \in BOOLEAN
            /\ (fft_control.auto_disabled \/ ~snapshot.enabled) \in BOOLEAN
            /\ (fft_control.user_override /\ snapshot.override) \in BOOLEAN
        OBVIOUS
      <4> QED  BY <4>1, SwitchTypes, Zenon DEF FFTBack
    <3>2. fft_control' \in FFTRecord
      BY <2>3, <3>1, SwitchTypes, Zenon DEF CheckFFT, CheckFFTBack
    <3>3. UNCHANGED <<noise, operating_mode, scanner, snapshot>>
      BY <2>3 DEF CheckFFT, CheckFFTBack, OnlyFFT, mode
    <3> QED  BY <3>2, <3>3 DEF TypeOK, SwitchesOK
  <2> QED  BY <2>1, <2>2, <2>3 DEF PeriodicCheck
<1>4. TriggersOK'
  <2>1. CASE CheckReport
    BY <2>1 DEF TypeOK, TriggersOK, CheckReport
  <2>2. CASE ~CheckReport
    BY <2>2 DEF TypeOK, TriggersOK, PeriodicCheck, CheckBegin, CheckNoise, CheckFFT, CheckMeasure,
                CheckRestore, CheckFFTBack, CheckNoiseBack, Moves, NoiseOn, NoiseOff, OnlyControl,
                OnlyNoise, OnlyFFT, triggers
  <2> QED  BY <2>1, <2>2
<1>5. MeasuredOK'
  <2>1. CASE CheckBegin
    <3>1. periodic' \in 0..MaxPeriodic
      BY <2>1, ConstantsTyped DEF TypeOK, MeasuredOK, CheckBegin
    <3> QED  BY <2>1, <3>1 DEF TypeOK, MeasuredOK, CheckBegin, measured, history
  <2>2. CASE ~CheckBegin
    BY <2>2 DEF TypeOK, MeasuredOK, PeriodicCheck, CheckNoise, CheckFFT, CheckMeasure, CheckRestore,
                CheckFFTBack, CheckNoiseBack, CheckReport, OnlyControl, OnlyNoise, OnlyFFT, measured,
                counted, history
  <2> QED  BY <2>1, <2>2
<1> QED  BY <1>1, <1>2, <1>3, <1>4, <1>5 DEF TypeOK

-----------------------------------------------------------------------------
(* Command handlers, losses, deadlines, the scanner.                         *)

\* What the beginning of a command counts.
LEMMA BeginTyped ==
    ASSUME TypeOK, NEW t, NEW command, Begin(t, command)
    PROVE  /\ commands' \in 0..MaxCommands /\ losses' \in 0..MaxLosses
           /\ periodic' \in 0..MaxPeriodic
BY ConstantsTyped DEF TypeOK, MeasuredOK, Begin

LEMMA CommandTyped ==
    ASSUME TypeOK, NEW t \in Commanders, Command(t)
    PROVE  TypeOK'
<1>1. /\ commands' \in 0..MaxCommands /\ losses' \in 0..MaxLosses
      /\ periodic' \in 0..MaxPeriodic
  BY BeginTyped
  DEF Command, Retune, EnterWideband, LeaveWideband, Switch, PerBinEnable, PerBinDisable, ForceRecal,
      ResetLagCommand, Scanner
<1>2. PhaseOK' /\ PerBinOK' /\ LagOK' /\ FlowOK'
  <2>1. CASE PerBinEnable(t) \/ PerBinDisable(t)
    <3>1. PerBinOK'
      BY <2>1, PerBinTypes DEF TypeOK, PerBinOK, PerBinEnable, PerBinDisable
    <3> QED
      BY <2>1, <3>1 DEF TypeOK, PhaseOK, LagOK, FlowOK, PerBinEnable, PerBinDisable, measured
  <2>2. CASE ResetLagCommand(t)
    BY <2>2, ResetTyped DEF ResetLagCommand
  <2>3. CASE Retune(t) \/ LeaveWideband(t)
    <3>1. flow' = flow \/ flow' = Outdated(flow)
      BY <2>3 DEF Retune, Retuned, LeaveWideband, measured
    <3>2. FlowOK'
      BY <3>1, FlowTypes DEF TypeOK, FlowOK
    <3> QED
      BY <2>3, <3>2 DEF TypeOK, PhaseOK, PerBinOK, LagOK, Retune, LeaveWideband, machine
  <2>4. CASE EnterWideband(t) \/ Switch(t) \/ ForceRecal(t) \/ Scanner(t)
    BY <2>4 DEF TypeOK, PhaseOK, PerBinOK, LagOK, FlowOK, EnterWideband, Switch, ForceRecal, Scanner,
                machine, measured
  <2> QED  BY <2>1, <2>2, <2>3, <2>4 DEF Command
<1>3. PlacesOK'
  <2>1. CASE Retune(t)
    <3>1. /\ UNCHANGED pc \/ \E label \in {"settings", "decide"} : Goto(t, label)
          /\ UNCHANGED cmd \/ \E command \in Retunes : cmd' = [cmd EXCEPT ![t] = command]
      BY <2>1 DEF Retune
    <3>2. cmd' \in [Commanders -> Retunes \cup {"none"}]
      BY <3>1 DEF TypeOK, PlacesOK
    <3> QED  BY <3>1, <3>2, PlaceTypes DEF TypeOK, PlacesOK, CommandLabels, SettingsLabels
  <2>2. CASE ~Retune(t)
    <3>1. /\ UNCHANGED cmd
          /\ \/ UNCHANGED pc
             \/ \E label \in {"enter_phase", "leave_phase", "settings"} : Goto(t, label)
      BY <2>2 DEF Command, EnterWideband, LeaveWideband, Switch, PerBinEnable, PerBinDisable,
                  ForceRecal, ResetLagCommand, Scanner
    <3> QED  BY <3>1, PlaceTypes DEF TypeOK, PlacesOK, CommandLabels, SettingsLabels
  <2> QED  BY <2>1, <2>2
<1>4. SwitchesOK'
  <2>1. CASE Switch(t)
    <3>1. fft_control' \in FFTRecord
      <4>1. (fft_control.user_override \/ fft_control.auto_disabled) \in BOOLEAN
        OBVIOUS
      <4>2. [fft_enabled |-> TRUE, auto_disabled |-> FALSE,
             user_override |-> fft_control.user_override \/ fft_control.auto_disabled] \in FFTRecord
        BY <4>1, SwitchTypes, Zenon
      <4>3. [fft_control EXCEPT !.fft_enabled = FALSE, !.auto_disabled = FALSE] \in FFTRecord
        BY DEF TypeOK, SwitchesOK, FFTRecord
      <4> QED  BY <2>1, <4>2, <4>3 DEF TypeOK, SwitchesOK, Switch
    <3>2. noise' \in BOOLEAN
      BY <2>1 DEF TypeOK, SwitchesOK, Switch, NoiseOn, NoiseOff
    <3> QED  BY <2>1, <3>1, <3>2 DEF TypeOK, SwitchesOK, Switch, mode
  <2>2. CASE ~Switch(t)
    BY <2>2 DEF TypeOK, SwitchesOK, Command, Retune, EnterWideband, LeaveWideband, PerBinEnable,
                PerBinDisable, ForceRecal, ResetLagCommand, Scanner, plant, mode
  <2> QED  BY <2>1, <2>2
<1>5. TriggersOK'
  BY DEF TypeOK, TriggersOK, Command, Retune, EnterWideband, LeaveWideband, Switch, NoiseOn, NoiseOff,
         PerBinEnable, PerBinDisable, ForceRecal, ResetLagCommand, Scanner, triggers
<1>6. MeasuredOK'
  BY <1>1
  DEF TypeOK, MeasuredOK, Command, Retune, Retuned, EnterWideband, LeaveWideband, Switch,
      PerBinEnable, PerBinDisable, ForceRecal, ResetLagCommand, ResetLag, Scanner, measured, history
<1> QED  BY <1>1, <1>2, <1>3, <1>4, <1>5, <1>6 DEF TypeOK

LEMMA ExecuteTyped ==
    ASSUME TypeOK, NEW t \in Commanders, Execute(t)
    PROVE  TypeOK'
<1>1. CASE HandleSettingsChange(t)
  BY <1>1, SettingsTyped
<1>2. CASE ~HandleSettingsChange(t)
  <2>1. PhaseOK' /\ PerBinOK' /\ LagOK' /\ FlowOK'
    <3>1. CASE CooldownPhase(t)
      BY <3>1, RestartTyped DEF CooldownPhase, States
    <3>2. CASE EnterPhase(t)
      <4>1. PhaseOK'
        <5>1. 0 \in 0..RequiredStable
          BY ConstantsTyped
        <5> QED  BY <3>2, <5>1, PhaseStepTypes DEF TypeOK, PhaseOK, EnterPhase
      <4> QED  BY <3>2, <4>1 DEF TypeOK, PerBinOK, LagOK, FlowOK, EnterPhase, measured
    <3>3. CASE LeavePhase(t)
      <4>1. PhaseOK'
        BY <3>3, ConstantsTyped DEF PhaseOK, PhaseRecord, States, LeavePhase, Restarted
      <4> QED  BY <3>3, <4>1, FlowTypes DEF TypeOK, PerBinOK, LagOK, FlowOK, LeavePhase
    <3>4. CASE CooldownDecide(t) \/ CooldownNoise(t) \/ EnterFFT(t) \/ LeaveFFT(t) \/ LeaveNoise(t)
               \/ LeaveFlush(t)
      BY <3>4, FlowTypes
      DEF TypeOK, PhaseOK, PerBinOK, LagOK, FlowOK, CooldownDecide, CooldownNoise, EnterFFT, LeaveFFT,
          LeaveNoise, LeaveFlush, OnlyNoise, OnlyFFT, machine, measured
    <3> QED  BY <1>2, <3>1, <3>2, <3>3, <3>4 DEF Execute
  <2>2. PlacesOK'
    <3>1. \E label \in CommandLabels : Goto(t, label)
      BY <1>2 DEF Execute, CooldownDecide, CooldownNoise, CooldownPhase, EnterPhase, EnterFFT,
                  LeavePhase, LeaveFFT, LeaveNoise, LeaveFlush, Moves, CommandLabels
    <3>2. UNCHANGED cmd \/ cmd' = [cmd EXCEPT ![t] = "none"]
      BY <1>2 DEF Execute, CooldownDecide, CooldownNoise, CooldownPhase, EnterPhase, EnterFFT,
                  LeavePhase, LeaveFFT, LeaveNoise, LeaveFlush, OnlyNoise, OnlyFFT
    <3>3. cmd' \in [Commanders -> Retunes \cup {"none"}]
      BY <3>2 DEF TypeOK, PlacesOK
    <3> QED  BY <3>1, <3>3, PlaceTypes DEF TypeOK
  <2>3. SwitchesOK'
    <3>1. fft_control' \in FFTRecord
      <4>1. CASE EnterFFT(t)
        BY <4>1 DEF TypeOK, SwitchesOK, FFTRecord, EnterFFT
      <4>2. CASE LeaveFFT(t)
        BY <4>2, FFTTypes DEF LeaveFFT
      <4>3. CASE ~(EnterFFT(t) \/ LeaveFFT(t))
        BY <1>2, <4>3 DEF TypeOK, SwitchesOK, Execute, CooldownDecide, CooldownNoise, CooldownPhase,
                          EnterPhase, LeavePhase, LeaveNoise, LeaveFlush, OnlyNoise, plant
      <4> QED  BY <4>1, <4>2, <4>3
    <3>2. noise' \in BOOLEAN /\ UNCHANGED <<operating_mode, scanner, snapshot>>
      BY <1>2 DEF TypeOK, SwitchesOK, Execute, CooldownDecide, CooldownNoise, CooldownPhase, EnterPhase,
                  EnterFFT, LeavePhase, LeaveFFT, LeaveNoise, LeaveFlush, Moves, NoiseOn, NoiseOff,
                  OnlyNoise, OnlyFFT, plant, mode
    <3> QED  BY <3>1, <3>2 DEF TypeOK, SwitchesOK
  <2>4. TriggersOK'
    <3>1. CASE CooldownDecide(t)
      BY <3>1 DEF TypeOK, TriggersOK, CooldownDecide, triggers
    <3>2. CASE ~CooldownDecide(t)
      BY <1>2, <3>2 DEF TypeOK, TriggersOK, Execute, CooldownNoise, CooldownPhase, EnterPhase, EnterFFT,
                        LeavePhase, LeaveFFT, LeaveNoise, LeaveFlush, Moves, NoiseOn, NoiseOff,
                        OnlyNoise, OnlyFFT, triggers
    <3> QED  BY <3>1, <3>2
  <2>5. MeasuredOK'
    BY <1>2 DEF TypeOK, MeasuredOK, Execute, CooldownDecide, CooldownNoise, CooldownPhase, RestartPhase,
                EnterPhase, EnterFFT, LeavePhase, LeaveFFT, LeaveNoise, LeaveFlush, Moves, OnlyNoise,
                OnlyFFT, measured, counted, history
  <2> QED  BY <2>1, <2>2, <2>3, <2>4, <2>5 DEF TypeOK
<1> QED  BY <1>1, <1>2

LEMMA WorldTyped ==
    ASSUME TypeOK, LoseCoherence \/ ScannerHop \/ \E d \in Deadlines : TimePasses(d)
    PROVE  TypeOK'
<1>1. PlacesOK' /\ PhaseOK' /\ PerBinOK' /\ LagOK' /\ SwitchesOK'
  BY DEF TypeOK, PlacesOK, PhaseOK, PerBinOK, LagOK, SwitchesOK, LoseCoherence, ScannerHop, TimePasses,
         machine, plant, mode
<1>2. TriggersOK'
  BY DEF TypeOK, TriggersOK, LoseCoherence, ScannerHop, TimePasses, triggers
<1>3. FlowOK'
  BY FlowTypes DEF TypeOK, FlowOK, LoseCoherence, ScannerHop, TimePasses, measured
<1>4. MeasuredOK'
  <2>1. CASE LoseCoherence
    <3>1. losses' \in 0..MaxLosses
      BY <2>1, ConstantsTyped DEF TypeOK, MeasuredOK, LoseCoherence
    <3> QED  BY <2>1, <3>1 DEF TypeOK, MeasuredOK, LoseCoherence, measured
  <2>2. CASE ~LoseCoherence
    BY <2>2 DEF TypeOK, MeasuredOK, ScannerHop, TimePasses, measured, counted, history
  <2> QED  BY <2>1, <2>2
<1> QED  BY <1>1, <1>2, <1>3, <1>4 DEF TypeOK

LEMMA StutterTyped ==
    ASSUME TypeOK, UNCHANGED vars
    PROVE  TypeOK'
<1>1. PlacesOK' /\ PhaseOK' /\ PerBinOK' /\ LagOK'
  BY DEF TypeOK, PlacesOK, PhaseOK, PerBinOK, LagOK, vars, machine
<1>2. SwitchesOK' /\ TriggersOK'
  BY DEF TypeOK, SwitchesOK, TriggersOK, vars, plant, mode, triggers
<1>3. FlowOK' /\ MeasuredOK'
  BY DEF TypeOK, FlowOK, MeasuredOK, vars, measured, counted, history
<1> QED  BY <1>1, <1>2, <1>3 DEF TypeOK

-----------------------------------------------------------------------------
LEMMA InitTyped == Init => TypeOK
<1> SUFFICES ASSUME Init PROVE TypeOK
  OBVIOUS
<1>1. PlacesOK
  BY ThreadsDiffer
  DEF Init, PlacesOK, DriverLabels, WatchdogLabels, CheckerLabels, CommandLabels
<1>2. PhaseOK
  BY ConstantsTyped DEF Init, Restarted, PhaseOK, PhaseRecord, States
<1>3. PerBinOK
  BY ConstantsTyped DEF Init, PerBinOK, PerBinRecord
<1>4. LagOK
  BY ConstantsTyped DEF Init, LagOK, LagRecord
<1>5. SwitchesOK
  BY ConstantsTyped, SwitchTypes DEF Init, SwitchesOK
<1>6. TriggersOK
  BY DEF Init, TriggersOK
<1>7. FlowOK
  BY DEF Init, FlowOK, FlowRecord, Ages
<1>8. MeasuredOK
  <2>1. 0 \in 0..MaxCommands /\ 0 \in 0..MaxLosses /\ 0 \in 0..MaxPeriodic
    BY ConstantsTyped
  <2> QED  BY <2>1 DEF Init, MeasuredOK
<1> QED  BY <1>1, <1>2, <1>3, <1>4, <1>5, <1>6, <1>7, <1>8 DEF TypeOK

\* Every variable keeps its type whatever the threads do, and the counters that
\* the code bounds, the quiet updates of a lag, the stable readings and the
\* snapshots of the equalizer, keep their bounds.
THEOREM TypeCorrect == Spec => []TypeOK
<1>1. TypeOK /\ [Next]_vars => TypeOK'
  <2> SUFFICES ASSUME TypeOK, [Next]_vars PROVE TypeOK'
    OBVIOUS
  <2>1. Convert \/ Correlation => TypeOK'
    BY CorrelationTyped
  <2>2. (\E c \in Channels : Poll(c) \/ LagStep(c)) => TypeOK'
    BY ServoTyped
  <2>3. Drive \/ Watch \/ PeriodicCheck => TypeOK'
    BY DriveTyped, WatchTyped, CheckTyped
  <2>4. (\E t \in Commanders : Command(t) \/ Execute(t)) => TypeOK'
    BY CommandTyped, ExecuteTyped
  <2>5. LoseCoherence \/ ScannerHop \/ (\E d \in Deadlines : TimePasses(d)) => TypeOK'
    BY WorldTyped
  <2> QED  BY <2>1, <2>2, <2>3, <2>4, <2>5, StutterTyped DEF Next
<1> QED  BY <1>1, InitTyped, PTL DEF Spec

-----------------------------------------------------------------------------
(* The loss of coherence.                                                    *)

\* Every thread is somewhere.
Placed == pc = [t \in Threads |-> pc[t]]

\* The inductive invariant.
LInv == Placed /\ LossNotForgotten

\* A step that neither the watchdog nor the sample path takes.
Steady ==
    /\ Placed'
    /\ pc'[Watchdog] = pc[Watchdog]
    /\ coherence_lost' = coherence_lost
    /\ slipped' => slipped

-----------------------------------------------------------------------------
(* Places.                                                                   *)

\* A thread that goes to a label is there, the others stay.
LEMMA GotoPlaces ==
    ASSUME Placed, NEW t \in Threads, NEW label, Goto(t, label)
    PROVE  /\ Placed'
           /\ pc'[t] = label
           /\ \A u \in Threads : u # t => pc'[u] = pc[u]
BY DEF Placed, Goto

\* In particular the watchdog stays when another thread goes.
LEMMA GotoElsewhere ==
    ASSUME Placed, NEW t \in Threads, t # Watchdog, NEW label, Goto(t, label)
    PROVE  Placed' /\ pc'[Watchdog] = pc[Watchdog]
BY GotoPlaces, ThreadsDiffer

LEMMA StayPlaces ==
    ASSUME Placed, UNCHANGED pc
    PROVE  Placed' /\ pc'[Watchdog] = pc[Watchdog]
BY DEF Placed

\* A steady step forgets no loss.
LEMMA SteadyKeeps ==
    ASSUME LInv, Steady
    PROVE  LInv'
BY DEF LInv, Steady, LossNotForgotten, Heeded

-----------------------------------------------------------------------------
(* Steps of the correlation, of the compensation threads and of the driver.  *)

LEMMA CorrelationSteady ==
    ASSUME Placed, Convert \/ Correlation
    PROVE  Steady
<1>1. UNCHANGED <<pc, coherence_lost, slipped>>
  BY DEF Convert, Correlation, CorrSkip, CorrTake, CorrCompute, CorrPublish, triggers, history
<1> QED  BY <1>1, StayPlaces DEF Steady

LEMMA ServoSteady ==
    ASSUME Placed, NEW c \in Channels, Poll(c) \/ LagStep(c)
    PROVE  Steady
<1>1. UNCHANGED <<coherence_lost, slipped>>
  BY DEF Poll, LagStep, triggers, history
<1>2. UNCHANGED pc \/ \E label : Goto(c, label)
  BY DEF Poll, LagStep
<1> QED  BY <1>1, <1>2, StayPlaces, GotoElsewhere, ThreadsDiffer DEF Steady

LEMMA SettingsSteady ==
    ASSUME Placed, NEW t \in Threads, t # Watchdog, HandleSettingsChange(t)
    PROVE  Steady
<1>1. UNCHANGED <<coherence_lost, slipped>> /\ (UNCHANGED pc \/ \E label : Goto(t, label))
  <2>1. CASE SettingsDecide(t)
    BY <2>1 DEF SettingsDecide, triggers, history
  <2>2. CASE SettingsNoise(t)
    BY <2>2 DEF SettingsNoise, Moves, OnlyNoise, triggers, history
  <2>3. CASE SettingsPhase(t)
    BY <2>3 DEF SettingsPhase, Moves, RestartPhase, OnlyCalibration, triggers
  <2>4. CASE SettingsFFT(t)
    BY <2>4 DEF SettingsFFT, triggers, history
  <2> QED  BY <2>1, <2>2, <2>3, <2>4 DEF HandleSettingsChange
<1> QED  BY <1>1, StayPlaces, GotoElsewhere DEF Steady

LEMMA DriveSteady ==
    ASSUME Placed, Drive
    PROVE  Steady
<1>1. Driver \in Threads /\ Driver # Watchdog
  BY ThreadsDiffer
<1>2. CASE HandleSettingsChange(Driver)
  BY <1>1, <1>2, SettingsSteady
<1>3. CASE ~HandleSettingsChange(Driver)
  <2>1. UNCHANGED <<coherence_lost, slipped>> /\ \E label : Goto(Driver, label)
    <3>1. CASE Judge
      BY <3>1 DEF Judge, JudgeStability, JudgeLag, JudgePhase, DriverRests, triggers, history
    <3>2. CASE Apply
      BY <3>2 DEF Apply, triggers
    <3>3. CASE Verify
      BY <3>3 DEF Verify, VerifyConverged, VerifyMissed, Proceed, Continue, Complete
    <3>4. CASE FinishPerBin
      BY <3>4 DEF FinishPerBin, Continue, Complete
    <3>5. CASE CompleteNoise
      BY <3>5 DEF CompleteNoise, Moves, OnlyNoise, triggers, history
    <3>6. CASE CompleteFFT
      BY <3>6 DEF CompleteFFT, Moves, OnlyFFT, triggers, history
    <3> QED  BY <1>3, <3>1, <3>2, <3>3, <3>4, <3>5, <3>6 DEF Drive
  <2> QED  BY <1>1, <2>1, GotoElsewhere DEF Steady
<1> QED  BY <1>2, <1>3

-----------------------------------------------------------------------------
(* Steps of the periodic check, of the command handlers and of the world.    *)

LEMMA CheckSteady ==
    ASSUME Placed, PeriodicCheck
    PROVE  Steady
<1>1. UNCHANGED <<coherence_lost, slipped>> /\ \E label : Goto(Checker, label)
  <2>1. CASE CheckBegin \/ CheckMeasure \/ CheckReport
    BY <2>1 DEF CheckBegin, CheckMeasure, CheckReport, triggers, history
  <2>2. CASE CheckNoise \/ CheckNoiseBack
    BY <2>2 DEF CheckNoise, CheckNoiseBack, OnlyNoise, triggers, history
  <2>3. CASE CheckFFT \/ CheckFFTBack
    BY <2>3 DEF CheckFFT, CheckFFTBack, Moves, OnlyFFT, triggers, history
  <2>4. CASE CheckRestore
    BY <2>4 DEF CheckRestore, OnlyControl, triggers, history
  <2> QED  BY <2>1, <2>2, <2>3, <2>4 DEF PeriodicCheck
<1> QED  BY <1>1, GotoElsewhere, ThreadsDiffer DEF Steady

LEMMA CommandSteady ==
    ASSUME Placed, NEW t \in Commanders, Command(t)
    PROVE  Steady
<1>1. /\ UNCHANGED coherence_lost /\ (slipped' => slipped)
      /\ UNCHANGED pc \/ \E label : Goto(t, label)
  <2>1. CASE Retune(t)
    BY <2>1 DEF Retune, Retuned, triggers
  <2>2. CASE EnterWideband(t)
    BY <2>2 DEF EnterWideband, triggers, history
  <2>3. CASE LeaveWideband(t)
    BY <2>3 DEF LeaveWideband, triggers, history
  <2>4. CASE Switch(t) \/ Scanner(t)
    BY <2>4 DEF Switch, Scanner, triggers, history
  <2>5. CASE PerBinEnable(t) \/ PerBinDisable(t)
    BY <2>5 DEF PerBinEnable, PerBinDisable, triggers, history
  <2>6. CASE ForceRecal(t)
    BY <2>6 DEF ForceRecal, history
  <2>7. CASE ResetLagCommand(t)
    BY <2>7 DEF ResetLagCommand, ResetLag, triggers
  <2> QED  BY <2>1, <2>2, <2>3, <2>4, <2>5, <2>6, <2>7 DEF Command
<1> QED  BY <1>1, StayPlaces, GotoElsewhere, ThreadsDiffer DEF Steady

LEMMA ExecuteSteady ==
    ASSUME Placed, NEW t \in Commanders, Execute(t)
    PROVE  Steady
<1>1. t \in Threads /\ t # Watchdog
  BY ThreadsDiffer
<1>2. CASE HandleSettingsChange(t)
  BY <1>1, <1>2, SettingsSteady
<1>3. CASE ~HandleSettingsChange(t)
  <2>1. UNCHANGED <<coherence_lost, slipped>> /\ \E label : Goto(t, label)
    <3>1. CASE CooldownDecide(t)
      BY <3>1 DEF CooldownDecide, triggers, history
    <3>2. CASE CooldownNoise(t) \/ LeaveNoise(t)
      BY <3>2 DEF CooldownNoise, LeaveNoise, Moves, OnlyNoise, triggers, history
    <3>3. CASE CooldownPhase(t)
      BY <3>3 DEF CooldownPhase, RestartPhase, triggers
    <3>4. CASE EnterPhase(t) \/ LeavePhase(t)
      BY <3>4 DEF EnterPhase, LeavePhase, triggers
    <3>5. CASE EnterFFT(t) \/ LeaveFFT(t)
      BY <3>5 DEF EnterFFT, LeaveFFT, Moves, OnlyFFT, triggers, history
    <3>6. CASE LeaveFlush(t)
      BY <3>6 DEF LeaveFlush, triggers, history
    <3> QED  BY <1>3, <3>1, <3>2, <3>3, <3>4, <3>5, <3>6 DEF Execute
  <2> QED  BY <1>1, <2>1, GotoElsewhere DEF Steady
<1> QED  BY <1>2, <1>3

LEMMA WorldSteady ==
    ASSUME Placed, ScannerHop \/ \E d \in Deadlines : TimePasses(d)
    PROVE  Steady
<1>1. UNCHANGED <<pc, coherence_lost>> /\ (slipped' => slipped)
  BY DEF ScannerHop, TimePasses, triggers, history
<1> QED  BY <1>1, StayPlaces DEF Steady

-----------------------------------------------------------------------------
(* Steps of the watchdog, and the loss itself.                               *)

\* A recovery leads the watchdog from the latch to the flush in ResetLag or
\* RecoverFlushOnly; an abort begins and ends at rest, with the latch as it was.
LEMMA WatchKeeps ==
    ASSUME LInv, Watch
    PROVE  LInv'
<1> USE ThreadsDiffer DEF LInv
<1>1. UNCHANGED coherence_lost \/ WatchdogConsume
  BY DEF Watch, WatchdogAbort, WatchdogAbortFFT, RecoverCoherence, RecoverDecide,
         RecoverFlushOnly, RecoverNoise, RecoverLag, RecoverPhase, RecoverRecheck, RecoverFFT,
         ParkNoise, ParkLag, ParkPhase, ParkFFT, OnlyNoise, OnlyFFT, OnlyCalibration, triggers
<1>2. UNCHANGED slipped \/ slipped' = FALSE
  BY DEF Watch, WatchdogAbort, WatchdogAbortFFT, WatchdogConsume, RecoverCoherence, RecoverDecide,
         RecoverFlushOnly, RecoverNoise, RecoverLag, RecoverPhase, RecoverRecheck, RecoverFFT,
         ParkNoise, ParkLag, ParkPhase, ParkFFT, OnlyNoise, OnlyFFT, Moves, ResetLag, RestartPhase,
         history
<1>3. CASE WatchdogConsume
  <2>1. pc[Watchdog] = "rest" /\ Goto(Watchdog, "recover")
    BY <1>3 DEF WatchdogConsume, CanConsume
  <2> QED  BY <2>1, GotoPlaces DEF LossNotForgotten, Heeded
<1>4. CASE WatchdogAbort
  <2>1. pc[Watchdog] = "rest" /\ (UNCHANGED pc \/ Goto(Watchdog, "abort_fft"))
    BY <1>4 DEF WatchdogAbort
  <2>2. UNCHANGED <<coherence_lost, slipped>>
    BY <1>4 DEF WatchdogAbort, history
  <2> QED  BY <2>1, <2>2, GotoPlaces, StayPlaces DEF LossNotForgotten, Heeded
<1>5. CASE RecoverDecide
  <2>1. /\ UNCHANGED <<coherence_lost, slipped>>
        /\ \E label \in {"park_noise", "flush_only", "recover_noise"} : Goto(Watchdog, label)
    BY <1>5 DEF RecoverDecide, history
  <2> QED  BY <2>1, GotoPlaces DEF LossNotForgotten, Heeded
<1>6. CASE RecoverNoise \/ ParkNoise
  <2>1. \E label \in {"recover_lag", "park_lag"} : Goto(Watchdog, label)
    BY <1>6 DEF RecoverNoise, ParkNoise, Moves
  <2> QED  BY <2>1, GotoPlaces DEF LossNotForgotten, Heeded
<1>7. CASE RecoverFlushOnly \/ RecoverLag \/ ParkLag
  <2>1. slipped' = FALSE /\ \E label : Goto(Watchdog, label)
    BY <1>7 DEF RecoverFlushOnly, RecoverLag, ParkLag, Moves, ResetLag
  <2> QED  BY <2>1, GotoPlaces DEF LossNotForgotten
<1>8. CASE \/ WatchdogAbortFFT \/ RecoverPhase \/ RecoverRecheck \/ RecoverFFT
           \/ ParkPhase \/ ParkFFT
  <2>1. /\ pc[Watchdog] \in {"abort_fft", "recover_phase", "recheck", "recover_fft",
                             "park_phase", "park_fft"}
        /\ \E label : Goto(Watchdog, label)
    BY <1>8 DEF WatchdogAbortFFT, RecoverPhase, RecoverRecheck, RecoverFFT, ParkPhase, ParkFFT, Moves
  <2>2. UNCHANGED coherence_lost
    BY <1>8 DEF WatchdogAbortFFT, RecoverPhase, RecoverRecheck, RecoverFFT, ParkPhase, ParkFFT,
                OnlyFFT, OnlyCalibration, triggers
  <2> QED  BY <1>2, <2>1, <2>2, GotoPlaces DEF LossNotForgotten, Heeded
<1> QED  BY <1>3, <1>4, <1>5, <1>6, <1>7, <1>8 DEF Watch, RecoverCoherence

LEMMA LossKeeps ==
    ASSUME LInv, LoseCoherence
    PROVE  LInv'
BY StayPlaces DEF LInv, LoseCoherence, LossNotForgotten, Heeded

LEMMA StutterKeeps ==
    ASSUME LInv, UNCHANGED vars
    PROVE  LInv'
<1>1. UNCHANGED <<pc, coherence_lost, slipped>>
  BY DEF vars, triggers, history
<1> QED  BY <1>1, StayPlaces, SteadyKeeps DEF LInv, Steady

-----------------------------------------------------------------------------
(* A loss of coherence, signalled at any moment, is latched or being acted on *)
(* until L1 has been flushed (coherence_watchdog, recover_coherence).         *)
THEOREM LossKept == Spec => []LossNotForgotten
<1>1. Init => LInv
  BY DEF Init, LInv, Placed, LossNotForgotten
<1>2. LInv /\ [Next]_vars => LInv'
  <2> SUFFICES ASSUME LInv, [Next]_vars PROVE LInv'
    OBVIOUS
  <2>1. Placed
    BY DEF LInv
  <2>2. Convert \/ Correlation => Steady
    BY <2>1, CorrelationSteady
  <2>3. (\E c \in Channels : Poll(c) \/ LagStep(c)) => Steady
    BY <2>1, ServoSteady
  <2>4. Drive \/ PeriodicCheck => Steady
    BY <2>1, DriveSteady, CheckSteady
  <2>5. (\E t \in Commanders : Command(t) \/ Execute(t)) => Steady
    BY <2>1, CommandSteady, ExecuteSteady
  <2>6. ScannerHop \/ (\E d \in Deadlines : TimePasses(d)) => Steady
    BY <2>1, WorldSteady
  <2> QED
    BY <2>2, <2>3, <2>4, <2>5, <2>6, SteadyKeeps, WatchKeeps, LossKeeps, StutterKeeps DEF Next
<1>3. LInv => LossNotForgotten
  BY DEF LInv
<1> QED  BY <1>1, <1>2, <1>3, PTL DEF Spec


-----------------------------------------------------------------------------
(* KerberosSDR, over every set of commands.                                  *)

Turned == {"settings_noise", "settings_phase", "settings_fft"}
Lighting == {"recover_noise", "recover_lag", "recover_phase"}

\* No settings change and no check is about to switch the noise source on; a
\* recovery that is goes back to the user.
KInv ==
    /\ pc[Checker] = "rest"
    /\ \A t \in Commanders \cup {Driver} : pc[t] \notin Turned
    /\ pc[Watchdog] \in Lighting => manual

LEMMA TypedPlaced == TypeOK => Placed
BY DEF TypeOK, PlacesOK, Placed

\* Nobody moves, or one thread does, to a place where it does no harm.
LEMMA KMoves ==
    ASSUME TypeOK, KInv, manual' = manual,
           NEW t \in Threads, NEW label, UNCHANGED pc \/ Goto(t, label),
           t = Checker => label = "rest",
           label \notin Turned,
           t = Watchdog /\ label \in Lighting => manual
    PROVE  KInv'
<1>1. CASE UNCHANGED pc
  BY <1>1 DEF KInv
<1>2. CASE Goto(t, label)
  <2>1. pc'[t] = label /\ \A u \in Threads : u # t => pc'[u] = pc[u]
    BY <1>2, TypedPlaced, GotoPlaces
  <2> QED  BY <2>1, ThreadsDiffer DEF KInv
<1> QED  BY <1>1, <1>2

LEMMA KCorrelation ==
    ASSUME KInv, Convert \/ Correlation \/ ScannerHop \/ LoseCoherence
                 \/ (\E d \in Deadlines : TimePasses(d)) \/ UNCHANGED vars
    PROVE  KInv' /\ noise' = noise
BY DEF KInv, Convert, Correlation, CorrSkip, CorrTake, CorrCompute, CorrPublish, ScannerHop, LoseCoherence,
       TimePasses, vars, plant, mode, triggers

LEMMA KServo ==
    ASSUME TypeOK, KInv, NEW c \in Channels, Poll(c) \/ LagStep(c)
    PROVE  KInv' /\ noise' = noise
<1>1. /\ manual' = manual /\ noise' = noise
      /\ UNCHANGED pc \/ \E label \in {"lag", "judge", "rest"} : Goto(c, label)
  BY DEF Poll, LagStep, plant, triggers
<1>2. c \in Threads /\ c # Watchdog /\ c # Checker /\ c \notin Commanders
  BY ThreadsDiffer
<1>3. \A label \in {"lag", "judge", "rest"} : label \notin Turned
  BY DEF Turned
<1> QED  BY <1>1, <1>2, <1>3, KMoves

LEMMA KDrive ==
    ASSUME TypeOK, Kerberos, KInv, Drive
    PROVE  KInv' /\ (noise' => noise)
<1>1. /\ manual' = manual /\ (noise' => noise)
      /\ \E label \in DriverLabels : Goto(Driver, label)
  <2>1. CASE Judge
    BY <2>1 DEF Judge, JudgeStability, JudgeLag, JudgePhase, DriverRests, DriverLabels, plant, triggers
  <2>2. CASE Apply
    BY <2>2 DEF Apply, DriverLabels, plant, triggers
  <2>3. CASE Verify
    BY <2>3 DEF Verify, VerifyConverged, VerifyMissed, Proceed, Continue, Complete, DriverLabels, plant
  <2>4. CASE FinishPerBin
    BY <2>4 DEF FinishPerBin, Continue, Complete, DriverLabels, plant
  <2>5. CASE CompleteNoise
    BY <2>5 DEF CompleteNoise, Moves, NoiseOff, OnlyNoise, DriverLabels, triggers
  <2>6. CASE CompleteFFT
    BY <2>6 DEF CompleteFFT, Moves, OnlyFFT, DriverLabels, triggers
  <2>7. CASE HandleSettingsChange(Driver)
    <3>1. SettingsDecide(Driver)
      BY <2>7 DEF HandleSettingsChange, SettingsNoise, SettingsPhase, SettingsFFT, Moves, KInv, Turned
    <3> QED  BY <3>1 DEF SettingsDecide, DriverLabels, plant, triggers
  <2> QED  BY <2>1, <2>2, <2>3, <2>4, <2>5, <2>6, <2>7 DEF Drive
<1>2. Driver \in Threads /\ Driver # Watchdog /\ Driver # Checker /\ Driver \notin Commanders
  BY ThreadsDiffer
<1>3. \A label \in DriverLabels : label \notin Turned
  BY DEF DriverLabels, Turned
<1> QED  BY <1>1, <1>2, <1>3, KMoves

\* A loss parks a KerberosSDR; only a manual trigger leads to "recover_noise".
LEMMA KWatch ==
    ASSUME TypeOK, Kerberos, KInv, Watch
    PROVE  KInv' /\ (noise' => noise \/ (RecoverNoise /\ manual))
<1>1. noise' => noise \/ (RecoverNoise /\ manual)
  <2>1. CASE WatchdogAbort \/ WatchdogAbortFFT \/ WatchdogConsume
    BY <2>1 DEF WatchdogAbort, WatchdogAbortFFT, WatchdogConsume, NoiseOff, plant
  <2>2. CASE RecoverDecide \/ RecoverFlushOnly \/ RecoverRecheck \/ ParkFFT
    BY <2>2 DEF RecoverDecide, RecoverFlushOnly, RecoverRecheck, ParkFFT, NoiseOff, plant
  <2>3. CASE RecoverNoise
    BY <2>3 DEF RecoverNoise, Moves, KInv, Lighting
  <2>4. CASE RecoverLag \/ RecoverPhase \/ RecoverFFT \/ ParkNoise \/ ParkLag \/ ParkPhase
    BY <2>4 DEF RecoverLag, RecoverPhase, RecoverFFT, ParkNoise, ParkLag, ParkPhase, NoiseOff, OnlyFFT,
                OnlyCalibration, plant
  <2> QED  BY <2>1, <2>2, <2>3, <2>4 DEF Watch, RecoverCoherence
<1>2. Watchdog \in Threads /\ Watchdog # Driver /\ Watchdog # Checker /\ Watchdog \notin Commanders
  BY ThreadsDiffer
<1>3. CASE WatchdogConsume
  <2>1. /\ UNCHANGED pc \/ Goto(Watchdog, "recover")
        /\ pc[Watchdog] = "rest"
    BY <1>3 DEF WatchdogConsume
  <2>2. pc'[Watchdog] \notin Lighting /\ \A u \in Threads : u # Watchdog => pc'[u] = pc[u]
    BY <1>2, <2>1, TypedPlaced, GotoPlaces DEF Lighting
  <2> QED  BY <1>1, <2>2, ThreadsDiffer DEF KInv
<1>4. CASE ~WatchdogConsume
  <2>1. manual' = manual
    BY <1>4 DEF Watch, WatchdogAbort, WatchdogAbortFFT, RecoverCoherence, RecoverDecide, RecoverFlushOnly,
                RecoverNoise, RecoverLag, RecoverPhase, RecoverRecheck, RecoverFFT, ParkNoise, ParkLag,
                ParkPhase, ParkFFT, OnlyNoise, OnlyFFT, OnlyCalibration, triggers
  <2>2. UNCHANGED pc \/ \E label \in WatchdogLabels : Goto(Watchdog, label) /\ (label \in Lighting => manual)
    <3>1. CASE RecoverDecide
      BY <3>1 DEF RecoverDecide, MayRecalibrate, Lighting, WatchdogLabels
    <3>2. CASE RecoverNoise \/ RecoverLag
      BY <3>2 DEF RecoverNoise, RecoverLag, Moves, KInv, Lighting, WatchdogLabels
    <3>3. CASE ~(RecoverDecide \/ RecoverNoise \/ RecoverLag)
      BY <1>4, <3>3 DEF Watch, WatchdogAbort, WatchdogAbortFFT, RecoverCoherence, RecoverFlushOnly,
                        RecoverPhase, RecoverRecheck, RecoverFFT, ParkNoise, ParkLag, ParkPhase, ParkFFT,
                        Moves, Lighting, WatchdogLabels
    <3> QED  BY <3>1, <3>2, <3>3
  <2>3. \A label \in WatchdogLabels : label \notin Turned
    BY DEF WatchdogLabels, Turned
  <2>4. CASE UNCHANGED pc
    BY <1>1, <2>1, <2>4 DEF KInv
  <2>5. CASE \E label \in WatchdogLabels : Goto(Watchdog, label) /\ (label \in Lighting => manual)
    BY <1>1, <1>2, <2>1, <2>3, <2>5, KMoves
  <2> QED  BY <1>1, <2>2, <2>4, <2>5
<1> QED  BY <1>1, <1>3, <1>4

LEMMA KCommand ==
    ASSUME TypeOK, KInv, NEW t \in Commanders, Command(t)
    PROVE  KInv' /\ (noise' => noise \/ Switch(t))
<1>1. /\ manual' = manual /\ (noise' => noise \/ Switch(t))
      /\ UNCHANGED pc \/ \E label \in {"settings", "decide", "enter_phase", "leave_phase"} : Goto(t, label)
  <2>1. CASE Retune(t) \/ EnterWideband(t) \/ LeaveWideband(t)
    BY <2>1 DEF Retune, EnterWideband, LeaveWideband, plant, triggers
  <2>2. CASE Switch(t)
    BY <2>2 DEF Switch, triggers
  <2>3. CASE PerBinEnable(t) \/ PerBinDisable(t)
    BY <2>3 DEF PerBinEnable, PerBinDisable, plant, triggers
  <2>4. CASE ForceRecal(t) \/ ResetLagCommand(t) \/ Scanner(t)
    BY <2>4 DEF ForceRecal, ResetLagCommand, ResetLag, Begin, Scanner, plant, triggers
  <2> QED  BY <2>1, <2>2, <2>3, <2>4 DEF Command
<1>2. t \in Threads /\ t # Watchdog /\ t # Checker
  BY ThreadsDiffer
<1>3. \A label \in {"settings", "decide", "enter_phase", "leave_phase"} : label \notin Turned
  BY DEF Turned
<1> QED  BY <1>1, <1>2, <1>3, KMoves

LEMMA KExecute ==
    ASSUME TypeOK, Kerberos, KInv, NEW t \in Commanders, Execute(t)
    PROVE  KInv' /\ (noise' => noise \/ LeaveNoise(t))
<1>1. ~(SettingsNoise(t) \/ SettingsPhase(t) \/ SettingsFFT(t))
  BY DEF SettingsNoise, SettingsPhase, SettingsFFT, Moves, KInv, Turned
<1>2. /\ manual' = manual /\ (noise' => noise \/ LeaveNoise(t))
      /\ \E label \in CommandLabels \ Turned : Goto(t, label)
  <2>1. CASE CooldownDecide(t) \/ CooldownNoise(t) \/ CooldownPhase(t) \/ SettingsDecide(t)
    BY <2>1 DEF CooldownDecide, CooldownNoise, CooldownPhase, SettingsDecide, Moves, NoiseOff, OnlyNoise,
                CommandLabels, Turned, plant, triggers
  <2>2. CASE EnterPhase(t) \/ EnterFFT(t)
    BY <2>2 DEF EnterPhase, EnterFFT, NoiseOff, OnlyFFT, CommandLabels, Turned, triggers
  <2>3. CASE LeavePhase(t) \/ LeaveFFT(t) \/ LeaveNoise(t) \/ LeaveFlush(t)
    BY <2>3 DEF LeavePhase, LeaveFFT, LeaveNoise, LeaveFlush, Moves, OnlyNoise, OnlyFFT, CommandLabels,
                Turned, plant, triggers
  <2> QED  BY <1>1, <2>1, <2>2, <2>3 DEF Execute, HandleSettingsChange
<1>3. t \in Threads /\ t # Watchdog /\ t # Checker
  BY ThreadsDiffer
<1> QED  BY <1>2, <1>3, KMoves

LEMMA KNext ==
    ASSUME TypeOK, Kerberos, KInv, [Next]_vars
    PROVE  /\ KInv'
           /\ ~noise /\ noise' => \/ RecoverNoise /\ manual
                                  \/ \E t \in Commanders : Switch(t) \/ LeaveNoise(t)
<1>1. ~PeriodicCheck
  BY DEF PeriodicCheck, CheckBegin, Checkable, CheckNoise, CheckFFT, CheckMeasure, CheckRestore,
         CheckFFTBack, CheckNoiseBack, CheckReport, Moves, KInv
<1> QED  BY <1>1, KCorrelation, KServo, KDrive, KWatch, KCommand, KExecute DEF Next

LEMMA KerberosInvariant == Kerberos => (Spec => []KInv)
<1> SUFFICES ASSUME Kerberos PROVE Spec => []KInv
  OBVIOUS
<1>1. Init => KInv
  BY ThreadsDiffer DEF Init, KInv, Turned, Lighting
<1>2. TypeOK /\ KInv /\ [Next]_vars => KInv'
  BY KNext
<1> QED  BY <1>1, <1>2, TypeCorrect, PTL DEF Spec


\* The noise source of a KerberosSDR is switched on by recover_coherence after a
\* manual trigger, by the user's switch and on the way back from wideband mode,
\* and by nothing else, whatever clients do in any number of threads.
THEOREM KerberosNoise == Spec => KerberosNoiseCauses
<1>1. CASE Kerberos
  <2>1. TypeOK /\ KInv /\ [Next]_vars =>
            (Kerberos /\ ~noise /\ noise' =>
                \/ RecoverNoise /\ manual
                \/ \E t \in Commanders : Switch(t) \/ LeaveNoise(t))
    BY <1>1, KNext
  <2>2. Spec => []KInv
    BY <1>1, KerberosInvariant
  <2> QED  BY <2>1, <2>2, TypeCorrect, PTL DEF Spec, KerberosNoiseCauses
<1>2. CASE ~Kerberos
  <2>1. Kerberos /\ ~noise /\ noise' =>
            \/ RecoverNoise /\ manual
            \/ \E t \in Commanders : Switch(t) \/ LeaveNoise(t)
    BY <1>2
  <2> QED  BY <2>1, PTL DEF KerberosNoiseCauses
<1> QED  BY <1>1, <1>2

\* A cooldown is that of the gain or of the array, and the driver judges no
\* phases of a finished calibration.
KeepInv ==
    /\ \A t \in Commanders :
          /\ pc[t] = "decide" => cmd[t] \in Retunes
          /\ pc[t] \in {"cooldown_noise", "cooldown_phase"} => cmd[t] \in {"set_gain", "set_array"}
    /\ pc[Driver] \in {"apply", "verify"} => State # "CONVERGED"

\* A restart of the phase machine by another thread than the driver.
RestartBy(t) == CooldownPhase(t) \/ SettingsPhase(t) \/ EnterPhase(t) \/ LeavePhase(t)
Restarts == RecoverPhase \/ ParkPhase \/ \E t \in Commanders : RestartBy(t)
NoCounts ==
    phase_compensation.convergence_count = 0 /\ phase_compensation.checks_since_compensation = 0

\* Of the other threads' steps each leaves the phase machine alone or restarts
\* it; the restart on the way into wideband mode keeps a count.
LEMMA OthersRestart ==
    ASSUME TypeOK, [Next]_vars, ~Drive
    PROVE  \/ phase_compensation' = phase_compensation
           \/ /\ Restarts /\ State' # "CONVERGED"
              /\ NoCounts' \/ \E t \in Commanders : EnterPhase(t)
<1>1. \A state \in {"WAITING_FOR_STABILITY", "WAITING_FOR_LAG_COMPLETION", "MEASURING_INITIAL_PHASE"} :
          phase_compensation' = Restarted(state) => NoCounts' /\ State' # "CONVERGED"
  BY DEF Restarted, NoCounts, State
<1>2. ASSUME NEW t \in Commanders, Command(t)
      PROVE  phase_compensation' = phase_compensation
  BY <1>2 DEF Command, Retune, EnterWideband, LeaveWideband, Switch, PerBinEnable, PerBinDisable,
              ForceRecal, ResetLagCommand, ResetLag, Scanner, machine
<1>3. ASSUME NEW t \in Commanders, Execute(t)
      PROVE  \/ phase_compensation' = phase_compensation
             \/ RestartBy(t) /\ State' # "CONVERGED" /\ (NoCounts' \/ EnterPhase(t))
  <2>1. CASE CooldownPhase(t) \/ SettingsPhase(t)
    BY <1>1, <2>1 DEF CooldownPhase, SettingsPhase, RestartPhase, RestartBy
  <2>2. CASE LeavePhase(t)
    BY <1>1, <2>2 DEF LeavePhase, RestartBy
  <2>3. CASE EnterPhase(t)
    <3>1. State' # "CONVERGED"
      BY <2>3 DEF EnterPhase, State, TypeOK, PhaseOK, PhaseRecord
    <3> QED  BY <2>3, <3>1 DEF RestartBy
  <2>4. CASE ~RestartBy(t)
    BY <1>3, <2>4 DEF Execute, CooldownDecide, CooldownNoise, EnterFFT, LeaveFFT, LeaveNoise, LeaveFlush,
                      HandleSettingsChange, SettingsDecide, SettingsNoise, SettingsFFT, OnlyNoise, OnlyFFT,
                      RestartBy, machine
  <2> QED  BY <2>1, <2>2, <2>3, <2>4 DEF RestartBy
<1>4. ASSUME Watch
      PROVE  \/ phase_compensation' = phase_compensation
             \/ Restarts /\ NoCounts' /\ State' # "CONVERGED"
  <2>1. CASE RecoverPhase \/ ParkPhase
    BY <1>1, <2>1 DEF RecoverPhase, ParkPhase, RestartPhase, Restarts
  <2>2. CASE ~(RecoverPhase \/ ParkPhase)
    BY <1>4, <2>2 DEF Watch, WatchdogAbort, WatchdogAbortFFT, WatchdogConsume, RecoverCoherence,
                      RecoverDecide, RecoverFlushOnly, RecoverNoise, RecoverLag, RecoverRecheck, RecoverFFT,
                      ParkNoise, ParkLag, ParkFFT, ResetLag, OnlyNoise, OnlyFFT, machine
  <2> QED  BY <2>1, <2>2
<1>5. PeriodicCheck => phase_compensation' = phase_compensation
  BY DEF PeriodicCheck, CheckBegin, CheckNoise, CheckFFT, CheckMeasure, CheckRestore, CheckFFTBack,
         CheckNoiseBack, CheckReport, OnlyNoise, OnlyFFT, OnlyControl, machine
<1>6. Convert \/ Correlation \/ (\E c \in Channels : Poll(c) \/ LagStep(c)) =>
          phase_compensation' = phase_compensation
  BY DEF Convert, Correlation, CorrSkip, CorrTake, CorrCompute, CorrPublish, Poll, LagStep, machine
<1>7. LoseCoherence \/ ScannerHop \/ UNCHANGED vars \/ (\E d \in Deadlines : TimePasses(d)) =>
          phase_compensation' = phase_compensation
  BY DEF LoseCoherence, ScannerHop, TimePasses, vars, machine
<1> QED  BY <1>2, <1>3, <1>4, <1>5, <1>6, <1>7 DEF Next, Restarts

\* The driver leaves CONVERGED to itself.
LEMMA DriverStays ==
    ASSUME TypeOK, KeepInv, pc[Driver] \notin Turned, Drive, State = "CONVERGED"
    PROVE  State' = "CONVERGED"
<1>1. phase_compensation \in PhaseRecord
  BY DEF TypeOK, PhaseOK
<1>2. ~Apply /\ ~Verify
  BY DEF KeepInv, Apply, Verify
<1>3. CASE Judge
  BY <1>3 DEF Judge, JudgeStability, JudgeLag, JudgePhase, machine, State
<1>4. CASE FinishPerBin
  BY <1>1, <1>4 DEF FinishPerBin, Continue, Complete, State
<1>5. CASE CompleteNoise \/ CompleteFFT
  BY <1>5 DEF CompleteNoise, CompleteFFT, OnlyNoise, OnlyFFT, machine, State
<1>6. CASE HandleSettingsChange(Driver)
  <2>1. SettingsDecide(Driver)
    BY <1>6 DEF HandleSettingsChange, SettingsNoise, SettingsPhase, SettingsFFT, Moves, Turned
  <2> QED  BY <2>1 DEF SettingsDecide, machine, State
<1> QED  BY <1>2, <1>3, <1>4, <1>5, <1>6 DEF Drive

\* Where the driver judges phases next, the calibration is not finished.
LEMMA DriverJudges ==
    ASSUME TypeOK, pc'[Driver] \in {"apply", "verify"}, Drive
    PROVE  State' # "CONVERGED"
<1>1. Driver \in Threads /\ Placed
  BY ThreadsDiffer, TypedPlaced
<1>2. \A label : Goto(Driver, label) => label \in {"apply", "verify"}
  BY <1>1, GotoPlaces
<1>3. ~(Goto(Driver, "rest") \/ Goto(Driver, "settings") \/ Goto(Driver, "complete_noise")
        \/ Goto(Driver, "complete_fft") \/ Goto(Driver, "settings_noise")
        \/ Goto(Driver, "settings_phase") \/ Goto(Driver, "settings_fft")
        \/ Goto(Driver, "give_up") \/ Goto(Driver, "publish") \/ Goto(Driver, "wait_per_bin"))
  BY <1>2
<1>4. ~Apply /\ ~Verify /\ ~FinishPerBin /\ ~CompleteNoise /\ ~CompleteFFT
  BY <1>3 DEF Apply, Verify, VerifyConverged, VerifyMissed, Proceed, Continue, Complete, FinishPerBin,
              CompleteNoise, CompleteFFT, Moves
<1>5. ~HandleSettingsChange(Driver)
  <2>1. ~SettingsDecide(Driver)
    BY <1>3 DEF SettingsDecide
  <2> QED  BY <1>3, <2>1 DEF HandleSettingsChange, SettingsNoise, SettingsPhase, SettingsFFT, Moves
<1>6. Judge
  BY <1>4, <1>5 DEF Drive
<1>7. JudgePhase /\ State \in {"MEASURING_INITIAL_PHASE", "VERIFYING_CONVERGENCE"}
  BY <1>3, <1>6 DEF Judge, JudgeStability, JudgeLag, JudgePhase, DriverRests
<1> QED  BY <1>7 DEF JudgePhase, machine, State


\* Where a step takes the clients and the driver.
LEMMA OtherPlaces ==
    ASSUME TypeOK, [Next]_vars, ~\E t \in Commanders : Command(t) \/ Execute(t)
    PROVE  UNCHANGED <<cmd, operating_mode>> /\ \A t \in Commanders : pc'[t] = pc[t]
<1>1. UNCHANGED <<cmd, operating_mode>> /\ (UNCHANGED pc \/ \E u \in Threads \ Commanders : \E label : Goto(u, label))
  <2>1. CASE \/ Convert \/ Correlation \/ LoseCoherence \/ ScannerHop \/ UNCHANGED vars
             \/ \E d \in Deadlines : TimePasses(d)
    BY <2>1 DEF Convert, Correlation, CorrSkip, CorrTake, CorrCompute, CorrPublish, LoseCoherence,
                ScannerHop, TimePasses, vars, mode
  <2>2. ASSUME NEW c \in Channels, Poll(c) \/ LagStep(c)
        PROVE  UNCHANGED <<cmd, operating_mode>> /\ (UNCHANGED pc \/ \E label : Goto(c, label))
    BY <2>2 DEF Poll, LagStep, mode
  <2>3. CASE Drive
    <3>1. UNCHANGED <<cmd, operating_mode>> /\ \E label : Goto(Driver, label)
      <4>1. CASE Judge \/ Apply
        BY <4>1 DEF Judge, JudgeStability, JudgeLag, JudgePhase, DriverRests, Apply, mode
      <4>2. CASE Verify \/ FinishPerBin
        BY <4>2 DEF Verify, VerifyConverged, VerifyMissed, Proceed, Continue, Complete, FinishPerBin, mode
      <4>3. CASE CompleteNoise \/ CompleteFFT
        BY <4>3 DEF CompleteNoise, CompleteFFT, Moves, OnlyNoise, OnlyFFT, mode
      <4>4. CASE HandleSettingsChange(Driver)
        BY <4>4 DEF HandleSettingsChange, SettingsDecide, SettingsNoise, SettingsPhase, SettingsFFT, Moves,
                    OnlyNoise, OnlyCalibration, mode
      <4> QED  BY <2>3, <4>1, <4>2, <4>3, <4>4 DEF Drive
    <3> QED  BY <3>1, ThreadsDiffer
  <2>4. CASE Watch
    <3>1. UNCHANGED <<cmd, operating_mode>> /\ (UNCHANGED pc \/ \E label : Goto(Watchdog, label))
      BY <2>4 DEF Watch, WatchdogAbort, WatchdogAbortFFT, WatchdogConsume, RecoverCoherence, RecoverDecide,
                  RecoverFlushOnly, RecoverNoise, RecoverLag, RecoverPhase, RecoverRecheck, RecoverFFT,
                  ParkNoise, ParkLag, ParkPhase, ParkFFT, Moves, OnlyNoise, OnlyFFT, OnlyCalibration,
                  mode
    <3> QED  BY <3>1, ThreadsDiffer
  <2>5. CASE PeriodicCheck
    <3>1. UNCHANGED <<cmd, operating_mode>> /\ \E label : Goto(Checker, label)
      BY <2>5 DEF PeriodicCheck, CheckBegin, CheckNoise, CheckFFT, CheckMeasure, CheckRestore, CheckFFTBack,
                  CheckNoiseBack, CheckReport, Moves, OnlyNoise, OnlyFFT, OnlyControl, mode
    <3> QED  BY <3>1, ThreadsDiffer
  <2>6. \A c \in Channels : c \in Threads \ Commanders
    BY ThreadsDiffer
  <2> QED  BY <2>1, <2>2, <2>3, <2>4, <2>5, <2>6 DEF Next
<1>2. \A t \in Commanders : t \in Threads
  BY ThreadsDiffer
<1> QED  BY <1>1, <1>2, TypedPlaced, GotoPlaces

LEMMA DriverPlace ==
    ASSUME TypeOK, [Next]_vars, ~Drive
    PROVE  pc'[Driver] = pc[Driver] \/ pc'[Driver] \in {"lag", "judge"}
<1>1. UNCHANGED pc \/ (\E u \in Threads \ {Driver} : \E label : Goto(u, label))
      \/ Goto(Driver, "lag") \/ Goto(Driver, "judge")
  <2>1. CASE \/ Convert \/ Correlation \/ LoseCoherence \/ ScannerHop \/ UNCHANGED vars
             \/ \E d \in Deadlines : TimePasses(d)
    BY <2>1 DEF Convert, Correlation, CorrSkip, CorrTake, CorrCompute, CorrPublish, LoseCoherence,
                ScannerHop, TimePasses, vars
  <2>2. ASSUME NEW c \in Channels, Poll(c) \/ LagStep(c)
        PROVE  \/ UNCHANGED pc \/ Goto(Driver, "lag") \/ Goto(Driver, "judge")
               \/ c # Driver /\ \E label : Goto(c, label)
    BY <2>2 DEF Poll, LagStep
  <2>3. CASE Watch
    <3>1. UNCHANGED pc \/ \E label : Goto(Watchdog, label)
      BY <2>3 DEF Watch, WatchdogAbort, WatchdogAbortFFT, WatchdogConsume, RecoverCoherence, RecoverDecide,
                  RecoverFlushOnly, RecoverNoise, RecoverLag, RecoverPhase, RecoverRecheck, RecoverFFT,
                  ParkNoise, ParkLag, ParkPhase, ParkFFT, Moves
    <3> QED  BY <3>1, ThreadsDiffer
  <2>4. CASE PeriodicCheck
    <3>1. \E label : Goto(Checker, label)
      BY <2>4 DEF PeriodicCheck, CheckBegin, CheckNoise, CheckFFT, CheckMeasure, CheckRestore, CheckFFTBack,
                  CheckNoiseBack, CheckReport, Moves
    <3> QED  BY <3>1, ThreadsDiffer
  <2>5. ASSUME NEW t \in Commanders, Command(t) \/ Execute(t)
        PROVE  UNCHANGED pc \/ \E label : Goto(t, label)
    <3>1. CASE Command(t)
      BY <3>1 DEF Command, Retune, EnterWideband, LeaveWideband, Switch, PerBinEnable, PerBinDisable,
                  ForceRecal, ResetLagCommand, Scanner
    <3>2. CASE Execute(t)
      BY <3>2 DEF Execute, CooldownDecide, CooldownNoise, CooldownPhase, EnterPhase, EnterFFT, LeavePhase,
                  LeaveFFT, LeaveNoise, LeaveFlush, HandleSettingsChange, SettingsDecide, SettingsNoise,
                  SettingsPhase, SettingsFFT, Moves
    <3> QED  BY <2>5, <3>1, <3>2
  <2>6. /\ \A t \in Commanders : t \in Threads \ {Driver}
        /\ \A c \in Channels : c \in Threads
    BY ThreadsDiffer
  <2> QED  BY <2>1, <2>2, <2>3, <2>4, <2>5, <2>6 DEF Next
<1>2. Driver \in Threads
  BY ThreadsDiffer
<1> QED  BY <1>1, <1>2, TypedPlaced, GotoPlaces

LEMMA KeepClients ==
    ASSUME TypeOK, Kerberos, KInv, KeepInv, [Next]_vars
    PROVE  \A t \in Commanders :
              /\ pc'[t] = "decide" => cmd'[t] \in Retunes
              /\ pc'[t] \in {"cooldown_noise", "cooldown_phase"} => cmd'[t] \in {"set_gain", "set_array"}
<1>1. CASE ~\E t \in Commanders : Command(t) \/ Execute(t)
  BY <1>1, OtherPlaces DEF KeepInv
<1>2. ASSUME NEW t \in Commanders, Command(t) \/ Execute(t), NEW u \in Commanders
      PROVE  /\ pc'[u] = "decide" => cmd'[u] \in Retunes
             /\ pc'[u] \in {"cooldown_noise", "cooldown_phase"} => cmd'[u] \in {"set_gain", "set_array"}
  <2>1. cmd \in [Commanders -> Retunes \cup {"none"}] /\ t \in Threads /\ u \in Threads
    BY ThreadsDiffer DEF TypeOK, PlacesOK
  <2> DEFINE Away == CommandLabels \ {"decide", "cooldown_noise", "cooldown_phase"}
  <2>2. \/ UNCHANGED <<pc, cmd>>
        \/ \E label \in Away : Goto(t, label) /\ UNCHANGED cmd
        \/ Goto(t, "rest") /\ cmd' = [cmd EXCEPT ![t] = "none"]
        \/ \E c \in Retunes : Goto(t, "decide") /\ cmd' = [cmd EXCEPT ![t] = c]
        \/ \E label \in {"cooldown_noise", "cooldown_phase"} :
              Goto(t, label) /\ UNCHANGED cmd /\ cmd[t] \in {"set_gain", "set_array"}
    <3>1. CASE Retune(t)
      BY <3>1 DEF Retune, CommandLabels, SettingsLabels
    <3>2. CASE EnterWideband(t) \/ LeaveWideband(t)
      BY <3>2 DEF EnterWideband, LeaveWideband, CommandLabels
    <3>3. CASE Switch(t) \/ PerBinEnable(t) \/ PerBinDisable(t) \/ ForceRecal(t)
               \/ ResetLagCommand(t) \/ Scanner(t)
      BY <3>3 DEF Switch, PerBinEnable, PerBinDisable, ForceRecal, ResetLagCommand, Scanner,
                  CommandLabels, SettingsLabels
    <3>4. CASE CooldownDecide(t)
      <4>1. KeepsCalibration(cmd[t]) \/ LeavesAlone(cmd[t]) \/ cmd[t] \in {"set_gain", "set_array"}
        BY <3>4 DEF CooldownDecide, KeepInv, KeepsCalibration, LeavesAlone, Retunes
      <4> QED  BY <3>4, <4>1 DEF CooldownDecide
    <3>5. CASE CooldownNoise(t) \/ CooldownPhase(t)
      BY <3>5 DEF CooldownNoise, CooldownPhase, Moves, OnlyNoise, KeepInv
    <3>6. CASE EnterPhase(t) \/ EnterFFT(t) \/ LeavePhase(t) \/ LeaveFFT(t) \/ LeaveNoise(t) \/ LeaveFlush(t)
      BY <3>6 DEF EnterPhase, EnterFFT, LeavePhase, LeaveFFT, LeaveNoise, LeaveFlush, Moves, OnlyNoise,
                  OnlyFFT, CommandLabels
    <3>7. CASE HandleSettingsChange(t)
      BY <3>7 DEF HandleSettingsChange, SettingsDecide, SettingsNoise, SettingsPhase, SettingsFFT, Moves,
                  OnlyNoise, OnlyCalibration, CommandLabels, SettingsLabels
    <3> QED  BY <1>2, <3>1, <3>2, <3>3, <3>4, <3>5, <3>6, <3>7 DEF Command, Execute
  <2>3. \A label : Goto(t, label) => pc'[t] = label /\ (u # t => pc'[u] = pc[u])
    BY <2>1, TypedPlaced, GotoPlaces
  <2>4. \A c : cmd' = [cmd EXCEPT ![t] = c] => cmd'[t] = c /\ (u # t => cmd'[u] = cmd[u])
    BY <2>1
  <2> QED  BY <2>2, <2>3, <2>4 DEF KeepInv
<1> QED  BY <1>1, <1>2

Given ==
    \/ RecoverPhase /\ manual
    \/ ParkPhase
    \/ \E t \in Commanders :
          \/ CooldownPhase(t) /\ cmd[t] \in {"set_gain", "set_array"}
          \/ EnterPhase(t) \/ LeavePhase(t)

LEMMA KeepNext ==
    ASSUME TypeOK, Kerberos, KInv, KeepInv, [Next]_vars
    PROVE  KeepInv' /\ (State = "CONVERGED" /\ State' # State => Given)
<1>1. pc'[Driver] \in {"apply", "verify"} => State' # "CONVERGED"
  <2>1. CASE Drive
    BY <2>1, DriverJudges
  <2>2. CASE ~Drive
    BY <2>2, DriverPlace, OthersRestart DEF KeepInv, State
  <2> QED  BY <2>1, <2>2
<1>2. ASSUME State = "CONVERGED", State' # State PROVE Given
  <2>1. ~Drive /\ Restarts
    BY <1>2, DriverStays, OthersRestart DEF KInv, State
  <2>2. RecoverPhase => manual
    BY DEF RecoverPhase, Moves, KInv, Lighting
  <2>3. \A t \in Commanders : ~SettingsPhase(t)
    BY DEF SettingsPhase, Moves, KInv, Turned
  <2>4. \A t \in Commanders : CooldownPhase(t) => cmd[t] \in {"set_gain", "set_array"}
    BY DEF CooldownPhase, KeepInv
  <2> QED  BY <2>1, <2>2, <2>3, <2>4 DEF Restarts, RestartBy, Given
<1> QED  BY <1>1, <1>2, KeepClients DEF KeepInv

\* A KerberosSDR gives up a finished calibration in the restart of a recovery the
\* user asked for, in the parking after a loss, in wideband mode and in the
\* cooldown after a change of gain or array, and by nothing else, whatever its
\* clients send, in any number of threads, and whatever it interrupts: the other
\* retunes mark it stale.  Its noise source goes on as KerberosNoise says.
THEOREM KerberosKeeps == Spec => KerberosCauses
<1>1. Spec => KerberosKeepsCalibration
  <2>1. CASE Kerberos
    <3>1. Init => KeepInv
      BY ThreadsDiffer DEF Init, KeepInv
    <3>2. TypeOK /\ KInv /\ KeepInv /\ [Next]_vars => KeepInv'
      BY <2>1, KeepNext
    <3>3. TypeOK /\ KInv /\ KeepInv /\ [Next]_vars =>
              (Kerberos /\ State = "CONVERGED" /\ State' # State => Given)
      BY <2>1, KeepNext
    <3>4. Spec => []KInv
      BY <2>1, KerberosInvariant
    <3>5. Spec => []KeepInv
      BY <3>1, <3>2, <3>4, TypeCorrect, PTL DEF Spec
    <3> QED  BY <3>3, <3>4, <3>5, TypeCorrect, PTL DEF Spec, KerberosKeepsCalibration, Given
  <2>2. CASE ~Kerberos
    <3>1. Kerberos /\ State = "CONVERGED" /\ State' # State => Given
      BY <2>2
    <3> QED  BY <3>1, PTL DEF KerberosKeepsCalibration, Given
  <2> QED  BY <2>1, <2>2
<1> QED  BY <1>1, KerberosNoise, PTL DEF KerberosCauses


-----------------------------------------------------------------------------
(* Completion.  The driver looks at the state, then verifies without looking *)
(* again.  A restart that comes between leaves the counters at zero, so far  *)
(* from the counts required that the verification cannot end (the counts are *)
(* 4 and 10 in core/types.hpp); wideband mode is entered without that, but   *)
(* not left.                                                                 *)

SeveralNeeded == RequiredConv >= 2 /\ MaxChecks >= 2

CompletionInv ==
    /\ \A t \in Commanders : pc[t] = "enter_phase" => operating_mode = "WIDEBAND_SCAN"
    /\ pc[Driver] = "verify" => State = "VERIFYING_CONVERGENCE" \/ NoCounts \/ Wideband

\* Wideband mode is left by LeavePhase, and nobody switches to it or from it
\* while another does.
LEMMA WidebandPlaces ==
    ASSUME TypeOK, CompletionInv, [Next]_vars
    PROVE  /\ \A t \in Commanders : pc'[t] = "enter_phase" => operating_mode' = "WIDEBAND_SCAN"
           /\ Wideband => Wideband' \/ \E t \in Commanders : LeavePhase(t)
<1>1. CASE ~\E t \in Commanders : Command(t) \/ Execute(t)
  BY <1>1, OtherPlaces DEF CompletionInv, Wideband
<1>2. CASE \E t \in Commanders : Command(t) \/ Execute(t)
  <2>1. PICK t \in Commanders : Command(t) \/ Execute(t)
    BY <1>2
  <2>2. \/ UNCHANGED operating_mode /\ UNCHANGED pc
        \/ UNCHANGED operating_mode /\ \E label \in CommandLabels \ {"enter_phase"} : Goto(t, label)
        \/ operating_mode' = "WIDEBAND_SCAN" /\ Goto(t, "enter_phase")
        \/ Goto(t, "leave_phase") /\ SettingsMutexFree
    <3>1. CASE EnterWideband(t) \/ LeaveWideband(t)
      BY <3>1 DEF EnterWideband, LeaveWideband
    <3>2. CASE Retune(t) \/ Switch(t) \/ PerBinEnable(t) \/ PerBinDisable(t)
      BY <3>2 DEF Retune, Switch, PerBinEnable, PerBinDisable, CommandLabels, SettingsLabels, mode
    <3>3. CASE ForceRecal(t) \/ ResetLagCommand(t) \/ Scanner(t)
      BY <3>3 DEF ForceRecal, ResetLagCommand, Scanner, mode
    <3>4. CASE CooldownDecide(t) \/ CooldownNoise(t) \/ CooldownPhase(t) \/ HandleSettingsChange(t)
      BY <3>4 DEF CooldownDecide, CooldownNoise, CooldownPhase, HandleSettingsChange, SettingsDecide,
                  SettingsNoise, SettingsPhase, SettingsFFT, Moves, OnlyNoise, OnlyCalibration,
                  CommandLabels, SettingsLabels, mode
    <3>5. CASE EnterPhase(t) \/ EnterFFT(t) \/ LeavePhase(t) \/ LeaveFFT(t) \/ LeaveNoise(t) \/ LeaveFlush(t)
      BY <3>5 DEF EnterPhase, EnterFFT, LeavePhase, LeaveFFT, LeaveNoise, LeaveFlush, Moves, OnlyNoise,
                  OnlyFFT, CommandLabels, mode
    <3> QED  BY <2>1, <3>1, <3>2, <3>3, <3>4, <3>5 DEF Command, Execute
  <2>3. pc[t] = "leave_phase" => LeavePhase(t)
    BY <2>1 DEF Command, Retune, EnterWideband, LeaveWideband, Switch, PerBinEnable, PerBinDisable,
                ForceRecal, ResetLagCommand, Scanner, Begin, Execute, CooldownDecide, CooldownNoise,
                CooldownPhase, EnterPhase, EnterFFT, LeaveFFT, LeaveNoise, LeaveFlush,
                HandleSettingsChange, SettingsDecide, SettingsNoise, SettingsPhase, SettingsFFT, Moves
  <2>4. \A u \in Commanders : u \in Threads
    BY ThreadsDiffer
  <2>5. \A label : Goto(t, label) => pc'[t] = label /\ \A u \in Commanders : u # t => pc'[u] = pc[u]
    BY <2>4, TypedPlaced, GotoPlaces
  <2>6. SettingsMutexFree => \A u \in Commanders : pc[u] # "enter_phase"
    BY DEF SettingsMutexFree
  <2> QED  BY <2>2, <2>3, <2>5, <2>6 DEF CompletionInv, Wideband
<1> QED  BY <1>1, <1>2

\* A verification is begun in its own state.
LEMMA VerifiesThere ==
    ASSUME TypeOK, pc'[Driver] = "verify", Drive
    PROVE  State' = "VERIFYING_CONVERGENCE"
<1>1. Driver \in Threads /\ Placed
  BY ThreadsDiffer, TypedPlaced
<1>2. \A label : Goto(Driver, label) => label = "verify"
  BY <1>1, GotoPlaces
<1>3. ~\E label \in {"rest", "settings", "complete_noise", "complete_fft", "settings_noise",
                     "settings_phase", "settings_fft", "give_up", "publish", "wait_per_bin", "apply"} :
          Goto(Driver, label)
  BY <1>2
<1>4. ~Apply /\ ~Verify /\ ~FinishPerBin /\ ~CompleteNoise /\ ~CompleteFFT
  BY <1>3 DEF Apply, Verify, VerifyConverged, VerifyMissed, Proceed, Continue, Complete, FinishPerBin,
              CompleteNoise, CompleteFFT, Moves
<1>5. ~HandleSettingsChange(Driver)
  BY <1>3 DEF HandleSettingsChange, SettingsDecide, SettingsNoise, SettingsPhase, SettingsFFT, Moves
<1>6. Judge
  BY <1>4, <1>5 DEF Drive
<1>7. JudgePhase /\ State = "VERIFYING_CONVERGENCE"
  BY <1>3, <1>6 DEF Judge, JudgeStability, JudgeLag, JudgePhase, DriverRests
<1> QED  BY <1>7 DEF JudgePhase, machine, State

\* Without counts a check goes on.
LEMMA NoCountsNoEnd ==
    ASSUME SeveralNeeded, TypeOK, NoCounts, Verify
    PROVE  State' = State
<1> DEFINE checked == [phase_compensation EXCEPT !.checks_since_compensation = @ + 1]
<1>1. phase_compensation \in PhaseRecord
  BY DEF TypeOK, PhaseOK
<1>2. checked.convergence_count = 0 /\ checked.checks_since_compensation = 1
      /\ checked.state = State
  BY <1>1 DEF NoCounts, PhaseRecord, State
<1>3. VerifyConverged(checked) \/ VerifyMissed(checked)
  BY DEF Verify
<1>4. [checked EXCEPT !.convergence_count = @ + 1].convergence_count = 1
  BY <1>1 DEF NoCounts, PhaseRecord
<1>5. RequiredConv \in Nat /\ MaxChecks \in Nat
  BY ConstantsAssumption
<1>6. CASE VerifyConverged(checked)
  <2>1. Continue([checked EXCEPT !.convergence_count = @ + 1])
    BY <1>4, <1>5, <1>6 DEF VerifyConverged, SeveralNeeded
  <2> QED  BY <1>1, <2>1 DEF Continue, State, PhaseRecord
<1>7. CASE VerifyMissed(checked)
  <2>1. Continue([checked EXCEPT !.convergence_count = 0])
    BY <1>2, <1>5, <1>7 DEF VerifyMissed, SeveralNeeded
  <2> QED  BY <1>1, <2>1 DEF Continue, State, PhaseRecord
<1> QED  BY <1>3, <1>6, <1>7

LEMMA CompletionNext ==
    ASSUME SeveralNeeded, TypeOK, CompletionInv, [Next]_vars
    PROVE  /\ CompletionInv'
           /\ State' = "CONVERGED" /\ State # "CONVERGED" =>
                  State \in {"VERIFYING_CONVERGENCE", "MEASURING_PER_BIN"} \/ Wideband
<1>2. pc'[Driver] = "verify" => State' = "VERIFYING_CONVERGENCE" \/ NoCounts' \/ Wideband'
  <2>1. CASE Drive
    BY <2>1, VerifiesThere
  <2>2. CASE ~Drive
    <3>1. (\E t \in Commanders : LeavePhase(t)) => NoCounts'
      BY DEF LeavePhase, Restarted, NoCounts
    <3>2. (\E t \in Commanders : EnterPhase(t)) => Wideband'
      BY DEF EnterPhase, CompletionInv, Wideband, mode
    <3>3. CASE phase_compensation' = phase_compensation
      BY <2>2, <3>1, <3>3, DriverPlace, WidebandPlaces DEF CompletionInv, NoCounts, State
    <3>4. CASE NoCounts' \/ \E t \in Commanders : EnterPhase(t)
      BY <3>2, <3>4
    <3> QED  BY <2>2, <3>3, <3>4, OthersRestart
  <2> QED  BY <2>1, <2>2
<1>3. ASSUME State' = "CONVERGED", State # "CONVERGED"
      PROVE  State \in {"VERIFYING_CONVERGENCE", "MEASURING_PER_BIN"} \/ Wideband
  <2>1. phase_compensation \in PhaseRecord
    BY DEF TypeOK, PhaseOK
  <2>2. Drive
    BY <1>3, OthersRestart DEF State
  <2>3. ~Judge
    BY <1>3, <2>1 DEF Judge, JudgeStability, JudgeLag, JudgePhase, machine, State, PhaseRecord
  <2>4. ~Apply
    BY <1>3, <2>1 DEF Apply, Applied, State, PhaseRecord
  <2>5. CASE Verify
    BY <1>3, <2>5, NoCountsNoEnd DEF CompletionInv, Verify
  <2>6. CASE FinishPerBin
    BY <1>3, <2>6 DEF FinishPerBin, Continue, State
  <2>7. ~CompleteNoise /\ ~CompleteFFT
    BY <1>3 DEF CompleteNoise, CompleteFFT, OnlyNoise, OnlyFFT, machine, State
  <2>8. ~HandleSettingsChange(Driver)
    BY <1>3 DEF HandleSettingsChange, SettingsDecide, SettingsNoise, SettingsPhase, SettingsFFT,
                RestartPhase, Restarted, OnlyNoise, machine, State
  <2> QED  BY <2>2, <2>3, <2>4, <2>5, <2>6, <2>7, <2>8 DEF Drive
<1> QED  BY <1>2, <1>3, WidebandPlaces DEF CompletionInv

\* A calibration is completed out of its verification or the measurement of its
\* equalizer, whatever restarts it between the driver's look at the state and
\* its count (check_phase_convergence, complete_phase_calibration_locked), but
\* for wideband mode, and whatever the clients send.
THEOREM CompletesVerified == SeveralNeeded => (Spec => OnlyVerificationCompletes)
<1> SUFFICES ASSUME SeveralNeeded PROVE Spec => OnlyVerificationCompletes
  OBVIOUS
<1>1. Init => CompletionInv
  BY ThreadsDiffer DEF Init, CompletionInv
<1>2. TypeOK /\ CompletionInv /\ [Next]_vars => CompletionInv'
  BY CompletionNext
<1>3. TypeOK /\ CompletionInv /\ [Next]_vars =>
          (State' = "CONVERGED" /\ State # "CONVERGED" =>
              State \in {"VERIFYING_CONVERGENCE", "MEASURING_PER_BIN"} \/ Wideband)
  BY CompletionNext
<1> QED  BY <1>1, <1>2, <1>3, TypeCorrect, PTL DEF Spec, OnlyVerificationCompletes

-----------------------------------------------------------------------------
(* What a finished calibration rests on, while the clients do nothing but    *)
(* retune, as often and in as many threads as they like (OnlyRetunes):       *)
(* recoveries and checks are left to TLC.                                    *)
(*                                                                           *)
(* The verification counts readings without knowing when they were measured. *)
(* Four places keep a reading from before the last correction: the set in    *)
(* L2, the one in work, the one published and the driver's own.  Stale adds  *)
(* what they hold to what is counted.  It is 3 at most when a correction is  *)
(* applied, for the driver has dropped its own, and no step of the           *)
(* verification raises it: short of the 4 that are required.                 *)

\* Clients retune, coherence is not lost and nothing is checked.  The counts are
\* 3, 4 and 10 in core/types.hpp.
OnlyRetunes ==
    /\ ~Kerberos /\ Commands \subseteq Retunes /\ MaxLosses = 0 /\ MaxPeriodic = 0
    /\ RequiredStable \in Nat /\ RequiredStable >= 2
    /\ RequiredConv \in Nat /\ RequiredConv >= 4
    /\ MaxChecks \in Nat /\ MaxChecks >= 2

\* A client has retuned and the calibration is not restarted yet.
Deciding == {"decide", "cooldown_noise", "cooldown_phase"}
Retuning == \E t \in Commanders : pc[t] \in Deciding

\* Nothing but clients and the driver steers.
Calm ==
    /\ pc[Watchdog] = "rest" /\ pc[Checker] = "rest"
    /\ \A t \in Commanders : pc[t] \in {"rest"} \cup Deciding
    /\ ~recovery_in_progress /\ ~coherence_lost /\ ~force_recalibration
    /\ operating_mode = "COHERENT" /\ ~scanner

\* What the driver still knows when it acts on what it looked at, for a cooldown
\* may begin in between: it finds the counters at zero, and stops.
Restarting == State = "WAITING_FOR_STABILITY"
DriverKnows ==
    /\ pc[Driver] = "apply" =>
          \/ State = "MEASURING_INITIAL_PHASE"
          \/ (Restarting /\ phase_compensation.stable_nonzero_count = 0)
    /\ pc[Driver] = "verify" =>
          \/ State = "VERIFYING_CONVERGENCE"
          \/ (/\ Restarting /\ phase_compensation.convergence_count = 0
              /\ phase_compensation.checks_since_compensation = 0)
    /\ pc[Driver] \in {"complete_noise", "complete_fft"} => State = "CONVERGED"
    /\ pc[Driver] \in {"settings", "settings_noise", "settings_phase"} => Restarting
    /\ pc[Driver] = "settings_fft" => Restarting \/ State = "MEASURING_INITIAL_PHASE"
    /\ State \in {"WAITING_FOR_LAG_COMPLETION", "MEASURING_INITIAL_PHASE"} =>
          phase_compensation.convergence_count = 0

\* The FFT is on while readings are waited for.
Watching ==
    State \in {"WAITING_FOR_LAG_COMPLETION", "MEASURING_INITIAL_PHASE", "VERIFYING_CONVERGENCE",
               "MEASURING_PER_BIN"} =>
        fft_control.fft_enabled \/ pc[Driver] = "settings_fft"

\* Phases are measured, and corrected, when the lags are locked.
IsMeasured(q) == q \in {"old", "fresh"}
Reading == pc[Driver] \in {"lag", "judge", "apply", "verify"}
Verifying == State \in {"VERIFYING_CONVERGENCE", "MEASURING_PER_BIN", "CONVERGED"}
LagOfReading ==
    /\ IsMeasured(flow.result) => AllLocked
    /\ flow.at = "computed" /\ IsMeasured(flow.taken) => AllLocked
    /\ IsMeasured(flow.reading) => AllLocked
    /\ Verifying => AllLocked
    /\ flow.result # "none" /\ (flow.at # "idle" => flow.taken # "none")
    /\ Reading => flow.reading # "none"

\* Readings of before the last correction: counted, with the driver, published,
\* in work and waiting.
InHand   == IF Reading /\ flow.reading # "fresh" THEN 1 ELSE 0
Pending  == IF Driver \in unseen /\ flow.result # "fresh" THEN 1 ELSE 0
UnderWay == IF flow.at # "idle" /\ flow.taken # "fresh" THEN 1 ELSE 0
Waiting  == IF flow.l2 = "old" THEN 1 ELSE 0
Stale == phase_compensation.convergence_count + (InHand + Pending + UnderWay + Waiting)

VerdictRests ==
    /\ State \in {"MEASURING_PER_BIN", "CONVERGED"} => evidence # "none"
    /\ State = "VERIFYING_CONVERGENCE" /\ evidence = "none" => Stale <= 3
    /\ per_bin_cal.ready => equalizer_current
Verdict == Retuning \/ VerdictRests

\* The inductive invariant.
VInv == Calm /\ DriverKnows /\ Watching /\ LagOfReading /\ Verdict

-----------------------------------------------------------------------------
(* Operators, and parts that a step leaves alone. *)

LEMMA Went ==
    ASSUME TypeOK, NEW t \in Threads, NEW label, Goto(t, label)
    PROVE  pc'[t] = label /\ \A u \in Threads : u # t => pc'[u] = pc[u]
BY DEF TypeOK, PlacesOK, Goto

LEMMA FlowFields ==
    ASSUME NEW f \in FlowRecord
    PROVE  /\ /\ Outdated(f).l2 = Aged(f.l2) /\ Outdated(f).at = f.at
              /\ Outdated(f).taken = Aged(f.taken) /\ Outdated(f).result = Aged(f.result)
              /\ Outdated(f).reading = Aged(f.reading)
           /\ /\ Done(f).l2 = f.l2 /\ Done(f).at = f.at /\ Done(f).taken = f.taken
              /\ Done(f).result = f.result /\ Done(f).reading = "none"
           /\ \A g \in Flushed(f) : /\ g.at = f.at /\ g.taken = f.taken /\ g.result = f.result
                                    /\ g.reading = f.reading /\ g.l2 \in {f.l2, "none"}
<1>1. /\ Outdated(f).l2 = Aged(f.l2) /\ Outdated(f).at = f.at
      /\ Outdated(f).taken = Aged(f.taken) /\ Outdated(f).result = Aged(f.result)
      /\ Outdated(f).reading = Aged(f.reading)
  BY DEF FlowRecord, Outdated
<1>2. /\ Done(f).l2 = f.l2 /\ Done(f).at = f.at /\ Done(f).taken = f.taken
      /\ Done(f).result = f.result /\ Done(f).reading = "none"
  BY DEF FlowRecord, Done
<1>3. \A g \in Flushed(f) : /\ g.at = f.at /\ g.taken = f.taken /\ g.result = f.result
                            /\ g.reading = f.reading /\ g.l2 \in {f.l2, "none"}
  BY DEF FlowRecord, Flushed
<1> QED  BY <1>1, <1>2, <1>3

\* What a driver's step leaves of the measurements: as they are or aged, the
\* reading dropped.
LEMMA Leftovers ==
    ASSUME NEW f \in FlowRecord, NEW g,
           \/ g \in {Done(f), Outdated(f), Done(Outdated(f))}
           \/ g \in Flushed(f) \cup Flushed(Done(f)) \cup Flushed(Done(Outdated(f)))
    PROVE  /\ g.at = f.at /\ g.taken \in {f.taken, Aged(f.taken)}
           /\ g.result \in {f.result, Aged(f.result)}
           /\ g.reading \in {f.reading, Aged(f.reading), "none"}
<1>1. Outdated(f) \in FlowRecord /\ Done(f) \in FlowRecord
  BY FlowTypes
<1>2. Done(Outdated(f)) \in FlowRecord
  BY <1>1, FlowTypes
<1> QED  BY <1>1, <1>2, FlowFields

LEMMA AgedFacts == \A q \in Ages :
    /\ Aged(q) \in Ages /\ (IsMeasured(Aged(q)) <=> IsMeasured(q)) /\ (Aged(q) = "none" <=> q = "none")
    /\ Aged(q) # "fresh"
BY DEF Ages, Aged, IsMeasured

LEMMA StaleTyped ==
    ASSUME TypeOK
    PROVE  /\ InHand \in 0 .. 1 /\ Pending \in 0 .. 1 /\ UnderWay \in 0 .. 1 /\ Waiting \in 0 .. 1
           /\ phase_compensation.convergence_count \in Nat /\ Stale \in Nat
<1>1. InHand \in 0 .. 1 /\ Pending \in 0 .. 1 /\ UnderWay \in 0 .. 1 /\ Waiting \in 0 .. 1
  BY DEF InHand, Pending, UnderWay, Waiting
<1>2. phase_compensation.convergence_count \in Nat
  BY DEF TypeOK, PhaseOK, PhaseRecord
<1> QED  BY <1>1, <1>2 DEF Stale

LEMMA StaleTypedNext ==
    ASSUME TypeOK'
    PROVE  /\ InHand' \in 0 .. 1 /\ Pending' \in 0 .. 1 /\ UnderWay' \in 0 .. 1 /\ Waiting' \in 0 .. 1
           /\ phase_compensation'.convergence_count \in Nat /\ Stale' \in Nat
<1>1. InHand' \in 0 .. 1 /\ Pending' \in 0 .. 1 /\ UnderWay' \in 0 .. 1 /\ Waiting' \in 0 .. 1
  BY DEF InHand, Pending, UnderWay, Waiting
<1>2. phase_compensation'.convergence_count \in Nat
  BY DEF TypeOK, PhaseOK, PhaseRecord
<1> QED  BY <1>1, <1>2 DEF Stale

\* A thread of the sample path or of the driver went somewhere, or none did.
LEMMA CalmKept ==
    ASSUME Calm, \A t \in Threads \ Channels : pc'[t] = pc[t], mode' = mode,
           recovery_in_progress' => recovery_in_progress, coherence_lost' = coherence_lost,
           force_recalibration' = force_recalibration
    PROVE  Calm' /\ (Retuning' <=> Retuning)
<1>1. Watchdog \in Threads \ Channels /\ Checker \in Threads \ Channels
      /\ \A t \in Commanders : t \in Threads \ Channels
  BY ConstantsAssumption DEF Threads, Channels
<1>2. Calm'
  BY <1>1 DEF Calm, mode
<1> QED  BY <1>1, <1>2 DEF Retuning

LEMMA DriverKept ==
    ASSUME DriverKnows, pc'[Driver] = pc[Driver], phase_compensation' = phase_compensation
    PROVE  DriverKnows'
BY DEF DriverKnows, Restarting, State

LEMMA WatchingKept ==
    ASSUME Watching, pc'[Driver] = pc[Driver], State' = State, fft_control' = fft_control
    PROVE  Watching'
BY DEF Watching

\* The verdict rests on no more stale readings than before.
LEMMA VerdictKept ==
    ASSUME TypeOK, TypeOK', Verdict, Retuning => Retuning', State' = State, evidence' = evidence,
           per_bin_cal'.ready => per_bin_cal.ready, equalizer_current' = equalizer_current,
           phase_compensation'.convergence_count = phase_compensation.convergence_count,
           State = "VERIFYING_CONVERGENCE" /\ evidence = "none" =>
               InHand' + Pending' + UnderWay' + Waiting' <= InHand + Pending + UnderWay + Waiting
    PROVE  Verdict'
<1>1. CASE Retuning
  BY <1>1 DEF Verdict
<1>2. CASE VerdictRests
  <2>1. State' = "VERIFYING_CONVERGENCE" /\ evidence' = "none" => Stale' <= Stale
    BY StaleTyped, StaleTypedNext DEF Stale
  <2>2. State' = "VERIFYING_CONVERGENCE" /\ evidence' = "none" => Stale' <= 3
    BY <1>2, <2>1, StaleTyped, StaleTypedNext DEF VerdictRests
  <2> QED  BY <1>2, <2>2 DEF Verdict, VerdictRests
<1> QED  BY <1>1, <1>2 DEF Verdict

\* Measured phases that stay, or age, are of locked lags as before.
LEMMA LagKept ==
    ASSUME TypeOK, LagOfReading, AllLocked => AllLocked', Verifying' => AllLocked',
           flow'.at = flow.at, flow'.taken \in {flow.taken, Aged(flow.taken)},
           flow'.result \in {flow.result, Aged(flow.result)},
           flow'.reading \in {flow.reading, Aged(flow.reading), "none"},
           Reading' => Reading /\ flow'.reading # "none"
    PROVE  LagOfReading'
<1>1. flow.taken \in Ages /\ flow.result \in Ages /\ flow.reading \in Ages
  BY DEF TypeOK, FlowOK, FlowRecord
<1>2. /\ (IsMeasured(flow'.taken) <=> IsMeasured(flow.taken))
      /\ (flow'.taken = "none" <=> flow.taken = "none")
      /\ (IsMeasured(flow'.result) <=> IsMeasured(flow.result))
      /\ (flow'.result = "none" <=> flow.result = "none")
  BY <1>1, AgedFacts
<1>3. IsMeasured(flow'.reading) => IsMeasured(flow.reading)
  BY <1>1, AgedFacts DEF IsMeasured
<1> QED  BY <1>2, <1>3 DEF LagOfReading

-----------------------------------------------------------------------------
(* Conversion and correlation. *)

LEMMA ConvertKeeps ==
    ASSUME TypeOK, TypeOK', VInv, Convert
    PROVE  VInv'
<1>1. /\ UNCHANGED <<pc, machine, plant, mode, triggers, unseen, history>>
      /\ flow' = [flow EXCEPT !.l2 = "fresh"] /\ flow \in FlowRecord
  BY DEF Convert, TypeOK, FlowOK
<1>2. /\ flow'.l2 = "fresh" /\ flow'.at = flow.at /\ flow'.taken = flow.taken
      /\ flow'.result = flow.result /\ flow'.reading = flow.reading
  BY <1>1 DEF FlowRecord
<1>3. /\ phase_compensation' = phase_compensation /\ per_bin_cal' = per_bin_cal /\ lag' = lag
      /\ fft_control' = fft_control /\ State' = State /\ AllLocked' = AllLocked
  BY <1>1 DEF machine, plant, State, AllLocked
<1>4. Calm' /\ (Retuning' <=> Retuning)
  BY <1>1, CalmKept DEF VInv, mode, triggers
<1>5. DriverKnows' /\ Watching'
  BY <1>1, <1>3, DriverKept, WatchingKept DEF VInv
<1>6. LagOfReading'
  BY <1>1, <1>2, <1>3 DEF VInv, LagOfReading, Reading, Verifying
<1>7. InHand' = InHand /\ Pending' = Pending /\ UnderWay' = UnderWay /\ Waiting' = 0
  BY <1>1, <1>2 DEF InHand, Pending, UnderWay, Waiting, Reading
<1>8. Verdict'
  BY <1>1, <1>3, <1>4, <1>7, StaleTyped, VerdictKept DEF VInv, history
<1> QED  BY <1>4, <1>5, <1>6, <1>8 DEF VInv


\* A set taken, in work, or published: a stale one is counted at one place only.
LEMMA CorrelationKeeps ==
    ASSUME TypeOK, TypeOK', VInv, Correlation
    PROVE  VInv'
<1>1. /\ UNCHANGED <<pc, phase_compensation, lag, plant, mode, triggers, history>>
      /\ per_bin_cal'.ready = per_bin_cal.ready
  <2>1. UNCHANGED <<pc, phase_compensation, lag, plant, mode, triggers, history>>
    BY DEF Correlation, CorrSkip, CorrTake, CorrCompute, CorrPublish, machine
  <2>2. per_bin_cal' = per_bin_cal \/ per_bin_cal' = Accumulated
    BY DEF Correlation, CorrSkip, CorrTake, CorrCompute, CorrPublish, machine
  <2> QED  BY <2>1, <2>2 DEF Accumulated, TypeOK, PerBinOK, PerBinRecord
<1>2. fft_control' = fft_control /\ State' = State /\ AllLocked' = AllLocked /\ flow \in FlowRecord
  BY <1>1 DEF plant, State, AllLocked, TypeOK, FlowOK
<1>3. Calm' /\ (Retuning' <=> Retuning)
  BY <1>1, CalmKept DEF VInv, triggers
<1>4. DriverKnows' /\ Watching'
  BY <1>1, <1>2, DriverKept, WatchingKept DEF VInv
<1>5. (Verifying' <=> Verifying) /\ (Reading' <=> Reading) /\ LagOfReading
  BY <1>1, <1>2 DEF Verifying, Reading, VInv
<1>6. flow.taken \in Ages /\ flow.result \in Ages
  BY <1>2 DEF FlowRecord
<1>7. CASE CorrSkip
  <2>1. /\ flow.at = "idle" /\ ~fft_control.fft_enabled
        /\ flow' = [flow EXCEPT !.l2 = "none", !.result = Aged(@)]
    BY <1>7 DEF CorrSkip
  <2>2. /\ flow'.at = flow.at /\ flow'.taken = flow.taken /\ flow'.result = Aged(flow.result)
        /\ flow'.reading = flow.reading
    BY <1>2, <2>1 DEF FlowRecord
  <2>3. LagOfReading'
    BY <1>2, <1>5, <1>6, <2>2, AgedFacts DEF LagOfReading
  <2>4. State # "VERIFYING_CONVERGENCE"
    BY <2>1 DEF VInv, Watching, DriverKnows, Restarting
  <2>5. Verdict'
    BY <1>1, <1>2, <1>3, <2>4, VerdictKept DEF VInv, history
  <2> QED  BY <1>3, <1>4, <2>3, <2>5 DEF VInv
<1>8. CASE CorrTake
  <2>1. /\ flow.at = "idle" /\ flow.l2 # "none" /\ unseen' = unseen
        /\ flow' = [flow EXCEPT !.at = "taken", !.taken = flow.l2, !.l2 = "none"]
    BY <1>8 DEF CorrTake
  <2>2. /\ flow'.at = "taken" /\ flow'.taken = flow.l2 /\ flow'.l2 = "none"
        /\ flow'.result = flow.result /\ flow'.reading = flow.reading
    BY <1>2, <2>1 DEF FlowRecord
  <2>3. LagOfReading'
    BY <1>2, <1>5, <2>1, <2>2 DEF LagOfReading
  <2>4. /\ InHand' = InHand /\ Pending' = Pending
        /\ UnderWay = 0 /\ Waiting' = 0 /\ UnderWay' = Waiting
    BY <1>2, <1>5, <2>1, <2>2 DEF InHand, Pending, UnderWay, Waiting, FlowRecord
  <2>5. Verdict'
    BY <1>1, <1>2, <1>3, <2>4, StaleTyped, VerdictKept DEF VInv, history
  <2> QED  BY <1>3, <1>4, <2>3, <2>5 DEF VInv
<1>9. CASE CorrCompute
  <2>1. /\ flow.at = "taken" /\ unseen' = unseen
        /\ flow' = [flow EXCEPT !.at = "computed", !.taken = PhasesOf]
    BY <1>9 DEF CorrCompute
  <2>2. /\ flow'.at = "computed" /\ flow'.taken = PhasesOf /\ flow'.l2 = flow.l2
        /\ flow'.result = flow.result /\ flow'.reading = flow.reading
    BY <1>2, <2>1 DEF FlowRecord
  <2>3. PhasesOf # "none" /\ (IsMeasured(PhasesOf) => AllLocked)
    BY <1>5, <2>1 DEF PhasesOf, LagOfReading, Verifying, IsMeasured
  <2>4. LagOfReading'
    BY <1>2, <1>5, <2>1, <2>2, <2>3 DEF LagOfReading
  <2>5. State = "VERIFYING_CONVERGENCE" => PhasesOf = flow.taken
    BY <1>5 DEF PhasesOf, LagOfReading, Verifying
  <2>6. /\ InHand' = InHand /\ Pending' = Pending /\ Waiting' = Waiting
        /\ State = "VERIFYING_CONVERGENCE" => UnderWay' = UnderWay
    BY <1>2, <1>5, <2>1, <2>2, <2>5 DEF InHand, Pending, UnderWay, Waiting
  <2>7. Verdict'
    BY <1>1, <1>2, <1>3, <2>6, StaleTyped, VerdictKept DEF VInv, history
  <2> QED  BY <1>3, <1>4, <2>4, <2>7 DEF VInv
<1>10. CASE CorrPublish
  <2>1. /\ flow.at = "computed"
        /\ flow' = [flow EXCEPT !.at = "idle", !.taken = "none", !.result = flow.taken]
    BY <1>10 DEF CorrPublish
  <2>2. /\ flow'.at = "idle" /\ flow'.taken = "none" /\ flow'.l2 = flow.l2
        /\ flow'.result = flow.taken /\ flow'.reading = flow.reading
    BY <1>2, <2>1 DEF FlowRecord
  <2>3. LagOfReading'
    BY <1>2, <1>5, <2>1, <2>2 DEF LagOfReading
  <2>4. /\ InHand' = InHand /\ Waiting' = Waiting /\ UnderWay' = 0 /\ Pending' <= UnderWay
    BY <1>2, <1>5, <2>1, <2>2 DEF InHand, Pending, UnderWay, Waiting
  <2>5. InHand' + Pending' + UnderWay' + Waiting' <= InHand + Pending + UnderWay + Waiting
    BY <2>4, StaleTyped, StaleTypedNext
  <2>6. Verdict'
    BY <1>1, <1>2, <1>3, <2>5, VerdictKept DEF VInv, history
  <2> QED  BY <1>3, <1>4, <2>3, <2>6 DEF VInv
<1> QED  BY <1>7, <1>8, <1>9, <1>10 DEF Correlation

-----------------------------------------------------------------------------
(* The compensation threads. *)

LEMMA PollKeeps ==
    ASSUME TypeOK, TypeOK', VInv, NEW c \in Channels, Poll(c)
    PROVE  VInv'
<1>1. /\ UNCHANGED <<machine, plant, mode, triggers, history>> /\ c \in Threads
      /\ pc[c] = "rest" /\ c \in unseen /\ unseen' = unseen \ {c} /\ flow \in FlowRecord
  BY ThreadsDiffer DEF Poll, TypeOK, FlowOK
<1>2. /\ phase_compensation' = phase_compensation /\ per_bin_cal' = per_bin_cal
      /\ fft_control' = fft_control /\ State' = State /\ AllLocked' = AllLocked
  BY <1>1 DEF machine, plant, State, AllLocked
<1>3. pc' = pc \/ (pc'[c] = "lag" /\ \A u \in Threads : u # c => pc'[u] = pc[u])
  BY <1>1, Went DEF Poll
<1>4. Calm' /\ (Retuning' <=> Retuning)
  BY <1>1, <1>3, CalmKept DEF VInv, triggers
<1>5. pc'[Driver] = pc[Driver] \/ (c = Driver /\ pc[Driver] = "rest" /\ pc'[Driver] = "lag")
  BY <1>1, <1>3, ThreadsDiffer
<1>6. DriverKnows' /\ Watching'
  BY <1>2, <1>5 DEF VInv, DriverKnows, Watching, Restarting
<1>7. /\ flow'.l2 = flow.l2 /\ flow'.at = flow.at /\ flow'.taken = flow.taken
      /\ flow'.result = flow.result
      /\ \/ flow'.reading = flow.reading /\ pc'[Driver] = pc[Driver]
         \/ flow'.reading = flow.result /\ c = Driver /\ pc[Driver] = "rest" /\ pc'[Driver] = "lag"
  <2>1. (flow' = flow /\ pc'[Driver] = pc[Driver])
        \/ (flow' = [flow EXCEPT !.reading = flow.result] /\ c = Driver /\ pc'[Driver] = "lag")
    BY <1>1, <1>3, ThreadsDiffer, Went DEF Poll
  <2> QED  BY <1>1, <2>1 DEF FlowRecord
<1>8. LagOfReading'
  BY <1>2, <1>7 DEF VInv, LagOfReading, Reading, Verifying
<1>9. /\ UnderWay' = UnderWay /\ Waiting' = Waiting
      /\ InHand' + Pending' <= InHand + Pending
  <2>1. UnderWay' = UnderWay /\ Waiting' = Waiting
    BY <1>7 DEF UnderWay, Waiting
  <2>2. CASE flow'.reading = flow.reading /\ pc'[Driver] = pc[Driver]
    <3>1. InHand' = InHand /\ Pending' <= Pending
      BY <1>1, <1>7, <2>2 DEF InHand, Pending, Reading
    <3> QED  BY <2>1, <3>1, StaleTyped, StaleTypedNext
  <2>3. CASE flow'.reading = flow.result /\ c = Driver /\ pc[Driver] = "rest" /\ pc'[Driver] = "lag"
    <3>1. InHand = 0 /\ Pending' = 0 /\ InHand' = Pending
      BY <1>1, <1>7, <2>3 DEF InHand, Pending, Reading
    <3> QED  BY <2>1, <3>1, StaleTyped, StaleTypedNext
  <2> QED  BY <1>7, <2>2, <2>3, <2>1
<1>10. InHand' + Pending' + UnderWay' + Waiting' <= InHand + Pending + UnderWay + Waiting
  BY <1>9, StaleTyped, StaleTypedNext
<1>11. Verdict'
  BY <1>1, <1>2, <1>4, <1>10, VerdictKept DEF VInv, history
<1> QED  BY <1>4, <1>6, <1>8, <1>11 DEF VInv

\* A lag that is locked stays locked.
LEMMA LagStepKeeps ==
    ASSUME TypeOK, TypeOK', VInv, NEW c \in Channels, LagStep(c)
    PROVE  VInv'
<1>1. /\ UNCHANGED <<phase_compensation, per_bin_cal, plant, mode, triggers, measured, history>>
      /\ c \in Threads /\ pc[c] = "lag"
  BY ThreadsDiffer DEF LagStep
<1>2. /\ fft_control' = fft_control /\ State' = State /\ flow' = flow /\ unseen' = unseen
  BY <1>1 DEF plant, State, measured
<1>3. /\ pc'[c] = IF c = Driver THEN "judge" ELSE "rest"
      /\ \A u \in Threads : u # c => pc'[u] = pc[u]
  BY <1>1, Went DEF LagStep
<1>4. Calm' /\ (Retuning' <=> Retuning)
  BY <1>1, <1>3, CalmKept DEF VInv, triggers
<1>5. pc'[Driver] = pc[Driver] \/ (pc[Driver] = "lag" /\ pc'[Driver] = "judge")
  BY <1>1, <1>3, ThreadsDiffer
<1>6. DriverKnows' /\ Watching' /\ (Reading' <=> Reading)
  BY <1>1, <1>2, <1>5 DEF VInv, DriverKnows, Watching, Restarting, Reading
<1>7. AllLocked => AllLocked'
  <2>1. lag \in [Channels -> LagRecord]
    BY DEF TypeOK, LagOK
  <2>2. lag' = lag \/ \E l \in ServoStates(lag[c]) : lag' = [lag EXCEPT ![c] = l]
    BY DEF LagStep
  <2>3. lag[c].state = "CONVERGED" => ServoStates(lag[c]) = {lag[c]}
    BY DEF ServoStates
  <2> QED  BY <2>1, <2>2, <2>3 DEF AllLocked
<1>8. LagOfReading'
  BY <1>2, <1>6, <1>7 DEF VInv, LagOfReading, Verifying
<1>9. InHand' = InHand /\ Pending' = Pending /\ UnderWay' = UnderWay /\ Waiting' = Waiting
  BY <1>2, <1>6 DEF InHand, Pending, UnderWay, Waiting
<1>10. Verdict'
  BY <1>1, <1>2, <1>4, <1>9, StaleTyped, VerdictKept DEF VInv, history
<1> QED  BY <1>4, <1>6, <1>8, <1>10 DEF VInv


-----------------------------------------------------------------------------
(* The driver. *)

\* A step of the driver that leaves the triggers, or ends a recovery.
LEMMA DriverGoes ==
    ASSUME TypeOK, Calm, NEW label, Goto(Driver, label), mode' = mode,
           recovery_in_progress' => recovery_in_progress, coherence_lost' = coherence_lost,
           force_recalibration' = force_recalibration
    PROVE  pc'[Driver] = label /\ Calm' /\ (Retuning' <=> Retuning)
<1>1. Driver \in Threads /\ Driver \in Channels
  BY ThreadsDiffer
<1>2. pc'[Driver] = label /\ \A u \in Threads : u # Driver => pc'[u] = pc[u]
  BY <1>1, Went
<1> QED  BY <1>1, <1>2, CalmKept

\* The reading is dropped: there is no stale one more than before.
LEMMA ReadingDropped ==
    ASSUME TypeOK, TypeOK', unseen' = unseen, flow' \in {Done(flow)} \cup Flushed(Done(flow)),
           ~Reading'
    PROVE  /\ InHand' = 0 /\ Pending' = Pending /\ UnderWay' = UnderWay /\ Waiting' <= Waiting
           /\ InHand' + Pending' + UnderWay' + Waiting' <= InHand + Pending + UnderWay + Waiting
<1>1. flow \in FlowRecord /\ Done(flow) \in FlowRecord
  BY FlowTypes DEF TypeOK, FlowOK
<1>2. /\ flow'.at = flow.at /\ flow'.taken = flow.taken /\ flow'.result = flow.result
      /\ flow'.l2 \in {flow.l2, "none"}
  BY <1>1, FlowFields
<1>3. InHand' = 0 /\ Pending' = Pending /\ UnderWay' = UnderWay /\ Waiting' <= Waiting
  BY <1>2 DEF InHand, Pending, UnderWay, Waiting
<1> QED  BY <1>3, StaleTyped, StaleTypedNext

LEMMA JudgeKeeps ==
    ASSUME TypeOK, TypeOK', VInv, Judge
    PROVE  VInv'
<1>1. /\ UNCHANGED <<plant, mode, triggers, unseen, history>>
      /\ pc[Driver] = "judge" /\ flow \in FlowRecord /\ fft_control' = fft_control
  BY DEF Judge, TypeOK, FlowOK, plant
<1>2. \A label : Goto(Driver, label) => pc'[Driver] = label /\ Calm' /\ (Retuning' <=> Retuning)
  BY <1>1, DriverGoes DEF VInv, triggers
<1>3. CASE JudgeStability
  <2>1. /\ State = "WAITING_FOR_STABILITY" /\ UNCHANGED machine /\ flow' = Done(flow)
        /\ pc'[Driver] \in {"settings", "rest"} /\ Calm' /\ (Retuning' <=> Retuning)
    BY <1>2, <1>3 DEF JudgeStability
  <2>2. /\ phase_compensation' = phase_compensation /\ per_bin_cal' = per_bin_cal
        /\ State' = State /\ AllLocked' = AllLocked
    BY <2>1 DEF machine, State, AllLocked
  <2>3. DriverKnows' /\ Watching' /\ ~Reading'
    BY <2>1, <2>2 DEF DriverKnows, Restarting, Watching, Reading
  <2>4. LagOfReading'
    BY <1>1, <2>1, <2>2, <2>3, Leftovers, LagKept DEF VInv, Verifying
  <2>5. Verdict'
    BY <1>1, <2>1, <2>2, VerdictKept DEF VInv, history
  <2> QED  BY <2>1, <2>3, <2>4, <2>5 DEF VInv
<1>4. CASE JudgeLag
  <2>1. /\ State = "WAITING_FOR_LAG_COMPLETION" /\ UNCHANGED <<per_bin_cal, lag>>
        /\ pc'[Driver] = "rest" /\ Calm' /\ (Retuning' <=> Retuning)
        /\ flow' \in {Done(flow)} \cup Flushed(Done(flow))
        /\ \/ phase_compensation' = phase_compensation
           \/ phase_compensation' = [phase_compensation EXCEPT
                                       !.state = "MEASURING_INITIAL_PHASE", !.stable_nonzero_count = 0]
    BY <1>2, <1>4 DEF JudgeLag
  <2>2. /\ State' \in {"WAITING_FOR_LAG_COMPLETION", "MEASURING_INITIAL_PHASE"}
        /\ phase_compensation'.convergence_count = phase_compensation.convergence_count
        /\ AllLocked' = AllLocked
    BY <2>1 DEF State, AllLocked, TypeOK, PhaseOK, PhaseRecord
  <2>3. DriverKnows' /\ Watching' /\ ~Reading'
    BY <1>1, <2>1, <2>2 DEF VInv, DriverKnows, Restarting, Watching, Reading
  <2>4. LagOfReading'
    BY <1>1, <2>1, <2>2, <2>3, Leftovers, LagKept DEF VInv, Verifying
  <2>5. Verdict'
    BY <1>1, <2>1, <2>2 DEF VInv, Verdict, VerdictRests, history
  <2> QED  BY <2>1, <2>3, <2>4, <2>5 DEF VInv
<1>5. CASE JudgePhase
  <2>1. /\ UNCHANGED machine /\ operating_mode = "COHERENT"
        /\ \/ /\ pc'[Driver] \in {"rest", "give_up", "publish", "wait_per_bin"}
              /\ flow' = Done(flow)
           \/ pc'[Driver] = "apply" /\ State = "MEASURING_INITIAL_PHASE" /\ flow' = flow
           \/ pc'[Driver] = "verify" /\ State = "VERIFYING_CONVERGENCE" /\ flow' = flow
        /\ Calm' /\ (Retuning' <=> Retuning)
    BY <1>2, <1>5 DEF JudgePhase, DriverRests, VInv, Calm
  <2>2. /\ phase_compensation' = phase_compensation /\ per_bin_cal' = per_bin_cal
        /\ State' = State /\ AllLocked' = AllLocked
    BY <2>1 DEF machine, State, AllLocked
  <2>3. DriverKnows' /\ Watching'
    BY <1>1, <2>1, <2>2 DEF VInv, DriverKnows, Restarting, Watching
  <2>4. Reading /\ (flow' = flow \/ (flow' = Done(flow) /\ ~Reading'))
    BY <1>1, <2>1 DEF Reading
  <2>5. LagOfReading'
    <3>1. CASE flow' = flow
      BY <2>2, <2>4, <3>1 DEF VInv, LagOfReading, Verifying
    <3>2. CASE flow' = Done(flow) /\ ~Reading'
      BY <1>1, <2>2, <3>2, Leftovers, LagKept DEF VInv, LagOfReading, Verifying
    <3> QED  BY <2>4, <3>1, <3>2
  <2>6. InHand' + Pending' + UnderWay' + Waiting' <= InHand + Pending + UnderWay + Waiting
    <3>1. CASE flow' = flow
      <4>1. InHand' <= InHand /\ Pending' = Pending /\ UnderWay' = UnderWay /\ Waiting' = Waiting
        BY <1>1, <2>4, <3>1 DEF InHand, Pending, UnderWay, Waiting
      <4> QED  BY <4>1, StaleTyped, StaleTypedNext
    <3>2. CASE flow' = Done(flow) /\ ~Reading'
      BY <1>1, <3>2, ReadingDropped
    <3> QED  BY <2>4, <3>1, <3>2
  <2>7. Verdict'
    BY <1>1, <2>1, <2>2, <2>6, VerdictKept DEF VInv, history
  <2> QED  BY <2>1, <2>3, <2>5, <2>7 DEF VInv
<1> QED  BY <1>3, <1>4, <1>5 DEF Judge

\* A correction is applied to a measured reading, in the state it was judged in:
\* a cooldown that came between has emptied the streak.
LEMMA AppliedWhen ==
    ASSUME OnlyRetunes, TypeOK, VInv, pc[Driver] = "apply",
           NEW aligned \in Verdicts(flow.reading), Streak(aligned) >= RequiredStable
    PROVE  State = "MEASURING_INITIAL_PHASE" /\ AllLocked
<1>1. RequiredStable \in Nat /\ RequiredStable >= 2
      /\ phase_compensation.stable_nonzero_count \in Nat
  BY DEF OnlyRetunes, TypeOK, PhaseOK, PhaseRecord
<1>2. ~aligned /\ phase_compensation.stable_nonzero_count # 0
  BY <1>1 DEF Streak
<1>3. State = "MEASURING_INITIAL_PHASE"
  BY <1>2 DEF VInv, DriverKnows
<1>4. flow.reading \in Ages /\ flow.reading # "none" /\ flow.reading # "defaults"
  BY <1>2 DEF Verdicts, VInv, LagOfReading, Reading, TypeOK, FlowOK, FlowRecord
<1>5. AllLocked
  BY <1>4 DEF VInv, LagOfReading, IsMeasured, Ages
<1> QED  BY <1>3, <1>5

LEMMA ApplyKeeps ==
    ASSUME OnlyRetunes, TypeOK, TypeOK', VInv, Apply
    PROVE  VInv'
<1>1. /\ UNCHANGED <<per_bin_cal, lag, plant, mode, triggers, unseen, equalizer_current>>
      /\ pc[Driver] = "apply" /\ flow \in FlowRecord /\ fft_control' = fft_control
      /\ AllLocked' = AllLocked
  BY DEF Apply, TypeOK, FlowOK, plant, AllLocked
<1>2. pc'[Driver] = "rest" /\ Calm' /\ (Retuning' <=> Retuning) /\ ~Reading'
  BY <1>1, DriverGoes DEF Apply, VInv, triggers, Reading
<1>3. CASE \E aligned \in Verdicts(flow.reading) : Streak(aligned) >= RequiredStable /\ Applied
  <2>1. State = "MEASURING_INITIAL_PHASE" /\ AllLocked
    BY <1>1, <1>3, AppliedWhen
  <2>2. /\ phase_compensation' = [phase_compensation EXCEPT
                 !.stable_nonzero_count = RequiredStable, !.compensation_applied = TRUE,
                 !.state = "VERIFYING_CONVERGENCE", !.checks_since_compensation = 0]
        /\ flow' \in Flushed(Done(Outdated(flow))) /\ evidence' = "none"
    BY <1>3 DEF Applied
  <2>3. State' = "VERIFYING_CONVERGENCE" /\ phase_compensation'.convergence_count = 0
    BY <2>1, <2>2 DEF State, TypeOK, PhaseOK, PhaseRecord, VInv, DriverKnows
  <2>4. DriverKnows' /\ Watching'
    BY <1>1, <1>2, <2>1, <2>3 DEF VInv, DriverKnows, Watching
  <2>5. LagOfReading'
    BY <1>1, <1>2, <2>1, <2>2, Leftovers, LagKept DEF VInv
  <2>6. Stale' <= 3
    <3>1. InHand' = 0
      BY <1>2 DEF InHand
    <3> QED  BY <2>3, <3>1, StaleTypedNext DEF Stale
  <2>7. Verdict'
    BY <1>1, <1>2, <2>1, <2>3, <2>6 DEF VInv, Verdict, VerdictRests
  <2> QED  BY <1>2, <2>4, <2>5, <2>7 DEF VInv
<1>4. CASE ~\E aligned \in Verdicts(flow.reading) : Streak(aligned) >= RequiredStable /\ Applied
  <2>1. /\ flow' = Done(flow) /\ UNCHANGED evidence
        /\ \/ phase_compensation' = phase_compensation
           \/ \E aligned \in Verdicts(flow.reading) : phase_compensation' =
                [phase_compensation EXCEPT !.stable_nonzero_count = Streak(aligned)]
    BY <1>4 DEF Apply
  <2>2. /\ State' = State
        /\ phase_compensation'.convergence_count = phase_compensation.convergence_count
    BY <2>1 DEF State, TypeOK, PhaseOK, PhaseRecord
  <2>3. DriverKnows' /\ Watching'
    BY <1>1, <1>2, <2>2 DEF VInv, DriverKnows, Watching
  <2>4. LagOfReading'
    BY <1>1, <1>2, <2>1, <2>2, Leftovers, LagKept DEF VInv, LagOfReading, Verifying
  <2>5. Verdict'
    BY <1>1, <1>2, <2>1, <2>2, ReadingDropped, VerdictKept DEF VInv
  <2> QED  BY <1>2, <2>3, <2>4, <2>5 DEF VInv
<1> QED  BY <1>3, <1>4


\* What the driver may do after a check: go on with a new count, or proceed to
\* the equalizer or to the end.
LEMMA Proceeds ==
    ASSUME TypeOK, NEW p \in PhaseRecord, Proceed(p)
    PROVE  /\ phase_compensation'.convergence_count = p.convergence_count
           /\ phase_compensation'.compensation_applied = p.compensation_applied
           /\ \/ State' = "MEASURING_PER_BIN" /\ pc'[Driver] = "rest"
              \/ State' = "CONVERGED" /\ pc'[Driver] = "complete_noise"
           /\ per_bin_cal'.ready => per_bin_cal.ready
           /\ recovery_in_progress' => recovery_in_progress
           /\ \E label : Goto(Driver, label)
<1>1. /\ per_bin_cal \in PerBinRecord /\ Driver \in Threads
  BY ThreadsDiffer DEF TypeOK, PerBinOK
<1>2. CASE MeasurePerBin
  <2>1. /\ phase_compensation' = [p EXCEPT !.state = "MEASURING_PER_BIN"]
        /\ per_bin_cal' = [per_bin_cal EXCEPT !.ready = FALSE, !.snapshots = 0]
        /\ Goto(Driver, "rest") /\ UNCHANGED recovery_in_progress
    BY <1>2 DEF Proceed
  <2>2. pc'[Driver] = "rest"
    BY <1>1, <2>1, Went
  <2> QED  BY <1>1, <2>1, <2>2 DEF State, PhaseRecord, PerBinRecord
<1>3. CASE ~MeasurePerBin
  <2>1. /\ phase_compensation' = [p EXCEPT !.state = "CONVERGED"]
        /\ per_bin_cal' = [per_bin_cal EXCEPT !.measured = TRUE]
        /\ Goto(Driver, "complete_noise") /\ recovery_in_progress' = FALSE
    BY <1>3 DEF Proceed, Complete
  <2>2. pc'[Driver] = "complete_noise"
    BY <1>1, <2>1, Went
  <2> QED  BY <1>1, <2>1, <2>2 DEF State, PhaseRecord, PerBinRecord
<1> QED  BY <1>2, <1>3

\* A check after a cooldown began finds the counters at zero: it neither proceeds
\* nor refines.
LEMMA CheckAfterCooldown ==
    ASSUME OnlyRetunes, TypeOK, VInv, Verify, Restarting
    PROVE  /\ State' = State /\ Goto(Driver, "rest") /\ flow' = Done(flow)
           /\ UNCHANGED <<per_bin_cal, recovery_in_progress>>
<1> DEFINE checked == [phase_compensation EXCEPT !.checks_since_compensation = @ + 1]
<1>1. /\ phase_compensation \in PhaseRecord
      /\ phase_compensation.convergence_count = 0
      /\ phase_compensation.checks_since_compensation = 0
  BY DEF TypeOK, PhaseOK, VInv, DriverKnows, Verify, Restarting, State
<1>2. checked.convergence_count = 0 /\ checked.checks_since_compensation = 1
      /\ checked.state = State
  BY <1>1 DEF PhaseRecord, State
<1>3. VerifyConverged(checked) \/ VerifyMissed(checked)
  BY DEF Verify
<1>4. [checked EXCEPT !.convergence_count = @ + 1].convergence_count = 1
  BY <1>1 DEF PhaseRecord
<1>5. CASE VerifyConverged(checked)
  <2>1. Continue([checked EXCEPT !.convergence_count = @ + 1]) /\ flow' = Done(flow)
    BY <1>4, <1>5 DEF VerifyConverged, OnlyRetunes
  <2> QED  BY <1>1, <2>1 DEF Continue, State, PhaseRecord
<1>6. CASE VerifyMissed(checked)
  <2>1. Continue([checked EXCEPT !.convergence_count = 0]) /\ flow' = Done(flow)
    BY <1>2, <1>6 DEF VerifyMissed, OnlyRetunes
  <2> QED  BY <1>1, <2>1 DEF Continue, State, PhaseRecord
<1> QED  BY <1>3, <1>5, <1>6

\* A check during the verification: the cases of its outcome.
CountsOn ==
    /\ State' = State
    /\ phase_compensation'.convergence_count = phase_compensation.convergence_count + 1
    /\ evidence' = Seen(flow.reading) /\ UNCHANGED per_bin_cal /\ flow' = Done(flow)
StartsOver ==
    /\ State' = State /\ phase_compensation'.convergence_count = 0
    /\ evidence' = "none" /\ UNCHANGED per_bin_cal
    /\ flow' \in {Done(flow)} \cup Flushed(Done(Outdated(flow)))
Finishes ==
    /\ \/ State' = "MEASURING_PER_BIN" /\ pc'[Driver] = "rest"
       \/ State' = "CONVERGED" /\ pc'[Driver] = "complete_noise"
    /\ \/ /\ evidence' = Seen(flow.reading)
          /\ phase_compensation.convergence_count + 1 >= RequiredConv
       \/ evidence' = "waived"
    /\ per_bin_cal'.ready => per_bin_cal.ready
    /\ flow' = Done(flow)

LEMMA Outcomes ==
    ASSUME TypeOK, Verify
    PROVE  /\ recovery_in_progress' => recovery_in_progress
           /\ phase_compensation'.compensation_applied = phase_compensation.compensation_applied
           /\ \E label : Goto(Driver, label)
           /\ ((CountsOn \/ StartsOver) /\ pc'[Driver] = "rest") \/ Finishes
<1> DEFINE checked == [phase_compensation EXCEPT !.checks_since_compensation = @ + 1]
           counted_in == [checked EXCEPT !.convergence_count = @ + 1]
           missed == [checked EXCEPT !.convergence_count = 0]
           failed == [missed EXCEPT !.failed_convergence_attempts = @ + 1]
           refined == [failed EXCEPT !.checks_since_compensation = 0]
<1>1. phase_compensation \in PhaseRecord /\ Driver \in Threads
  BY ThreadsDiffer DEF TypeOK, PhaseOK
<1> DEFINE n == phase_compensation.convergence_count + 1
           k == phase_compensation.checks_since_compensation + 1
           a == phase_compensation.failed_convergence_attempts + 1
<1>2. n \in Nat /\ k \in Nat /\ a \in Nat
  BY <1>1 DEF PhaseRecord
<1>3. /\ checked = [phase_compensation EXCEPT !.checks_since_compensation = k]
      /\ counted_in = [checked EXCEPT !.convergence_count = n]
      /\ failed = [missed EXCEPT !.failed_convergence_attempts = a]
  BY <1>1 DEF PhaseRecord
<1> HIDE DEF n, k, a
<1>4. /\ checked \in PhaseRecord /\ checked.state = State
      /\ checked.compensation_applied = phase_compensation.compensation_applied
  BY <1>1, <1>2, <1>3 DEF PhaseRecord, State
<1> HIDE DEF checked
<1>5. /\ counted_in \in PhaseRecord /\ counted_in.convergence_count = n
      /\ counted_in.state = State
      /\ counted_in.compensation_applied = phase_compensation.compensation_applied
  BY <1>2, <1>3, <1>4 DEF PhaseRecord
<1>6. /\ missed \in PhaseRecord /\ missed.convergence_count = 0
      /\ missed.state = State
      /\ missed.compensation_applied = phase_compensation.compensation_applied
  BY <1>4 DEF PhaseRecord
<1> HIDE DEF missed
<1>7. /\ failed \in PhaseRecord /\ failed.convergence_count = 0
      /\ failed.state = State
      /\ failed.compensation_applied = phase_compensation.compensation_applied
  BY <1>2, <1>3, <1>6 DEF PhaseRecord
<1> HIDE DEF failed
<1>8. /\ refined \in PhaseRecord /\ refined.convergence_count = 0
      /\ refined.state = State
      /\ refined.compensation_applied = phase_compensation.compensation_applied
  BY <1>7 DEF PhaseRecord
<1> USE DEF checked, missed, failed
<1>9. Goto(Driver, "rest") => pc'[Driver] = "rest"
  BY <1>1, Went
<1>10. VerifyConverged(checked) \/ VerifyMissed(checked)
  BY DEF Verify
<1>11. CASE VerifyConverged(checked)
  <2>1. /\ evidence' = Seen(flow.reading) /\ flow' = Done(flow)
        /\ \/ Proceed(counted_in) /\ counted_in.convergence_count >= RequiredConv
           \/ Continue(counted_in)
    BY <1>11 DEF VerifyConverged
  <2>2. CASE Proceed(counted_in) /\ counted_in.convergence_count >= RequiredConv
    <3>1. Finishes
      BY <1>1, <1>5, <1>6, <2>1, <2>2, Proceeds DEF Finishes
    <3> QED  BY <1>5, <1>6, <2>2, <3>1, Proceeds
  <2>3. CASE Continue(counted_in)
    BY <1>5, <1>6, <1>9, <2>1, <2>3 DEF Continue, CountsOn, State
  <2> QED  BY <2>1, <2>2, <2>3
<1>12. CASE VerifyMissed(checked)
  <2>1. \/ Continue(missed) /\ evidence' = "none" /\ flow' = Done(flow)
        \/ Continue(refined) /\ evidence' = "none" /\ flow' \in Flushed(Done(Outdated(flow)))
        \/ Proceed(failed) /\ evidence' = "waived" /\ flow' = Done(flow)
    BY <1>12 DEF VerifyMissed
  <2>2. CASE Continue(missed) /\ evidence' = "none" /\ flow' = Done(flow)
    BY <1>5, <1>6, <1>9, <2>2 DEF Continue, StartsOver, State
  <2>3. CASE Continue(refined) /\ evidence' = "none" /\ flow' \in Flushed(Done(Outdated(flow)))
    BY <1>8, <1>9, <2>3 DEF Continue, StartsOver, State
  <2>4. CASE Proceed(failed) /\ evidence' = "waived" /\ flow' = Done(flow)
    <3>1. Finishes
      BY <1>7, <2>4, Proceeds DEF Finishes
    <3> QED  BY <1>7, <2>4, <3>1, Proceeds
  <2> QED  BY <2>1, <2>2, <2>3, <2>4
<1> QED  BY <1>10, <1>11, <1>12

LEMMA VerifyKeeps ==
    ASSUME OnlyRetunes, TypeOK, TypeOK', VInv, Verify
    PROVE  VInv'
<1>1. /\ UNCHANGED <<lag, plant, mode, force_recalibration, coherence_lost, unseen, equalizer_current>>
      /\ pc[Driver] = "verify" /\ flow \in FlowRecord /\ fft_control' = fft_control
      /\ AllLocked' = AllLocked
  BY DEF Verify, TypeOK, FlowOK, plant, AllLocked
<1>2. Calm' /\ (Retuning' <=> Retuning)
  BY <1>1, Outcomes, DriverGoes DEF VInv
<1>3. CASE Restarting
  <2>1. /\ State' = State /\ pc'[Driver] = "rest" /\ flow' = Done(flow) /\ UNCHANGED per_bin_cal
    BY <1>3, CheckAfterCooldown, ThreadsDiffer, Went
  <2>2. DriverKnows' /\ Watching' /\ ~Reading' /\ ~Verifying'
    BY <1>3, <2>1 DEF DriverKnows, Watching, Reading, Verifying, Restarting
  <2>3. LagOfReading'
    BY <1>1, <2>1, <2>2, Leftovers, LagKept DEF VInv
  <2>4. Verdict'
    BY <1>1, <1>2, <1>3, <2>1 DEF VInv, Verdict, VerdictRests, Restarting
  <2> QED  BY <1>2, <2>2, <2>3, <2>4 DEF VInv
<1>4. CASE ~Restarting
  <2>1. State = "VERIFYING_CONVERGENCE" /\ AllLocked /\ fft_control.fft_enabled
    BY <1>1, <1>4 DEF VInv, DriverKnows, LagOfReading, Verifying, Watching
  <2>2. pc'[Driver] = "rest" \/ (State' = "CONVERGED" /\ pc'[Driver] = "complete_noise")
    BY Outcomes DEF Finishes
  <2>3. State' \in {"VERIFYING_CONVERGENCE", "MEASURING_PER_BIN", "CONVERGED"}
    BY <2>1, Outcomes DEF Finishes, CountsOn, StartsOver
  <2>4. DriverKnows' /\ Watching' /\ ~Reading'
    BY <1>1, <2>1, <2>2, <2>3 DEF DriverKnows, Watching, Reading
  <2>5. flow' \in {Done(flow)} \cup Flushed(Done(Outdated(flow)))
    BY Outcomes DEF Finishes, CountsOn, StartsOver
  <2>6. LagOfReading'
    BY <1>1, <2>1, <2>4, <2>5, Leftovers, LagKept DEF VInv
  <2>7. /\ InHand = IF flow.reading = "fresh" THEN 0 ELSE 1
        /\ InHand' = 0
    BY <1>1, <2>4 DEF InHand, Reading
  <2>8. Verdict'
    <3>1. CASE Retuning
      BY <1>2, <3>1 DEF Verdict
    <3>2. CASE VerdictRests /\ CountsOn
      <4>1. evidence' = "none" => flow.reading # "fresh" /\ evidence = "none"
        BY <3>2 DEF CountsOn, Seen
      <4>2. evidence' = "none" => Stale' <= Stale
        <5>1. flow' = Done(flow)
          BY <3>2 DEF CountsOn
        <5>2. Pending' = Pending /\ UnderWay' = UnderWay /\ Waiting' <= Waiting
          BY <1>1, <2>4, <5>1, ReadingDropped
        <5>3. phase_compensation'.convergence_count = phase_compensation.convergence_count + 1
          BY <3>2 DEF CountsOn
        <5> QED  BY <2>7, <4>1, <5>2, <5>3, StaleTyped, StaleTypedNext DEF Stale
      <4>3. evidence' = "none" => Stale' <= 3
        BY <2>1, <3>2, <4>1, <4>2, StaleTyped, StaleTypedNext DEF VerdictRests
      <4> QED  BY <1>1, <2>1, <3>2, <4>3 DEF Verdict, VerdictRests, CountsOn
    <3>3. CASE VerdictRests /\ StartsOver
      <4>1. Stale' <= 3
        BY <2>7, <3>3, StaleTypedNext DEF Stale, StartsOver
      <4> QED  BY <1>1, <2>1, <3>3, <4>1 DEF Verdict, VerdictRests, StartsOver
    <3>4. CASE VerdictRests /\ Finishes
      <4>1. evidence' # "none"
        <5>1. evidence = "none" /\ flow.reading # "fresh" =>
                  phase_compensation.convergence_count + 1 <= 3
          BY <2>1, <2>7, <3>4, StaleTyped DEF VerdictRests, Stale
        <5>2. evidence = "none" /\ flow.reading # "fresh" => evidence' = "waived"
          BY <3>4, <5>1, StaleTyped DEF Finishes, OnlyRetunes
        <5> QED  BY <3>4, <5>2 DEF Finishes, Seen
      <4> QED  BY <1>1, <3>4, <4>1 DEF Verdict, VerdictRests, Finishes
    <3> QED  BY <3>1, <3>2, <3>3, <3>4, Outcomes DEF VInv, Verdict
  <2> QED  BY <1>2, <2>4, <2>6, <2>8 DEF VInv
<1> QED  BY <1>3, <1>4


\* The equalizer that is published is the one just measured.
LEMMA FinishKeeps ==
    ASSUME TypeOK, TypeOK', VInv, FinishPerBin
    PROVE  VInv'
<1>1. /\ UNCHANGED <<lag, plant, mode, force_recalibration, coherence_lost, measured, evidence>>
      /\ pc[Driver] \in {"publish", "give_up", "wait_per_bin"}
      /\ phase_compensation \in PhaseRecord /\ per_bin_cal \in PerBinRecord
  BY DEF FinishPerBin, TypeOK, PhaseOK, PerBinOK
<1>2. /\ fft_control' = fft_control /\ flow' = flow /\ unseen' = unseen /\ AllLocked' = AllLocked
      /\ ~Reading
  BY <1>1 DEF plant, measured, AllLocked, Reading
<1>3. CASE State # "MEASURING_PER_BIN" \/ (pc[Driver] = "wait_per_bin" /\ ~TimedOut)
  <2>1. /\ Continue(phase_compensation) /\ UNCHANGED equalizer_current
    BY <1>3 DEF FinishPerBin
  <2>2. /\ pc'[Driver] = "rest" /\ Calm' /\ (Retuning' <=> Retuning)
    BY <1>1, <2>1, DriverGoes DEF Continue, VInv
  <2>3. State' = State /\ UNCHANGED <<phase_compensation, per_bin_cal>>
    BY <2>1 DEF Continue, State
  <2>4. DriverKnows' /\ Watching' /\ ~Reading'
    BY <1>1, <1>2, <2>2, <2>3 DEF VInv, DriverKnows, Watching, Reading
  <2>5. LagOfReading'
    BY <1>2, <2>3, <2>4 DEF VInv, LagOfReading, Verifying
  <2>6. InHand' = InHand /\ Pending' = Pending /\ UnderWay' = UnderWay /\ Waiting' = Waiting
    BY <1>2, <2>4 DEF InHand, Pending, UnderWay, Waiting
  <2>7. Verdict'
    BY <1>1, <2>1, <2>2, <2>3, <2>6, StaleTyped, VerdictKept DEF VInv
  <2> QED  BY <2>2, <2>4, <2>5, <2>7 DEF VInv
<1>4. CASE ~(State # "MEASURING_PER_BIN" \/ (pc[Driver] = "wait_per_bin" /\ ~TimedOut))
  <2>1. /\ Complete(phase_compensation, [per_bin_cal EXCEPT !.ready = @ \/ pc[Driver] = "publish"])
        /\ equalizer_current' = (equalizer_current \/ pc[Driver] = "publish")
        /\ State = "MEASURING_PER_BIN"
    BY <1>4 DEF FinishPerBin
  <2>2. /\ pc'[Driver] = "complete_noise" /\ Calm' /\ (Retuning' <=> Retuning)
    BY <1>1, <2>1, DriverGoes DEF Complete, VInv
  <2>3. State' = "CONVERGED"
    BY <1>1, <2>1 DEF Complete, State, PhaseRecord
  <2>4. per_bin_cal'.ready = (per_bin_cal.ready \/ pc[Driver] = "publish")
    BY <1>1, <2>1 DEF Complete, PerBinRecord
  <2>5. DriverKnows' /\ Watching' /\ ~Reading'
    BY <2>2, <2>3 DEF DriverKnows, Watching, Reading
  <2>6. LagOfReading'
    BY <1>2, <2>1, <2>5 DEF VInv, LagOfReading, Verifying
  <2>7. Verdict'
    BY <1>1, <2>1, <2>2, <2>3, <2>4 DEF VInv, Verdict, VerdictRests
  <2> QED  BY <2>2, <2>5, <2>6, <2>7 DEF VInv
<1> QED  BY <1>3, <1>4

LEMMA CompleteKeeps ==
    ASSUME TypeOK, TypeOK', VInv, CompleteNoise \/ CompleteFFT
    PROVE  VInv'
<1>1. /\ UNCHANGED <<machine, mode, triggers, measured, history>>
      /\ pc[Driver] \in {"complete_noise", "complete_fft"}
      /\ \/ Goto(Driver, "complete_fft")
         \/ Goto(Driver, "rest")
  BY DEF CompleteNoise, CompleteFFT, Moves, OnlyNoise, OnlyFFT
<1>2. /\ phase_compensation' = phase_compensation /\ per_bin_cal' = per_bin_cal /\ flow' = flow
      /\ unseen' = unseen /\ State' = State /\ AllLocked' = AllLocked /\ State = "CONVERGED"
  BY <1>1 DEF machine, measured, State, AllLocked, VInv, DriverKnows
<1>3. pc'[Driver] \in {"complete_fft", "rest"} /\ Calm' /\ (Retuning' <=> Retuning)
  BY <1>1, DriverGoes DEF VInv, triggers
<1>4. DriverKnows' /\ Watching' /\ ~Reading' /\ ~Reading
  BY <1>1, <1>2, <1>3 DEF DriverKnows, Watching, Reading
<1>5. LagOfReading'
  BY <1>2, <1>4 DEF VInv, LagOfReading, Verifying
<1>6. Verdict'
  BY <1>1, <1>2, <1>3 DEF VInv, Verdict, VerdictRests, history
<1> QED  BY <1>3, <1>4, <1>5, <1>6 DEF VInv

\* handle_settings_change, by the driver.
LEMMA SettingsKeeps ==
    ASSUME OnlyRetunes, TypeOK, TypeOK', VInv, HandleSettingsChange(Driver)
    PROVE  VInv'
<1>1. /\ UNCHANGED <<lag, mode, triggers>> /\ AllLocked' = AllLocked /\ flow \in FlowRecord
      /\ unseen' = unseen
  BY DEF HandleSettingsChange, SettingsDecide, SettingsNoise, SettingsPhase, SettingsFFT, RestartPhase,
         OnlyNoise, OnlyCalibration, machine, measured, AllLocked, TypeOK, FlowOK
<1>2. \A label : Goto(Driver, label) => pc'[Driver] = label /\ Calm' /\ (Retuning' <=> Retuning)
  BY <1>1, DriverGoes DEF VInv, triggers
<1>3. CASE SettingsPhase(Driver)
  <2>1. /\ pc'[Driver] = "settings_fft" /\ Calm' /\ RestartPhase("MEASURING_INITIAL_PHASE")
        /\ ~Reading'
    BY <1>2, <1>3 DEF SettingsPhase, Moves, Reading
  <2>2. /\ State' = "MEASURING_INITIAL_PHASE" /\ phase_compensation'.convergence_count = 0
        /\ flow' = Outdated(flow) /\ ~per_bin_cal'.ready
    BY <2>1 DEF RestartPhase, Restarted, State, TypeOK, PerBinOK, PerBinRecord
  <2>3. DriverKnows' /\ Watching' /\ ~Verifying'
    BY <2>1, <2>2 DEF DriverKnows, Watching, Verifying
  <2>4. LagOfReading'
    BY <1>1, <2>1, <2>2, <2>3, Leftovers, LagKept DEF VInv
  <2>5. Verdict'
    BY <2>2 DEF Verdict, VerdictRests
  <2> QED  BY <2>1, <2>3, <2>4, <2>5 DEF VInv
<1>4. CASE ~SettingsPhase(Driver)
  <2>1. /\ UNCHANGED <<machine, history>> /\ State' = State
        /\ phase_compensation' = phase_compensation /\ per_bin_cal' = per_bin_cal
        /\ flow' \in {flow} \cup Flushed(flow)
    BY <1>4 DEF HandleSettingsChange, SettingsDecide, SettingsNoise, SettingsFFT, OnlyNoise, State,
                machine, measured
  <2>2. \/ /\ pc[Driver] \in {"settings", "settings_noise"} /\ fft_control' = fft_control
           /\ pc'[Driver] \in {"settings_noise", "rest", "settings_phase"}
        \/ /\ pc[Driver] = "settings_fft" /\ fft_control'.fft_enabled
           /\ pc'[Driver] = "rest"
    BY <1>2, <1>4 DEF HandleSettingsChange, SettingsDecide, SettingsNoise, SettingsFFT, Moves, OnlyNoise,
                      FFTOn, plant, OnlyRetunes
  <2>3. Calm' /\ (Retuning' <=> Retuning)
    BY <1>2, <1>4 DEF HandleSettingsChange, SettingsDecide, SettingsNoise, SettingsFFT, Moves
  <2>4. DriverKnows' /\ Watching' /\ ~Reading /\ ~Reading'
    BY <2>1, <2>2 DEF VInv, DriverKnows, Watching, Restarting, Reading
  <2>5. /\ flow'.at = flow.at /\ flow'.taken = flow.taken /\ flow'.result = flow.result
        /\ flow'.reading = flow.reading
    BY <1>1, <2>1, FlowFields
  <2>6. LagOfReading'
    BY <1>1, <2>1, <2>4, <2>5, LagKept DEF VInv, LagOfReading, Verifying
  <2>7. State # "VERIFYING_CONVERGENCE"
    BY <2>2 DEF VInv, DriverKnows, Restarting
  <2>8. Verdict'
    BY <2>1, <2>3, <2>7, VerdictKept DEF VInv, history
  <2> QED  BY <2>3, <2>4, <2>6, <2>8 DEF VInv
<1> QED  BY <1>3, <1>4

-----------------------------------------------------------------------------
(* Retuning. *)

\* A client's step from one of its places to another.
LEMMA ClientGoes ==
    ASSUME TypeOK, Calm, NEW t \in Commanders, NEW label, Goto(t, label),
           label \in {"rest"} \cup Deciding, mode' = mode, triggers' = triggers
    PROVE  Calm' /\ pc'[Driver] = pc[Driver] /\ (label \in Deciding => Retuning')
<1>1. t \in Threads /\ t # Driver /\ t # Watchdog /\ t # Checker
      /\ Driver \in Threads /\ Watchdog \in Threads /\ Checker \in Threads
      /\ \A u \in Commanders : u \in Threads
  BY ThreadsDiffer
<1>2. pc'[t] = label /\ \A u \in Threads : u # t => pc'[u] = pc[u]
  BY <1>1, Went
<1>3. Calm'
  BY <1>1, <1>2 DEF Calm, mode, triggers
<1> QED  BY <1>1, <1>2, <1>3 DEF Retuning

\* While a client has retuned and not restarted the calibration the verdict is open.
LEMMA RetuneKeeps ==
    ASSUME OnlyRetunes, TypeOK, TypeOK', VInv, NEW t \in Commanders, Retune(t)
    PROVE  VInv'
<1>1. /\ UNCHANGED <<machine, plant, mode, triggers>> /\ Retuned /\ flow \in FlowRecord
  BY DEF Retune, TypeOK, FlowOK
<1>2. Goto(t, "decide")
  BY DEF Retune, Begin, OnlyRetunes, Retunes, VInv, Calm
<1>3. Calm' /\ pc'[Driver] = pc[Driver] /\ Retuning'
  BY <1>1, <1>2, ClientGoes DEF VInv, Deciding
<1>4. /\ phase_compensation' = phase_compensation /\ fft_control' = fft_control /\ State' = State
      /\ AllLocked' = AllLocked /\ flow' = Outdated(flow)
  BY <1>1 DEF machine, plant, State, AllLocked, Retuned
<1>5. DriverKnows' /\ Watching'
  BY <1>3, <1>4, DriverKept, WatchingKept DEF VInv
<1>6. flow'.reading = Aged(flow.reading) /\ flow.reading \in Ages
  BY <1>1, <1>4, FlowFields DEF FlowRecord
<1>7. (Reading' <=> Reading) /\ (Reading => flow'.reading # "none") /\ (Verifying' => AllLocked')
  BY <1>3, <1>4, <1>6, AgedFacts DEF VInv, LagOfReading, Reading, Verifying
<1>8. LagOfReading'
  BY <1>1, <1>4, <1>7, Leftovers, LagKept DEF VInv
<1> QED  BY <1>3, <1>5, <1>8 DEF VInv, Verdict

LEMMA CooldownKeeps ==
    ASSUME OnlyRetunes, TypeOK, TypeOK', VInv, NEW t \in Commanders,
           CooldownDecide(t) \/ CooldownNoise(t)
    PROVE  VInv'
<1>1. /\ UNCHANGED <<machine, fft_control, mode, triggers, measured>>
  BY DEF CooldownDecide, CooldownNoise, OnlyNoise, plant
<1>2. \E label \in Deciding : Goto(t, label)
  BY DEF CooldownDecide, CooldownNoise, Moves, KeepsCalibration, LeavesAlone, Deciding, OnlyRetunes,
         VInv, Calm
<1>3. Calm' /\ pc'[Driver] = pc[Driver] /\ Retuning'
  BY <1>1, <1>2, ClientGoes DEF VInv
<1>4. /\ phase_compensation' = phase_compensation /\ State' = State /\ AllLocked' = AllLocked
      /\ flow' = flow
  BY <1>1 DEF machine, State, AllLocked, measured
<1>5. DriverKnows' /\ Watching'
  BY <1>1, <1>3, <1>4, DriverKept, WatchingKept DEF VInv
<1>6. LagOfReading'
  BY <1>3, <1>4 DEF VInv, LagOfReading, Reading, Verifying
<1> QED  BY <1>3, <1>5, <1>6 DEF VInv, Verdict

\* The calibration is restarted, unless the driver is completing it.
LEMMA RestartKeeps ==
    ASSUME TypeOK, TypeOK', VInv, NEW t \in Commanders, CooldownPhase(t)
    PROVE  VInv'
<1>1. /\ UNCHANGED <<lag, plant, mode, triggers, unseen>> /\ RestartPhase("WAITING_FOR_STABILITY")
      /\ Goto(t, "rest") /\ flow \in FlowRecord
  BY DEF CooldownPhase, RestartPhase, TypeOK, FlowOK
<1>2. Calm' /\ pc'[Driver] = pc[Driver]
  BY <1>1, ClientGoes DEF VInv
<1>3. /\ State' = "WAITING_FOR_STABILITY" /\ phase_compensation'.convergence_count = 0
      /\ phase_compensation'.stable_nonzero_count = 0
      /\ phase_compensation'.checks_since_compensation = 0
      /\ flow' = Outdated(flow) /\ ~per_bin_cal'.ready
      /\ pc[Driver] \notin {"complete_noise", "complete_fft"} /\ AllLocked' = AllLocked
  BY <1>1 DEF RestartPhase, Restarted, State, StateMutexFree, AllLocked, TypeOK, PerBinOK, PerBinRecord
<1>4. DriverKnows' /\ Watching'
  BY <1>2, <1>3 DEF DriverKnows, Restarting, Watching
<1>5. flow'.reading = Aged(flow.reading) /\ flow.reading \in Ages
  BY <1>1, <1>3, FlowFields DEF FlowRecord
<1>6. (Reading' <=> Reading) /\ (Reading => flow'.reading # "none") /\ ~Verifying'
  BY <1>2, <1>3, <1>5, AgedFacts DEF VInv, LagOfReading, Reading, Verifying
<1>7. LagOfReading'
  BY <1>1, <1>3, <1>6, Leftovers, LagKept DEF VInv
<1>8. Verdict'
  BY <1>3 DEF Verdict, VerdictRests
<1> QED  BY <1>2, <1>4, <1>7, <1>8 DEF VInv

LEMMA TimeKeeps ==
    ASSUME TypeOK, TypeOK', VInv, UNCHANGED vars \/ \E d \in Deadlines : TimePasses(d)
    PROVE  VInv'
<1>1. UNCHANGED <<pc, machine, plant, mode, triggers, measured, history>>
  BY DEF vars, TimePasses
<1>2. /\ phase_compensation' = phase_compensation /\ per_bin_cal' = per_bin_cal /\ flow' = flow
      /\ unseen' = unseen /\ State' = State /\ AllLocked' = AllLocked /\ fft_control' = fft_control
  BY <1>1 DEF machine, plant, measured, State, AllLocked
<1>3. Calm' /\ (Retuning' <=> Retuning)
  BY <1>1, CalmKept DEF VInv, triggers
<1>4. DriverKnows' /\ Watching'
  BY <1>1, <1>2, DriverKept, WatchingKept DEF VInv
<1>5. LagOfReading'
  BY <1>1, <1>2 DEF VInv, LagOfReading, Reading, Verifying
<1>6. InHand' = InHand /\ Pending' = Pending /\ UnderWay' = UnderWay /\ Waiting' = Waiting
  BY <1>1, <1>2 DEF InHand, Pending, UnderWay, Waiting, Reading
<1>7. Verdict'
  BY <1>1, <1>2, <1>3, <1>6, StaleTyped, VerdictKept DEF VInv, history
<1> QED  BY <1>3, <1>4, <1>5, <1>7 DEF VInv


-----------------------------------------------------------------------------
(* The steps that are left, and the theorems. *)

LEMMA OnlySteps ==
    ASSUME OnlyRetunes, TypeOK, Calm, [Next]_vars
    PROVE  \/ Convert \/ Correlation
           \/ \E c \in Channels : Poll(c) \/ LagStep(c)
           \/ Drive
           \/ \E t \in Commanders : \/ Retune(t) \/ CooldownDecide(t) \/ CooldownNoise(t)
                                    \/ CooldownPhase(t)
           \/ UNCHANGED vars \/ \E d \in Deadlines : TimePasses(d)
<1>1. ~Watch
  <2>1. ~(WatchdogAbort \/ WatchdogAbortFFT \/ WatchdogConsume)
    BY DEF Calm, WatchdogAbort, WatchdogAbortFFT, WatchdogConsume, TookTooLong
  <2>2. ~RecoverCoherence
    BY DEF Calm, RecoverCoherence, RecoverDecide, RecoverFlushOnly, RecoverNoise, RecoverLag,
           RecoverPhase, RecoverRecheck, RecoverFFT, ParkNoise, ParkLag, ParkPhase, ParkFFT, Moves
  <2> QED  BY <2>1, <2>2 DEF Watch
<1>2. ~PeriodicCheck
  <2>1. ~CheckBegin
    <3>1. periodic = 0 /\ ~(periodic < MaxPeriodic)
      BY DEF OnlyRetunes, TypeOK, MeasuredOK
    <3> QED  BY <3>1 DEF CheckBegin
  <2>2. ~(PeriodicCheck /\ ~CheckBegin)
    BY DEF Calm, PeriodicCheck, CheckNoise, CheckFFT, CheckMeasure, CheckRestore, CheckFFTBack,
           CheckNoiseBack, CheckReport, Moves
  <2> QED  BY <2>1, <2>2
<1>3. ~LoseCoherence /\ ~ScannerHop
  <2>1. ~(losses < MaxLosses)
    BY DEF OnlyRetunes, TypeOK, MeasuredOK
  <2> QED  BY <2>1 DEF LoseCoherence, ScannerHop, Calm
<1>4. ASSUME NEW t \in Commanders, Command(t)
      PROVE  Retune(t)
  BY <1>4 DEF Command, EnterWideband, LeaveWideband, Switch, PerBinEnable, PerBinDisable, ForceRecal,
              ResetLagCommand, Scanner, Begin, OnlyRetunes, Retunes
<1>5. ASSUME NEW t \in Commanders, Execute(t)
      PROVE  CooldownDecide(t) \/ CooldownNoise(t) \/ CooldownPhase(t)
  BY <1>5 DEF Calm, Deciding, Execute, EnterPhase, EnterFFT, LeavePhase, LeaveFFT, LeaveNoise, LeaveFlush,
              HandleSettingsChange, SettingsDecide, SettingsNoise, SettingsPhase, SettingsFFT, Moves
<1> QED  BY <1>1, <1>2, <1>3, <1>4, <1>5 DEF Next

LEMMA NextKeeps ==
    ASSUME OnlyRetunes, TypeOK, TypeOK', VInv, [Next]_vars
    PROVE  VInv'
<1>1. Convert \/ Correlation => VInv'
  BY ConvertKeeps, CorrelationKeeps
<1>2. (\E c \in Channels : Poll(c) \/ LagStep(c)) => VInv'
  BY PollKeeps, LagStepKeeps
<1>3. Drive => VInv'
  BY JudgeKeeps, ApplyKeeps, VerifyKeeps, FinishKeeps, CompleteKeeps, SettingsKeeps DEF Drive
<1>4. (\E t \in Commanders : Retune(t) \/ CooldownDecide(t) \/ CooldownNoise(t) \/ CooldownPhase(t))
         => VInv'
  BY RetuneKeeps, CooldownKeeps, RestartKeeps
<1>5. UNCHANGED vars \/ (\E d \in Deadlines : TimePasses(d)) => VInv'
  BY TimeKeeps
<1> QED  BY <1>1, <1>2, <1>3, <1>4, <1>5, OnlySteps DEF VInv

LEMMA InitKeeps ==
    ASSUME OnlyRetunes, Init
    PROVE  VInv
<1>1. /\ \A t \in Threads : pc[t] = "rest"
      /\ Driver \in Threads /\ Watchdog \in Threads /\ Checker \in Threads
      /\ \A t \in Commanders : t \in Threads
  BY ThreadsDiffer DEF Init
<1>2. Calm /\ ~Reading
  BY <1>1 DEF Init, Calm, Reading
<1>3. State = "WAITING_FOR_LAG_COMPLETION" /\ phase_compensation.convergence_count = 0
      /\ ~per_bin_cal.ready /\ fft_control.fft_enabled
  BY DEF Init, State, Restarted, OnlyRetunes
<1>4. DriverKnows /\ Watching
  BY <1>1, <1>3 DEF DriverKnows, Watching
<1>5. LagOfReading
  BY <1>2, <1>3 DEF Init, LagOfReading, IsMeasured, Verifying
<1>6. Verdict
  BY <1>3 DEF Verdict, VerdictRests
<1> QED  BY <1>2, <1>4, <1>5, <1>6 DEF VInv

LEMMA VerdictInvariant == OnlyRetunes => (Spec => []VInv)
<1> SUFFICES ASSUME OnlyRetunes PROVE Spec => []VInv
  OBVIOUS
<1>1. Init => VInv
  BY InitKeeps
<1>2. TypeOK /\ TypeOK' /\ VInv /\ [Next]_vars => VInv'
  BY NextKeeps
<1> QED  BY <1>1, <1>2, TypeCorrect, PTL DEF Spec

LEMMA RestartFields == \A state : Restarted(state).compensation_applied = FALSE
BY DEF Restarted

\* Clients at rest have restarted what they retuned.
LEMMA RestMeansRestarted == AtRest(Steering) => ~Retuning
BY DEF AtRest, Steering, Retuning, Deciding

\* Retuning at any moment of a calibration, any number of times and in any
\* number of threads, does not lead to a finished calibration that counted only
\* readings from before (check_phase_convergence, the cooldown of the command
\* handlers): of them four places hold one each, less one while it is in hand.
THEOREM VerifiedWhenDone == OnlyRetunes => (Spec => []CalibrationIsVerified)
<1>1. VInv => CalibrationIsVerified
  BY RestMeansRestarted DEF VInv, Verdict, VerdictRests, CalibrationIsVerified
<1> QED  BY <1>1, VerdictInvariant, PTL

\* The equalizer in use was designed since the last retune: its publication and a
\* cooldown cannot overtake each other (channel_lag_compensation_processor,
\* compensation.cpp:1146).
THEOREM EqualizerFollows == OnlyRetunes => (Spec => []EqualizerIsCurrent)
<1>1. VInv => EqualizerIsCurrent
  BY RestMeansRestarted DEF VInv, Verdict, VerdictRests, EqualizerIsCurrent
<1> QED  BY <1>1, VerdictInvariant, PTL

\* A correction is first applied with every lag locked, though the driver holds no
\* lock on the lags (apply_phase_compensation_once): phases are published only
\* for locked lags, and a locked lag stays so.
THEOREM AppliedOnLocked == OnlyRetunes => (Spec => CorrectionNeedsLag)
<1> SUFFICES ASSUME OnlyRetunes PROVE Spec => CorrectionNeedsLag
  OBVIOUS
<1>1. ASSUME TypeOK, VInv, [Next]_vars, ~phase_compensation.compensation_applied,
             phase_compensation'.compensation_applied
      PROVE  AllLocked
  <2>1. CASE Apply
    <3>1. \E aligned \in Verdicts(flow.reading) : Streak(aligned) >= RequiredStable /\ Applied
      <4>1. ASSUME NEW k, phase_compensation' = [phase_compensation EXCEPT !.stable_nonzero_count = k]
            PROVE  phase_compensation'.compensation_applied = phase_compensation.compensation_applied
        BY <4>1 DEF TypeOK, PhaseOK, PhaseRecord
      <4> QED  BY <1>1, <2>1, <4>1 DEF Apply
    <3> QED  BY <1>1, <2>1, <3>1, AppliedWhen DEF Apply
  <2>2. CASE Verify
    BY <1>1, <2>2, Outcomes
  <2>3. CASE ~Apply /\ ~Verify
    <3>1. \/ phase_compensation'.compensation_applied = FALSE
          \/ phase_compensation'.compensation_applied = phase_compensation.compensation_applied
      <4>1. CASE Judge
        <5>1. \/ phase_compensation' = phase_compensation
              \/ phase_compensation' = [phase_compensation EXCEPT
                                          !.state = "MEASURING_INITIAL_PHASE", !.stable_nonzero_count = 0]
          BY <4>1 DEF Judge, JudgeStability, JudgeLag, JudgePhase, machine
        <5> QED  BY <1>1, <5>1 DEF TypeOK, PhaseOK, PhaseRecord
      <4>2. CASE FinishPerBin
        <5>1. \/ phase_compensation' = phase_compensation
              \/ phase_compensation' = [phase_compensation EXCEPT !.state = "CONVERGED"]
          BY <4>2 DEF FinishPerBin, Continue, Complete
        <5> QED  BY <1>1, <5>1 DEF TypeOK, PhaseOK, PhaseRecord
      <4>3. CASE CompleteNoise \/ CompleteFFT
        BY <4>3 DEF CompleteNoise, CompleteFFT, OnlyNoise, OnlyFFT, machine
      <4>4. CASE HandleSettingsChange(Driver)
        <5>1. \/ phase_compensation' = phase_compensation
              \/ RestartPhase("MEASURING_INITIAL_PHASE")
          BY <4>4 DEF HandleSettingsChange, SettingsDecide, SettingsNoise, SettingsPhase, SettingsFFT,
                      Moves, OnlyNoise, machine
        <5> QED  BY <5>1, RestartFields DEF RestartPhase
      <4>5. ASSUME NEW t \in Commanders,
                   Retune(t) \/ CooldownDecide(t) \/ CooldownNoise(t) \/ CooldownPhase(t)
            PROVE  \/ phase_compensation'.compensation_applied = FALSE
                   \/ phase_compensation'.compensation_applied = phase_compensation.compensation_applied
        <5>1. \/ phase_compensation' = phase_compensation
              \/ RestartPhase("WAITING_FOR_STABILITY")
          BY <4>5 DEF Retune, CooldownDecide, CooldownNoise, CooldownPhase, OnlyNoise, machine
        <5> QED  BY <5>1, RestartFields DEF RestartPhase
      <4>6. CASE \/ Convert \/ Correlation \/ (\E c \in Channels : Poll(c) \/ LagStep(c))
                 \/ UNCHANGED vars \/ \E d \in Deadlines : TimePasses(d)
        BY <4>6 DEF Convert, Correlation, CorrSkip, CorrTake, CorrCompute, CorrPublish, Poll, LagStep,
                    vars, TimePasses, machine
      <4> QED  BY <1>1, <2>3, <4>1, <4>2, <4>3, <4>4, <4>5, <4>6, OnlySteps DEF VInv, Drive
    <3> QED  BY <1>1, <3>1
  <2> QED  BY <2>1, <2>2, <2>3
<1>2. TypeOK /\ VInv /\ [Next]_vars =>
          (~phase_compensation.compensation_applied /\ phase_compensation'.compensation_applied =>
              \A c \in Channels : lag[c].state = "CONVERGED")
  BY <1>1 DEF AllLocked
<1>3. Spec => []VInv
  BY VerdictInvariant
<1> QED  BY <1>2, <1>3, TypeCorrect, PTL DEF Spec, CorrectionNeedsLag


-----------------------------------------------------------------------------
(* The noise source.  A calibration that is neither finished nor waiting for  *)
(* stability has the noise on when the FFT is on (Lit), but for the places     *)
(* from which a thread has only begun to switch both (Dark).  It stays so      *)
(* because at most one of the clients, the periodic check and the recovery it  *)
(* asks for is under way (OneAtATime, Asking), and because what they begin     *)
(* with is a calibration that the driver has finished with, switches included  *)
(* (Settled): the driver then switches nothing off under them.                 *)

\* The scope: one command (and the way back from wideband mode) or periodic
\* checks, but none of the three commands, nor a loss of coherence, whose switches
\* overlap with those of a completion; see the README.  The counts are 3, 4 and 10
\* in core/types.hpp.
Undisturbed ==
    /\ Apart /\ ~Kerberos /\ MaxLosses = 0
    /\ Commands \cap {"web_gain", "FORCE_RECAL", "BIAS_TEE_DISABLE"} = {}
    /\ RequiredStable >= 2 /\ SeveralNeeded

\* A check begins when the watchdog is idle.  Between two checks lies a minute of a
\* finished calibration at least, and the watchdog looks at its triggers many times
\* a second (periodic_calibration_monitor, coherence_watchdog).
ChecksApart == [][pc[Checker] = "rest" /\ pc[Checker]' # "rest" => pc[Watchdog] = "rest"]_vars

\* Who is under way.
Leaving == {"leave_phase", "leave_fft", "leave_noise", "leave_flush"}
OneAtATime ==
    /\ ~coherence_lost
    /\ commands = 0 \/ periodic = 0
    /\ commands = 0 => /\ operating_mode = "COHERENT" /\ ~scanner /\ AtRest(Commanders)
                       /\ State # "WAITING_FOR_STABILITY" /\ pc[Driver] \notin SettingsLabels
    /\ periodic = 0 => /\ AtRest({Watchdog, Checker})
                       /\ ~recovery_in_progress /\ ~force_recalibration
    /\ \A t, u \in Commanders : pc[t] # "rest" /\ pc[u] # "rest" => t = u
    /\ operating_mode = "WIDEBAND_SCAN" =>
          \A t \in Commanders : pc[t] \in {"rest", "enter_phase", "enter_fft"}
    /\ State = "WAITING_FOR_STABILITY" \/ pc[Driver] \in SettingsLabels =>
          AtRest(Commanders) /\ operating_mode = "COHERENT"

\* The calibration is finished and its completion over.
Settled == State = "CONVERGED" /\ StateMutexFree

\* What the driver still knows when it acts on what it looked at.
DriverIsThere ==
    /\ ~StateMutexFree => State = "CONVERGED"
    /\ pc[Driver] \in {"apply", "verify", "publish", "give_up", "wait_per_bin"} \cup SettingsLabels =>
          State # "CONVERGED"
    /\ State = "WAITING_FOR_STABILITY" /\ pc[Driver] \in {"apply", "verify"} =>
          NoCounts /\ phase_compensation.stable_nonzero_count = 0

\* A recovery is asked for, and begun, when the calibration is settled; so is the
\* restart for the equalizer.
Recovering == {"recover", "recover_noise", "recover_lag", "recover_phase"}
Asking ==
    /\ pc[Checker] # "rest" \/ force_recalibration =>
          Settled /\ pc[Watchdog] = "rest" /\ ~recovery_in_progress
    /\ pc[Checker] # "rest" => ~force_recalibration
    /\ pc[Watchdog] \in Recovering => Settled
    /\ pc[Watchdog] \in {"rest", "abort_fft", "recheck", "recover_fft"} \cup Recovering
    /\ \A t \in Commanders : pc[t] \in {"settings", "settings_noise", "settings_phase"} => Settled

\* Where noise source or FFT are yet to be switched.
At(label) == \E t \in Commanders \cup {Driver} : pc[t] = label
Dark == pc[Watchdog] = "abort_fft" \/ At("cooldown_phase") \/ At("enter_fft") \/ At("leave_noise")
ToBeLit == fft_control.fft_enabled \/ pc[Watchdog] \in {"recheck", "recover_fft"} \/ At("settings_fft")
Lit ==
    /\ State \notin {"CONVERGED", "WAITING_FOR_STABILITY"} /\ ToBeLit /\ ~Dark => noise
    /\ pc[Watchdog] \in {"recover_lag", "recover_phase"} \/ At("settings_phase") => noise
    /\ operating_mode = "WIDEBAND_SCAN" \/ At("leave_phase") \/ At("leave_fft") =>
          ~fft_control.fft_enabled \/ At("enter_phase") \/ At("enter_fft")
    /\ commands = 0 /\ periodic = 0 /\ State # "CONVERGED" => noise

\* Until the first recovery a check finds noise source and FFT off, and takes back
\* what it switched.
NoTrace ==
    /\ ~manual => pc[Watchdog] = "rest" /\ ~recovery_in_progress
    /\ commands = 0 /\ ~manual /\ State = "CONVERGED" =>
        /\ pc[Driver] = "complete_fft" => ~noise
        /\ StateMutexFree =>
           /\ pc[Checker] # "rest" => ~snapshot.noise /\ ~snapshot.enabled
           /\ pc[Checker] \in {"rest", "check_noise", "check_report"} => ~noise
           /\ pc[Checker] \in {"rest", "check_noise", "check_fft", "check_noise_back",
                               "check_report"} => ~fft_control.fft_enabled

\* The inductive invariant.
NInv == OneAtATime /\ DriverIsThere /\ Asking /\ Lit /\ NoTrace

LEMMA NInit == Undisturbed /\ Init => NInv
<1> SUFFICES ASSUME Undisturbed, Init PROVE NInv
  OBVIOUS
<1>1. /\ \A t \in Threads : pc[t] = "rest"
      /\ State = "WAITING_FOR_LAG_COMPLETION" /\ noise
      /\ operating_mode = "COHERENT" /\ ~scanner /\ ~coherence_lost /\ ~recovery_in_progress
      /\ ~force_recalibration /\ commands = 0 /\ periodic = 0
  BY DEF Init, Restarted, State, Undisturbed
<1>2. /\ pc[Driver] = "rest" /\ pc[Watchdog] = "rest" /\ pc[Checker] = "rest"
      /\ \A t \in Commanders : pc[t] = "rest"
  BY <1>1, ThreadsDiffer
<1>3. \A label : At(label) => label = "rest"
  BY <1>2 DEF At
<1>4. OneAtATime
  BY <1>1, <1>2 DEF OneAtATime, AtRest, SettingsLabels
<1>5. DriverIsThere /\ Asking /\ NoTrace
  BY <1>1, <1>2 DEF DriverIsThere, Asking, NoTrace, StateMutexFree, Recovering, SettingsLabels
<1>6. Lit
  BY <1>1, <1>2, <1>3 DEF Lit
<1> QED  BY <1>4, <1>5, <1>6 DEF NInv

LEMMA NPromises ==
    ASSUME TypeOK, NInv
    PROVE  NoiseAsNeeded
<1>1. NoiseWhileCalibrating
  <2> SUFFICES ASSUME Calibrating, fft_control.fft_enabled, Quiet PROVE noise
    BY DEF NoiseWhileCalibrating
  <2>1. \A t \in Commanders \cup {Driver, Watchdog} : pc[t] = "rest"
    BY ThreadsDiffer DEF Quiet, AtRest
  <2>2. ~Dark
    BY <2>1 DEF Dark, At
  <2> QED  BY <2>2 DEF NInv, Lit, ToBeLit, Calibrating
<1>2. CheckLeavesNoTrace
  <2> SUFFICES ASSUME commands = 0, State = "CONVERGED", Quiet, ~manual
               PROVE  ~noise /\ ~fft_control.fft_enabled
    BY DEF CheckLeavesNoTrace
  <2>1. pc[Driver] = "rest" /\ pc[Checker] = "rest"
    BY ThreadsDiffer DEF Quiet, AtRest
  <2> QED  BY <2>1 DEF NInv, NoTrace, StateMutexFree
<1> QED  BY <1>1, <1>2 DEF NoiseAsNeeded

-----------------------------------------------------------------------------
(* Steps that leave alone what the invariant looks at. *)

Looked == <<phase_compensation, noise, fft_control, operating_mode, scanner, recovery_in_progress,
            force_recalibration, coherence_lost, manual, snapshot, commands, periodic>>

\* The places that no part of the invariant tells apart.
Idle == {"rest", "lag", "judge"}

LEMMA NKept ==
    ASSUME NInv, UNCHANGED Looked, pc'[Watchdog] = pc[Watchdog], pc'[Checker] = pc[Checker],
           \A t \in Commanders : pc'[t] = pc[t],
           pc'[Driver] = pc[Driver] \/ (pc[Driver] \in Idle /\ pc'[Driver] \in Idle)
    PROVE  NInv'
<1>1. State' = State /\ StateMutexFree' = StateMutexFree /\ Settled' = Settled
      /\ (pc'[Driver] \in SettingsLabels <=> pc[Driver] \in SettingsLabels)
  BY DEF Looked, State, StateMutexFree, Settled, Idle, SettingsLabels
<1>2. \A label \in {"cooldown_phase", "enter_fft", "leave_noise", "settings_fft", "settings_phase",
                    "leave_phase", "leave_fft", "enter_phase"} : At(label)' <=> At(label)
  BY DEF At, Idle
<1>3. OneAtATime'
  BY <1>1 DEF NInv, OneAtATime, Looked, AtRest
<1>4. DriverIsThere'
  BY <1>1 DEF NInv, DriverIsThere, Looked, Idle, NoCounts
<1>5. Asking'
  BY <1>1 DEF NInv, Asking, Looked
<1>6. Lit'
  BY <1>1, <1>2 DEF NInv, Lit, Dark, ToBeLit, Looked
<1>7. NoTrace'
  BY <1>1 DEF NInv, NoTrace, Looked, Idle
<1> QED  BY <1>3, <1>4, <1>5, <1>6, <1>7 DEF NInv

\* Conversion, correlation, clocks and the scanner's hops.
LEMMA NWorld ==
    ASSUME Undisturbed, TypeOK, NInv,
           \/ Convert \/ Correlation \/ LoseCoherence \/ ScannerHop \/ UNCHANGED vars
           \/ \E d \in Deadlines : TimePasses(d)
    PROVE  NInv'
<1>1. ~LoseCoherence
  <2>1. losses \in 0..0
    BY DEF TypeOK, MeasuredOK, Undisturbed
  <2> QED  BY <2>1 DEF LoseCoherence, Undisturbed
<1>2. UNCHANGED <<pc, Looked>>
  BY <1>1 DEF Convert, Correlation, CorrSkip, CorrTake, CorrCompute, CorrPublish, ScannerHop, TimePasses, vars,
         machine, plant, mode, triggers, counted, Looked
<1> QED  BY <1>2, NKept

\* The lag servos.
LEMMA NServo ==
    ASSUME TypeOK, NInv, NEW c \in Channels, Poll(c) \/ LagStep(c)
    PROVE  NInv'
<1>1. /\ UNCHANGED Looked
      /\ \/ UNCHANGED pc
         \/ pc[c] \in Idle /\ \E label \in Idle : Goto(c, label)
  BY DEF Poll, LagStep, machine, plant, mode, triggers, counted, Looked, Idle
<1>2. CASE UNCHANGED pc
  BY <1>1, <1>2, NKept
<1>3. ASSUME pc[c] \in Idle, NEW label \in Idle, Goto(c, label)
      PROVE  NInv'
  <2>1. c \in Threads
    BY ThreadsDiffer
  <2>2. pc'[c] = label /\ \A u \in Threads : u # c => pc'[u] = pc[u]
    BY <1>3, <2>1, Went
  <2> QED  BY <1>1, <1>3, <2>2, NKept, ThreadsDiffer
<1> QED  BY <1>1, <1>2, <1>3

-----------------------------------------------------------------------------
(* The driver. *)

\* What the driver's steps leave alone, and which parts that preserves.
DriverLeaves == UNCHANGED <<operating_mode, scanner, force_recalibration, coherence_lost, manual,
                            snapshot, commands, periodic>>

LEMMA NDriverGoes ==
    ASSUME TypeOK, NInv, NEW label, Goto(Driver, label), DriverLeaves,
           recovery_in_progress' => recovery_in_progress,
           State' = "WAITING_FOR_STABILITY" => State = "WAITING_FOR_STABILITY",
           label \in SettingsLabels =>
               State = "WAITING_FOR_STABILITY" \/ pc[Driver] \in SettingsLabels,
           Settled => Settled'
    PROVE  /\ pc'[Driver] = label /\ pc'[Watchdog] = pc[Watchdog] /\ pc'[Checker] = pc[Checker]
           /\ \A t \in Commanders : pc'[t] = pc[t]
           /\ OneAtATime' /\ Asking'
<1>1. /\ pc'[Driver] = label /\ pc'[Watchdog] = pc[Watchdog] /\ pc'[Checker] = pc[Checker]
      /\ \A t \in Commanders : pc'[t] = pc[t]
  BY Went, ThreadsDiffer
<1>2. OneAtATime'
  BY <1>1 DEF NInv, OneAtATime, DriverLeaves, AtRest
<1>3. Asking'
  BY <1>1 DEF NInv, Asking, DriverLeaves
<1> QED  BY <1>1, <1>2, <1>3

\* The noise source and the FFT stay as they are.
LEMMA NLitKept ==
    ASSUME NInv, Lit, noise' = noise, fft_control' = fft_control, operating_mode' = operating_mode,
           pc'[Watchdog] = pc[Watchdog], \A t \in Commanders : pc'[t] = pc[t],
           pc[Driver] \notin SettingsLabels, pc'[Driver] \notin {"settings_phase", "settings_fft"},
           pc'[Driver] \in DriverLabels \cup SettingsLabels, pc[Driver] \in DriverLabels,
           State' \notin {"CONVERGED", "WAITING_FOR_STABILITY"} =>
               State \notin {"CONVERGED", "WAITING_FOR_STABILITY"},
           State' # "CONVERGED" => State # "CONVERGED", UNCHANGED <<commands, periodic>>
    PROVE  Lit'
<1>1. \A label \in {"cooldown_phase", "enter_fft", "leave_noise", "settings_fft", "settings_phase",
                    "leave_phase", "leave_fft", "enter_phase"} : At(label)' <=> At(label)
  BY DEF At, DriverLabels, SettingsLabels
<1> QED  BY <1>1 DEF Lit, Dark, ToBeLit

LEMMA NJudge ==
    ASSUME TypeOK, NInv, Judge
    PROVE  NInv'
<1>1. /\ DriverLeaves /\ UNCHANGED <<noise, fft_control, recovery_in_progress>> /\ pc[Driver] = "judge"
      /\ phase_compensation \in PhaseRecord
  BY DEF Judge, DriverLeaves, plant, mode, triggers, counted, TypeOK, PhaseOK
<1>2. PICK label \in {"rest", "settings", "apply", "verify", "give_up", "publish", "wait_per_bin"} :
          /\ Goto(Driver, label)
          /\ label = "settings" => State = "WAITING_FOR_STABILITY"
          /\ label \in {"apply", "verify", "give_up", "publish", "wait_per_bin"} =>
                /\ State \in {"MEASURING_INITIAL_PHASE", "VERIFYING_CONVERGENCE", "MEASURING_PER_BIN"}
                /\ phase_compensation' = phase_compensation
          /\ \/ phase_compensation' = phase_compensation
             \/ /\ State = "WAITING_FOR_LAG_COMPLETION"
                /\ State' = "MEASURING_INITIAL_PHASE"
  <2>1. CASE JudgeStability
    BY <1>1, <2>1 DEF Judge, JudgeStability, machine
  <2>2. CASE JudgeLag
    BY <1>1, <2>2 DEF JudgeLag, State, PhaseRecord
  <2>3. CASE JudgePhase
    BY <1>1, <2>3 DEF JudgePhase, DriverRests, machine
  <2> QED  BY <2>1, <2>2, <2>3 DEF Judge
<1>3. /\ State' = State \/ (State = "WAITING_FOR_LAG_COMPLETION" /\ State' = "MEASURING_INITIAL_PHASE")
      /\ StateMutexFree
  BY <1>1, <1>2 DEF State, StateMutexFree
<1>4. pc'[Driver] = label
  BY <1>2, Went, ThreadsDiffer
<1>5. Settled => Settled'
  BY <1>3, <1>4 DEF Settled, StateMutexFree
<1>6. /\ pc'[Watchdog] = pc[Watchdog] /\ pc'[Checker] = pc[Checker]
      /\ \A t \in Commanders : pc'[t] = pc[t]
      /\ OneAtATime' /\ Asking'
  BY <1>1, <1>2, <1>3, <1>5, NDriverGoes DEF SettingsLabels
<1>7. DriverIsThere'
  BY <1>2, <1>3, <1>4 DEF DriverIsThere, StateMutexFree, State, SettingsLabels
<1>8. Lit'
  <2>1. Lit
    BY DEF NInv
  <2> QED  BY <1>1, <1>2, <1>3, <1>4, <1>6, <2>1, NLitKept DEF DriverLeaves, DriverLabels, SettingsLabels
<1>9. NoTrace'
  <2>1. StateMutexFree' /\ pc'[Driver] # "complete_fft"
    BY <1>4 DEF StateMutexFree
  <2>2. State' = "CONVERGED" => State = "CONVERGED"
    BY <1>3
  <2>3. NoTrace
    BY DEF NInv
  <2> QED  BY <1>1, <1>3, <1>6, <2>1, <2>2, <2>3 DEF NoTrace, DriverLeaves
<1> QED  BY <1>6, <1>7, <1>8, <1>9 DEF NInv

\* A measurement is applied in the state it was judged in, or in none.
LEMMA NApply ==
    ASSUME Undisturbed, TypeOK, NInv, Apply
    PROVE  NInv'
<1>1. /\ DriverLeaves /\ UNCHANGED <<noise, fft_control, recovery_in_progress>> /\ pc[Driver] = "apply"
      /\ Goto(Driver, "rest") /\ phase_compensation \in PhaseRecord
  BY DEF Apply, DriverLeaves, plant, mode, triggers, counted, TypeOK, PhaseOK
<1>2. pc'[Driver] = "rest" /\ StateMutexFree /\ StateMutexFree' /\ ~Settled
  BY <1>1, Went, ThreadsDiffer DEF NInv, DriverIsThere, Settled, StateMutexFree
<1>3. /\ State' \in {State, "VERIFYING_CONVERGENCE"} /\ State # "CONVERGED"
      /\ State = "WAITING_FOR_STABILITY" => State' = State
  <2>1. State = "WAITING_FOR_STABILITY" => \A aligned \in BOOLEAN : ~(Streak(aligned) >= RequiredStable)
    BY <1>1, ConstantsTyped DEF NInv, DriverIsThere, Streak, Undisturbed
  <2>2. Verdicts(flow.reading) \subseteq BOOLEAN
    BY DEF Verdicts
  <2>3. State' \in {State, "VERIFYING_CONVERGENCE"}
    BY <1>1 DEF Apply, Applied, State, PhaseRecord
  <2>4. State = "WAITING_FOR_STABILITY" => State' = State
    BY <1>1, <2>1, <2>2 DEF Apply, State, PhaseRecord
  <2> QED  BY <1>1, <2>3, <2>4 DEF NInv, DriverIsThere
<1>4. /\ pc'[Watchdog] = pc[Watchdog] /\ pc'[Checker] = pc[Checker]
      /\ \A t \in Commanders : pc'[t] = pc[t]
      /\ OneAtATime' /\ Asking'
  BY <1>1, <1>2, <1>3, NDriverGoes DEF SettingsLabels
<1>5. DriverIsThere'
  BY <1>2, <1>3 DEF DriverIsThere, SettingsLabels
<1>6. Lit'
  <2>1. Lit
    BY DEF NInv
  <2> QED  BY <1>1, <1>2, <1>3, <1>4, <2>1, NLitKept DEF DriverLeaves, DriverLabels, SettingsLabels
<1>7. NoTrace'
  BY <1>1, <1>2, <1>3, <1>4 DEF NInv, NoTrace, DriverLeaves
<1> QED  BY <1>4, <1>5, <1>6, <1>7 DEF NInv

\* The verification goes on in its state, proceeds, or ends the calibration.
LEMMA NVerify ==
    ASSUME Undisturbed, TypeOK, NInv, Verify
    PROVE  NInv'
<1>1. DriverLeaves /\ UNCHANGED <<noise, fft_control>> /\ pc[Driver] = "verify"
  BY DEF Verify, DriverLeaves, plant, mode, counted
<1>2. /\ recovery_in_progress' => recovery_in_progress
      /\ ((CountsOn \/ StartsOver) /\ pc'[Driver] = "rest") \/ Finishes
  BY Outcomes
<1>3. PICK label : Goto(Driver, label)
  BY Outcomes
<1>4. pc'[Driver] = label
  BY <1>3, Went, ThreadsDiffer
<1>5. State # "CONVERGED" /\ ~Settled
  BY <1>1 DEF NInv, DriverIsThere, Settled
<1>6. \/ label = "rest" /\ State' = State
      \/ label = "rest" /\ State' = "MEASURING_PER_BIN" /\ State # "WAITING_FOR_STABILITY"
      \/ label = "complete_noise" /\ State' = "CONVERGED"
  <2>1. CASE State = "WAITING_FOR_STABILITY"
    <3>1. State' = State
      BY <1>1, <2>1, NoCountsNoEnd DEF NInv, DriverIsThere, Undisturbed
    <3> QED  BY <1>2, <1>4, <2>1, <3>1 DEF Finishes
  <2>2. CASE State # "WAITING_FOR_STABILITY"
    BY <1>2, <1>4, <2>2 DEF Finishes, CountsOn, StartsOver
  <2> QED  BY <2>1, <2>2
<1>7. /\ pc'[Watchdog] = pc[Watchdog] /\ pc'[Checker] = pc[Checker]
      /\ \A t \in Commanders : pc'[t] = pc[t]
      /\ OneAtATime' /\ Asking'
  BY <1>1, <1>2, <1>3, <1>5, <1>6, NDriverGoes DEF SettingsLabels
<1>8. DriverIsThere'
  BY <1>4, <1>5, <1>6 DEF DriverIsThere, SettingsLabels, StateMutexFree
<1>9. Lit'
  <2>1. Lit
    BY DEF NInv
  <2> QED  BY <1>1, <1>4, <1>5, <1>6, <1>7, <2>1, NLitKept DEF DriverLeaves, DriverLabels, SettingsLabels
<1>10. NoTrace'
  BY <1>1, <1>2, <1>4, <1>5, <1>6, <1>7 DEF NInv, NoTrace, DriverLeaves, StateMutexFree
<1> QED  BY <1>7, <1>8, <1>9, <1>10 DEF NInv

LEMMA NFinish ==
    ASSUME TypeOK, NInv, FinishPerBin
    PROVE  NInv'
<1>1. /\ DriverLeaves /\ UNCHANGED <<noise, fft_control>>
      /\ pc[Driver] \in {"publish", "give_up", "wait_per_bin"} /\ phase_compensation \in PhaseRecord
  BY DEF FinishPerBin, DriverLeaves, plant, mode, counted, TypeOK, PhaseOK
<1>2. PICK label :
          /\ Goto(Driver, label) /\ (recovery_in_progress' => recovery_in_progress)
          /\ \/ label = "rest" /\ phase_compensation' = phase_compensation
             \/ label = "complete_noise" /\ State' = "CONVERGED"
  BY <1>1 DEF FinishPerBin, Continue, Complete, State, PhaseRecord
<1>3. \/ label = "rest" /\ State' = State
      \/ label = "complete_noise" /\ State' = "CONVERGED"
  BY <1>2 DEF State
<1>4. pc'[Driver] = label
  BY <1>2, Went, ThreadsDiffer
<1>5. State # "CONVERGED" /\ ~Settled
  BY <1>1 DEF NInv, DriverIsThere, Settled
<1>6. /\ pc'[Watchdog] = pc[Watchdog] /\ pc'[Checker] = pc[Checker]
      /\ \A t \in Commanders : pc'[t] = pc[t]
      /\ OneAtATime' /\ Asking'
  BY <1>1, <1>2, <1>3, <1>5, NDriverGoes DEF SettingsLabels
<1>7. DriverIsThere'
  BY <1>3, <1>4, <1>5 DEF DriverIsThere, SettingsLabels, StateMutexFree
<1>8. Lit'
  <2>1. Lit
    BY DEF NInv
  <2> QED  BY <1>1, <1>3, <1>4, <1>5, <1>6, <2>1, NLitKept DEF DriverLeaves, DriverLabels, SettingsLabels
<1>9. NoTrace'
  BY <1>1, <1>2, <1>3, <1>4, <1>5, <1>6 DEF NInv, NoTrace, DriverLeaves, StateMutexFree
<1> QED  BY <1>6, <1>7, <1>8, <1>9 DEF NInv

\* The completion switches noise source and FFT off of a finished calibration, and
\* nobody is about to begin another.
LEMMA NComplete ==
    ASSUME TypeOK, NInv, CompleteNoise \/ CompleteFFT
    PROVE  NInv'
<1>1. /\ DriverLeaves /\ UNCHANGED <<recovery_in_progress, phase_compensation>>
      /\ pc[Driver] \in {"complete_noise", "complete_fft"}
      /\ \E label \in {"rest", "complete_fft"} : Goto(Driver, label)
  BY DEF CompleteNoise, CompleteFFT, Moves, OnlyNoise, OnlyFFT, DriverLeaves, machine, mode, triggers, counted
<1>2. State = "CONVERGED" /\ State' = State /\ ~StateMutexFree /\ ~Settled
  BY <1>1 DEF NInv, DriverIsThere, StateMutexFree, State, Settled
<1>3. /\ pc'[Watchdog] = pc[Watchdog] /\ pc'[Checker] = pc[Checker]
      /\ \A t \in Commanders : pc'[t] = pc[t]
      /\ OneAtATime' /\ Asking' /\ pc'[Driver] \in {"rest", "complete_fft"}
  BY <1>1, <1>2, NDriverGoes DEF SettingsLabels
<1>4. DriverIsThere'
  BY <1>2, <1>3 DEF DriverIsThere, SettingsLabels
<1>5. Lit'
  <2>1. \A label \in {"settings_phase", "leave_phase", "leave_fft", "enter_phase", "enter_fft"} :
            At(label)' <=> At(label)
    BY <1>1, <1>3 DEF At
  <2>2. pc[Watchdog] \notin Recovering /\ ~At("settings_phase")
    BY <1>1, <1>2 DEF NInv, Asking, At
  <2>3. fft_control' = fft_control \/ ~fft_control'.fft_enabled
    BY DEF CompleteNoise, CompleteFFT, OnlyNoise, FFTOff
  <2> QED  BY <1>1, <1>2, <1>3, <2>1, <2>2, <2>3 DEF NInv, Lit, DriverLeaves, Recovering
<1>6. NoTrace'
  <2>1. pc[Checker] = "rest"
    BY <1>2 DEF NInv, Asking
  <2>2. CASE CompleteNoise
    <3>1. pc'[Driver] = "complete_fft" /\ ~noise'
      BY <2>2, Went, ThreadsDiffer DEF CompleteNoise, Moves, NoiseOff
    <3> QED  BY <1>1, <1>2, <1>3, <3>1 DEF NInv, NoTrace, DriverLeaves, StateMutexFree
  <2>3. CASE CompleteFFT
    <3>1. pc[Driver] = "complete_fft" /\ pc'[Driver] = "rest" /\ noise' = noise /\ ~fft_control'.fft_enabled
      BY <2>3, Went, ThreadsDiffer DEF CompleteFFT, Moves, FFTOff, OnlyFFT
    <3> QED  BY <1>1, <1>2, <1>3, <2>1, <3>1 DEF NInv, NoTrace, DriverLeaves
  <2> QED  BY <2>2, <2>3
<1> QED  BY <1>3, <1>4, <1>5, <1>6 DEF NInv

-----------------------------------------------------------------------------
(* Clients, and settings that are handled by the driver. *)

\* A client that is under way is alone: no check, no recovery, no other client, and
\* the driver handles no settings.
LEMMA ClientAlone ==
    ASSUME TypeOK, NInv, NEW t \in Commanders, pc[t] # "rest"
    PROVE  /\ commands # 0 /\ periodic = 0 /\ pc[Watchdog] = "rest" /\ pc[Checker] = "rest"
           /\ ~recovery_in_progress /\ ~force_recalibration /\ ~coherence_lost
           /\ \A u \in Commanders : u # t => pc[u] = "rest"
           /\ State # "WAITING_FOR_STABILITY" /\ pc[Driver] \in DriverLabels \ SettingsLabels
           /\ \A label \in CommandLabels \ {"rest"} : At(label) <=> pc[t] = label
<1>1. commands # 0 /\ State # "WAITING_FOR_STABILITY" /\ pc[Driver] \notin SettingsLabels
      /\ \A u \in Commanders : u # t => pc[u] = "rest"
  BY DEF NInv, OneAtATime, AtRest
<1>2. pc[Driver] \in DriverLabels \ SettingsLabels
  BY <1>1 DEF TypeOK, PlacesOK
<1>3. \A label \in CommandLabels \ {"rest"} : At(label) <=> pc[t] = label
  BY <1>1, <1>2 DEF At, CommandLabels, DriverLabels, SettingsLabels
<1> QED  BY <1>1, <1>2, <1>3 DEF NInv, OneAtATime, AtRest

\* The driver handles settings when no client is under way.
LEMMA DriverAlone ==
    ASSUME TypeOK, NInv, pc[Driver] \in SettingsLabels
    PROVE  /\ commands # 0 /\ periodic = 0 /\ pc[Watchdog] = "rest" /\ pc[Checker] = "rest"
           /\ ~recovery_in_progress /\ ~force_recalibration /\ ~coherence_lost
           /\ \A u \in Commanders : pc[u] = "rest"
           /\ operating_mode = "COHERENT" /\ State # "CONVERGED" /\ ~Settled
           /\ \A label \in CommandLabels \ {"rest"} : At(label) <=> pc[Driver] = label
<1>1. commands # 0 /\ State # "CONVERGED" /\ (\A u \in Commanders : pc[u] = "rest")
  BY DEF NInv, OneAtATime, AtRest, DriverIsThere
<1>2. \A label \in CommandLabels \ {"rest"} : At(label) <=> pc[Driver] = label
  BY <1>1 DEF At
<1> QED  BY <1>1, <1>2 DEF NInv, OneAtATime, AtRest, Settled

LEMMA NClientGoes ==
    ASSUME TypeOK, NInv, NEW t \in Commanders, pc[t] # "rest",
           NEW label \in CommandLabels, Goto(t, label),
           UNCHANGED <<triggers, commands, periodic>>,
           operating_mode' = "WIDEBAND_SCAN" => label \in {"rest", "enter_phase", "enter_fft"},
           State' = "WAITING_FOR_STABILITY" => label = "rest" /\ operating_mode' = "COHERENT",
           label \in {"settings", "settings_noise", "settings_phase"} => Settled'
    PROVE  /\ OneAtATime' /\ Asking' /\ NoTrace'
           /\ pc'[t] = label /\ pc'[Driver] = pc[Driver] /\ pc'[Watchdog] = "rest"
           /\ \A l \in CommandLabels \ {"rest"} : At(l)' <=> l = label
<1>1. /\ commands # 0 /\ periodic = 0 /\ pc[Watchdog] = "rest" /\ pc[Checker] = "rest"
      /\ ~recovery_in_progress /\ ~force_recalibration /\ ~coherence_lost
      /\ \A u \in Commanders : u # t => pc[u] = "rest"
      /\ State # "WAITING_FOR_STABILITY" /\ pc[Driver] \in DriverLabels \ SettingsLabels
  BY ClientAlone
<1>2. /\ pc'[t] = label /\ pc'[Driver] = pc[Driver]
      /\ pc'[Watchdog] = "rest" /\ pc'[Checker] = "rest"
      /\ \A u \in Commanders : u # t => pc'[u] = "rest"
  BY <1>1, Went, ThreadsDiffer
<1>3. \A l \in CommandLabels \ {"rest"} : At(l)' <=> l = label
  BY <1>1, <1>2 DEF At, CommandLabels, DriverLabels, SettingsLabels
<1>4. OneAtATime'
  <2>1. /\ commands' # 0 /\ periodic' = 0 /\ ~coherence_lost' /\ ~recovery_in_progress'
        /\ ~force_recalibration'
    BY <1>1 DEF triggers
  <2>2. \A u, v \in Commanders : pc'[u] # "rest" /\ pc'[v] # "rest" => u = v
    BY <1>2
  <2>3. operating_mode' = "WIDEBAND_SCAN" =>
            \A u \in Commanders : pc'[u] \in {"rest", "enter_phase", "enter_fft"}
    BY <1>2
  <2>4. State' = "WAITING_FOR_STABILITY" \/ pc'[Driver] \in SettingsLabels =>
            (\A u \in Commanders : pc'[u] = "rest") /\ operating_mode' = "COHERENT"
    BY <1>1, <1>2
  <2> QED  BY <1>2, <2>1, <2>2, <2>3, <2>4 DEF OneAtATime, AtRest
<1>5. Asking' /\ NoTrace'
  BY <1>1, <1>2 DEF Asking, NoTrace, triggers, Recovering
<1> QED  BY <1>2, <1>3, <1>4, <1>5

\* Settings handled by a client: the equalizer is to be measured again.
LEMMA NClientSettings ==
    ASSUME Undisturbed, TypeOK, NInv, NEW t \in Commanders, HandleSettingsChange(t)
    PROVE  NInv'
<1>1. pc[t] \in SettingsLabels /\ pc[t] # "rest" /\ UNCHANGED <<triggers, commands, periodic, operating_mode>>
  BY DEF HandleSettingsChange, SettingsDecide, SettingsNoise, SettingsPhase, SettingsFFT, Moves, OnlyNoise,
         OnlyCalibration, SettingsLabels, counted, mode
<1>2. /\ pc[Watchdog] = "rest" /\ ~recovery_in_progress
      /\ State # "WAITING_FOR_STABILITY" /\ pc[Driver] \in DriverLabels \ SettingsLabels
      /\ \A label \in CommandLabels \ {"rest"} : At(label) <=> pc[t] = label
  BY <1>1, ClientAlone
<1>0. commands' # 0
  BY <1>1, ClientAlone
<1>3. operating_mode = "COHERENT" /\ operating_mode' = "COHERENT"
  <2>1. operating_mode # "WIDEBAND_SCAN"
    BY <1>1 DEF NInv, OneAtATime, SettingsLabels
  <2> QED  BY <1>1, <2>1 DEF TypeOK, SwitchesOK
<1>4. CASE SettingsDecide(t)
  <2>1. pc[t] = "settings" /\ Goto(t, "settings_noise") /\ UNCHANGED <<phase_compensation, noise, fft_control>>
    BY <1>2, <1>4 DEF SettingsDecide, Undisturbed, machine, plant
  <2>2. Settled /\ Settled' /\ State' = State
    BY <1>1, <2>1, Went, ThreadsDiffer DEF NInv, Asking, Settled, State, StateMutexFree
  <2>3. /\ OneAtATime' /\ Asking' /\ NoTrace' /\ pc'[Driver] = pc[Driver] /\ pc'[Watchdog] = "rest"
        /\ \A l \in CommandLabels \ {"rest"} : At(l)' <=> l = "settings_noise"
    BY <1>1, <1>2, <1>3, <2>1, <2>2, NClientGoes DEF CommandLabels, SettingsLabels
  <2>4. DriverIsThere'
    BY <2>1, <2>2, <2>3 DEF NInv, DriverIsThere, StateMutexFree, NoCounts
  <2>5. Lit'
    BY <1>0, <1>3, <2>1, <2>2, <2>3 DEF Lit, Settled, CommandLabels, SettingsLabels
  <2> QED  BY <2>3, <2>4, <2>5 DEF NInv
<1>5. CASE SettingsNoise(t)
  <2>1. /\ pc[t] = "settings_noise" /\ Goto(t, "settings_phase") /\ noise'
        /\ UNCHANGED <<phase_compensation, fft_control>>
    BY <1>5 DEF SettingsNoise, Moves, NoiseOn, OnlyNoise, machine
  <2>2. Settled /\ Settled' /\ State' = State
    BY <1>1, <2>1, Went, ThreadsDiffer DEF NInv, Asking, Settled, State, StateMutexFree
  <2>3. /\ OneAtATime' /\ Asking' /\ NoTrace' /\ pc'[Driver] = pc[Driver] /\ pc'[Watchdog] = "rest"
        /\ \A l \in CommandLabels \ {"rest"} : At(l)' <=> l = "settings_phase"
    BY <1>1, <1>2, <1>3, <2>1, <2>2, NClientGoes DEF CommandLabels, SettingsLabels
  <2>4. DriverIsThere'
    BY <2>1, <2>2, <2>3 DEF NInv, DriverIsThere, StateMutexFree, NoCounts
  <2>5. Lit'
    BY <1>0, <1>3, <2>1, <2>2, <2>3 DEF Lit, Settled, CommandLabels, SettingsLabels
  <2> QED  BY <2>3, <2>4, <2>5 DEF NInv
<1>6. CASE SettingsPhase(t)
  <2>1. /\ pc[t] = "settings_phase" /\ Goto(t, "settings_fft")
        /\ State' = "MEASURING_INITIAL_PHASE" /\ UNCHANGED <<noise, fft_control>>
    BY <1>6 DEF SettingsPhase, Moves, RestartPhase, Restarted, State, OnlyCalibration, plant
  <2>2. noise /\ Settled
    BY <2>1 DEF NInv, Lit, At, Asking
  <2>3. /\ OneAtATime' /\ Asking' /\ NoTrace' /\ pc'[Driver] = pc[Driver] /\ pc'[Watchdog] = "rest"
        /\ \A l \in CommandLabels \ {"rest"} : At(l)' <=> l = "settings_fft"
    BY <1>1, <1>2, <1>3, <2>1, NClientGoes DEF CommandLabels, SettingsLabels
  <2>4. DriverIsThere'
    BY <2>1, <2>2, <2>3 DEF NInv, DriverIsThere, StateMutexFree, Settled
  <2>5. Lit'
    BY <1>0, <1>3, <2>1, <2>2, <2>3 DEF Lit, CommandLabels, SettingsLabels
  <2> QED  BY <2>3, <2>4, <2>5 DEF NInv
<1>7. CASE SettingsFFT(t)
  <2>1. pc[t] = "settings_fft" /\ Goto(t, "rest") /\ UNCHANGED <<phase_compensation, noise>>
    BY <1>7 DEF SettingsFFT, machine
  <2>2. State' = State
    BY <2>1 DEF State
  <2>3. /\ OneAtATime' /\ Asking' /\ NoTrace' /\ pc'[Driver] = pc[Driver] /\ pc'[Watchdog] = "rest"
        /\ \A l \in CommandLabels \ {"rest"} : ~At(l)'
    BY <1>1, <1>2, <1>3, <2>1, <2>2, NClientGoes DEF CommandLabels, SettingsLabels
  <2>4. DriverIsThere'
    BY <2>1, <2>2, <2>3 DEF NInv, DriverIsThere, StateMutexFree, NoCounts
  <2>5. State # "CONVERGED" => noise
    <3>1. At("settings_fft") /\ ~Dark
      BY <1>2, <2>1 DEF Dark, CommandLabels, SettingsLabels
    <3> QED  BY <1>2, <3>1 DEF NInv, Lit, ToBeLit
  <2>6. Lit'
    BY <1>0, <1>3, <2>1, <2>2, <2>3, <2>5 DEF Lit, CommandLabels, SettingsLabels
  <2> QED  BY <2>3, <2>4, <2>6 DEF NInv
<1> QED  BY <1>4, <1>5, <1>6, <1>7 DEF HandleSettingsChange

\* Settings handled by the driver, after a cooldown.
LEMMA NDriverSettings ==
    ASSUME Undisturbed, TypeOK, NInv, HandleSettingsChange(Driver)
    PROVE  NInv'
<1>1. pc[Driver] \in SettingsLabels /\ DriverLeaves /\ UNCHANGED recovery_in_progress
  BY DEF HandleSettingsChange, SettingsDecide, SettingsNoise, SettingsPhase, SettingsFFT, Moves, OnlyNoise,
         OnlyCalibration, SettingsLabels, DriverLeaves, counted, mode, triggers
<1>2. /\ commands # 0 /\ pc[Watchdog] = "rest" /\ pc[Checker] = "rest" /\ ~recovery_in_progress
      /\ operating_mode = "COHERENT" /\ State # "CONVERGED" /\ ~Settled
      /\ \A u \in Commanders : pc[u] = "rest"
      /\ \A label \in CommandLabels \ {"rest"} : At(label) <=> pc[Driver] = label
  BY <1>1, DriverAlone
<1>3. ASSUME NEW label \in {"rest", "settings_noise", "settings_phase", "settings_fft"}, Goto(Driver, label),
             State' \in {State, "MEASURING_INITIAL_PHASE"},
             pc[Driver] = "settings_fft" \/ label = "settings_fft" \/ fft_control' = fft_control,
             label \in {"settings_phase", "settings_fft"} => noise',
             pc[Driver] \in {"settings_phase", "settings_fft"} => noise' = noise,
             label \in {"rest", "settings_noise"} => State' = State,
             label = "settings_noise" => noise' = noise /\ fft_control' = fft_control,
             label = "rest" => pc[Driver] = "settings_fft"
      PROVE  NInv'
  <2>1. /\ pc'[Driver] = label /\ pc'[Watchdog] = pc[Watchdog] /\ pc'[Checker] = pc[Checker]
        /\ \A t \in Commanders : pc'[t] = pc[t]
        /\ OneAtATime' /\ Asking'
    BY <1>1, <1>2, <1>3, NDriverGoes DEF SettingsLabels
  <2>2. DriverIsThere'
    BY <1>2, <1>3, <2>1 DEF DriverIsThere, StateMutexFree, SettingsLabels
  <2>3. \A l \in CommandLabels \ {"rest"} : At(l)' <=> l = label
    BY <1>2, <2>1 DEF At
  <2>4. Lit'
    <3>1. \A l \in {"cooldown_phase", "enter_fft", "leave_noise", "leave_phase", "leave_fft",
                    "enter_phase"} : ~At(l) /\ ~At(l)'
      BY <1>1, <1>2, <2>3 DEF CommandLabels, SettingsLabels
    <3>2. At("settings_fft")' => label = "settings_fft"
      BY <2>3 DEF CommandLabels, SettingsLabels
    <3>3. At("settings_phase")' => label = "settings_phase"
      BY <2>3 DEF CommandLabels, SettingsLabels
    <3>4. At("settings_fft") <=> pc[Driver] = "settings_fft"
      BY <1>2 DEF CommandLabels, SettingsLabels
    <3>5. operating_mode' = "COHERENT" /\ pc'[Watchdog] = "rest" /\ commands' # 0
      BY <1>1, <1>2, <2>1 DEF DriverLeaves
    <3>6. State' \notin {"CONVERGED", "WAITING_FOR_STABILITY"} /\ ToBeLit' => noise'
      <4>1. CASE label = "rest"
        <5>1. State # "WAITING_FOR_STABILITY" => noise
          BY <1>2, <1>3, <3>1, <3>4, <4>1 DEF NInv, Lit, ToBeLit, Dark
        <5> QED  BY <1>3, <4>1, <5>1
      <4>2. CASE label = "settings_noise"
        <5>1. ToBeLit' => ToBeLit
          BY <1>2, <1>3, <2>1, <3>2, <4>2 DEF ToBeLit
        <5> QED  BY <1>2, <1>3, <3>1, <4>2, <5>1 DEF NInv, Lit, Dark
      <4> QED  BY <1>3, <4>1, <4>2
    <3> QED  BY <1>3, <3>1, <3>3, <3>5, <3>6 DEF Lit
  <2>5. NoTrace'
    BY <1>1, <1>2, <2>1 DEF NoTrace, DriverLeaves
  <2> QED  BY <2>1, <2>2, <2>4, <2>5 DEF NInv
<1>4. CASE SettingsDecide(Driver)
  <2>1. pc[Driver] = "settings" /\ Goto(Driver, "settings_noise") /\ UNCHANGED <<phase_compensation, noise, fft_control>>
    BY <1>2, <1>4 DEF SettingsDecide, Undisturbed, machine, plant
  <2> QED  BY <1>3, <2>1 DEF State, SettingsLabels
<1>5. CASE SettingsNoise(Driver)
  <2>1. /\ pc[Driver] = "settings_noise" /\ Goto(Driver, "settings_phase") /\ noise'
        /\ UNCHANGED <<phase_compensation, fft_control>>
    BY <1>5 DEF SettingsNoise, Moves, NoiseOn, OnlyNoise, machine
  <2> QED  BY <1>3, <2>1 DEF State, SettingsLabels
<1>6. CASE SettingsPhase(Driver)
  <2>1. /\ pc[Driver] = "settings_phase" /\ Goto(Driver, "settings_fft")
        /\ State' = "MEASURING_INITIAL_PHASE" /\ UNCHANGED <<noise, fft_control>>
    BY <1>6 DEF SettingsPhase, Moves, RestartPhase, Restarted, State, OnlyCalibration, plant
  <2>2. noise
    BY <2>1 DEF NInv, Lit, At
  <2> QED  BY <1>3, <2>1, <2>2 DEF SettingsLabels
<1>7. CASE SettingsFFT(Driver)
  <2>1. pc[Driver] = "settings_fft" /\ Goto(Driver, "rest") /\ UNCHANGED <<phase_compensation, noise>>
    BY <1>7 DEF SettingsFFT, machine
  <2> QED  BY <1>3, <2>1 DEF State
<1> QED  BY <1>4, <1>5, <1>6, <1>7 DEF HandleSettingsChange

\* What is left of Lit when one client is under way, to or at a label.
ClientLit(label) ==
    /\ (/\ State \notin {"CONVERGED", "WAITING_FOR_STABILITY"}
        /\ fft_control.fft_enabled \/ label = "settings_fft"
        /\ label \notin {"cooldown_phase", "enter_fft", "leave_noise"})
       => noise
    /\ label = "settings_phase" => noise
    /\ operating_mode = "WIDEBAND_SCAN" \/ label \in {"leave_phase", "leave_fft"} =>
          ~fft_control.fft_enabled \/ label \in {"enter_phase", "enter_fft"}

LEMMA NClientLit ==
    ASSUME TypeOK, NInv, NEW t \in Commanders, pc[t] # "rest"
    PROVE  ClientLit(pc[t])
<1>1. pc[Watchdog] = "rest" /\ \A label \in CommandLabels \ {"rest"} : At(label) <=> pc[t] = label
  BY ClientAlone
<1> QED  BY <1>1 DEF ClientLit, NInv, Lit, Dark, ToBeLit, CommandLabels, SettingsLabels

LEMMA NClientLitNext ==
    ASSUME NEW label \in CommandLabels, ClientLit(label)', pc'[Watchdog] = "rest", commands' # 0,
           \A l \in CommandLabels \ {"rest"} : At(l)' <=> l = label
    PROVE  Lit'
BY DEF ClientLit, Lit, Dark, ToBeLit, CommandLabels, SettingsLabels

\* A client that goes on and restarts the phase machine at most.
LEMMA NClientStep ==
    ASSUME TypeOK, NInv, NEW t \in Commanders, pc[t] # "rest",
           NEW label \in CommandLabels \ SettingsLabels, Goto(t, label),
           UNCHANGED <<triggers, commands, periodic>>,
           operating_mode' = "WIDEBAND_SCAN" => label \in {"rest", "enter_phase", "enter_fft"},
           \/ phase_compensation' = phase_compensation
           \/ StateMutexFree /\ State' = "WAITING_FOR_LAG_COMPLETION"
           \/ /\ StateMutexFree /\ phase_compensation' = Restarted("WAITING_FOR_STABILITY")
              /\ label = "rest" /\ operating_mode' = "COHERENT",
           ClientLit(label)'
    PROVE  NInv'
<1>1. State # "WAITING_FOR_STABILITY"
  BY ClientAlone
<1>2. State' = "WAITING_FOR_STABILITY" => label = "rest" /\ operating_mode' = "COHERENT"
  BY <1>1 DEF State
<1>3. /\ OneAtATime' /\ Asking' /\ NoTrace'
      /\ pc'[Driver] = pc[Driver] /\ pc'[Watchdog] = "rest"
      /\ \A l \in CommandLabels \ {"rest"} : At(l)' <=> l = label
  BY <1>2, NClientGoes DEF SettingsLabels
<1>4. Lit'
  <2>1. commands' # 0
    BY ClientAlone
  <2> QED  BY <1>3, <2>1, NClientLitNext
<1>5. DriverIsThere'
  <2>1. pc[Driver] \notin SettingsLabels
    BY ClientAlone
  <2>2. phase_compensation' = Restarted("WAITING_FOR_STABILITY") =>
            NoCounts' /\ phase_compensation'.stable_nonzero_count = 0 /\ State' # "CONVERGED"
    BY DEF Restarted, NoCounts, State
  <2>3. phase_compensation' = phase_compensation => State' = State /\ NoCounts' = NoCounts
    BY DEF State, NoCounts
  <2> QED  BY <1>1, <1>3, <2>1, <2>2, <2>3 DEF NInv, DriverIsThere, StateMutexFree
<1> QED  BY <1>3, <1>4, <1>5 DEF NInv

LEMMA NExecute ==
    ASSUME Undisturbed, TypeOK, NInv, NEW t \in Commanders, Execute(t)
    PROVE  NInv'
<1>1. CASE HandleSettingsChange(t)
  BY <1>1, NClientSettings
<1>2. CASE CooldownDecide(t)
  <2>1. pc[t] = "decide" /\ UNCHANGED <<phase_compensation, plant, mode, triggers, counted>>
    BY <1>2 DEF CooldownDecide, machine
  <2>2. PICK label \in {"rest", "cooldown_noise"} : Goto(t, label)
    BY <1>2 DEF CooldownDecide
  <2>3. ClientLit("decide") /\ operating_mode # "WIDEBAND_SCAN"
    BY <2>1, NClientLit DEF NInv, OneAtATime
  <2>4. ClientLit(label)'
    BY <2>1, <2>3 DEF ClientLit, plant, mode, State
  <2> QED  BY <2>1, <2>2, <2>3, <2>4, NClientStep DEF CommandLabels, SettingsLabels, mode, counted
<1>3. CASE CooldownNoise(t)
  <2>1. /\ pc[t] = "cooldown_noise" /\ Goto(t, "cooldown_phase")
        /\ UNCHANGED <<phase_compensation, fft_control, mode, triggers, counted>>
    BY <1>3 DEF CooldownNoise, Moves, OnlyNoise, machine
  <2>2. operating_mode # "WIDEBAND_SCAN"
    BY <2>1 DEF NInv, OneAtATime
  <2>3. ClientLit("cooldown_phase")'
    BY <2>1, <2>2 DEF ClientLit, mode
  <2> QED  BY <2>1, <2>2, <2>3, NClientStep DEF CommandLabels, SettingsLabels, mode, counted
<1>4. CASE CooldownPhase(t)
  <2>1. /\ pc[t] = "cooldown_phase" /\ Goto(t, "rest") /\ StateMutexFree
        /\ phase_compensation' = Restarted("WAITING_FOR_STABILITY")
        /\ UNCHANGED <<mode, triggers, counted>>
    BY <1>4 DEF CooldownPhase, RestartPhase
  <2>2. operating_mode = "COHERENT"
    <3>1. operating_mode # "WIDEBAND_SCAN"
      BY <2>1 DEF NInv, OneAtATime
    <3> QED  BY <3>1 DEF TypeOK, SwitchesOK
  <2>3. ClientLit("rest")'
    BY <2>1, <2>2 DEF ClientLit, Restarted, State, mode
  <2> QED  BY <2>1, <2>2, <2>3, NClientStep DEF CommandLabels, SettingsLabels, mode, counted
<1>5. CASE EnterPhase(t)
  <2>1. /\ pc[t] = "enter_phase" /\ Goto(t, "enter_fft") /\ StateMutexFree
        /\ State' = "WAITING_FOR_LAG_COMPLETION" /\ UNCHANGED <<fft_control, mode, triggers, counted>>
    BY <1>5 DEF EnterPhase, State, TypeOK, PhaseOK, PhaseRecord
  <2>2. ClientLit("enter_fft")'
    BY DEF ClientLit
  <2> QED  BY <2>1, <2>2, NClientStep DEF CommandLabels, SettingsLabels, mode, counted
<1>6. CASE EnterFFT(t)
  <2>1. /\ pc[t] = "enter_fft" /\ Goto(t, "rest")
        /\ ~fft_control'.fft_enabled /\ UNCHANGED <<phase_compensation, mode, triggers, counted>>
    BY <1>6 DEF EnterFFT, OnlyFFT, machine, TypeOK, SwitchesOK, FFTRecord
  <2>2. ClientLit("rest")'
    BY <2>1 DEF ClientLit
  <2> QED  BY <2>1, <2>2, NClientStep DEF CommandLabels, SettingsLabels, mode, counted
<1>7. CASE LeavePhase(t)
  <2>1. /\ pc[t] = "leave_phase" /\ Goto(t, "leave_fft") /\ StateMutexFree
        /\ State' = "WAITING_FOR_LAG_COMPLETION" /\ UNCHANGED <<plant, mode, triggers, counted>>
    BY <1>7 DEF LeavePhase, State, Restarted
  <2>2. operating_mode # "WIDEBAND_SCAN" /\ ClientLit("leave_phase")
    BY <2>1, NClientLit DEF NInv, OneAtATime
  <2>3. ClientLit("leave_fft")'
    BY <2>1, <2>2 DEF ClientLit, plant
  <2> QED  BY <2>1, <2>2, <2>3, NClientStep DEF CommandLabels, SettingsLabels, mode, counted
<1>8. CASE LeaveFFT(t)
  <2>1. /\ pc[t] = "leave_fft" /\ Goto(t, "leave_noise")
        /\ UNCHANGED <<phase_compensation, mode, triggers, counted>>
    BY <1>8 DEF LeaveFFT, Moves, OnlyFFT, machine
  <2>2. operating_mode # "WIDEBAND_SCAN"
    BY <2>1 DEF NInv, OneAtATime
  <2>3. ClientLit("leave_noise")'
    BY <2>1, <2>2 DEF ClientLit, mode
  <2> QED  BY <2>1, <2>2, <2>3, NClientStep DEF CommandLabels, SettingsLabels, mode, counted
<1>9. CASE LeaveNoise(t)
  <2>1. /\ pc[t] = "leave_noise" /\ Goto(t, "leave_flush") /\ noise'
        /\ UNCHANGED <<phase_compensation, mode, triggers, counted>>
    BY <1>9 DEF LeaveNoise, Moves, NoiseOn, OnlyNoise, machine
  <2>2. operating_mode # "WIDEBAND_SCAN"
    BY <2>1 DEF NInv, OneAtATime
  <2>3. ClientLit("leave_flush")'
    BY <2>1, <2>2 DEF ClientLit, mode
  <2> QED  BY <2>1, <2>2, <2>3, NClientStep DEF CommandLabels, SettingsLabels, mode, counted
<1>10. CASE LeaveFlush(t)
  <2>1. /\ pc[t] = "leave_flush" /\ Goto(t, "rest")
        /\ UNCHANGED <<phase_compensation, plant, mode, triggers, counted>>
    BY <1>10 DEF LeaveFlush, machine
  <2>2. operating_mode # "WIDEBAND_SCAN" /\ ClientLit("leave_flush")
    BY <2>1, NClientLit DEF NInv, OneAtATime
  <2>3. ClientLit("rest")'
    BY <2>1, <2>2 DEF ClientLit, plant, mode, State
  <2> QED  BY <2>1, <2>2, <2>3, NClientStep DEF CommandLabels, SettingsLabels, mode, counted
<1> QED  BY <1>1, <1>2, <1>3, <1>4, <1>5, <1>6, <1>7, <1>8, <1>9, <1>10 DEF Execute

-----------------------------------------------------------------------------
(* The watchdog and the periodic check. *)

\* Once a check has begun no client is under way, nor ever will be.
LEMMA NobodyElse ==
    ASSUME TypeOK, NInv, periodic # 0
    PROVE  /\ commands = 0 /\ operating_mode = "COHERENT" /\ ~FlushOnly
           /\ \A t \in Commanders : pc[t] = "rest"
           /\ State # "WAITING_FOR_STABILITY" /\ pc[Driver] \notin SettingsLabels
           /\ \A label \in CommandLabels \ {"rest"} : ~At(label)
<1>1. commands = 0 /\ operating_mode = "COHERENT" /\ ~FlushOnly
      /\ (\A t \in Commanders : pc[t] = "rest")
      /\ State # "WAITING_FOR_STABILITY" /\ pc[Driver] \notin SettingsLabels
  BY DEF NInv, OneAtATime, AtRest, FlushOnly
<1>2. \A label \in CommandLabels \ {"rest"} : ~At(label)
  <2>1. pc[Driver] \in DriverLabels \ SettingsLabels
    BY <1>1 DEF TypeOK, PlacesOK
  <2> QED  BY <1>1, <2>1 DEF At, CommandLabels, DriverLabels, SettingsLabels
<1> QED  BY <1>1, <1>2

\* A step of the watchdog on its way through a recovery that was asked for.
LEMMA NWatchGoes ==
    ASSUME TypeOK, NInv, periodic # 0, pc[Checker] = "rest", ~force_recalibration', manual',
           ~coherence_lost', UNCHANGED <<mode, counted>>,
           NEW label \in {"rest", "abort_fft", "recheck", "recover_fft"} \cup Recovering,
           Goto(Watchdog, label),
           \/ phase_compensation' = phase_compensation
           \/ /\ StateMutexFree /\ label = "recheck"
              /\ phase_compensation' = Restarted("WAITING_FOR_LAG_COMPLETION"),
           label \in Recovering => Settled,
           (/\ State' # "CONVERGED" /\ label # "abort_fft"
            /\ fft_control'.fft_enabled \/ label \in {"recheck", "recover_fft"}) => noise',
           label \in {"recover_lag", "recover_phase"} => noise'
    PROVE  NInv'
<1>1. /\ commands = 0 /\ operating_mode = "COHERENT" /\ ~FlushOnly
      /\ \A t \in Commanders : pc[t] = "rest"
      /\ State # "WAITING_FOR_STABILITY" /\ pc[Driver] \notin SettingsLabels
      /\ \A l \in CommandLabels \ {"rest"} : ~At(l)
  BY NobodyElse
<1>2. /\ pc'[Watchdog] = label /\ pc'[Driver] = pc[Driver] /\ pc'[Checker] = "rest"
      /\ \A t \in Commanders : pc'[t] = "rest"
  BY <1>1, Went, ThreadsDiffer
<1>3. /\ State' = State /\ StateMutexFree' = StateMutexFree /\ NoCounts' = NoCounts
         /\ phase_compensation' = phase_compensation
      \/ /\ StateMutexFree /\ StateMutexFree' /\ label = "recheck"
         /\ State' = "WAITING_FOR_LAG_COMPLETION"
  BY <1>2 DEF State, StateMutexFree, NoCounts, Restarted
<1>4. \A l \in CommandLabels \ {"rest"} : At(l)' <=> At(l)
  BY <1>1, <1>2 DEF At
<1>5. OneAtATime'
  <2>1. /\ ~coherence_lost' /\ commands' = 0 /\ periodic' # 0 /\ operating_mode' = "COHERENT"
        /\ ~scanner' /\ State' # "WAITING_FOR_STABILITY"
    BY <1>1, <1>3 DEF counted, mode, FlushOnly
  <2> QED  BY <1>1, <1>2, <2>1 DEF OneAtATime, AtRest
<1>6. DriverIsThere'
  BY <1>1, <1>2, <1>3 DEF NInv, DriverIsThere
<1>7. Asking'
  BY <1>2, <1>3 DEF Asking, Settled, Recovering
<1>8. Lit'
  <2>1. ~Dark' \/ label = "abort_fft"
    BY <1>1, <1>2, <1>4 DEF Dark, CommandLabels, SettingsLabels
  <2>2. ToBeLit' => fft_control'.fft_enabled \/ label \in {"recheck", "recover_fft"}
    BY <1>1, <1>2, <1>4 DEF ToBeLit, CommandLabels, SettingsLabels
  <2>3. ~At("settings_phase")' /\ ~At("leave_phase")' /\ ~At("leave_fft")'
    BY <1>1, <1>4 DEF CommandLabels, SettingsLabels
  <2>4. Dark' \/ label # "abort_fft"
    BY <1>2 DEF Dark
  <2>5. operating_mode' = "COHERENT" /\ periodic' # 0
    BY <1>1 DEF mode, counted
  <2> QED  BY <1>2, <2>1, <2>2, <2>3, <2>4, <2>5 DEF Lit
<1>9. NoTrace'
  BY DEF NoTrace
<1> QED  BY <1>5, <1>6, <1>7, <1>8, <1>9 DEF NInv

LEMMA NWatch ==
    ASSUME Undisturbed, TypeOK, NInv, Watch
    PROVE  NInv'
<1>1. periodic # 0
  <2>1. pc[Watchdog] # "rest" \/ recovery_in_progress \/ force_recalibration \/ coherence_lost
    BY DEF Watch, WatchdogAbort, TookTooLong, WatchdogAbortFFT, WatchdogConsume, RecoverCoherence, RecoverDecide,
           RecoverFlushOnly, RecoverNoise, RecoverLag, RecoverPhase, RecoverRecheck, RecoverFFT, ParkNoise,
           ParkLag, ParkPhase, ParkFFT, Moves
  <2> QED  BY <2>1 DEF NInv, OneAtATime, AtRest
<1>2. operating_mode = "COHERENT" /\ ~FlushOnly /\ ~coherence_lost /\ MayRecalibrate
  BY <1>1, NobodyElse DEF NInv, OneAtATime, Undisturbed, MayRecalibrate
<1>3. /\ pc[Watchdog] # "rest" \/ recovery_in_progress =>
            pc[Checker] = "rest" /\ ~force_recalibration /\ manual
      /\ force_recalibration => pc[Checker] = "rest" /\ Settled
      /\ pc[Watchdog] \in Recovering => Settled
      /\ manual \in BOOLEAN
  BY DEF NInv, Asking, NoTrace, TypeOK, TriggersOK
<1>4. CASE WatchdogAbort
  <2>1. /\ recovery_in_progress /\ Goto(Watchdog, "abort_fft") /\ UNCHANGED phase_compensation
        /\ UNCHANGED <<mode, counted, force_recalibration, coherence_lost, manual>>
    BY <1>2, <1>4 DEF WatchdogAbort, TookTooLong, machine
  <2> QED  BY <1>1, <1>2, <1>3, <2>1, NWatchGoes DEF Recovering
<1>5. CASE WatchdogAbortFFT
  <2>1. /\ pc[Watchdog] = "abort_fft" /\ Goto(Watchdog, "rest") /\ UNCHANGED phase_compensation
        /\ UNCHANGED <<mode, counted, force_recalibration, coherence_lost, manual>>
        /\ ~fft_control'.fft_enabled
    BY <1>5 DEF WatchdogAbortFFT, FFTOff, machine
  <2> QED  BY <1>1, <1>2, <1>3, <2>1, NWatchGoes DEF Recovering
<1>6. CASE WatchdogConsume
  <2>1. /\ ~recovery_in_progress /\ force_recalibration /\ Goto(Watchdog, "recover")
        /\ UNCHANGED phase_compensation /\ UNCHANGED <<mode, counted, plant>>
        /\ ~force_recalibration' /\ ~coherence_lost' /\ manual'
    BY <1>2, <1>6 DEF WatchdogConsume, CanConsume, machine
  <2>2. State' = "CONVERGED"
    BY <1>3, <2>1 DEF Settled, State
  <2> QED  BY <1>1, <1>2, <1>3, <2>1, <2>2, NWatchGoes DEF Recovering
<1>7. CASE RecoverDecide
  <2>1. /\ pc[Watchdog] = "recover" /\ Goto(Watchdog, "recover_noise")
        /\ UNCHANGED phase_compensation
        /\ UNCHANGED <<mode, counted, plant, force_recalibration, coherence_lost, manual>>
    BY <1>2, <1>7 DEF RecoverDecide, machine
  <2>2. Settled /\ State' = "CONVERGED"
    BY <1>3, <2>1 DEF Settled, State, Recovering
  <2> QED  BY <1>1, <1>2, <1>3, <2>1, <2>2, NWatchGoes DEF Recovering
<1>8. CASE RecoverNoise
  <2>1. /\ pc[Watchdog] = "recover_noise" /\ Goto(Watchdog, "recover_lag") /\ noise'
        /\ UNCHANGED phase_compensation
        /\ UNCHANGED <<mode, counted, force_recalibration, coherence_lost, manual>>
    BY <1>8 DEF RecoverNoise, Moves, NoiseOn, OnlyNoise, machine, triggers
  <2> QED  BY <1>1, <1>2, <1>3, <2>1, NWatchGoes DEF Recovering
<1>9. CASE RecoverLag
  <2>1. /\ pc[Watchdog] = "recover_lag" /\ Goto(Watchdog, "recover_phase")
        /\ UNCHANGED phase_compensation
        /\ UNCHANGED <<mode, counted, plant, force_recalibration, coherence_lost, manual>>
    BY <1>9 DEF RecoverLag, Moves, ResetLag, OnlyCalibration, triggers
  <2>2. noise /\ noise'
    BY <2>1 DEF NInv, Lit, plant
  <2> QED  BY <1>1, <1>2, <1>3, <2>1, <2>2, NWatchGoes DEF Recovering
<1>10. CASE RecoverPhase
  <2>1. /\ pc[Watchdog] = "recover_phase" /\ Goto(Watchdog, "recheck") /\ StateMutexFree
        /\ phase_compensation' = Restarted("WAITING_FOR_LAG_COMPLETION")
        /\ UNCHANGED <<mode, counted, plant, force_recalibration, coherence_lost, manual>>
    BY <1>10 DEF RecoverPhase, Moves, RestartPhase, OnlyCalibration, triggers
  <2>2. noise /\ noise'
    BY <2>1 DEF NInv, Lit, plant
  <2> QED  BY <1>1, <1>2, <1>3, <2>1, <2>2, NWatchGoes DEF Recovering
<1>11. CASE RecoverRecheck \/ RecoverFFT
  <2>1. PICK label \in {"recover_fft", "rest"} :
          /\ pc[Watchdog] \in {"recheck", "recover_fft"} /\ Goto(Watchdog, label)
          /\ UNCHANGED phase_compensation /\ UNCHANGED noise
          /\ UNCHANGED <<mode, counted, force_recalibration, coherence_lost, manual>>
    BY <1>2, <1>11 DEF RecoverRecheck, RecoverFFT, Moves, OnlyFFT, machine, triggers
  <2>2. State' # "CONVERGED" => noise'
    <3>1. ~Dark /\ State # "WAITING_FOR_STABILITY"
      BY <1>1, <2>1, NobodyElse DEF Dark, CommandLabels, SettingsLabels
    <3> QED  BY <2>1, <3>1 DEF NInv, Lit, ToBeLit, State
  <2> QED  BY <1>1, <1>2, <1>3, <2>1, <2>2, NWatchGoes DEF Recovering
<1>12. ~RecoverFlushOnly /\ ~ParkNoise /\ ~ParkLag /\ ~ParkPhase /\ ~ParkFFT
  BY DEF NInv, Asking, Recovering, RecoverFlushOnly, ParkNoise, ParkLag, ParkPhase, ParkFFT, Moves
<1> QED  BY <1>4, <1>5, <1>6, <1>7, <1>8, <1>9, <1>10, <1>11, <1>12 DEF Watch, RecoverCoherence

\* What a check that is at a label has left of noise source and FFT.
Trace(label) ==
    /\ label # "rest" => ~snapshot.noise /\ ~snapshot.enabled
    /\ label \in {"rest", "check_noise", "check_report"} => ~noise
    /\ label \in {"rest", "check_noise", "check_fft", "check_noise_back", "check_report"} =>
          ~fft_control.fft_enabled

\* A step of the check, in a calibration that is settled.
LEMMA NCheckGoes ==
    ASSUME TypeOK, NInv, Settled, pc[Watchdog] = "rest", ~recovery_in_progress, commands = 0,
           NEW label, Goto(Checker, label), periodic' # 0,
           UNCHANGED <<phase_compensation, mode, recovery_in_progress, coherence_lost, manual, commands>>,
           label # "rest" => ~force_recalibration', ~manual => Trace(label)'
    PROVE  NInv'
<1>1. /\ pc'[Checker] = label /\ pc'[Watchdog] = "rest" /\ pc'[Driver] = pc[Driver]
      /\ \A t \in Commanders : pc'[t] = pc[t]
  BY Went, ThreadsDiffer
<1>2. State' = "CONVERGED" /\ StateMutexFree' /\ Settled' /\ State = "CONVERGED"
  BY <1>1 DEF Settled, State, StateMutexFree
<1>3. /\ ~coherence_lost' /\ commands' = 0 /\ operating_mode' = "COHERENT" /\ ~scanner'
      /\ \A t \in Commanders : pc'[t] = "rest"
      /\ pc'[Driver] \notin SettingsLabels
  BY <1>1 DEF NInv, OneAtATime, AtRest, mode
<1>4. OneAtATime'
  BY <1>1, <1>2, <1>3 DEF OneAtATime, AtRest
<1>5. DriverIsThere'
  BY <1>1, <1>2 DEF NInv, DriverIsThere
<1>6. Asking'
  BY <1>1, <1>2 DEF Asking, Recovering
<1>7. Lit'
  <2>1. ~At("settings_phase")' /\ ~At("leave_phase")' /\ ~At("leave_fft")'
    <3>1. pc'[Driver] \in DriverLabels
      BY <1>1, <1>3 DEF TypeOK, PlacesOK
    <3> QED  BY <1>3, <3>1 DEF At, SettingsLabels, DriverLabels
  <2> QED  BY <1>1, <1>2, <1>3, <2>1 DEF Lit
<1>8. NoTrace'
  <2>1. pc'[Driver] # "complete_fft"
    BY <1>2 DEF StateMutexFree
  <2> QED  BY <1>1, <2>1 DEF NoTrace, Trace
<1> QED  BY <1>4, <1>5, <1>6, <1>7, <1>8 DEF NInv

LEMMA NTraceNow ==
    ASSUME NInv, Settled, commands = 0, ~manual
    PROVE  Trace(pc[Checker])
BY DEF NInv, NoTrace, Trace, Settled

LEMMA NCheck ==
    ASSUME Undisturbed, TypeOK, NInv, PeriodicCheck, CheckBegin => periodic = 0 \/ pc[Watchdog] = "rest"
    PROVE  NInv'
<1>1. CASE CheckBegin
  <2>1. /\ Settled /\ ~recovery_in_progress /\ ~force_recalibration /\ commands = 0 /\ pc[Checker] = "rest"
        /\ Goto(Checker, "check_noise") /\ periodic' # 0
        /\ UNCHANGED <<phase_compensation, mode, triggers, commands, plant>>
        /\ ~snapshot'.bad /\ snapshot'.noise = noise /\ snapshot'.enabled = fft_control.fft_enabled
    <3>1. periodic + 1 # 0
      BY DEF TypeOK, MeasuredOK
    <3> QED  BY <1>1, <3>1 DEF CheckBegin, Checkable, Settled, Undisturbed, machine
  <2>2. pc[Watchdog] = "rest"
    BY <1>1 DEF NInv, OneAtATime, AtRest
  <2>3. ~manual => Trace("check_noise")'
    BY <2>1, NTraceNow DEF Trace, plant
  <2> QED  BY <2>1, <2>2, <2>3, NCheckGoes DEF triggers
<1>2. CASE pc[Checker] # "rest"
  <2>1. /\ Settled /\ pc[Watchdog] = "rest" /\ ~recovery_in_progress /\ ~force_recalibration
        /\ periodic # 0 /\ commands = 0
    BY <1>2 DEF NInv, Asking, OneAtATime, AtRest
  <2>2. ~manual => Trace(pc[Checker])
    BY <2>1, NTraceNow
  <2>3. UNCHANGED <<phase_compensation, mode, recovery_in_progress, coherence_lost, manual, commands, periodic>>
    BY <1>2 DEF PeriodicCheck, CheckBegin, CheckNoise, CheckFFT, CheckMeasure, CheckRestore, CheckFFTBack,
                CheckNoiseBack, CheckReport, Moves, OnlyNoise, OnlyFFT, OnlyControl, machine, counted, triggers
  <2>4. CASE CheckNoise
    <3>1. /\ pc[Checker] = "check_noise" /\ Goto(Checker, "check_fft")
          /\ UNCHANGED <<fft_control, snapshot, force_recalibration>>
      BY <2>4 DEF CheckNoise, OnlyNoise, triggers
    <3>2. ~manual => Trace("check_fft")'
      BY <2>2, <3>1 DEF Trace
    <3> QED  BY <2>1, <2>3, <3>1, <3>2, NCheckGoes
  <2>5. CASE CheckFFT
    <3>1. /\ pc[Checker] = "check_fft" /\ Goto(Checker, "check_measure")
          /\ UNCHANGED <<snapshot, force_recalibration>>
      BY <2>5 DEF CheckFFT, OnlyFFT, triggers
    <3>2. ~manual => Trace("check_measure")'
      BY <2>2, <3>1 DEF Trace
    <3> QED  BY <2>1, <2>3, <3>1, <3>2, NCheckGoes
  <2>6. CASE CheckMeasure
    <3>1. /\ pc[Checker] = "check_measure" /\ Goto(Checker, "check_restore") /\ UNCHANGED force_recalibration
          /\ snapshot'.noise = snapshot.noise /\ snapshot'.enabled = snapshot.enabled
      BY <2>6 DEF CheckMeasure, triggers, TypeOK, SwitchesOK, SnapshotRecord
    <3>2. ~manual => Trace("check_restore")'
      BY <2>2, <3>1 DEF Trace
    <3> QED  BY <2>1, <2>3, <3>1, <3>2, NCheckGoes
  <2>7. CASE CheckRestore
    <3>1. /\ pc[Checker] = "check_restore" /\ Goto(Checker, "check_fft_back")
          /\ UNCHANGED <<snapshot, force_recalibration>>
      BY <2>1, <2>7 DEF CheckRestore, OnlyControl, triggers
    <3>2. ~manual => Trace("check_fft_back")'
      BY <2>2, <3>1 DEF Trace
    <3> QED  BY <2>1, <2>3, <3>1, <3>2, NCheckGoes
  <2>8. CASE CheckFFTBack
    <3>1. /\ pc[Checker] = "check_fft_back" /\ Goto(Checker, "check_noise_back")
          /\ UNCHANGED <<snapshot, force_recalibration>>
          /\ fft_control'.fft_enabled => snapshot.enabled
      BY <2>8 DEF CheckFFTBack, FFTBack, Moves, OnlyFFT, triggers
    <3>2. ~manual => Trace("check_noise_back")'
      BY <2>2, <3>1 DEF Trace
    <3> QED  BY <2>1, <2>3, <3>1, <3>2, NCheckGoes
  <2>9. CASE CheckNoiseBack
    <3>1. /\ pc[Checker] = "check_noise_back" /\ Goto(Checker, "check_report")
          /\ UNCHANGED <<snapshot, force_recalibration, fft_control>>
          /\ snapshot.noise \/ ~noise'
      BY <2>9 DEF CheckNoiseBack, NoiseOff, OnlyNoise, triggers
    <3>2. ~manual => Trace("check_report")'
      BY <2>2, <3>1 DEF Trace
    <3> QED  BY <2>1, <2>3, <3>1, <3>2, NCheckGoes
  <2>10. CASE CheckReport
    <3>1. pc[Checker] = "check_report" /\ Goto(Checker, "rest") /\ UNCHANGED plant
      BY <2>10 DEF CheckReport
    <3>2. ~manual => Trace("rest")'
      BY <2>2, <3>1 DEF Trace, plant
    <3> QED  BY <2>1, <2>3, <3>1, <3>2, NCheckGoes
  <2> QED  BY <1>2, <2>4, <2>5, <2>6, <2>7, <2>8, <2>9, <2>10 DEF PeriodicCheck, CheckBegin
<1> QED  BY <1>1, <1>2 DEF PeriodicCheck, CheckNoise, CheckFFT, CheckMeasure, CheckRestore, CheckFFTBack,
                CheckNoiseBack, CheckReport, Moves

-----------------------------------------------------------------------------
(* Commands. *)

\* A command is begun when nobody else is under way.
LEMMA BeginsAlone ==
    ASSUME Undisturbed, TypeOK, NInv, NEW t \in Commanders, NEW command, Begin(t, command),
           SettingsMutexFree \/ command # "wideband_off"
    PROVE  /\ periodic = 0 /\ periodic' = 0 /\ commands' # 0 /\ command \in Commands
           /\ \A u \in Commanders : pc[u] = "rest"
           /\ State # "WAITING_FOR_STABILITY" /\ pc[Driver] \notin SettingsLabels
           /\ pc[Watchdog] = "rest" /\ pc[Checker] = "rest"
           /\ ~recovery_in_progress /\ ~force_recalibration /\ ~coherence_lost
           /\ commands = 0 => operating_mode = "COHERENT" /\ (State # "CONVERGED" => noise)
           /\ commands # 0 => command = "wideband_off" /\ operating_mode = "WIDEBAND_SCAN"
           /\ ClientLit("rest")
<1>1. /\ periodic = 0 /\ periodic' = 0 /\ command \in Commands
      /\ commands # 0 => command = "wideband_off" /\ operating_mode = "WIDEBAND_SCAN"
  BY DEF Begin, Undisturbed, WaysBack
<1>2. commands' # 0
  <2>1. commands + 1 # 0
    BY DEF TypeOK, MeasuredOK
  <2> QED  BY <2>1 DEF Begin
<1>3. /\ pc[Watchdog] = "rest" /\ pc[Checker] = "rest"
      /\ ~recovery_in_progress /\ ~force_recalibration /\ ~coherence_lost
  BY <1>1 DEF NInv, OneAtATime, AtRest
<1>4. /\ \A u \in Commanders : pc[u] = "rest"
      /\ State # "WAITING_FOR_STABILITY" /\ pc[Driver] \notin SettingsLabels
  <2>1. CASE commands = 0
    BY <2>1 DEF NInv, OneAtATime, AtRest
  <2>2. CASE commands # 0
    <3>1. operating_mode = "WIDEBAND_SCAN" /\ SettingsMutexFree
      BY <1>1, <2>2
    <3>2. \A u \in Commanders : pc[u] = "rest"
      BY <3>1 DEF NInv, OneAtATime, SettingsMutexFree
    <3> QED  BY <3>1, <3>2 DEF NInv, OneAtATime
  <2> QED  BY <2>1, <2>2
<1>5. commands = 0 => operating_mode = "COHERENT" /\ (State # "CONVERGED" => noise)
  BY <1>1 DEF NInv, OneAtATime, Lit
<1>6. ClientLit("rest")
  <2>1. \A label \in CommandLabels \ {"rest"} : ~At(label)
    <3>1. pc[Driver] \in DriverLabels \ SettingsLabels
      BY <1>4 DEF TypeOK, PlacesOK
    <3> QED  BY <1>4, <3>1 DEF At, CommandLabels, DriverLabels, SettingsLabels
  <2> QED  BY <1>3, <2>1 DEF NInv, Lit, Dark, ToBeLit, ClientLit, CommandLabels, SettingsLabels
<1> QED  BY <1>1, <1>2, <1>3, <1>4, <1>5, <1>6

\* A command that is begun.
LEMMA NBegins ==
    ASSUME Undisturbed, TypeOK, NInv, NEW t \in Commanders, NEW command, Begin(t, command),
           SettingsMutexFree \/ command # "wideband_off",
           NEW label \in {"rest", "decide", "settings", "enter_phase", "leave_phase"},
           Goto(t, label) \/ (label = "rest" /\ UNCHANGED pc),
           UNCHANGED <<phase_compensation, recovery_in_progress, force_recalibration, coherence_lost, manual>>,
           operating_mode' = "WIDEBAND_SCAN" => label \in {"rest", "enter_phase"},
           label = "settings" => Settled, ClientLit(label)'
    PROVE  NInv'
<1>1. /\ periodic = 0 /\ periodic' = 0 /\ commands' # 0
      /\ \A u \in Commanders : pc[u] = "rest"
      /\ State # "WAITING_FOR_STABILITY" /\ pc[Driver] \notin SettingsLabels
      /\ pc[Watchdog] = "rest" /\ pc[Checker] = "rest"
      /\ ~recovery_in_progress /\ ~force_recalibration /\ ~coherence_lost
  BY BeginsAlone
<1>2. /\ pc'[t] = label /\ pc'[Driver] = pc[Driver]
      /\ pc'[Watchdog] = "rest" /\ pc'[Checker] = "rest"
      /\ \A u \in Commanders : u # t => pc'[u] = "rest"
  <2>1. CASE Goto(t, label)
    BY <1>1, <2>1, Went, ThreadsDiffer
  <2>2. CASE label = "rest" /\ UNCHANGED pc
    BY <1>1, <2>2
  <2> QED  BY <2>1, <2>2
<1>3. /\ State' = State /\ StateMutexFree' = StateMutexFree /\ Settled' = Settled
      /\ NoCounts' = NoCounts
  BY <1>2 DEF State, StateMutexFree, Settled, NoCounts
<1>4. \A l \in CommandLabels \ {"rest"} : At(l)' <=> l = label
  <2>1. pc[Driver] \in DriverLabels \ SettingsLabels
    BY <1>1 DEF TypeOK, PlacesOK
  <2> QED  BY <1>2, <2>1 DEF At, CommandLabels, DriverLabels, SettingsLabels
<1>5. OneAtATime'
  <2>1. \A u, v \in Commanders : pc'[u] # "rest" /\ pc'[v] # "rest" => u = v
    BY <1>2
  <2>2. operating_mode' = "WIDEBAND_SCAN" =>
            \A u \in Commanders : pc'[u] \in {"rest", "enter_phase", "enter_fft"}
    BY <1>2
  <2>3. State' # "WAITING_FOR_STABILITY" /\ pc'[Driver] \notin SettingsLabels
    BY <1>1, <1>2, <1>3
  <2> QED  BY <1>1, <1>2, <2>1, <2>2, <2>3 DEF OneAtATime, AtRest
<1>6. DriverIsThere'
  BY <1>2, <1>3 DEF NInv, DriverIsThere
<1>7. Asking' /\ NoTrace'
  BY <1>1, <1>2, <1>3 DEF Asking, NoTrace, Recovering
<1>8. Lit'
  BY <1>1, <1>2, <1>4, NClientLitNext DEF CommandLabels, SettingsLabels
<1> QED  BY <1>5, <1>6, <1>7, <1>8 DEF NInv

LEMMA NCommand ==
    ASSUME Undisturbed, TypeOK, NInv, NEW t \in Commanders, Command(t)
    PROVE  NInv'
<1>1. CASE Retune(t)
  <2>1. PICK command \in Retunes \cup {"web_gain"} :
          /\ Begin(t, command) /\ SettingsMutexFree
          /\ IF command = "set_frequency" /\ operating_mode = "WIDEBAND_SCAN"
             THEN UNCHANGED <<pc, cmd>>
             ELSE IF command = "web_gain"
             THEN Goto(t, "settings") /\ UNCHANGED cmd
             ELSE Goto(t, "decide") /\ cmd' = [cmd EXCEPT ![t] = command]
    BY <1>1 DEF Retune
  <2>2. /\ UNCHANGED <<phase_compensation, plant, mode, triggers>>
    BY <1>1 DEF Retune, machine
  <2>3. commands = 0 /\ operating_mode = "COHERENT" /\ ClientLit("rest") /\ command # "web_gain"
    BY <2>1, BeginsAlone DEF Retunes, Undisturbed
  <2>4. Goto(t, "decide") /\ ClientLit("decide")'
    BY <2>1, <2>2, <2>3 DEF ClientLit, plant, mode, State
  <2> QED  BY <2>1, <2>2, <2>3, <2>4, NBegins DEF triggers, mode
<1>2. CASE EnterWideband(t)
  <2>1. /\ Begin(t, "wideband_on") /\ UNCHANGED <<phase_compensation, plant, triggers>>
    BY <1>2 DEF EnterWideband, machine
  <2>2. commands = 0 /\ operating_mode = "COHERENT"
    BY <2>1, BeginsAlone
  <2>3. Goto(t, "enter_phase")
    BY <1>2, <2>2 DEF EnterWideband
  <2>4. ClientLit("enter_phase")'
    <3>1. ClientLit("rest")
      BY <2>1, BeginsAlone
    <3> QED  BY <2>1, <3>1 DEF ClientLit, plant, State
  <2> QED  BY <2>1, <2>3, <2>4, NBegins DEF triggers
<1>3. CASE LeaveWideband(t)
  <2>1. Begin(t, "wideband_off") /\ SettingsMutexFree
        /\ UNCHANGED <<phase_compensation, plant, triggers>>
    BY <1>3 DEF LeaveWideband, machine
  <2>2. ClientLit("rest")
    BY <2>1, BeginsAlone
  <2>3. CASE operating_mode = "COHERENT"
    <3>1. UNCHANGED <<pc, operating_mode>>
      BY <1>3, <2>3 DEF LeaveWideband
    <3>2. ClientLit("rest")'
      BY <2>1, <2>2, <3>1 DEF ClientLit, plant, State
    <3> QED  BY <2>1, <2>3, <3>1, <3>2, NBegins DEF triggers
  <2>4. CASE operating_mode # "COHERENT"
    <3>1. operating_mode = "WIDEBAND_SCAN" /\ operating_mode' = "COHERENT" /\ Goto(t, "leave_phase")
      BY <1>3, <2>4 DEF LeaveWideband
    <3>2. ClientLit("leave_phase")'
      BY <2>1, <2>2, <3>1 DEF ClientLit, plant
    <3> QED  BY <2>1, <3>1, <3>2, NBegins DEF triggers
  <2> QED  BY <2>3, <2>4
<1>4. CASE Switch(t)
  <2>1. /\ UNCHANGED <<pc, phase_compensation, mode, triggers>>
        /\ \/ Begin(t, "FFT_ENABLE") /\ noise' = noise
           \/ Begin(t, "FFT_DISABLE") /\ noise' = noise
           \/ Begin(t, "BIAS_TEE_ENABLE") /\ noise'
    <3>1. ~Begin(t, "BIAS_TEE_DISABLE")
      BY DEF Begin, Undisturbed
    <3> QED  BY <1>4, <3>1 DEF Switch, NoiseOn, machine
  <2>2. PICK command \in {"FFT_ENABLE", "FFT_DISABLE", "BIAS_TEE_ENABLE"} : Begin(t, command)
    BY <2>1
  <2>3. operating_mode = "COHERENT" /\ (State # "CONVERGED" => noise)
    BY <2>2, BeginsAlone
  <2>4. ClientLit("rest")'
    BY <2>1, <2>3 DEF ClientLit, mode, State
  <2> QED  BY <2>1, <2>2, <2>3, <2>4, NBegins DEF triggers, mode
<1>5. CASE PerBinEnable(t)
  <2>1. /\ Begin(t, "PER_BIN_ENABLE") /\ StateMutexFree
        /\ UNCHANGED <<phase_compensation, plant, mode, triggers>>
        /\ IF State = "CONVERGED" THEN Goto(t, "settings") ELSE UNCHANGED pc
    BY <1>5 DEF PerBinEnable
  <2>2. operating_mode = "COHERENT" /\ ClientLit("rest")
    BY <2>1, BeginsAlone
  <2>3. CASE State = "CONVERGED"
    <3>1. Goto(t, "settings") /\ Settled /\ ClientLit("settings")'
      BY <2>1, <2>2, <2>3 DEF ClientLit, plant, mode, State, Settled
    <3> QED  BY <2>1, <2>2, <3>1, NBegins DEF triggers, mode
  <2>4. CASE State # "CONVERGED"
    <3>1. UNCHANGED pc /\ ClientLit("rest")'
      BY <2>1, <2>2, <2>4 DEF ClientLit, plant, mode, State
    <3> QED  BY <2>1, <2>2, <3>1, NBegins DEF triggers, mode
  <2> QED  BY <2>3, <2>4
<1>6. CASE PerBinDisable(t) \/ ResetLagCommand(t) \/ Scanner(t)
  <2>1. PICK command \in {"PER_BIN_DISABLE", "reset_lag_compensation", "start_scanner", "stop_scanner"} :
            Begin(t, command)
    BY <1>6 DEF PerBinDisable, ResetLagCommand, Scanner
  <2>2. UNCHANGED <<pc, phase_compensation, plant, operating_mode, triggers>>
    BY <1>6 DEF PerBinDisable, ResetLagCommand, ResetLag, Scanner, machine, mode
  <2>3. operating_mode = "COHERENT" /\ ClientLit("rest")
    BY <2>1, BeginsAlone
  <2>4. ClientLit("rest")'
    BY <2>2, <2>3 DEF ClientLit, plant, State
  <2> QED  BY <2>1, <2>2, <2>3, <2>4, NBegins DEF triggers
<1>7. ~ForceRecal(t)
  BY DEF ForceRecal, Begin, Undisturbed
<1> QED  BY <1>1, <1>2, <1>3, <1>4, <1>5, <1>6, <1>7 DEF Command

-----------------------------------------------------------------------------
(* The invariant, and the theorem. *)

LEMMA NNext ==
    ASSUME Undisturbed, TypeOK, NInv, [Next]_vars, CheckBegin => periodic = 0 \/ pc[Watchdog] = "rest"
    PROVE  NInv'
<1>1. CASE \/ Convert \/ Correlation \/ LoseCoherence \/ ScannerHop \/ UNCHANGED vars
           \/ \E d \in Deadlines : TimePasses(d)
  BY <1>1, NWorld
<1>2. CASE \E c \in Channels : Poll(c) \/ LagStep(c)
  BY <1>2, NServo
<1>3. CASE Drive
  <2>1. CASE HandleSettingsChange(Driver)
    BY <2>1, NDriverSettings
  <2> QED  BY <1>3, <2>1, NJudge, NApply, NVerify, NFinish, NComplete DEF Drive
<1>4. CASE Watch \/ PeriodicCheck
  BY <1>4, NWatch, NCheck
<1>5. CASE \E t \in Commanders : Command(t) \/ Execute(t)
  BY <1>5, NCommand, NExecute
<1> QED  BY <1>1, <1>2, <1>3, <1>4, <1>5 DEF Next

\* The noise source is on while it is measured, and checks leave no trace, for any
\* number of checks that begin when the watchdog is idle and whatever they find
\* (set_bias_tee_all_devices, called by four threads).
THEOREM NoiseNeeded == Undisturbed => (Spec /\ ChecksApart => []NoiseAsNeeded)
<1> SUFFICES ASSUME Undisturbed PROVE Spec /\ ChecksApart => []NoiseAsNeeded
  OBVIOUS
<1>1. Init => NInv
  BY NInit
<1>2. /\ TypeOK /\ NInv /\ [Next]_vars
      /\ [pc[Checker] = "rest" /\ pc[Checker]' # "rest" => pc[Watchdog] = "rest"]_vars
      => NInv'
  <2> SUFFICES ASSUME TypeOK, NInv, [Next]_vars,
                      [pc[Checker] = "rest" /\ pc[Checker]' # "rest" => pc[Watchdog] = "rest"]_vars
               PROVE  NInv'
    OBVIOUS
  <2>1. CheckBegin => pc[Watchdog] = "rest"
    <3>1. ASSUME CheckBegin PROVE pc[Watchdog] = "rest"
      <4>1. pc[Checker] = "rest" /\ pc'[Checker] = "check_noise"
        BY <3>1, Went, ThreadsDiffer DEF CheckBegin
      <4> QED  BY <4>1 DEF vars
    <3> QED  BY <3>1
  <2> QED  BY <2>1, NNext
<1>3. TypeOK /\ NInv => NoiseAsNeeded
  BY NPromises
<1> QED  BY <1>1, <1>2, <1>3, TypeCorrect, PTL DEF Spec, ChecksApart

\* The same of a single check, with no word about when it begins.
THEOREM NoiseNeededOneCheck == Undisturbed /\ MaxPeriodic <= 1 => (Spec => []NoiseAsNeeded)
<1> SUFFICES ASSUME Undisturbed, MaxPeriodic <= 1 PROVE Spec => []NoiseAsNeeded
  OBVIOUS
<1>1. Init => NInv
  BY NInit
<1>2. TypeOK /\ NInv /\ [Next]_vars => NInv'
  <2>1. TypeOK /\ CheckBegin => periodic = 0
    BY ConstantsTyped DEF CheckBegin, TypeOK, MeasuredOK
  <2> QED  BY <2>1, NNext
<1>3. TypeOK /\ NInv => NoiseAsNeeded
  BY NPromises
<1> QED  BY <1>1, <1>2, <1>3, TypeCorrect, PTL DEF Spec
=============================================================================
