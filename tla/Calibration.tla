---------------------------- MODULE Calibration ----------------------------
(***************************************************************************)
(* The calibration of heimdall_v2 (src/heimdall_v2/src/dsp/compensation,   *)
(* dsp/correlation, sdr/sdr_init) with every thread that steers it:        *)
(*                                                                         *)
(*   - one compensation thread per channel: a lag servo each; the one of   *)
(*     the driver channel also steps the phase machine;                    *)
(*   - the correlation thread, which measures;                             *)
(*   - the coherence watchdog, which restarts or aborts a calibration;     *)
(*   - the periodic check, which borrows noise source and FFT;             *)
(*   - command handlers (control servers, web server), which retune.       *)
(*                                                                         *)
(* Each store to an atomic, each critical section and each call that       *)
(* switches the hardware is a step: between two of them other threads run. *)
(*                                                                         *)
(* Of a measurement the model keeps how old it is.  "fresh": made from     *)
(* samples tuned and corrected as they are now.  "old": from before the    *)
(* last retune or change of the correction, or zeroed since.  "defaults":  *)
(* not measured, 0 degrees and 0 dB on every channel.                      *)
(***************************************************************************)
EXTENDS Naturals, FiniteSets

CONSTANTS
    Driver,          \* the compensated channel that steps the phase machine
    Others,          \* the other compensated channels
    Watchdog,        \* coherence_watchdog
    Checker,         \* periodic_calibration_monitor
    Commanders,      \* threads that execute commands of clients
    Commands,        \* the commands they are given
    Kerberos,        \* kerberos_manual_cal_only()
    PerBin,          \* initial value of per_bin_cal.enabled
    RequiredStable,  \* required_stable_readings
    RequiredConv,    \* required_convergence_readings
    MaxAttempts,     \* max_convergence_attempts
    MaxChecks,       \* max_checks_before_recompensate
    QuietUpdates,    \* quiet control updates before a lag locks (8)
    Snapshots,       \* PerBinCalibration::REQUIRED_SNAPSHOTS
    Expiring,        \* bound: the deadlines that can pass again in a run
    MaxCommands,     \* bound: commands given
    MaxLosses,       \* bound: coherence losses signalled by the sample path
    MaxPeriodic,     \* bound: periodic checks begun
    Apart            \* bound: commands and checks are of different behaviours, and a
                     \* second command only leaves the wideband mode

Channels == Others \cup {Driver}
Threads == Channels \cup {Watchdog, Checker} \cup Commanders

\* NOISE_SETTLE_MS since noise-on, the stability delay since the last retune,
\* 120 s since a recovery began, 15 s of per-bin measurement.
Deadlines == {"settle", "cooldown", "recovery", "per_bin"}

ASSUME ConstantsAssumption ==
    /\ Driver \notin Others
    /\ {Watchdog, Checker} \cap (Others \cup {Driver} \cup Commanders) = {}
    /\ Watchdog # Checker
    /\ Commanders \cap (Others \cup {Driver}) = {}
    /\ Kerberos \in BOOLEAN /\ PerBin \in BOOLEAN
    /\ {RequiredStable, RequiredConv, MaxAttempts, MaxChecks, QuietUpdates, Snapshots}
         \subseteq Nat \ {0}
    /\ Expiring \subseteq Deadlines
    /\ {MaxCommands, MaxLosses, MaxPeriodic} \subseteq Nat
    /\ Apart \in BOOLEAN

VARIABLES
    pc, cmd,               \* where each thread is, the command it executes
    phase_compensation, per_bin_cal, lag,
    noise, fft_control,    \* bias_tee_enabled, FFTProcessingControl
    operating_mode, scanner,
    recovery_in_progress, force_recalibration, coherence_lost, manual,
    kerberos_cal_stale,
    due,                   \* deadlines that have passed
    snapshot,              \* what the periodic check found on, and its verdict
    flow,                  \* measurements on their way to the driver
    lag_states_converged,  \* the published channel_states are all CONVERGED
    unseen,                \* channels that have not seen the last publication
    commands, losses, periodic,
    \* history
    evidence,              \* what the readings counted towards convergence hold
    slipped,               \* a loss was signalled and L1 not flushed since
    equalizer_current      \* the equalizer was built since the last retune

machine == <<phase_compensation, per_bin_cal, lag>>
plant   == <<noise, fft_control>>
mode    == <<operating_mode, scanner>>
triggers == <<recovery_in_progress, force_recalibration, coherence_lost, manual>>
measured == <<flow, lag_states_converged, unseen>>
counted == <<commands, losses, periodic>>
history == <<evidence, slipped, equalizer_current>>
vars == <<pc, cmd, machine, plant, mode, triggers, kerberos_cal_stale, due, snapshot,
          measured, counted, history>>

-----------------------------------------------------------------------------
(* Operations shared by the threads. *)

Goto(t, label) == pc' = [pc EXCEPT ![t] = label]

\* A thread goes from one label to another.
Moves(t, from, to) == pc[t] = from /\ Goto(t, to)

\* What a step leaves alone that only moves its thread ("control"), and that
\* switches the noise source, the FFT, or restarts a part of the calibration.
OnlyControl == UNCHANGED <<cmd, machine, plant, mode, triggers, kerberos_cal_stale, due, snapshot,
                           measured, counted, history>>
OnlyNoise == UNCHANGED <<cmd, machine, fft_control, mode, triggers, kerberos_cal_stale, snapshot,
                         measured, counted, history>>
OnlyFFT == UNCHANGED <<cmd, machine, noise, mode, triggers, kerberos_cal_stale, due, snapshot,
                       measured, counted, history>>
OnlyCalibration == UNCHANGED <<cmd, plant, mode, triggers, kerberos_cal_stale, due, snapshot, counted>>

\* phase_compensation->state_mutex is held across steps by the driver alone,
\* while it completes a calibration.
StateMutexFree == pc[Driver] \notin {"complete_noise", "complete_fft"}
\* settings_mutex is held by a switch of the operating mode.
SettingsMutexFree == \A t \in Commanders :
    pc[t] \notin {"enter_phase", "enter_fft", "leave_phase", "leave_fft", "leave_noise", "leave_flush"}

State == phase_compensation.state
\* Slip: only the driver's own lag is looked at.
AllLocked_Driver == lag[Driver].state = "CONVERGED"
AllLocked == \A c \in Channels : lag[c].state = "CONVERGED"

Aged(q) == IF q = "fresh" THEN "old" ELSE q
\* Whatever was measured or converted so far is about the past.
Outdated(f) == [f EXCEPT !.l2 = Aged(@), !.taken = Aged(@), !.result = Aged(@), !.reading = Aged(@)]
\* clear_l2_buffer: a set the conversion worker holds arrives in L2 after it.
Flushed(f) == {f, [f EXCEPT !.l2 = "none"]}

\* A new tuning or gain.
Retuned == /\ flow' = Outdated(flow)
           /\ evidence' = "none"
           /\ equalizer_current' = FALSE
           /\ UNCHANGED <<lag_states_converged, unseen, slipped>>

\* set_bias_tee_all_devices
NoiseOn == noise' = TRUE /\ due' = due \ {"settle"}
NoiseOff == noise' = FALSE /\ UNCHANGED due

FFTOn == fft_control' = [fft_enabled |-> TRUE, auto_disabled |-> FALSE, user_override |-> FALSE]
FFTOff == fft_control' = [fft_enabled |-> FALSE, auto_disabled |-> TRUE, user_override |-> FALSE]

Restarted(state) == [state |-> state, compensation_applied |-> FALSE,
    convergence_count |-> 0, stable_nonzero_count |-> 0,
    failed_convergence_attempts |-> 0, checks_since_compensation |-> 0]

\* Slip: the counters of the last verification survive.
RestartPhase_KeepsCounts(state) ==
    /\ StateMutexFree
    /\ phase_compensation' = [phase_compensation EXCEPT !.state = state, !.compensation_applied = FALSE]
    /\ per_bin_cal' = [per_bin_cal EXCEPT !.measured = FALSE, !.ready = FALSE]
    /\ flow' = Outdated(flow) /\ evidence' = "none"
    /\ UNCHANGED <<lag, lag_states_converged, unseen, slipped, equalizer_current>>

\* Slip: the equalizer of the last calibration stays in use.
RestartPhase_KeepsEqualizer(state) ==
    /\ StateMutexFree
    /\ phase_compensation' = Restarted(state)
    /\ flow' = Outdated(flow) /\ evidence' = "none"
    /\ UNCHANGED <<per_bin_cal, lag, lag_states_converged, unseen, slipped, equalizer_current>>

\* The critical section that begins a calibration anew: state and counters,
\* no equalizer, identity vector.
RestartPhase(state) ==
    /\ StateMutexFree
    /\ phase_compensation' = Restarted(state)
    /\ per_bin_cal' = [per_bin_cal EXCEPT !.measured = FALSE, !.ready = FALSE]
    /\ flow' = Outdated(flow) /\ evidence' = "none"
    /\ UNCHANGED <<lag, lag_states_converged, unseen, slipped, equalizer_current>>

\* reset_lag_compensation_all_channels: back to MEASURING, L2 and L1 flushed.
\* The flush of L1 realigns the channels.
ResetLag ==
    /\ lag' = [c \in Channels |-> [state |-> "MEASURING", zero_lag_count |-> 0]]
    /\ flow' \in Flushed(flow)
    /\ slipped' = FALSE
    /\ UNCHANGED <<phase_compensation, per_bin_cal, lag_states_converged, unseen,
                   evidence, equalizer_current>>

Init ==
    /\ pc = [t \in Threads |-> "rest"] /\ cmd = [t \in Commanders |-> "none"]
    /\ phase_compensation = Restarted("WAITING_FOR_LAG_COMPLETION")
    /\ per_bin_cal = [enabled |-> PerBin, measured |-> FALSE, ready |-> FALSE, snapshots |-> 0]
    /\ lag = [c \in Channels |-> [state |-> "MEASURING", zero_lag_count |-> 0]]
    \* --kerberos: parked, the noise source never switched on.
    /\ noise = ~Kerberos
    /\ fft_control = [fft_enabled |-> ~Kerberos, auto_disabled |-> Kerberos, user_override |-> FALSE]
    /\ operating_mode = "COHERENT" /\ scanner = FALSE
    /\ recovery_in_progress = FALSE /\ force_recalibration = FALSE
    /\ coherence_lost = FALSE /\ manual = FALSE
    /\ kerberos_cal_stale = FALSE
    /\ due = Deadlines
    /\ snapshot = [noise |-> FALSE, enabled |-> FALSE, override |-> FALSE, bad |-> FALSE]
    /\ flow = [l2 |-> "none", at |-> "idle", taken |-> "none", result |-> "defaults", reading |-> "none"]
    /\ lag_states_converged = FALSE /\ unseen = {}
    /\ commands = 0 /\ losses = 0 /\ periodic = 0
    /\ evidence = "none" /\ slipped = FALSE /\ equalizer_current = FALSE

-----------------------------------------------------------------------------
(* Measurement: the conversion worker fills L2, the correlation thread takes *)
(* the newest set, computes, publishes.                                      *)

Convert ==
    /\ flow.l2 # "fresh"
    /\ flow' = [flow EXCEPT !.l2 = "fresh"]
    /\ UNCHANGED <<pc, cmd, machine, plant, mode, triggers, kerberos_cal_stale, due, snapshot,
                   lag_states_converged, unseen, counted, history>>

\* FFT off: the set is dropped, the sequence number goes on, and the published
\* phases become zero; amplitudes, lags and channel states stay.
CorrSkip ==
    /\ flow.at = "idle" /\ ~fft_control.fft_enabled
    /\ flow' = [flow EXCEPT !.l2 = "none", !.result = Aged(@)]
    /\ unseen' = Channels
    /\ UNCHANGED <<pc, cmd, machine, plant, mode, triggers, kerberos_cal_stale, due, snapshot,
                   lag_states_converged, counted, history>>

CorrTake ==
    /\ flow.at = "idle" /\ fft_control.fft_enabled /\ flow.l2 # "none"
    /\ flow' = [flow EXCEPT !.at = "taken", !.taken = flow.l2, !.l2 = "none"]
    /\ UNCHANGED <<pc, cmd, machine, plant, mode, triggers, kerberos_cal_stale, due, snapshot,
                   lag_states_converged, unseen, counted, history>>

\* The phases and amplitudes computed for the set taken.
PhasesOf ==
    IF State = "CONVERGED"
    THEN IF fft_control.fft_enabled /\ fft_control.user_override THEN flow.taken ELSE "defaults"
    ELSE IF ~AllLocked THEN "defaults"
    ELSE IF State \in {"MEASURING_INITIAL_PHASE", "VERIFYING_CONVERGENCE"} THEN flow.taken
    ELSE flow.result

\* Slip: the accumulators never close.
Accumulated_Unbounded ==
    IF per_bin_cal.enabled /\ State = "MEASURING_PER_BIN"
    THEN [per_bin_cal EXCEPT !.snapshots = @ + 1]
    ELSE per_bin_cal
\* The equalizer's accumulators take Snapshots sets.
Accumulated ==
    IF per_bin_cal.enabled /\ State = "MEASURING_PER_BIN" /\ per_bin_cal.snapshots < Snapshots
    THEN [per_bin_cal EXCEPT !.snapshots = @ + 1]
    ELSE per_bin_cal

CorrCompute ==
    /\ flow.at = "taken" /\ StateMutexFree
    /\ per_bin_cal' = Accumulated
    /\ flow' = [flow EXCEPT !.at = "computed", !.taken = PhasesOf]
    /\ UNCHANGED <<pc, cmd, phase_compensation, lag, plant, mode, triggers, kerberos_cal_stale, due,
                   snapshot, lag_states_converged, unseen, counted, history>>

CorrPublish ==
    /\ flow.at = "computed"
    /\ flow' = [flow EXCEPT !.at = "idle", !.taken = "none", !.result = flow.taken]
    /\ lag_states_converged' = AllLocked
    /\ unseen' = Channels
    /\ UNCHANGED <<pc, cmd, machine, plant, mode, triggers, kerberos_cal_stale, due, snapshot,
                   counted, history>>

-----------------------------------------------------------------------------
(* channel_lag_compensation_processor                                        *)

\* A calibrated system with the FFT off is left alone.
Poll(c) ==
    /\ pc[c] = "rest" /\ c \in unseen /\ StateMutexFree
    /\ unseen' = unseen \ {c}
    /\ IF State = "CONVERGED" /\ ~fft_control.fft_enabled
       THEN UNCHANGED <<pc, flow>>
       ELSE /\ Goto(c, "lag")
            /\ flow' = IF c = Driver THEN [flow EXCEPT !.reading = flow.result] ELSE flow
    /\ UNCHANGED <<cmd, machine, plant, mode, triggers, kerberos_cal_stale, due, snapshot,
                   lag_states_converged, counted, history>>

\* A reading restarts the count of quiet updates, adds to it, or is none (the
\* servo acts on medians of several readings, and waits after a write).  A
\* locked lag stays locked.
ServoStates(l) ==
    CASE l.state = "MEASURING" -> {[state |-> "SERVOING", zero_lag_count |-> 0]}
      [] l.state = "SERVOING" ->
           {l, [l EXCEPT !.zero_lag_count = 0],
            IF l.zero_lag_count + 1 >= QuietUpdates
            THEN [state |-> "CONVERGED", zero_lag_count |-> 0]
            ELSE [l EXCEPT !.zero_lag_count = @ + 1]}
      [] l.state = "CONVERGED" -> {l}

LagStep(c) ==
    /\ pc[c] = "lag"
    /\ Goto(c, IF c = Driver THEN "judge" ELSE "rest")
    /\ \/ operating_mode = "WIDEBAND_SCAN" /\ UNCHANGED lag
       \/ operating_mode = "COHERENT"
          /\ \E l \in ServoStates(lag[c]) : lag' = [lag EXCEPT ![c] = l]
    /\ UNCHANGED <<cmd, phase_compensation, per_bin_cal, plant, mode, triggers, kerberos_cal_stale,
                   due, snapshot, measured, counted, history>>

\* The driver drops its reading and waits for the next.
Done(f) == [f EXCEPT !.reading = "none"]
DriverRests == Goto(Driver, "rest") /\ flow' = Done(flow)

\* WAITING_FOR_STABILITY: after the cooldown the settings change is handled.
JudgeStability ==
    /\ State = "WAITING_FOR_STABILITY"
    /\ Goto(Driver, IF "cooldown" \in due THEN "settings" ELSE "rest")
    /\ flow' = Done(flow)
    /\ UNCHANGED machine

\* WAITING_FOR_LAG_COMPLETION: the channel states are the published ones.
JudgeLag ==
    /\ State = "WAITING_FOR_LAG_COMPLETION"
    /\ Goto(Driver, "rest")
    /\ IF lag_states_converged
       THEN /\ phase_compensation' = [phase_compensation EXCEPT !.state = "MEASURING_INITIAL_PHASE",
                                                               !.stable_nonzero_count = 0]
            /\ flow' \in Flushed(Done(flow))
       ELSE flow' = Done(flow) /\ UNCHANGED phase_compensation
    /\ UNCHANGED <<per_bin_cal, lag>>

\* The other states hand over to functions that look at the mode, but not at
\* the state, again.
JudgePhase ==
    /\ UNCHANGED machine
    /\ \/ /\ State = "CONVERGED" \/ operating_mode = "WIDEBAND_SCAN"
          /\ State \in {"CONVERGED", "MEASURING_INITIAL_PHASE", "VERIFYING_CONVERGENCE"}
          /\ DriverRests
       \/ /\ State = "MEASURING_INITIAL_PHASE" /\ operating_mode = "COHERENT"
          /\ Goto(Driver, "apply") /\ UNCHANGED flow
       \/ /\ State = "VERIFYING_CONVERGENCE" /\ operating_mode = "COHERENT"
          /\ Goto(Driver, "verify") /\ UNCHANGED flow
       \/ /\ State = "MEASURING_PER_BIN"
          /\ \/ ~(per_bin_cal.enabled /\ fft_control.fft_enabled) /\ Goto(Driver, "give_up")
             \/ /\ per_bin_cal.enabled /\ fft_control.fft_enabled
                /\ \/ per_bin_cal.snapshots >= Snapshots /\ Goto(Driver, "publish")
                   \/ Goto(Driver, "wait_per_bin")
          /\ flow' = Done(flow)

Judge ==
    /\ pc[Driver] = "judge"
    /\ JudgeStability \/ JudgeLag \/ JudgePhase
    /\ UNCHANGED <<cmd, plant, mode, triggers, kerberos_cal_stale, due, snapshot,
                   lag_states_converged, unseen, counted, history>>

\* Whether a reading may be within tolerance, or out of it.
Verdicts(q) == IF q = "defaults" THEN {TRUE} ELSE BOOLEAN

\* stable_nonzero_count after a reading.
Streak(aligned) ==
    IF "settle" \notin due \/ aligned THEN 0 ELSE phase_compensation.stable_nonzero_count + 1

\* The correction is stored and counts as applied.
Applied ==
    /\ phase_compensation' = [phase_compensation EXCEPT
           !.stable_nonzero_count = RequiredStable, !.compensation_applied = TRUE,
           !.state = "VERIFYING_CONVERGENCE", !.checks_since_compensation = 0]
    /\ flow' \in Flushed(Done(Outdated(flow)))
    /\ evidence' = "none"

\* apply_phase_compensation_once
Apply ==
    /\ pc[Driver] = "apply"
    /\ Goto(Driver, "rest")
    /\ IF phase_compensation.compensation_applied
       THEN flow' = Done(flow) /\ UNCHANGED <<phase_compensation, evidence>>
       ELSE \E aligned \in Verdicts(flow.reading) :
              IF Streak(aligned) >= RequiredStable
              THEN Applied
              ELSE /\ phase_compensation' = [phase_compensation EXCEPT
                                               !.stable_nonzero_count = Streak(aligned)]
                   /\ flow' = Done(flow) /\ UNCHANGED evidence
    /\ UNCHANGED <<cmd, per_bin_cal, lag, plant, mode, triggers, kerberos_cal_stale, due, snapshot,
                   lag_states_converged, unseen, counted, slipped, equalizer_current>>

\* complete_phase_calibration_locked, up to the hardware.
Complete(phase, per_bin) ==
    /\ phase_compensation' = [phase EXCEPT !.state = "CONVERGED"]
    /\ per_bin_cal' = [per_bin EXCEPT !.measured = TRUE]
    /\ recovery_in_progress' = FALSE
    /\ kerberos_cal_stale' = FALSE
    /\ Goto(Driver, "complete_noise")
    /\ UNCHANGED due

MeasurePerBin == per_bin_cal.enabled /\ ~per_bin_cal.measured

\* proceed_after_scalar_convergence_locked
Proceed(phase) ==
    IF MeasurePerBin
    THEN /\ phase_compensation' = [phase EXCEPT !.state = "MEASURING_PER_BIN"]
         /\ per_bin_cal' = [per_bin_cal EXCEPT !.ready = FALSE, !.snapshots = 0]
         /\ due' = due \ {"per_bin"}
         /\ Goto(Driver, "rest")
         /\ UNCHANGED <<recovery_in_progress, kerberos_cal_stale>>
    ELSE Complete(phase, per_bin_cal)

\* The driver goes on with the phase machine in state "phase".
Continue(phase) ==
    /\ phase_compensation' = phase
    /\ Goto(Driver, "rest")
    /\ UNCHANGED <<per_bin_cal, recovery_in_progress, kerberos_cal_stale, due>>

Seen(reading) == IF reading = "fresh" THEN "fresh" ELSE evidence

\* A reading in tolerance: one more, and convergence after RequiredConv.
VerifyConverged(phase) ==
    /\ TRUE \in Verdicts(flow.reading)
    /\ LET counted_in == [phase EXCEPT !.convergence_count = @ + 1]
       IN  IF counted_in.convergence_count >= RequiredConv THEN Proceed(counted_in)
                                                          ELSE Continue(counted_in)
    /\ evidence' = Seen(flow.reading)
    /\ flow' = Done(flow)

\* A reading out of tolerance: the count starts over; after MaxChecks checks
\* the correction is refined, and after MaxAttempts that is good enough.
VerifyMissed(phase) ==
    /\ FALSE \in Verdicts(flow.reading)
    /\ LET missed == [phase EXCEPT !.convergence_count = 0]
           failed == [missed EXCEPT !.failed_convergence_attempts = @ + 1]
       IN  \/ /\ phase.checks_since_compensation < MaxChecks
              /\ Continue(missed)
              /\ evidence' = "none" /\ flow' = Done(flow)
           \/ /\ phase.checks_since_compensation >= MaxChecks
              /\ failed.failed_convergence_attempts < MaxAttempts
              /\ Continue([failed EXCEPT !.checks_since_compensation = 0])
              /\ evidence' = "none" /\ flow' \in Flushed(Done(Outdated(flow)))
           \/ /\ phase.checks_since_compensation >= MaxChecks
              /\ failed.failed_convergence_attempts >= MaxAttempts
              /\ Proceed(failed)
              /\ evidence' = "waived" /\ flow' = Done(flow)

\* check_phase_convergence
Verify ==
    /\ pc[Driver] = "verify"
    /\ LET checked == [phase_compensation EXCEPT !.checks_since_compensation = @ + 1]
       IN  VerifyConverged(checked) \/ VerifyMissed(checked)
    /\ UNCHANGED <<cmd, lag, plant, mode, force_recalibration, coherence_lost, manual, snapshot,
                   lag_states_converged, unseen, counted, slipped, equalizer_current>>

\* Slip: the measurement may take any time.
TimedOut_Never == FALSE
TimedOut == "per_bin" \in due

\* The end of a tick in MEASURING_PER_BIN: the equalizer is published, the
\* measurement given up, or awaited for as long as its deadline allows.
FinishPerBin ==
    /\ pc[Driver] \in {"publish", "give_up", "wait_per_bin"}
    /\ IF State # "MEASURING_PER_BIN" \/ (pc[Driver] = "wait_per_bin" /\ ~TimedOut)
       THEN Continue(phase_compensation) /\ UNCHANGED equalizer_current
       ELSE /\ Complete(phase_compensation,
                        [per_bin_cal EXCEPT !.ready = @ \/ pc[Driver] = "publish"])
            /\ equalizer_current' = (equalizer_current \/ pc[Driver] = "publish")
    /\ UNCHANGED <<cmd, lag, plant, mode, force_recalibration, coherence_lost, manual, snapshot,
                   measured, counted, evidence, slipped>>

CompleteNoise == Moves(Driver, "complete_noise", "complete_fft") /\ NoiseOff /\ OnlyNoise

CompleteFFT == Moves(Driver, "complete_fft", "rest") /\ FFTOff /\ OnlyFFT

-----------------------------------------------------------------------------
(* handle_settings_change, by the driver or by a command handler.            *)

SettingsDecide(t) ==
    /\ pc[t] = "settings"
    /\ IF Kerberos
       THEN /\ StateMutexFree
            /\ kerberos_cal_stale' = (kerberos_cal_stale \/ State = "CONVERGED")
            /\ Goto(t, "rest")
       ELSE /\ Goto(t, IF recovery_in_progress THEN "rest" ELSE "settings_noise")
            /\ UNCHANGED kerberos_cal_stale
    /\ UNCHANGED <<cmd, machine, plant, mode, triggers, due, snapshot, measured, counted, history>>

\* Slip: the cooldown's noise-off is not undone.
SettingsNoise_Skipped(t) ==
    Moves(t, "settings_noise", "settings_phase") /\ UNCHANGED <<noise, due>> /\ OnlyNoise
SettingsNoise(t) == Moves(t, "settings_noise", "settings_phase") /\ NoiseOn /\ OnlyNoise

SettingsPhase(t) ==
    Moves(t, "settings_phase", "settings_fft") /\ RestartPhase("MEASURING_INITIAL_PHASE") /\ OnlyCalibration

SettingsFFT(t) ==
    /\ pc[t] = "settings_fft"
    /\ FFTOn
    /\ flow' \in Flushed(flow)
    /\ Goto(t, "rest")
    /\ UNCHANGED <<cmd, machine, noise, mode, triggers, kerberos_cal_stale, due, snapshot,
                   lag_states_converged, unseen, counted, history>>

HandleSettingsChange(t) ==
    SettingsDecide(t) \/ SettingsNoise(t) \/ SettingsPhase(t) \/ SettingsFFT(t)

-----------------------------------------------------------------------------
(* coherence_watchdog and recover_coherence                                  *)

\* Slip: a recovery may take any time.
TookTooLong_Never == FALSE
TookTooLong == recovery_in_progress /\ "recovery" \in due

\* A recovery that takes too long is aborted, noise source first; in wideband
\* mode noise source and FFT are left as they are.
WatchdogAbort ==
    /\ pc[Watchdog] = "rest" /\ TookTooLong
    /\ \/ /\ operating_mode = "COHERENT"
          /\ NoiseOff /\ Goto(Watchdog, "abort_fft") /\ UNCHANGED recovery_in_progress
       \/ /\ operating_mode = "WIDEBAND_SCAN"
          /\ recovery_in_progress' = FALSE /\ UNCHANGED <<pc, noise, due>>
    /\ UNCHANGED <<cmd, machine, fft_control, mode, force_recalibration, coherence_lost, manual,
                   kerberos_cal_stale, snapshot, measured, counted, history>>

WatchdogAbortFFT ==
    /\ pc[Watchdog] = "abort_fft"
    /\ FFTOff
    /\ recovery_in_progress' = FALSE
    /\ Goto(Watchdog, "rest")
    /\ UNCHANGED <<cmd, machine, noise, mode, force_recalibration, coherence_lost, manual,
                   kerberos_cal_stale, due, snapshot, measured, counted, history>>

\* Slip: the triggers are consumed during a recovery as well.
CanConsume_Always == TRUE
\* During a recovery the triggers are left latched.
CanConsume == ~recovery_in_progress

WatchdogConsume ==
    /\ pc[Watchdog] = "rest"
    /\ CanConsume /\ (coherence_lost \/ force_recalibration)
    /\ coherence_lost' = FALSE /\ force_recalibration' = FALSE
    /\ IF recovery_in_progress
       THEN UNCHANGED <<pc, manual, due>>
       ELSE /\ manual' = force_recalibration
            /\ due' = due \ {"recovery"}
            /\ Goto(Watchdog, "recover")
    /\ UNCHANGED <<cmd, machine, plant, mode, recovery_in_progress, kerberos_cal_stale, snapshot,
                   measured, counted, history>>

FlushOnly == operating_mode = "WIDEBAND_SCAN" \/ scanner

\* Slip: a loss parks a KerberosSDR without a flush or a new calibration.
MayRecalibrate_Ever == TRUE
\* Antennas may be connected: only the user starts a calibration.
MayRecalibrate == ~Kerberos \/ manual

RecoverDecide ==
    /\ pc[Watchdog] = "recover"
    /\ recovery_in_progress' = TRUE
    /\ Goto(Watchdog, IF ~MayRecalibrate THEN "park_noise"
                      ELSE IF FlushOnly THEN "flush_only" ELSE "recover_noise")
    /\ UNCHANGED <<cmd, machine, plant, mode, force_recalibration, coherence_lost, manual,
                   kerberos_cal_stale, due, snapshot, measured, counted, history>>

\* Wideband scan, or a scanner that retunes all the time: nothing to calibrate.
RecoverFlushOnly ==
    /\ pc[Watchdog] = "flush_only"
    /\ flow' \in Flushed(flow) /\ slipped' = FALSE
    /\ recovery_in_progress' = FALSE
    /\ Goto(Watchdog, "rest")
    /\ UNCHANGED <<cmd, machine, plant, mode, force_recalibration, coherence_lost, manual,
                   kerberos_cal_stale, due, snapshot, lag_states_converged, unseen, counted,
                   evidence, equalizer_current>>

RecoverNoise == Moves(Watchdog, "recover_noise", "recover_lag") /\ NoiseOn /\ OnlyNoise

RecoverLag == Moves(Watchdog, "recover_lag", "recover_phase") /\ ResetLag /\ OnlyCalibration

RecoverPhase ==
    Moves(Watchdog, "recover_phase", "recheck") /\ RestartPhase("WAITING_FOR_LAG_COMPLETION") /\ OnlyCalibration

\* A mode switch or a scan that began meanwhile wins.
RecoverRecheck ==
    /\ pc[Watchdog] = "recheck"
    /\ IF FlushOnly
       THEN NoiseOff /\ recovery_in_progress' = FALSE /\ Goto(Watchdog, "rest")
       ELSE Goto(Watchdog, "recover_fft") /\ UNCHANGED <<noise, due, recovery_in_progress>>
    /\ UNCHANGED <<cmd, machine, fft_control, mode, force_recalibration, coherence_lost, manual,
                   kerberos_cal_stale, snapshot, measured, counted, history>>

\* The recovery goes on until the phase machine completes it, or an abort.
RecoverFFT == Moves(Watchdog, "recover_fft", "rest") /\ FFTOn /\ OnlyFFT

\* kerberos_enter_uncalibrated
ParkNoise == Moves(Watchdog, "park_noise", "park_lag") /\ NoiseOff /\ OnlyNoise

ParkLag == Moves(Watchdog, "park_lag", "park_phase") /\ ResetLag /\ OnlyCalibration

ParkPhase ==
    Moves(Watchdog, "park_phase", "park_fft") /\ RestartPhase("WAITING_FOR_LAG_COMPLETION") /\ OnlyCalibration

ParkFFT ==
    /\ pc[Watchdog] = "park_fft"
    /\ FFTOff
    /\ kerberos_cal_stale' = FALSE
    /\ recovery_in_progress' = FALSE
    /\ Goto(Watchdog, "rest")
    /\ UNCHANGED <<cmd, machine, noise, mode, force_recalibration, coherence_lost, manual, due,
                   snapshot, measured, counted, history>>

RecoverCoherence ==
    \/ RecoverDecide \/ RecoverFlushOnly
    \/ RecoverNoise \/ RecoverLag \/ RecoverPhase \/ RecoverRecheck \/ RecoverFFT
    \/ ParkNoise \/ ParkLag \/ ParkPhase \/ ParkFFT

-----------------------------------------------------------------------------
(* periodic_calibration_monitor and run_calibration_check                    *)

Checkable ==
    /\ ~Kerberos /\ operating_mode = "COHERENT" /\ ~scanner
    /\ ~recovery_in_progress /\ ~force_recalibration
    /\ StateMutexFree /\ State = "CONVERGED"

CheckBegin ==
    /\ pc[Checker] = "rest" /\ Checkable
    /\ periodic < MaxPeriodic /\ (Apart => commands = 0)
    /\ periodic' = periodic + 1
    /\ snapshot' = [noise |-> noise, enabled |-> fft_control.fft_enabled,
                    override |-> fft_control.user_override, bad |-> FALSE]
    /\ Goto(Checker, "check_noise")
    /\ UNCHANGED <<cmd, machine, plant, mode, triggers, kerberos_cal_stale, due, measured,
                   commands, losses, history>>

CheckNoise ==
    /\ pc[Checker] = "check_noise"
    /\ IF snapshot.noise THEN UNCHANGED <<noise, due>> ELSE NoiseOn
    /\ Goto(Checker, "check_fft")
    /\ OnlyNoise

CheckFFT ==
    /\ pc[Checker] = "check_fft"
    /\ fft_control' = [fft_enabled |-> TRUE, auto_disabled |-> FALSE, user_override |-> TRUE]
    /\ Goto(Checker, "check_measure")
    /\ OnlyFFT

\* Too few snapshots, within tolerance, or drifted.
CheckMeasure ==
    /\ pc[Checker] = "check_measure"
    /\ \E bad \in IF recovery_in_progress THEN {FALSE} ELSE BOOLEAN :
         snapshot' = [snapshot EXCEPT !.bad = bad]
    /\ Goto(Checker, "check_restore")
    /\ UNCHANGED <<cmd, machine, plant, mode, triggers, kerberos_cal_stale, due, measured,
                   counted, history>>

\* A recovery owns noise source and FFT: then nothing is restored.
CheckRestore ==
    /\ pc[Checker] = "check_restore"
    /\ Goto(Checker, IF recovery_in_progress THEN "check_report" ELSE "check_fft_back")
    /\ OnlyControl

FFTBack == [fft_enabled |-> fft_control.fft_enabled /\ snapshot.enabled,
            auto_disabled |-> fft_control.auto_disabled \/ ~snapshot.enabled,
            user_override |-> fft_control.user_override /\ snapshot.override]

CheckFFTBack ==
    Moves(Checker, "check_fft_back", "check_noise_back") /\ fft_control' = FFTBack /\ OnlyFFT

CheckNoiseBack ==
    /\ pc[Checker] = "check_noise_back"
    /\ IF snapshot.noise THEN UNCHANGED <<noise, due>> ELSE NoiseOff
    /\ Goto(Checker, "check_report")
    /\ OnlyNoise

CheckReport ==
    /\ pc[Checker] = "check_report"
    /\ force_recalibration' = (force_recalibration \/ snapshot.bad)
    /\ snapshot' = [noise |-> FALSE, enabled |-> FALSE, override |-> FALSE, bad |-> FALSE]
    /\ Goto(Checker, "rest")
    /\ UNCHANGED <<cmd, machine, plant, mode, recovery_in_progress, coherence_lost, manual,
                   kerberos_cal_stale, due, measured, counted, history>>

PeriodicCheck ==
    \/ CheckBegin \/ CheckNoise \/ CheckFFT \/ CheckMeasure \/ CheckRestore
    \/ CheckFFTBack \/ CheckNoiseBack \/ CheckReport

-----------------------------------------------------------------------------
(* Commands.  A retune switches the noise source off and waits for the        *)
(* settings to be stable; a recovery is left alone.                           *)

Retunes == {"set_frequency", "set_gain", "set_array", "web_frequency"}

WaysBack(command) == command = "wideband_off" /\ operating_mode = "WIDEBAND_SCAN"

\* A command that is begun.
Begin(t, command) ==
    /\ pc[t] = "rest" /\ command \in Commands /\ commands < MaxCommands
    /\ Apart => periodic = 0 /\ (commands = 0 \/ WaysBack(command))
    /\ commands' = commands + 1
    /\ UNCHANGED <<losses, periodic>>

\* update_sdr_settings, of any change, under settings_mutex.  The new gain of
\* the web client, and AGC, go straight to handle_settings_change.
Retune(t) ==
    \E command \in Retunes \cup {"web_gain"} :
      /\ Begin(t, command) /\ SettingsMutexFree
      /\ IF command = "set_frequency" /\ operating_mode = "WIDEBAND_SCAN"
         THEN UNCHANGED <<pc, cmd>>
         ELSE IF command = "web_gain"
         THEN Goto(t, "settings") /\ UNCHANGED cmd
         ELSE Goto(t, "decide") /\ cmd' = [cmd EXCEPT ![t] = command]
      /\ Retuned
      /\ UNCHANGED <<machine, plant, mode, triggers, kerberos_cal_stale, due, snapshot>>

\* A KerberosSDR keeps its correction after these, marked stale.
KeepsCalibration(command) ==
    /\ Kerberos
    /\ \/ command = "set_frequency"
       \/ command = "web_frequency" /\ ~recovery_in_progress

LeavesAlone(command) ==
    recovery_in_progress \/ (command = "set_gain" /\ operating_mode = "WIDEBAND_SCAN")

CooldownDecide(t) ==
    /\ pc[t] = "decide"
    /\ \/ /\ KeepsCalibration(cmd[t]) /\ StateMutexFree
          /\ kerberos_cal_stale' = (kerberos_cal_stale \/ State = "CONVERGED")
          /\ Goto(t, "rest") /\ cmd' = [cmd EXCEPT ![t] = "none"]
       \/ /\ ~KeepsCalibration(cmd[t]) /\ LeavesAlone(cmd[t])
          /\ Goto(t, "rest") /\ cmd' = [cmd EXCEPT ![t] = "none"]
          /\ UNCHANGED kerberos_cal_stale
       \/ /\ ~KeepsCalibration(cmd[t]) /\ ~LeavesAlone(cmd[t])
          /\ Goto(t, "cooldown_noise")
          /\ UNCHANGED <<cmd, kerberos_cal_stale>>
    /\ UNCHANGED <<machine, plant, mode, triggers, due, snapshot, measured, counted, history>>

CooldownNoise(t) == Moves(t, "cooldown_noise", "cooldown_phase") /\ NoiseOff /\ OnlyNoise

CooldownPhase(t) ==
    /\ pc[t] = "cooldown_phase"
    /\ RestartPhase("WAITING_FOR_STABILITY")
    /\ due' = due \ {"cooldown"}
    /\ Goto(t, "rest") /\ cmd' = [cmd EXCEPT ![t] = "none"]
    /\ UNCHANGED <<plant, mode, triggers, kerberos_cal_stale, snapshot, counted>>

\* set_wideband_mode(true)
EnterWideband(t) ==
    /\ Begin(t, "wideband_on") /\ SettingsMutexFree
    /\ IF operating_mode = "WIDEBAND_SCAN" THEN UNCHANGED <<pc, operating_mode>>
       ELSE operating_mode' = "WIDEBAND_SCAN" /\ Goto(t, "enter_phase")
    /\ UNCHANGED <<cmd, machine, plant, scanner, triggers, kerberos_cal_stale, due, snapshot,
                   measured, history>>

\* Attempts, checks and the equalizer stay; the noise source goes off when a
\* phase calibration was interrupted.
EnterPhase(t) ==
    /\ pc[t] = "enter_phase" /\ StateMutexFree
    /\ phase_compensation' = [phase_compensation EXCEPT
           !.state = "WAITING_FOR_LAG_COMPLETION", !.compensation_applied = FALSE,
           !.convergence_count = 0, !.stable_nonzero_count = 0]
    /\ IF State \in {"WAITING_FOR_LAG_COMPLETION", "CONVERGED"}
       THEN UNCHANGED <<noise, due>> ELSE NoiseOff
    /\ evidence' = "none"
    /\ Goto(t, "enter_fft")
    /\ UNCHANGED <<cmd, per_bin_cal, lag, fft_control, mode, triggers, kerberos_cal_stale, snapshot,
                   measured, counted, slipped, equalizer_current>>

EnterFFT(t) ==
    /\ pc[t] = "enter_fft"
    /\ fft_control' = [fft_control EXCEPT !.fft_enabled = FALSE, !.auto_disabled = TRUE]
    /\ Goto(t, "rest")
    /\ OnlyFFT

\* set_wideband_mode(false): the tuners come back together, on the frequency
\* last commanded.
LeaveWideband(t) ==
    /\ Begin(t, "wideband_off") /\ SettingsMutexFree
    /\ \/ operating_mode = "COHERENT" /\ UNCHANGED <<pc, operating_mode, measured, history>>
       \/ /\ operating_mode = "WIDEBAND_SCAN" /\ operating_mode' = "COHERENT"
          /\ Goto(t, "leave_phase")
          /\ flow' = Outdated(flow) /\ evidence' = "none"
          /\ UNCHANGED <<lag_states_converged, unseen, slipped, equalizer_current>>
    /\ UNCHANGED <<cmd, machine, plant, scanner, triggers, kerberos_cal_stale, due, snapshot>>

LeavePhase(t) ==
    /\ pc[t] = "leave_phase" /\ StateMutexFree
    /\ phase_compensation' = Restarted("WAITING_FOR_LAG_COMPLETION")
    /\ flow' = Outdated(flow) /\ evidence' = "none"
    /\ Goto(t, "leave_fft")
    /\ UNCHANGED <<cmd, per_bin_cal, lag, plant, mode, triggers, kerberos_cal_stale, due, snapshot,
                   lag_states_converged, unseen, counted, slipped, equalizer_current>>

LeaveFFT(t) == Moves(t, "leave_fft", "leave_noise") /\ FFTOn /\ OnlyFFT

LeaveNoise(t) == Moves(t, "leave_noise", "leave_flush") /\ NoiseOn /\ OnlyNoise

LeaveFlush(t) ==
    /\ pc[t] = "leave_flush"
    /\ flow' \in Flushed(flow)
    /\ Goto(t, "rest")
    /\ UNCHANGED <<cmd, machine, plant, mode, triggers, kerberos_cal_stale, due, snapshot,
                   lag_states_converged, unseen, counted, history>>

\* The FFT and noise switches of the web page.
Switch(t) ==
    /\ \/ /\ Begin(t, "FFT_ENABLE")
          /\ fft_control' = [fft_enabled |-> TRUE, auto_disabled |-> FALSE,
                 user_override |-> fft_control.user_override \/ fft_control.auto_disabled]
          /\ UNCHANGED <<noise, due>>
       \/ /\ Begin(t, "FFT_DISABLE")
          /\ fft_control' = [fft_control EXCEPT !.fft_enabled = FALSE, !.auto_disabled = FALSE]
          /\ UNCHANGED <<noise, due>>
       \/ Begin(t, "BIAS_TEE_ENABLE") /\ NoiseOn /\ UNCHANGED fft_control
       \/ Begin(t, "BIAS_TEE_DISABLE") /\ NoiseOff /\ UNCHANGED fft_control
    /\ UNCHANGED <<pc, cmd, machine, mode, triggers, kerberos_cal_stale, snapshot, measured, history>>

\* PER_BIN_ENABLE reopens a finished calibration.
PerBinEnable(t) ==
    /\ Begin(t, "PER_BIN_ENABLE") /\ StateMutexFree
    /\ per_bin_cal' = [per_bin_cal EXCEPT !.enabled = TRUE]
    /\ IF State = "CONVERGED" THEN Goto(t, "settings") ELSE UNCHANGED pc
    /\ UNCHANGED <<cmd, phase_compensation, lag, plant, mode, triggers, kerberos_cal_stale, due,
                   snapshot, measured, history>>

PerBinDisable(t) ==
    /\ Begin(t, "PER_BIN_DISABLE")
    /\ per_bin_cal' = [per_bin_cal EXCEPT !.enabled = FALSE, !.ready = FALSE]
    /\ UNCHANGED <<pc, cmd, phase_compensation, lag, plant, mode, triggers, kerberos_cal_stale, due,
                   snapshot, measured, history>>

ForceRecal(t) ==
    /\ Begin(t, "FORCE_RECAL")
    /\ force_recalibration' = TRUE
    /\ UNCHANGED <<pc, cmd, machine, plant, mode, recovery_in_progress, coherence_lost, manual,
                   kerberos_cal_stale, due, snapshot, measured, history>>

ResetLagCommand(t) ==
    /\ Begin(t, "reset_lag_compensation")
    /\ ResetLag
    /\ UNCHANGED <<pc, cmd, plant, mode, triggers, kerberos_cal_stale, due, snapshot>>

\* start_scanner and stop_scanner
Scanner(t) ==
    /\ \/ Begin(t, "start_scanner") /\ scanner' = TRUE
       \/ Begin(t, "stop_scanner") /\ scanner' = FALSE
    /\ UNCHANGED <<pc, cmd, machine, plant, operating_mode, triggers, kerberos_cal_stale, due,
                   snapshot, measured, history>>

Command(t) ==
    \/ Retune(t) \/ EnterWideband(t) \/ LeaveWideband(t) \/ Switch(t)
    \/ PerBinEnable(t) \/ PerBinDisable(t) \/ ForceRecal(t) \/ ResetLagCommand(t) \/ Scanner(t)

\* The rest of a command that is begun.
Execute(t) ==
    \/ CooldownDecide(t) \/ CooldownNoise(t) \/ CooldownPhase(t)
    \/ EnterPhase(t) \/ EnterFFT(t)
    \/ LeavePhase(t) \/ LeaveFFT(t) \/ LeaveNoise(t) \/ LeaveFlush(t)
    \/ HandleSettingsChange(t)

-----------------------------------------------------------------------------
(* The environment: the sample path signals a loss, deadlines pass, the       *)
(* scanner hops.                                                              *)

LoseCoherence ==
    /\ losses < MaxLosses
    /\ losses' = losses + 1
    /\ coherence_lost' = TRUE /\ slipped' = TRUE
    /\ UNCHANGED <<pc, cmd, machine, plant, mode, recovery_in_progress, force_recalibration, manual,
                   kerberos_cal_stale, due, snapshot, measured, commands, periodic, evidence,
                   equalizer_current>>

TimePasses(d) ==
    /\ d \in Expiring \ due
    /\ due' = due \cup {d}
    /\ UNCHANGED <<pc, cmd, machine, plant, mode, triggers, kerberos_cal_stale, snapshot, measured,
                   counted, history>>

\* discrete_scanner_thread: flush, retune, flush.
ScannerHop ==
    /\ scanner /\ SettingsMutexFree
    /\ flow' \in Flushed(Outdated(flow)) /\ slipped' = FALSE
    /\ evidence' = "none" /\ equalizer_current' = FALSE
    /\ UNCHANGED <<pc, cmd, machine, plant, mode, triggers, kerberos_cal_stale, due, snapshot,
                   lag_states_converged, unseen, counted>>

Drive ==
    \/ Judge \/ Apply \/ Verify \/ FinishPerBin \/ CompleteNoise \/ CompleteFFT
    \/ HandleSettingsChange(Driver)

Correlation == CorrSkip \/ CorrTake \/ CorrCompute \/ CorrPublish
Watch == WatchdogAbort \/ WatchdogAbortFFT \/ WatchdogConsume \/ RecoverCoherence

Next ==
    \/ Convert \/ Correlation
    \/ \E c \in Channels : Poll(c) \/ LagStep(c)
    \/ Drive \/ Watch \/ PeriodicCheck
    \/ \E t \in Commanders : Command(t) \/ Execute(t)
    \/ LoseCoherence \/ ScannerHop
    \/ \E d \in Deadlines : TimePasses(d)

Spec == Init /\ [][Next]_vars
\* Threads are scheduled, correlation and sample path run, deadlines pass.
\* Nothing is assumed of clients, of losses, or of the lag servo's readings.
LiveSpec ==
    /\ Spec
    /\ WF_vars(Convert) /\ WF_vars(Correlation)
    /\ \A c \in Channels : WF_vars(Poll(c) \/ LagStep(c))
    /\ WF_vars(Drive) /\ WF_vars(Watch) /\ WF_vars(PeriodicCheck)
    /\ \A t \in Commanders : WF_vars(Execute(t))
    /\ \A d \in Deadlines : WF_vars(TimePasses(d))

-----------------------------------------------------------------------------
(* Correctness.                                                              *)

States == {"WAITING_FOR_STABILITY", "WAITING_FOR_LAG_COMPLETION", "MEASURING_INITIAL_PHASE",
           "VERIFYING_CONVERGENCE", "MEASURING_PER_BIN", "CONVERGED"}
Ages == {"none", "defaults", "old", "fresh"}
DriverLabels == {"rest", "lag", "judge", "apply", "verify", "publish", "give_up", "wait_per_bin",
                 "complete_noise", "complete_fft", "settings"}
SettingsLabels == {"settings", "settings_noise", "settings_phase", "settings_fft"}
WatchdogLabels == {"rest", "abort_fft", "recover", "flush_only", "recover_noise", "recover_lag",
                   "recover_phase", "recheck", "recover_fft",
                   "park_noise", "park_lag", "park_phase", "park_fft"}
CheckerLabels == {"rest", "check_noise", "check_fft", "check_measure", "check_restore",
                  "check_fft_back", "check_noise_back", "check_report"}
CommandLabels == {"rest", "decide", "cooldown_noise", "cooldown_phase", "enter_phase", "enter_fft",
                  "leave_phase", "leave_fft", "leave_noise", "leave_flush"} \cup SettingsLabels

\* The places of the threads.
PlacesOK ==
    /\ pc = [t \in Threads |-> pc[t]]
    /\ \A c \in Others : pc[c] \in {"rest", "lag"}
    /\ pc[Driver] \in DriverLabels \cup SettingsLabels
    /\ pc[Watchdog] \in WatchdogLabels /\ pc[Checker] \in CheckerLabels
    /\ \A t \in Commanders : pc[t] \in CommandLabels
    /\ cmd \in [Commanders -> Retunes \cup {"none"}]

\* What the calibration has reached.  Its counters of checks and attempts are
\* bounded by the code's tests alone, at the end of a series.
PhaseRecord == [state : States, compensation_applied : BOOLEAN,
    convergence_count : Nat, stable_nonzero_count : 0..RequiredStable,
    failed_convergence_attempts : Nat, checks_since_compensation : Nat]
PerBinRecord == [enabled : BOOLEAN, measured : BOOLEAN, ready : BOOLEAN, snapshots : 0..Snapshots]
LagRecord == [state : {"MEASURING", "SERVOING", "CONVERGED"}, zero_lag_count : 0..QuietUpdates]
PhaseOK == phase_compensation \in PhaseRecord
PerBinOK == per_bin_cal \in PerBinRecord
LagOK == lag \in [Channels -> LagRecord]

\* Switches of the hardware and of the system, and what the check found.
FFTRecord == [fft_enabled : BOOLEAN, auto_disabled : BOOLEAN, user_override : BOOLEAN]
SnapshotRecord == [noise : BOOLEAN, enabled : BOOLEAN, override : BOOLEAN, bad : BOOLEAN]
SwitchesOK ==
    /\ noise \in BOOLEAN /\ fft_control \in FFTRecord
    /\ operating_mode \in {"COHERENT", "WIDEBAND_SCAN"} /\ scanner \in BOOLEAN
    /\ snapshot \in SnapshotRecord
TriggersOK ==
    /\ recovery_in_progress \in BOOLEAN /\ force_recalibration \in BOOLEAN
    /\ coherence_lost \in BOOLEAN /\ manual \in BOOLEAN /\ kerberos_cal_stale \in BOOLEAN
    /\ due \subseteq Deadlines

\* Measurements, the bounds, the history.
FlowRecord == [l2 : {"none", "old", "fresh"}, at : {"idle", "taken", "computed"}, taken : Ages,
               result : Ages, reading : Ages]
FlowOK == flow \in FlowRecord
MeasuredOK ==
    /\ lag_states_converged \in BOOLEAN /\ unseen \subseteq Channels
    /\ commands \in 0..MaxCommands /\ losses \in 0..MaxLosses /\ periodic \in 0..MaxPeriodic
    /\ evidence \in {"none", "fresh", "waived"}
    /\ slipped \in BOOLEAN /\ equalizer_current \in BOOLEAN

\* Every variable has its type; the counters that the code bounds keep their
\* bounds, among them the equalizer's snapshots.
TypeOK ==
    /\ PlacesOK /\ PhaseOK /\ PerBinOK /\ LagOK /\ SwitchesOK /\ TriggersOK /\ FlowOK /\ MeasuredOK

AtRest(threads) == \A t \in threads : pc[t] = "rest"
Quiet == AtRest(Threads)
\* The threads that steer the calibration, between two of their operations.
Steering == {Watchdog, Checker} \cup Commanders

\* A correction is first applied when the lag of every channel is locked, though
\* nobody holds the locks of all channels together: the published lag states
\* open MEASURING_INITIAL_PHASE, the correlation withholds phases till then.
CorrectionNeedsLag ==
    [][ ~phase_compensation.compensation_applied /\ phase_compensation'.compensation_applied =>
            \A c \in Channels : lag[c].state = "CONVERGED" ]_vars

Calibrating == State \in {"MEASURING_INITIAL_PHASE", "VERIFYING_CONVERGENCE", "MEASURING_PER_BIN"}
\* While a calibration measures the noise source is on: one retune at any moment
\* of a calibration, and the cooldown after it, cannot get it wrong.
NoiseWhileCalibrating == Calibrating /\ fft_control.fft_enabled /\ Quiet => noise

\* A calibration that is finished has been verified: of the readings that were
\* counted at least one was measured with the present tuning and correction,
\* or the verification was given up after MaxAttempts refinements.  Retuning
\* at any moment of a calibration, twice, does not produce a verdict from
\* readings that were under way: three of them can be counted, not four.
CalibrationIsVerified ==
    State = "CONVERGED" /\ AtRest(Steering) => evidence # "none" \/ kerberos_cal_stale

\* Out of wideband mode the equalizer in use was designed since the last retune
\* (handle_settings_change, the cooldown of the command handlers), whichever
\* driver tick it raced with.
EqualizerIsCurrent ==
    per_bin_cal.enabled /\ per_bin_cal.ready /\ operating_mode = "COHERENT" /\ AtRest(Steering) =>
        equalizer_current \/ kerberos_cal_stale

\* Between the signal and its consumption
Heeded == coherence_lost \/ pc[Watchdog] \in {"recover", "flush_only", "recover_noise",
                                              "recover_lag", "park_noise", "park_lag"}

\* A loss of coherence signalled at any moment, during a recovery too, is still
\* latched or being acted on for as long as L1 has not been flushed after it.
LossNotForgotten == slipped => Heeded

\* Wideband mode, up to the restart on the way out of it.
Wideband == operating_mode = "WIDEBAND_SCAN" \/ \E t \in Commanders : pc[t] = "leave_phase"

\* A calibration completes out of its verification or its equalizer
\* measurement, never out of a state a recovery or a cooldown has put the machine
\* back to, though check_phase_convergence does not look at the state again.
\* Not so in wideband mode, which is entered with the counts of checks and of
\* attempts as they are.
OnlyVerificationCompletes ==
    [][ State' = "CONVERGED" /\ State # "CONVERGED" =>
            State \in {"VERIFYING_CONVERGENCE", "MEASURING_PER_BIN"} \/ Wideband ]_vars

\* Checks in a calibrated system, any number of them, leave the noise source
\* and the FFT off, until one of them asks for a recovery or a user interferes.
CheckLeavesNoTrace ==
    commands = 0 /\ State = "CONVERGED" /\ Quiet /\ ~manual => ~noise /\ ~fft_control.fft_enabled

(***************************************************************************)
(* Antennas may be connected to a KerberosSDR: "an automatic noise-cal is      *)
(* never allowed" (pipeline_control.cpp:197).  Its noise source goes on by a   *)
(* recovery the user asked for, by the user's switch, and, against that rule,   *)
(* on the way back from wideband mode; whatever else clients do, and whatever   *)
(* losses and retunes they do it in.                                            *)
(***************************************************************************)
KerberosNoiseCauses ==
    [][ Kerberos /\ ~noise /\ noise' =>
            \/ RecoverNoise /\ manual
            \/ \E t \in Commanders : Switch(t) \/ LeaveNoise(t) ]_vars

(***************************************************************************)
(* A KerberosSDR keeps a finished calibration, stale at worst, over changes of  *)
(* the frequency and of the gain from the web.  It is given up by the restart   *)
(* in a recovery the user asked for, by the parking after a loss, by wideband   *)
(* mode, and by the cooldown after a change of gain or array through the        *)
(* control server, which has no branch for a KerberosSDR.                       *)
(***************************************************************************)
KerberosKeepsCalibration ==
    [][ Kerberos /\ State = "CONVERGED" /\ State' # State =>
            \/ RecoverPhase /\ manual
            \/ ParkPhase
            \/ \E t \in Commanders :
                  \/ CooldownPhase(t) /\ cmd[t] \in {"set_gain", "set_array"}
                  \/ EnterPhase(t) \/ LeavePhase(t) ]_vars

\* A recovery ends: completed by the phase machine or aborted by the watchdog.
RecoveryEnds == recovery_in_progress ~> ~recovery_in_progress

\* A signalled loss leads to a flush of L1, which realigns the channels.
LossLeadsToFlush == slipped ~> ~slipped

\* The measurement of the equalizer ends, whatever arrives or does not arrive.
PerBinEnds == State = "MEASURING_PER_BIN" ~> State # "MEASURING_PER_BIN"

\* The noise source is on while it is measured, and a check leaves it off
\* (set_bias_tee_all_devices, called by four threads).
NoiseAsNeeded ==
    /\ NoiseWhileCalibrating
    /\ CheckLeavesNoTrace

\* Every signalled loss is acted on, and what acts on it ends (coherence_watchdog).
LossesAreHandled ==
    /\ RecoveryEnds
    /\ LossLeadsToFlush

\* What switches the noise source of a KerberosSDR on, and what takes its
\* calibration (kerberos_manual_cal_only), over all commands.
KerberosCauses ==
    /\ KerberosNoiseCauses
    /\ KerberosKeepsCalibration
=============================================================================
