# krakensdr_suite in TLA+

TLA+ models of the [krakensdr_suite](../src): a coherent multi-channel receiver built from RTL-SDR
dongles. `heimdall_v2` (the server) samples the devices, keeps them phase coherent, and streams sets
of samples; `kraken_doa_v2` (the client) receives the streams and computes directions of arrival;
`gr-krakensdr_v2` feeds them to GNU Radio.

The interesting failures of this system are not arithmetic. They are blocks that reach the
correlator out of step, counters that drift, a calibration judged on correlations from before the
last change, samples of one frequency under the label of another, a setting that is saved and not
restored, a thread that is never joined. Those are what the models are about.

## How to run

    tlc -workers 2 -config Ingest_stream.cfg MCIngestPipeline.tla
    tlapm IngestPipelineProofs.tla

| Module | Configurations |
|---|---|
| `MCIngestPipeline` | `Ingest_stream`, `Ingest_live` |
| `MCCalibration` | `Cal_verdict`, `Cal_equalizer`, `Cal_kerberos`, `Cal_live` |
| `MCClientPipeline` | `Client_pipeline` |
| `MCLinks` | `Links` |
| `MCClientDsp` | `Client_dsp` |
| `MCScanners` | `Scan` |
| `MCSettings` | `Settings`, `Settings_topology` |

Each run takes about three minutes at most with two workers. The proofs are in
`IngestPipelineProofs`, `CalibrationProofs`, `ClientPipelineProofs`, `LinksProofs`,
`BeamAudioProofs`, `DirectionFinderProofs`, `ScanProofs` and `SettingsProofs`. `PROJECT.json` lists every run with
its properties, the source lines each definition models, the hazards with the properties that cover
them, the theorems, and the mutations of the code model that each property was seen to catch.

## Inventory

### heimdall_v2

| Component | State | Operations | Interaction |
|---|---|---|---|
| Sample path (`sdr/sdr_device`, `sdr/sdr_pipeline`, `core/buffer_pool`) | per-device L1 queue, counter and buffer pool; `l2_raw_queue`, `l2_buffer` and their counters; `l2_raw_cap`, `flush_generation`, `coherence_lost` | `rtlsdr_callback`, `sample_processor`, `conversion_worker`, `clear_l1_buffer`, `clear_l2_buffer`, `signal_coherence_lost` | readers -> L1 -> drain -> L2-raw -> worker -> streamers and L2 -> correlation; flushed by watchdog, scanner, commands |
| Pipeline control (`sdr/pipeline_control`) | `pipeline_running`, `reconfig_in_progress`, `num_elements`, threads | start, stop, reconfigure with rollback | refuses while calibration, recovery or scanner is active; holds `settings_mutex`; resets calibration |
| Correlation (`dsp/correlation`) | `correlation_result` (lags, phases, states, `sequence`), FFT switches | `process_correlations`, `correlation_processor` | consumes L2; wakes the calibration thread by `sequence` |
| Calibration (`dsp/compensation`) | global and per-channel state, cooldowns, counters of stable readings, applied corrections, `recovery_in_progress` | lag servo, phase measurement, verification, per-bin phase, `recover_coherence`, watchdog, periodic check, parking for KerberosSDR | reads `correlation_result`, flushes L2, sets the noise source, changes gain and bandwidth |
| Device setup and settings (`sdr/sdr_init`) | `settings`, tuner frequencies, bias tees, noise source | open/close, settings change, wideband mode, retune | called by control server, web server, scanner, calibration |
| Discrete scanner (`main.cpp`) | list of frequencies, index, dwell | step, configure, stop | retunes, flushes L1 and L2 |
| Control server (`net/tcp_control_server`, `net/kraken_control_server`) | clients, receive buffers | one command per line, guards on state | calls everything above |
| Data servers (`net/tcp_data_server`, `net/rtl_tcp_server`) | clients, send queues | accept, broadcast, drop slow clients | fed by the conversion worker |
| Web server (`web/`), settings file (`core/settings`), services | | HTTP handlers, save/restore | |

### kraken_doa_v2

| Component | State | Operations | Interaction |
|---|---|---|---|
| Data receiver (`networking/data_receiver`, `utils/raw_data_buffer`) | socket, frame buffer, ring of sets | connect, receive, resize, reconnect | producer for the processing thread |
| Processing (`doa_service`, `signal_processing/*`) | FFT size, channel state, MUSIC results | per set: channelise, MUSIC, average | reads the ring; changes of size handshake with the receiver |
| Scanners (`scanner_manager`, `continuous_scanner`) | frequency plan, position, dwell | step, detect, hold, resume | commands to heimdall |
| Decimators and audio (`decimator_manager`, `shared_decimator`, `fm_demodulator`) | shared decimators, users | acquire, reconfigure, release | audio of several web clients |
| Control (`control_handler`, `websocket_server`) | clients, subscriptions | commands, broadcast | |
| Services (logger, settings store, gpsd, mapper) | files, sockets | | |

### gr-krakensdr_v2

A source block that connects to the data server and cuts its stream in sets; the correlator and
MUSIC blocks are numerical.

### What is hard, and what makes each part correct

*Concurrency.* heimdall runs one reader thread per device, drain, conversion worker, correlation,
calibration, watchdog, periodic check, scanner and one thread per client. The queues are lock-free
and each has an atomic counter that is updated in another step than the queue. Calibration state is
under `correlation_mutex`, settings under `settings_mutex`, and decisions are taken between the two.

*Loss.* A reader must not block, so blocks are dropped; a block dropped on one channel alone costs
the coherence of all. A drop must therefore be signalled, and the signal must survive until somebody
acts on it.

*Staleness.* Every change of frequency, gain or correction makes queued samples and published
correlations obsolete. The code flushes queues, waits, and compares sequence numbers.

*Failure and timeouts.* A device stops delivering; reopening fails; a measurement never stabilises;
a recovery is superseded by the next loss.

| Component | What makes it correct |
|---|---|
| Sample path | sets are aligned unless a loss was signalled or L1 flushed; order is kept; queues and pools bounded; counters exact; a silent device is reported |
| Pipeline control | a stop completes; nothing of the old element count survives; a failed reconfiguration can be repeated |
| Calibration | a verdict rests on correlations made after the last change; a recovery ends; the noise source is off when calibration is over; two recoveries do not overlap |
| Settings | a temporary change is undone exactly, whatever commands arrive meanwhile |
| Scanners | a dwell is counted on the new frequency; a stop restores what the scan changed |
| Servers | frames are never cut or mixed; a slow client costs only itself |
| Client buffer | the reader sees whole sets, the newest first to be kept; a resize loses no wake-up |

## Plan

| Part | Modules | State |
|---|---|---|
| Sample path of heimdall | `IngestPipeline`, abstract `SetStream` | modelled; every safety property a run checks is a theorem, the refinement included |
| Calibration | `Calibration` | modelled; every safety property is a theorem, some under hypotheses on the commands |
| Links out of heimdall | `DataLink`, abstract `PacketStream`; `RadioSource` | modelled; every safety property is a theorem, the refinement included |
| Sample path of the client | `ClientPipeline` | modelled; every safety property is a theorem |
| Beamformer | `BeamFormer` | modelled; every safety property is a theorem |
| Audio | `AudioPath` | modelled; every safety property is a theorem |
| MUSIC, squelch | `DirectionFinder` | modelled; every safety property is a theorem |
| Scanners | `DiscreteScan`, `ContinuousScan` | modelled; every safety property is a theorem, two under a hypothesis on timing (`Prompt`, `GivesUpCalmly`) |
| Settings | `Settings` | modelled; every safety property that holds is a theorem |
| Recording, map output | `Recorder`, `MapLink` | modelled; every safety property is a theorem |

No safety property is left to prove. Left to model: the window between the tests for calibration and
scanner and the stop they guard in `pipeline_control.cpp`, and an abstract specification of a
calibration cycle.

How the modules compose: each component has a module whose variables, `Init`, actions and
specification have names of their own, so that an `MC` module can extend several components.
`MCLinks`, `MCClientDsp` and `MCScanners` put components that share no state beside each other: a
variable says whose behaviour this is, so one run asks the questions of several components without
multiplying their states. Components that do share state are one module (the five kinds of thread of
`Calibration`; heimdall, client and worker in `DiscreteScan`; client, store, browsers and tuner in
`Settings`).

A property that has several parts is a conjunction of named definitions, and each part is documented
where it is defined.

## The sample path

### IngestPipeline

A block of samples is the number of its sampling period. Blocks of one number were captured
together, so a set is *aligned* when its numbers are equal. That is the only property of samples the
models need.

| Model | Code |
|---|---|
| `Callback`, `CallbackCount` | `rtlsdr_callback`: the tests on counter and pool, then enqueue, then `fetch_add` |
| `DrainBegin` .. `DrainCount` | `sample_processor`: a set is collected device by device with timed waits, checked against `flush_generation`, pushed, counted |
| `ConvTake` .. `ConvCount` | `conversion_worker`: dequeue, count, convert and broadcast, push into L2, count, recycle |
| `CorrTake`, `CorrCountOut` | draining of L2 in `process_correlations` |
| `BeginFlush`, `FlushTake`, `FlushCountOut`, `FlushNext` | `clear_l1_buffer` and `clear_l2_buffer`, one dequeue at a time, then the bump of `flush_generation` |
| `SetRawCap` | moves of `l2_raw_cap` between calibration and normal depth |
| `StopPipeline` .. `StartPipeline`, `ForgetLoss`, `OpenFails` | `stop_pipeline_threads`, `start_pipeline_threads` and the rollback in `reconfigure_num_elements` |

Every access to a queue and every access to its counter is a step of its own, so any thread can run
between a dequeue and its `fetch_sub`. `size_t` is an integer here: a negative value stands for the
wrapped counter, which `Full` treats as huge, as the unsigned comparison does.

Abstractions worth knowing:

- The counter update for the set that `PushDropOldest` drops is merged into the push. Only the
  pushing thread reads that counter, so nobody can see the difference.
- `StopPipeline` requires that no flusher is in an L1 flush. The code refuses a reconfiguration
  while `recovery_in_progress` or the scanner is active, and those are what flush L1; the refusal is
  tested before the lock, and that window is not modelled.
- A partial set was resized to the element count when it was acquired, so giving it up returns an
  (empty) buffer for the devices not collected yet too: pools can grow. Hence `NoBufferLost` is an
  inequality.
- Devices persist over a reconfiguration, so an error in their counters does too.
- The join of the compensation threads, which touch no queue of the sample path, and
  `clear_l1_buffer(int)`, which nothing calls, are left out.
- Variables `leaked`, `lossy` and `flushed` are history: no guard reads them.

### SetStream

What the streamers are promised: a sequence of sets that never goes back in time on any channel and
sends no set twice, one block per active channel, aligned while the stream is synced. Sync may be
lost, and only a restart regains it. `IngestPipeline` is checked to implement it with `out` the set
last broadcast and `synced` the absence of a signalled loss and of an L1 flush.

### Runs

| Run | Question | Bounds |
|---|---|---|
| `ingest_stream` | do counters (`CountersAccounted`), caps (`DepthsBounded`) and pools (`NoBufferLost`) survive flushes anywhere in the interleaving; is desynchronisation ever silent (`NoSilentDesync`); is the output a `SetStream` (`ImplementsSetStream`)? | 2 devices, 3 sampling periods, caps 1, L2-raw cap moving between 1 and 2, two flushes: queues overflow and order matters |
| `ingest_live` | does a set of the old element count survive a restart (`SetsMatchElementCount`), does a stop complete and is a stall reported (`NothingHangs`)? | 2 or 3 of 3 devices, one restart or failed restart, a stall limit of 2, so that the counting of timeouts matters |

Two devices suffice for misalignment and for the ordering of flush and collection, which involve a
device already passed and one still to come. Caps of one make every queue full after one item. A
third device appears where counts change. `MaxTick`, `MaxFlushes` and `MaxRestarts` bound the
environment and nothing else: blocks per device and run, flushes begun, stops of a running pipeline.
When they are exhausted the threads go on polling, so deadlock is checked.

### Where a comment says more than the code does

Drain and worker return between dequeue and `fetch_sub` when `pipeline_running` is false
(`sdr_pipeline.cpp:261`, `:337`), so each such stop leaves a counter one too high, while `:403` says
they track the true depth. Devices are kept, so the effective capacity of a queue goes down by one:
`CountersAccounted` has the term `leaked` for it.

An L1 flush need not re-align the devices, since it empties their queues one after the other while
readers run (`:415`): hence `NoSilentDesync` speaks of a stream without L1 flush. And it empties
L2-raw first and bumps the generation last (`:414`), so a set the drain pushes in between is left
over. In `recover_coherence` both are followed by a full recalibration.

### Fairness

`LiveSpec` is weak fairness for each thread: drain, worker, correlation, flushers, the counting step
of a callback, and the steps of a reconfiguration once begun. The operating system schedules all of
them, and every wait in the code is timed. Nothing is assumed of devices (`Callback` may stop for
ever) or commands. `OpenFails` is not fair: a restart may fail, or not.

### Theorems (`IngestPipelineProofs`)

For any number of devices, caps, pools, flushers and bounds, from `ConstantsAssumption` only:

- `TypeCorrect`: `Spec => []TypeOK`. The type invariant is not inductive: the drain reads `Waiting`,
  a device number, off the length of the partial set. `IInv` adds `Places`, which says what each
  control point implies for the thread's data (a set being collected is shorter than the element
  count, a flush in progress holds an item of its target queue, nothing runs while the pipeline is
  stopped).
- `CountersCorrect`: `Spec => []CountersAccounted`. Every step is classified, queue by queue, as one
  that moves an item or a count (`Moved`) or leaves both alone (`Kept`); the equation is preserved
  by each class. The only hard case is a flush, where the number of clearers holding an item of a
  queue changes by one.
- `ReadersSafe`: a corollary: at a moment a producer reads its counter nothing of its own is
  uncounted, and what others have yet to count out only adds.
- `DepthsCorrect`: `Spec => []DepthsBounded`. A producer tests a counter, not the queue, so the
  bound rests on `CountersCorrect` and `ReadersSafe`: a counter that has drifted does so upwards.
- `StreamInvariant`: the invariant `SInv` from which the next three follow. `Emptied`: what a
  restart relies on, the queues the control thread has emptied stay empty and nobody else goes on
  flushing L1. `Flowing` says of everything between the devices and the streamers that sets are of
  the current element count (`Uniform`), aligned until a loss is signalled (`NoSilentDesync`), in
  step and in order. `InStep`: until then an L1 queue holds consecutive blocks up to the newest, and
  what the drain has taken of each device and what is queued begin at one period for all. `InOrder`:
  on each channel the blocks grow from the set last sent through conversion, L2-raw, the set being
  collected and L1 to the next block of the device.
- `DesyncIsSignalled`, `SetsMatch`: `NoSilentDesync` and `SetsMatchElementCount` from `SInv`.
- `StreamRefinement`: `Spec => ImplementsSetStream`: initial states map to initial states; the
  broadcast of the worker is `Send` of `SetStream` by `InOrder` and `InStep`, a loss or an L1 flush
  is `LoseSync`, the last step of a restart is `Restart` by `Emptied`, everything else stutters.
- `BuffersKept`: `Spec => []NoBufferLost`. The sum of pool, queues, sets and hands of a device does
  not fall below the size of its pool: each step is shown to take as much from one place as it adds
  to another, the early exits and the flushes included.

Only model-checked: `NothingHangs` (liveness).

## The calibration

### Calibration

A calibration locks the lag of each channel, measures phase and amplitude against a noise source,
applies a correction, verifies it, and optionally measures an equalizer per frequency bin. Five
kinds of thread take part, and the state is spread over one mutex, several atomics and the hardware.
Each of these is a step of the model: a store to an atomic that another thread reads, a critical
section, a switch of the hardware. `pc` holds where each thread is between them.

| Model | Code |
|---|---|
| `Convert`, `CorrSkip`, `CorrTake`, `CorrCompute`, `CorrPublish` | `conversion_worker` as a source of sets; `correlation_processor` with the FFT off; the drain, computation and publication of `process_correlations` |
| `Poll`, `LagStep` | a compensation thread sees a new sequence number, steps its lag servo |
| `Judge` | the phase machine's switch, stepped by the thread of the driver channel |
| `Apply`, `Verify`, `Proceed`, `FinishPerBin`, `Complete` .. `CompleteFFT` | `apply_phase_compensation_once`, `check_phase_convergence`, `proceed_after_scalar_convergence_locked`, the case MEASURING_PER_BIN, `complete_phase_calibration_locked` |
| `SettingsDecide` .. `SettingsFFT` | `handle_settings_change`, called by the driver and by command handlers |
| `WatchdogAbort`, `WatchdogConsume`, `RecoverDecide` .. `RecoverFFT`, `ParkNoise` .. `ParkFFT` | `coherence_watchdog`, `recover_coherence`, `kerberos_enter_uncalibrated` |
| `CheckBegin` .. `CheckReport` | `periodic_calibration_monitor`, `run_calibration_check` |
| `Retune`, `CooldownDecide` .. `CooldownPhase` | commands that change a setting: `update_sdr_settings`, then the cooldown |
| `EnterWideband` .. `LeaveFlush` | `set_wideband_mode` |
| `Switch`, `PerBinEnable`, `PerBinDisable`, `ForceRecal`, `ResetLagCommand`, `Scanner` | the other commands that touch this state |
| `LoseCoherence`, `TimePasses`, `ScannerHop` | `signal_coherence_lost`, the clock, `discrete_scanner_thread` |

What a measurement says is reduced to its age:

- *fresh*: made from samples tuned and corrected as they are now; *old*: from before the last retune
  or change of the correction, or zeroed since; *defaults*: nothing was measured and all phases are
  0. Retuning and correcting age everything under way (`Outdated`): what is in L2, with the
  correlation thread, published, and read by the driver.
- A reading of *defaults* is in tolerance. Any other may be in or out of it, so every verdict is
  possible at every reading. That covers phases that the FFT-off branch has zeroed, too: their
  amplitudes are those of the last set.
- The lag servo's filter is a choice (`ServoStates`): a reading restarts the count of quiet updates,
  adds to it, or does neither. What it locks on is numerical.

Other abstractions:

- `l2` is the newest set that can be taken: the thread drains to the newest. A flush may or may not
  find it there, since a set with the conversion worker arrives after the flush.
- Stores of one thread that no other thread can tell apart are one step: the reset of all lags with
  its flushes (`ResetLag`), the switch of the devices' noise sources, a hop of the scanner (flush,
  retune, flush).
- `due` is the set of deadlines that have passed. A deadline is removed when its time starts to run,
  and passes at any moment after if it is in `Expiring`.
- `set_array` stands for `set_mixer_side` as well, `web_gain` for AGC: the same calls.
- Left out: `initial_calibration_complete` and `l2_raw_cap` (read by the sample path for its depth
  only), `convergence_check_active` (one thread verifies), the coherence monitor (it raises the same
  flag as `LoseCoherence`, which may come at any moment), `reconfig_in_progress` (tested once per
  command).
- `evidence`, `slipped` and `equalizer_current` are history: no guard reads them.

### Runs

| Run | Question | Bounds |
|---|---|---|
| `cal_verdict` | a startup with two retunes at any moment: can a calibration (`CalibrationIsVerified`) or an equalizer (`EqualizerIsCurrent`) rest on readings of before, is a correction applied on locked lags only (`CorrectionNeedsLag`)? | two channels, counts of the code (3 stable, 4 converged) |
| `cal_equalizer` | is the noise on while the machine measures, do periodic checks leave a trace (`NoiseAsNeeded`), does the measurement of the equalizer end (`PerBinEnds`)? | one retune, reset of the lags, turn of wideband mode or switch of equalizer, FFT or noise source, or one periodic check (`Apart`), fair threads |
| `cal_kerberos` | what switches the noise source of a KerberosSDR on and what gives its calibration up (`KerberosCauses`); can a verification complete a machine that was restarted (`OnlyVerificationCompletes`)? | any two commands of all there are, a loss |
| `cal_live` | is a loss during a recovery forgotten (`LossNotForgotten`), do recoveries end, is a loss followed by a flush (`LossesAreHandled`)? | two losses, counts of 1, fair threads |

Bounds and why they are enough. The reading counts matter where a property says how many stale
readings can be counted (`cal_verdict`: three can, four cannot), and there they are those of the
code; elsewhere one reading or two take the machine through the same transitions. `MaxAttempts` is 2
or 1 where the code has 3, `MaxChecks` 5 where the code has 10 (one more than `RequiredConv`, so
that a refinement follows both a near miss and a first miss), `QuietUpdates` and `Snapshots` 1 where
the code has 8 and 32: they count events that are all alike. One channel besides the reference is
enough for all that concerns the phase machine, which only the driver steps; the second is needed
where the locks of several channels are compared. The environment is bounded by `MaxCommands`,
`MaxLosses`, `MaxPeriodic`; after that the threads go on, and deadlock is checked in every run.

What the runs leave out on purpose. Their commands are chosen so that the following, which the code
does as well, stays out of them; adding the commands or events in brackets to a `.cfg` shows it:

- `NoiseWhileCalibrating` [two retunes, `set_gain`, or `FORCE_RECAL`]: the driver releases the mutex
  between the end of the cooldown and `handle_settings_change`. [a loss]: a completion clears
  `recovery_in_progress` first and switches noise source and FFT off afterwards
  (`compensation.cpp:31`, `:44`), by then for the next recovery, of which `:489` says that the noise
  is on.
  [two checks]: a check that begins between the watchdog's consumption of the request of the check
  before and the recovery it decides on switches off, when it is done, the noise the recovery
  measures by (`compensation.cpp:563`, `:571`). In the code a minute of steady calibration lies
  between two checks and 100 ms between two looks of the watchdog.
- `CheckLeavesNoTrace` [a loss]: the FFT-on of a recovery follows the completion of a verification.
- `EqualizerIsCurrent` [`wideband_on`, `set_frequency`, `wideband_off`]: the return from wideband
  mode restarts the phase machine, but keeps `per_bin_cal.ready` and `per_bin_measured`.
- `CalibrationIsVerified` [`wideband_on`, `wideband_off`]: zeroed phases, published while the FFT is
  off, are within tolerance; so are those after the abort of a recovery, which leaves the phase
  machine where it is, and those of a reset of the lags during a verification. [a loss and
  `set_frequency`]: a retune during a recovery is left to that recovery
  (`tcp_control_server.cpp:429`, `:438`, `web_server.cpp:325`: it "recalibrates lag+phase at the new
  frequency"), even to one that is past its measurements.
- `OnlyVerificationCompletes` [`RequiredConv` 1]: the functions that judge a reading test the mode
  before the lock (`compensation.cpp:273`) and the state not at all. With two or more readings a
  restart, which zeroes their count, protects the machine.

`cal_kerberos` leaves no command out. An automatic noise-cal of a KerberosSDR "is never allowed"
(`pipeline_control.cpp:197`), and the code does not keep to that everywhere; `KerberosCauses` is the
exact list of what does it, and the run and the proof show that nothing else does:

- The noise source goes on by a recovery the user asked for, by the user's switch, and, on its own,
  when wideband mode is left (`LeaveNoise`, `sdr_init.cpp:702`), which does not look at
  `kerberos_manual_cal_only()`.
- A finished calibration is given up by a recovery the user asked for, by the parking after a loss,
  by wideband mode on entry and exit, and by the cooldown after `set_gain` and `set_array`: of the
  retunes of the control port only `set_frequency` has the branch that keeps it.
- `OnlyVerificationCompletes` has wideband mode as its exception: the entry zeroes neither the count
  of checks nor the attempts, and a verification under way completes the machine in that mode.

Each exception is needed: the property without it fails. That takes two commands, but for giving up
by the exit from wideband mode, which takes three (`FORCE_RECAL`, `wideband_on`, `wideband_off`).

Nor is anything claimed of wideband mode itself: entered during a lag calibration it keeps the noise
source on (`sdr_init.cpp:622`), and a gain change of the web page switches noise and FFT on in it
(`web_server.cpp:368`). Lags that are reset in a calibrated system are not measured again, for the
compensation threads skip everything (`compensation.cpp:1071`). A first measurement that is in
tolerance resets its streak for ever (`compensation.cpp:202`). `PER_BIN_DISABLE` is two stores
(`web_server.cpp:252`).

### Fairness

`LiveSpec` has weak fairness for the conversion and the correlation thread, each compensation
thread, the driver's operation under way, watchdog, periodic check, and a command handler once it
has begun a command. All are threads of the operating system with timed waits. `TimePasses` is fair:
clocks advance. Nothing is assumed of clients, of losses, or of the servo: a lag may never lock,
which is what the abort after 120 s is for. `PerBinEnds` and `RecoveryEnds` do not say that a
calibration succeeds, which it need not.

### Theorems (`CalibrationProofs`)

For any channels, command handlers, reading counts and bounds, and from `ConstantsAssumption` alone
where no hypothesis is named:

- `TypeCorrect`: `Spec => []TypeOK`, with the bounds of the quiet updates of a lag, of the stable
  readings and of the equalizer's snapshots. `TypeOK` is inductive as it stands. It is split into
  the parts the threads write (places, phase machine, equalizer, lags, switches, triggers,
  measurements), and each thread has a lemma with a step for each part.
- `LossKept`: `Spec => []LossNotForgotten`. A loss that was signalled is still latched in
  `coherence_lost`, or the watchdog is at a place from which it flushes L1 before it looks at the
  latch again. The watchdog alone consumes the latch, so every step of any other thread is *steady*:
  it leaves latch and watchdog where they are, and can only flush L1, which ends the obligation. The
  runs cover two losses without commands; the theorem any number, with every command.
- `VerifiedWhenDone`, `EqualizerFollows`, `AppliedOnLocked` (`CalibrationIsVerified`,
  `EqualizerIsCurrent`, `CorrectionNeedsLag`) under `OnlyRetunes`: not a KerberosSDR, commands are
  retunes, no losses and no checks, `RequiredStable >= 2`, `RequiredConv >= 4`, `MaxChecks >= 2`
  (the code has 3, 4 and 10). This is the scope of `cal_verdict`, for any number of channels, of
  clients and of retunes; with other commands the properties do not hold, see above. The invariant
  `VInv` has five parts. `Calm`: nothing but clients and the driver steers. `DriverKnows`: what the
  driver looked at before it acts is still so, or a client has restarted the machine since, and then
  the driver finds its counters at zero. `Watching`: the FFT is on while readings are waited for.
  `LagOfReading`: a reading with phases is read, published or in work only while every lag is
  locked. `Verdict`, unless a client is deciding on a retune: a machine past its verification has
  evidence, an equalizer that is ready is current, and in a verification without evidence the
  readings counted, with the driver, published, in work and waiting in L2 that are not fresh are at
  most three together (`Stale`), short of `RequiredConv`.
- `KerberosNoise` (`KerberosNoiseCauses`) and `KerberosKeeps` (`KerberosCauses`), for every command
  of any number of clients, losses and checks. `KInv`: no client and not the driver is past the test
  for a KerberosSDR on the way to a noise source or a restart, no check runs, and a recovery under
  way was asked for. `KeepInv`: a cooldown is that of the gain or of the array, and the driver
  judges no phases of a finished calibration.
- `CompletesVerified` (`OnlyVerificationCompletes`) under `SeveralNeeded`: at least two readings and
  checks. `CompletionInv`: a driver that is about to verify finds the machine verifying, or in
  wideband mode, or its counts at zero, so that one more reading completes nothing.

- `NoiseNeeded` (`NoiseAsNeeded`) under `Undisturbed`: not a KerberosSDR, either one command (and
  the way back from wideband mode) or any number of periodic checks, no losses, none of the three
  commands named above for it, and at least two stable readings, converged readings and checks.
  `ChecksApart` is assumed besides: a check begins when the watchdog is idle, see above for why it
  is. `NoiseNeededOneCheck` is the same without `ChecksApart` for the single check of
  `cal_equalizer`. The invariant `NInv` has five parts. `OneAtATime`: at most one of clients and
  checks, and of the clients at most one, is under way. `Asking`: a recovery, like the restart for
  an equalizer, begins when the calibration is *settled*, finished and with its completion over, so
  that no completion switches anything off under it. `DriverIsThere`: a machine in completion is
  `CONVERGED`, and what the driver is about to judge is not; without it a restart could be completed
  by an old reading. `Lit`: a machine under way whose FFT is on, or about to be switched on, has its
  noise on, but at three places where a thread has switched one of the two and not yet the other.
  `NoTrace`: until a recovery has been asked for, a settled calibration has noise and FFT off but
  for the span of a check, whose snapshot says that they were off.

Only model-checked: `PerBinEnds`, `LossesAreHandled` (liveness).

## The links out of heimdall

Four components that carry data out of the two programs and share no state; `MCLinks` puts them
beside each other.

### DataLink and PacketStream

A packet on the wire is a sequence of words, the first of them a header; a word knows its packet,
its place and the length it claims for its packet if it is taken for a header. A sample may look
like a header, so a reader that lost its place would follow it.

| Model | Code |
|---|---|
| `Accept`, `BroadcastTo`, `AfterSend`, `BroadcastData` | `accept_loop` and `broadcast_data` of `tcp_data_server.cpp`: a send that takes less than the packet closes the client |
| `Connect`, `Receive`, `FromHeader`, `Complete`, `Take`, `Wait`, `Disconnect`, `Reconnect` | `data_receiver_thread` of the client and `reader_loop` of the GNU Radio block, with `tcp_client.cpp` |
| `RtlAccept` .. `RtlClose`, `RtlAdd`, `MakeRoom`, `RtlTake`, `RtlSend`, `RtlFail`, `RtlClear` | `rtl_tcp_server.cpp`: server loop, capped list, worker |
| `Conversion` | the end of `conversion_worker`, which feeds both |
| `Break`, `RtlLeave` | external: a connection breaks, a client leaves |

`PacketStream` is the promise to a reader: whole packets in the order they were broadcast, and none
missing between two packets of one connection.

### RadioSource

| Model | Code (`krakensdr_source_impl.cc`) |
|---|---|
| `ReaderConnect`, `ReaderRegister`, `ReaderPacket`, `ReaderSeesStop`, `ReaderQuit` | `try_connect`, `reader_loop`, `process_packet`; `Acquired`, `Released`, `Pushed` are the frame pool and the queue |
| `WorkTake`, `WorkRest` | `work()`: a frame is put out in pieces, tagged when the metadata changes |
| `Start`, `Stop`, `Joined` | `start()`, `stop()` with its joins |
| `Set`, `Command`, `CtrlConnect`, `CtrlLost`, `CtrlPoll`, `CtrlSend`, `CtrlQuit` | setters of the flowgraph and `control_loop` |
| `ServerApply`, `CtrlBreak`, `ReaderBreak` | external: heimdall's control port, the network |

### Recorder

| Model | Code (`doa_logger.cpp`) |
|---|---|
| `LoggerStep` with `LoopTop`, `CaptureBearing`, `CaptureStamp`, `WriteRecords`, `Synced` | `loggerThread`: due, capture, write, sync |
| `Publish` | the end of `processDecimatedIQ` in `music_processor.cpp` |
| `Configure`, `StartLogging`, `StopLogging`, `DeleteRecording` | the web thread's commands |
| `WriteFails`, `WriteIsLost` | an insert or `fputs` that fails, which the thread notices; a `COMMIT` (`:579`) or `fflush` (`:564`) that fails, whose result it ignores |
| `PowerCut`, `Tick` | external: power supply, clock |

A bearing is not newer than the stamp that is logged with it, because `processDecimatedIQ` stamps
under the `config_mutex_` it publishes under (`music_processor.cpp` 203-235, 741-742). An interval
may pass in the middle of a round over the decimators, which is more than the code does. What a
failed `COMMIT` or `fflush` has taken, any number of the records due, is counted by the history
`rec.lost`. fsync and checkpoint are taken to succeed: their results are ignored, too.

### MapLink

| Model | Code |
|---|---|
| `MapperStep` (reload, connect, pump, settings, capture, broadcast), `MapTime` | `workerThread` of `web_mapper.cpp` with its cloud sink and its LAN sink |
| `MapConfigure`, `MapEnable` | the configuration commands of `control_handler.cpp` |
| `CloudPush`, `ApplyBegin`, `ApplyFreq`, `ApplyCount`, `ApplyVfo` | `handle_cloud_message` and `apply_cloud_settings_on_loop` |
| `PacketTaken` | a packet's header overwrites the centre frequency (`data_receiver_thread`) |
| `HeimRetunes`, `LanClient`, `CloudBreaks` | external |

Contents of records, squelch and calibration gate, pings, WebSocket framing, tuning commands of a
user beside a push, and a web server that is down are left out.

### Run `links`

| Property | What it says | Parts |
|---|---|---|
| `LinkSound` | no socket holds more than it takes; the rtl_tcp list has the length its counter says, and at most one block of an earlier connection reaches a client, the one that was being converted when the list was cleared | `LinkTypeOK`, `RtlCounted`, `RtlFresh` |
| `RadioSound` | no more frames exist than the full queue and two, and what is put out is under the tag of its frequency and noise | `RadioTypeOK`, `FramesBounded`, `TagsTrue` |
| `RecordingSound` | a file grows in the order of stamps and has no bearing more than twice, its count is of the records in it and of those lost unnoticed, a power cut takes an interval at most, a stop leaves what is in it on the medium | `RecTypeOK`, `RecordsAdvance`, `CountedIsThere`, `LossBounded`, `StoppedIsSafe` |
| `MapSound` | the map output follows its configuration, a connection is of one key, VFOs land where the cloud asked, LAN streams are whole | `MapTypeOK`, `ConfigTaken`, `OneKeyPerConnection`, `VfosAsAsked`, `LanStreamsWhole` |
| `ImplementsPacketStream` | what a reader gets is a `PacketStream` | |
| `NothingBackwards` | neither blocks, frames nor settings go back | `RtlInOrder`, `FramesInOrder`, `NeverBack` |
| `EverythingArrives` | readers come back, settings arrive, a stop ends, frames are logged, the cloud learns the settings | `ReadersComeBack`, `SettingsArrive`, `StopEnds`, `FramesAreLogged`, `MapLearns` |

Bounds: one reader, packets of 2 or 3 words over a socket that takes 4, so no two packets fit and
every packet can be cut; 5 packets, 2 breaks; an rtl_tcp list of 2 with 3 clients; a frame queue of
1, 5 frames of three kinds (antennas, calibration noise, too few channels), 3 events; 2 decimators
and 2 files, 4 frames, commands and faults in all, so that one decimator may publish three frames
beside the other's one; 2 keys, 2 tunings, 2 pushes, one LAN client, 2 VFOs. The six
parts (the two servers, the stream and the tuner of the block, recording, map) share nothing but
threads that do not wait for each other. The environment runs out of packets and events and every
thread may then wait for good: no deadlock check.

Fairness: the conversion worker, accept and server loops, readers and the worker; the control thread
and the joins of the block, and heimdall's reading of its control port; the logger, calibration
noise that ends, intervals that pass; the mapper, the web loop, heimdall's retune and the next
packet. `MapTime` is fair only when nothing is ahead of it (`ahead' = {}`). Nothing is assumed of
connections, commands or the power supply.

Where a comment says more than the code does:

- With two decimators a bearing can be logged again under the stamp of the next frame, which then is
  never logged itself; "without ever logging a frame twice" (`doa_logger.cpp:649`) holds of stamps,
  and of bearings only that none is logged a third time, which is what `RecordsAdvance` says. After
  a `COMMIT` or `fflush` that failed the records are counted, remembered as written, and not in the
  file: `CountedIsThere` says that the count is too high by just those. A CSV write that fails half
  way repeats its first lines and does not mark the file dirty. A system clock that steps back stops
  sync and throttle. A power cut may tear the last CSV line and the append goes on behind it. A CSV
  recording into an existing database appends text to it. `LossBounded` allows one tick more than
  the sync interval.
- A packet from before a retune between the FREQ command and the reading of the centre
  (`web_mapper.cpp:853`) puts the VFO offsets wrong for good; `:777` speaks of no async races.
  Pushes decoded in the same pump as a close frame are dropped (`:380`). A failed send reconnects at
  once, without backoff, and the status stays "connected".

### Theorems (`LinksProofs`)

For any readers, lengths of packets, room of sockets, caps, metadata and bounds, from the
assumptions on the constants:

- `RtlInvariant`: `RtlInv` is types and counts with `ListOrdered` (the list grows, behind the block
  being sent and before the one being converted), `InBlock` (where in a block the client stands, and
  that what is sent goes on from there) and `OneStale` (the block in conversion, the one being sent
  and the list hold at most one block of an earlier connection together).
- `BlocksInOrder`: `LinkSpec => RtlInOrder`: the rtl_tcp client is greeted first and gets each block
  it gets from the first part to the last, in order, over every overflow of the list and every
  reconnection.
- `DataInvariant`: the line of a connection, the reader's buffer followed by what is on its way, is
  at every moment a sequence of packets that follow each other (`Linked`) and the packet it got last
  (`Follows`), of which only the last may be cut, and while the server still sends not even that
  (`Open`). recv may cut the line anywhere, since a cut moves words from one half of it to the
  other.
- `LinkCorrect`: `LinkSpec => []LinkSound`.
- `LinkRefinement`: `Readers # {} => (LinkSpec => ImplementsPacketStream)`. The hypothesis names the
  observed reader. The steps in which a reader takes a packet map to the delivery of `PacketStream`,
  a disconnection to the end of its connection, all others to stutters. That a header is always read
  where a header was written is `DataInvariant`.
- `RadioInvariant`: `RadioInv` adds to its types and `RadioSound` `Queued` (the frames that wait are
  of this run, one after the other, after the one that is out) and `OnTheWay` (from the flowgraph
  over the queue, the control thread and the wire to the server no setting goes back).
- `RadioCorrect`, `RadioForward`: `[]RadioSound`; frames go out in the order they came in, in the
  run they came in, and the server goes back to no value that was replaced, but by its own restart.
- `RecInvariant`: `RecInv` is types with `Settled` (the thread lives from a start to the end of the
  join of a stop, and when it is gone everything has reached the medium), `Capturing` (what is
  captured is in the order of the decimators and not older than what is written), `Journal` (no
  record is of a session to come, and each one of this session has a stamp that the thread still
  remembers or has passed, so the next capture follows it) and `Timely` (what waits for the sync is
  marked dirty, and since when, which bounds the loss). Without `Journal` a capture could go back
  behind what the file holds; without `Timely` the bound on the loss is not inductive. A write
  appends the due captures in the order of the decimators, and the proof uses of it only that it
  lists that set in that order, or a part of it where the commit fails; the count is the cardinality
  of the session's records and of what was lost. So nothing needs induction over a fold.
- `RecCorrect`: `RecSpec => []RecordingSound`, for any decimators, files, sync interval and any
  number of failed writes, noticed or not, and of power cuts.
- `MapInvariant`: `MapInv` is types with `InTime` (the worker has seen no generation that is to
  come), `OneSink` (what is open is of the mode and key the worker copied, and while it copies
  nothing is open), `AppliedSoFar` (the VFOs set so far are where the push asked, unless a packet
  from before the retune came between) and `Streaming` (a LAN client that is sent to has had whole
  frames only).
- `MapCorrect`: `MapSpec => []MapSound`, for any keys, tunings, number of VFOs and pushes.
- `NothingGoesBack`, `AllSound`: `Init /\ [][Next]_vars` of the composition in `MCLinks` implies
  `NothingBackwards` and `[](LinkSound /\ RadioSound /\ RecordingSound /\ MapSound)`: each part's
  steps are steps of its specification, and the other parts stutter.

The proofs of `MapCorrect` could not be finished as the model stood: two of its CASEs (`Fed` in
`MapLink`, and the end of a write in `Settings`) had guards that overlap, which leaves to the
evaluator what TLA+ leaves open. They are disjoint now, in the order in which the code tests.

Only model-checked: `EverythingArrives` (liveness).

## The client's sample path

### ClientPipeline

From a packet whose bytes have all arrived to the spectrum and to the input of MUSIC. Samples are
the number of the packet they came in; a copy into the persistent buffer is two steps, so that a
reader may see it half written.

| Model | Code |
|---|---|
| `RecvHeader`, `RecvReset`, `RecvFill`, `RecvUpdate`, `RecvArm`, `RecvPush` | `data_receiver_thread`: a header that changes the count or the frequency, the labels, the retune hold, the push |
| `PushPacket`, `PopPacket`, `Excess` | `raw_data_buffer.cpp` with its limits on packets and memory |
| `DecPop`, `DecGate`, `DecWith`, `DecSpectrum`, `DecCopy`, `DecEnqueue` | `decimation_processor_thread`: the hold, the decimators' tasks, the buffer and its generations, the FFT queue |
| `WorkerTake` .. `WorkerStore` | `fft_processor_thread` and `process_channel_fft`: count, recheck, enter, trust, execute, store |
| `ResizeBegin`, `ResizeDrained`, `ResizeContext`, `ResizeArrays` | `FFTProcessor::resize` |
| `Switch`, `HoldExpires` | commands of the web thread, the clock |

Run `client_pipeline`: two workers, two channels with counts 1 and 2, two places, sizes 1 and 2, raw
queue 2, memory 3, FFT queue 2, two packets, one retune, one switch, one resize. Two packets are one
of before and one of after; a memory of 3 is exceeded by a packet of two channels behind another of
two, before the limit of packets is. `PipelineSound` is `TypeOK`, `FramesWhole` (a frame that is
shown was read from one packet), `WritesInBounds` (no worker writes past the averages, unless a
resize gave up waiting after its 500 ms), `MemoryAccounted` (the count of bytes is that of the
queue); `HoldCoversOldPackets`: MUSIC gets no packet of another frequency than the label's, but
between the update of the label and the arming of the hold; `ResizeEnds` under weak fairness of
decimation thread, workers and the resize. The input ends, so there is no deadlock check.

### Theorems (`ClientPipelineProofs`)

For any workers, channels, places, sizes and limits: `PipelineInvariant`, `PipelineCorrect`,
`HoldKept`. The inductive invariant `CInv` is `TypeOK` with `ItemsGood` (what an item of FFT work,
in the queue or with a worker, may rely on while its generation is current), `SizesAgree` (a worker
is in a context only while all contexts have the averages' size: the resize waits for a count of
zero, and a worker looks at the flag again after it has counted itself), `RetuneHeld` (a packet in
flight of another frequency than the last header is older than the retune, and the hold is on) and
`MemoryAccounted`. How many packets are dropped to keep the limits is a least number; that there is
one is induction over Nat, through `WFMin` and `NatLessThanWellFounded`, whose statements have no
operator parameter.

Only model-checked: `ResizeEnds`.

## The client's signal processing

Three components that hand each other blocks and bearings, which are inputs of each, and share no
other state. `MCClientDsp` puts them beside each other.

### DirectionFinder

One decimator, from a block of samples to the bearing on the page. MUSIC holds `config_mutex_`
through a block and in every setter, so each of those is one step; the task around it is not under
the mutex. A sample is its number; eigenvalues, estimated number of sources and FFT peaks are
choices.

| Model | Code |
|---|---|
| `TaskBegin`, `TaskMix`, `TaskMixChannel`, `TaskLabel`, `TaskTune`, `TaskArm`, `TaskRun`, `TaskTell` | the decimation task in `data_receiver.cpp` and `shared_decimator.cpp`: offset, mixing channel by channel, label, MUSIC frequency, the block to MUSIC, the squelch gate |
| `TaskSquelch`, `TaskMoved`, `TaskRead`, `TaskFloor`, `TaskThreshold` | the squelch that learns its threshold (`updateAutoEigenThreshold`) |
| `Accumulated`, `Extracted`, `Window`, `Averaged`, `Computed`, `Frame`, `Synced` | `processDecimatedIQ` and what it calls: snapshots, covariance average, spectrum, publication, element count |
| `With*`, `SetSetting`, `SetCustom`, `SetFrequency`, `SetOffset`, `SetMethod`, `SetSquelch` | the setters and the commands that call them |
| `Retuned`, `Resized`, `HoldOver` | a packet's header moves the centre or the count; the hold |

### AudioPath

The decimator that is the FM source fills a queue, the FM thread demodulates into a ring, the timer
of the web thread plays packets from it and carries out the commands. The ring is for one writer and
one reader; its `clear()` belongs to neither.

| Model | Code |
|---|---|
| `Launch`, `Enqueue` | `processAllDecimators` and the decimation thread: blocks of the source to the FM queue |
| `FmTop` .. `FmAdd`, `FmDemod`, `FmStore`, `FmFill`, `FmComplete`, `FmReset`, `FmClear`, `FmRecreate` | `fm_processor_thread`, `fm_demodulator.cpp` |
| `Play`, `PlayStore` | `get_opus_packet`, the ring's `read` |
| `WebReset` .. `WebNeed`, `SetSource`, `SetAllRates`, `SetMode`, `SetRate`, `FmOn`, `FmSwitchOff`, `AddDecimator`, `RemoveDecimator` | the commands of the page |

### BeamFormer

A beamformer, and the configuration that all share. What it computes once it keeps for many blocks:
a steering vector, adaptive weights, a covariance on its way, phases per frequency bin, the samples
of the frame to come. Each has its own condition for being made anew.

| Model | Code |
|---|---|
| `PassBegin`, `PassAngle`, `PassGeometry`, `PassTopo`, `PassRadius`, `PassFreq`, `PassProcess` | the pass over the beamformers after the tasks of a block (`data_receiver.cpp`) |
| `Formed` with `Steers`, `Weighed`, `Phased`, `FrameOf`, `Held`, `Summed` | `process` with its four modes (`beamformer.cpp`) |
| `CommandStore`, `CommandList`, `CommandApply`, `AskAnew` | the commands that configure all (`decimator_manager.cpp`): the manager, a copy of the list, one beamformer at a time |
| `AddStart`, `Inherited`, `AddPush` | a decimator that is added inherits the configuration |

### Run `client_dsp`

| Property | What it says | Parts |
|---|---|---|
| `FinderSound` | no average, steering vector, learned floor, label or bearing outlives what it was made for | `TypeOK`, `AverageIsOfOneArray`, `SteeringIsCurrent`, `FloorIsOfVfo`, `AlikeUnlessDragged`, `NoNoiseShown` |
| `AudioSound` | as long as no clear overlapped a read or a write, the ring is a queue, and, unless one slipped in before the flag, a refill is a refill; filters are of the rate | `AudioTypeOK`, `RingIsQueue`, `FillIsReal`, `FilterIsCurrent` |
| `BeamSound` | no beam is formed with what was made for another angle, frequency or count; beamformers end up alike | `BeamTypeOK`, `BeamPointsWhereAsked`, `WeightsFollow`, `CovarianceOfOneCount`, `SelectedInRange`, `AllSteerAlike` |
| `FramesTile` | frames of the frequency domain beam overlap by half and leave nothing out | |
| `StepsSound` | frames of MUSIC move on and share no sample, a source count changes on evidence, the audio keeps a source | `FramesAdvance`, `CountIsStable`, `SourceOutlives` |

Bounds: 3 elements, blocks of 5 samples cut in 2 snapshots of 2 that overlap by 1, so that samples
are left over for the next block; 4 blocks and 2 events of any kind, with a source count that is
stable after 2 frames. Audio: 2 decimators, 2 rates, a ring of 4, a queue of 2, 3 blocks, 4 blocks
and commands in all. Beam: 2 angles, radii and frequencies, counts 2 and 3, covariances of 2 or 4,
blocks of 3 in frames of 4, so that a frame ends in the middle of a block; 3 passes, 2 commands.
Blocks and commands run out: no deadlock check. The run checks safety only.

Where the code falls short of what one might expect, and nothing is claimed:

- The frequency domain phases are not made anew for another topology, radius, spacing or sample
  rate, only for an angle or a frequency; its history and the covariance survive a change of mode.
  Adaptive weights keep an old geometry until the next covariance. Two threads that set the same key
  can leave a beamformer other than the manager.
- For a CUSTOM array with heights `setFrequency` and `setArrayRadius` recompute the flat steering
  vectors only (`music_processor.cpp:874`-887); `setFrequency` does not empty the accumulator.
  `addDecimator` copies a CUSTOM topology without its positions and without the MUSIC configuration
  (`decimator_manager.cpp:100`-140). `setSquelchMethod(2)` "always relearns from scratch" (`:323`),
  but the task may store its floor over that.
- The FM thread looks whether the ring is filled, then sets the flag (`fm_demodulator.cpp:549`-551),
  under no lock that a clear takes. A whole clear in between leaves the flag set on an empty ring,
  so that audio resumes without the refill that `:643` speaks of ("Force buffer refill before audio
  resumes"), until the next clear. The history `heard.slipped` marks it, and `FillIsReal` excludes
  it.
- The clear of the audio at a change of source is in flight with a write; the web thread's `clear()`
  overlaps the FM thread's (`ring_buffer.hpp:103`). The demodulator's rate is cached by the FM
  thread while the page sets it, too (`data_receiver.cpp`, "Only update sample rate if it actually
  changed").

### Theorems (`BeamAudioProofs`, `DirectionFinderProofs`)

The beamformer, for any angles, radii, frequencies, counts, block sizes, snapshot lengths, every
even frame size and any number of passes and commands:

- `BeamInvariant`, `BeamCorrect`: `BeamSpec => []BeamSound`. `BInv`: `Whole` says of the beamformer
  that a valid steering vector is that of its settings, valid weights are of its angle and count,
  phases of the angle, frequency and count they were made for, and a covariance of its count;
  weights that were renewed are those of its geometry, too (`Exact`); `Uniformly` says that every
  beamformer, the one that is being added included, has the configuration of the manager but for the
  one setting on its way.
- `FramesCorrect`: `BeamSpec => []FramesTile`. `Tiling`: the tail of the beamformer ends where the
  block being processed begins, and begins half a frame after the last frame. That cutting frames
  from tail and block keeps this is arithmetic of division by the hop, proved once for any length.

The audio, for any set of decimators (finite, as `MAX_DECIMATORS` makes it), rates, sizes of ring,
block, packet and queue, and any number of blocks and commands:

- `AudioInvariant`, `AudioCorrect`: `AudioSpec => []AudioSound`. `RingIsQueue` is not inductive: it
  says nothing of the moments between the copy and the store of a write or a read, or in the middle
  of a clear. `AInv` adds `RingGood`: unless a clear has overlapped a read or a write, a write that
  is not yet stored has its samples behind the write position, and room for them (`Storing`); a read
  that is not yet stored is of samples still held (`Playing`); a clear has zeroed what its place
  says (`ClearedSoFar`). `EnoughKnown` ties the length of what is held to the history that
  `FillIsReal` asks for, and the FM thread at `FmComplete` has seen enough, or a clear came since.
  The hard cases are the copy of a write, which must touch no held sample round the end of the ring
  (`CellsOfWrite`), and the two stores, where the samples between the positions become exactly the
  old ones and the new, or the old ones without the first (`AfterWrite`, `AfterRead`). All of this
  is arithmetic modulo the ring's size, proved for every size; that it is a power of two, as in the
  code, is not used.
- `SourceKept`: `AudioSpec => SourceOutlives`. Only `RemoveDecimator` takes a decimator away, and
  never the last one (`OneRemains`, of finite sets), so that another is there to be the source.

The direction finder, for any number of elements, block lengths, snapshot length, overlap, number of
snapshots and buffer, offsets, frequencies and any number of blocks and changes:

- `FinderInvariant`, `FinderCorrect`: `FinderSpec => []FinderSound`. Its parts are not inductive by
  themselves. `Fitting` adds to the average and the steering vectors what the setters rely on: a
  CUSTOM array is always steered, a circular one of two elements never, and a forgotten count has no
  streak; each setter, alone and as part of `syncElementCount`, is shown to keep it. `OneOffset`
  follows the offset through decimator, channels, label and MUSIC, place by place, for
  `AlikeUnlessDragged`. `Floors` does so for the floor that the squelch reads, moves and stores in
  four steps. `Accumulating`, `AtHand` and `Shown` keep the noisy samples out: whether the noise
  source is on comes with a packet, and the gate looks at it before a block reaches MUSIC.
- `FramesAreNew`: `FinderSpec => FramesAdvance`. The accumulator is a circular buffer, and reading
  it is arithmetic modulo its size: `AccumulatedSamples` says where each sample is after a block of
  any length was added, `OrderIsKept` that they stay in order, `FrameIsMade` that the snapshots,
  however they overlap, end before the first sample that `extractSnapshots` leaves. `Framed` carries
  that to the next frame.
- `CountNeedsFrames`: `FinderSpec => CountIsStable`. `Evidence`: as long as MUSIC is steered, a
  streak of n is of the last n frames, all for the candidate. Where there are no steering vectors a
  frame does not count, although it is recorded; `Steerable` says when that can be while a count is
  resolved (between the positions and the topology of a CUSTOM array).
- `SidesApart`, `StepsCorrect`: a behaviour of `MCClientDsp` is one of the direction finder and one
  of the audio, so `Spec => StepsSound`.

## The scanners

### DiscreteScan

Heimdall hops through a list of frequencies by itself; the client gives it the list, looks for
signals in the stitched spectrum, and has a worker thread carry out the commands and delays of a
lock or of a resumption, while the user's commands arrive on the web thread. Commands travel on one
TCP connection in order.

| Model | Code |
|---|---|
| `LoadConfig`, `StartScan`, `StartGoes`, `StopScan`, `SetDwell`, `NextSignal`, `Detect`, `Settle`, `LoseSignal` | `scanner_manager.cpp` |
| `LockStop`, `LockCoherent`, `LockFrequency`, `LockDone` | `lockOnSignal`, on its worker |
| `ResumeWide`, `ResumeConfigure`, `ResumeStart` | `resumeScanning`, on its worker |
| `WidebandMode`, `SetFrequency` | the user's commands (`control_handler.cpp`) |
| `Take` with `Configure`, `StartCommand`, `StopCommand`, `WideCommand`, `FrequencyCommand`, `CoherentCommand`, `CoherentDone`, `Spread` | heimdall's control port and `sdr_init.cpp` |
| `HopTop`, `HopRead`, `HopTune`, `HopNext` | `discrete_scanner_thread` |

### ContinuousScan

The client's own scanner polls the averaged spectrum, tunes decimators to what it finds, dwells,
moves on, and over a range wider than the tuners retunes heimdall from band to band. Each retune
starts a calibration that feeds the antennas with noise; the scanner learns of it from the flags of
the packets.

| Model | Code |
|---|---|
| `Refresh`, `Poll` with `Calibrating`, `Settling`, `Waits`, `Tunes`, `Keeps`, `Dwells`, `Fades`, `GivesUp`, `AwaitsStart`, `AwaitsEnd` | `scannerThread`, one poll one step after the copy of the spectrum |
| `TuneTo`, `ClearBand`, `Advance`, `Retune` | `tuneTo`, `clearBandState`, `advanceToNextBand`, `initiateRetune` |
| `Start`, `Stop`, `StopClears`, `SetRange`, `SetWideband`, `RemoveDecimator` | its control interface |
| `Packet`, `Frame`, `StaleFrame`, `Forgets` | flags of packets, the FFT average |
| `CalibrationStep`, `CalibrationTurn`, `CommandLost`, `AirChanges` | external: heimdall's calibration as the packets report it, the air |
| `QuietPasses`, `HoldPasses`, `WaitPasses`, `MinutePasses` | the clock |

Timing is assumed in the guards of the clock's actions: packets, frames and commands take far less
than the scanner's times; each phase of a calibration lasts many packets, and one that is waited for
is seen by a poll; in the minute a retune may take the thread polls many times; the quiet time (750
ms) is longer than the settling (500 ms); a packet's flags are set before its FFT frame; the average
forgets. What does not keep to it is a fault (`MaxFaults`): a calibration of more than a minute, a
lost command, a calibration or burst out of turn, a station that goes on or off the air.

### Run `scanners`

| Property | What it says | Parts |
|---|---|---|
| `ScanSound` | client and heimdall agree when nothing is under way, groups cover what is enabled and no fewer would do, DoA is never on spread tuners, FM comes back | `TypeOK`, `EndsAgree`, `GroupsCover`, `NoDoaOnSpread`, `FmComesBack` |
| `LocksSound` | a lock is on what is in the air, its decimator is tuned to it, no decimator has two, a stop leaves none | `ScannerTypeOK`, `LocksAreReal`, `LocksAreTuned`, `OneLockEach`, `StoppedIsClear` |
| `ScansGoOn` | every group, band and signal has its turn, every lock ends | `EveryGroupIsScanned`, `LockEnds`, `EveryBandIsSwept`, `SignalsAreSwept` |

Bounds: lists of one and two groups, grouping over all subsets of six frequencies with a span of two
of them, 3 commands, locks and resumptions without bound; 2 bands with one and two signals, 2
decimators, 2 commands. A behaviour is one of the list scan, of a sweep (one command, one fault,
with liveness) or of a sweep with a user (two commands, safety). Fairness: the worker, heimdall's
control and hop threads, `StartGoes`, signals that end or are missed; packets, frames, calibrations
that go on, polls. Strong fairness is assumed of the scanner's times only (`QuietPasses`,
`HoldPasses`, `WaitPasses`): each poll may take them up again, but a time that is again and again
about to pass does pass. Commands run out and a scan may be off: no deadlock check.

Two history variables mark where the properties claim less. `crossed`: a command of the user came
across a list scan or a transition (a stop and start during a lock, `scanner_manager.cpp:370`; DoA
switched on while locked; a late hop that overrides the frequency of a lock). `trusted`: the present
sweep has begun a band with a new average; one that was started while the retune of an earlier sweep
is under way has not.

Where the code does something else than its comments or its users may expect, and nothing is
claimed:

- LOCKED is declared 400 ms after the commands of a lock, while heimdall's return to coherent mode
  holds its control thread for 500 ms. A lock never restores DoA, though `control_handler.cpp:1327`
  logs "will restore when disabled"; a second WIDEBAND_MODE:1 loses the saved state. A start_scanner
  that is dropped leaves the client scanning and heimdall not hopping. Wideband mode skips the reset
  of the FFT after a hop (`data_receiver.cpp:214`).
- The phases in the continuous scanner's log and tests are not those of heimdall's
  `types.hpp`:28-34, so the cool-down counts as calibrated. The slot of a deleted decimator stays
  active, and can hold up the sweep for good. More than three decimators are tuned, but three slots
  record them. An invalid range keeps the old plan. `stop()`'s IDLE can be overwritten. The age of
  the FFT copy is that of the copying. A pause for a calibration has no timeout while scanning.
- A retune that is given up after 60 s (`continuous_scanner.cpp:1046` and `:1072`) goes on to the
  next band. If the tuners are there already, because an earlier retune was lost or the plan has one
  band, `initiateRetune` (`:700`-709) clears the band and scans at once, with the average it has. If
  a calibration is on at that moment and the 750 ms of quiet run out before a poll notes the pause,
  nothing discards the noise in that average and the scanner locks on it. With two bands it takes a
  lost retune and a calibration out of turn, with one band a calibration of more than a minute; the
  run has two bands and at most one fault. `LocksCorrect` excludes it by name (`GivesUpCalmly`).

Not modelled: the user's frequency changes in a sweep, decimators added and moved in it, the MUSIC
frequency, status JSON.

### Theorems (`ScanProofs`)

`ScanCorrect` is `ScanSound` for any configurations, any grid, any commands and any number of them.

- *Grouping* (`GroupingCovers`). `GroupsOf` lists the enabled frequencies in ascending order and
  folds them into groups. The proof is about the fold: after each frequency the groups cover what
  came before, the last one ends at it, and each starts beyond the span of the one before. That the
  ascending list exists is a lemma of its own (`CanBeListed`).
- *What is on its way.* What the client believes of heimdall's mode and scanner is not what heimdall
  is at now but what it will be at when the commands on the way have been carried out: `Ends` is the
  last command that concerns a switch, or else the switch. Sending appends, heimdall takes the head,
  and two lemmas (`EndsLonger`, `EndsShorter`) say what either does to `Ends`; each action then has
  a proof of a few lines. `Switched` and `InStep` are the invariants of this kind, `Fed` says that a
  start finds a list because one is there or in front of it.
- *The hop that was under way.* `ComesTo(f)` says that all that is under way leaves every tuner on
  f: heimdall's scanner has stopped, the hop is over, and the last commands narrow the tuners and
  set f. It holds from LOCKED on because `LockCoherent` waits until the stop has been worked off;
  this is the hypothesis `Prompt` of `ScanCorrect`, the 50 ms of `lockOnSignal`. Without it
  (`ScanKeepsItsSwitches`) the grouping, DoA and FM still hold.
- `ScanInvariant` is the inductive invariant, of all of this; TLC checked it on the instance of the
  run `scanners` before it was proved.

The continuous scanner's theorems hold for any plan, signals, decimators, user commands, and any
number of faults. `LocksInv` is the inductive invariant behind `LocksKept`, which needs no
hypothesis:

- *The thread and the stop.* `LocksTyped` has, with the types, that what is tuned is within the
  plan; `Stopping`, that the web thread clears only after the scanner's thread is through, and that
  what a stop has cleared stays clear.
- *Locks.* `TuneTo` over any list of peaks (`TuneAll`, a recursive function) gives a slot and a
  decimator to one signal at most, and the frequency in the slot is the decimator's. `Swept` says
  what a poll may leave behind: what it locks or remembers it had tuned, remembered or found
  (`Gathers`). One lemma per kind of poll shows it.
- *Where the tuners are.* `Known`: no retune is on its way and packets and average are of heimdall's
  band. `Where` says when this must hold: once the minute is up, once a retune has settled, and as
  long as a scan that began with a new average looks at its band.

`LocksCorrect` is `LocksSound`, the part that needs more being `LocksAreReal`. `Clean` says where
noise and another band's signals may be: in the average while the quiet is not over, the pause is
noted or a reset is due (`CleanScan`); in the thread's copy likewise (`CleanCopy`); and at the end
of the minute nowhere, if no calibration was seen (`CleanLate`). The proof of this failed at one
step, a retune given up in the middle of a calibration, and TLC with two faults found the behaviour
told of above. `GivesUpCalmly` is the hypothesis on the behaviour that excludes it: when a retune is
given up and the scan starts at once, the noise source is off and has been for its time of quiet. It
is a weaker condition than that retunes are in time (`LocksCorrectInTime`), under which nothing else
is assumed: heimdall may calibrate out of turn and stations come and go. TLC checked both
invariants, with two commands and up to three faults, before they were proved.

## The settings

### Settings

The commands of the browsers, the store that remembers them and its file, their replay at the start,
and heimdall's tuner. Two threads run commands, the event loop of the browsers and the data
receiver, which replays once per process before the first packet; a third writes the file. One
shared flag tells a replay from a command.

| Model | Code |
|---|---|
| `Receive`, `Impl`, `Record`, `Mark`, `Show` | `handle_websocket_message`: effect, record, echo |
| `Tune`, `MixerSide`, `Wideband`, `Topology`, `Radius`, `CustomPositions`, `Beamforming`, `EdgeClip`, `VfoCommands` | the handlers (`control_handler.cpp`) |
| `Snapshot`, `FromSnapshot`, `Added`, `Removed`, `Offset` | VFOs and their snapshot (`decimator_manager.cpp`) |
| `ApplyPersisted`, `StartReplay`, `EndReplay` | `apply_persisted_settings` |
| `WriteStart` .. `WriteRename`, `WriteShort`, `WriteFails`, `SaverWakes`, `FinalFlush`, `ResetStore`, `ResetClean`, `ResetReplay` | `settings_store.cpp` |
| `Boot`, `Shutdown`, `Exit`, `Crash` | `main.cpp`; the end of the process |
| `HeimTakes`, `HeimRestarts`, `Header` | heimdall's control port; a connection lost; a packet's header |

Deferred broadcasts keep their order, so they happen at once; the web thread is detached and lives
until `_Exit`; recording and echo are one step; plain keys that no other key depends on are left
out, as is the `set_wideband_mode` message, which `DiscreteScan` has. A file is a function on the
settings it holds. `write_now` never asks whether the stream took all of it
(`settings_store.cpp:236`-242): a second file that came short, as on a full disk, is renamed like a
whole one (`WriteShort`, `ShortOf`), and `load` gives the default for what it lacks (`Loaded`). The
numbers and names that a cut in their middle makes of others are left out.

### Runs

| Run | Question | Bounds |
|---|---|---|
| `settings` | has the file every setting, but after a write that came short, and is what it is behind announced (`SaverSound`: `DirtyOrSaved`, `FileWhole`); do live settings, store, browsers and heimdall agree (`SettingsAgree`: `RestoredAsSaved`, `StoreFollows`, `RetuneConverges`, `BrowsersAgree`); does what was recorded reach the file (`SavedInTheEnd`)? | eleven sessions, each of a group of commands that affect one another (tuner, a mixer side chosen while the replay retunes, VFOs, array, DoA, reset) with restarts, crashes, lost messages, and in one of them (`disk`) a write that fails or comes short |
| `settings_topology` | *violation* of `TopologyRestored`: settings "are restored on startup by replaying each setting through the normal control handler" (`settings_store.hpp:12`) | a start without commands |

The finding: the replay sends TOPOLOGY and then CUSTOM_POSITIONS, whose handler switches the
topology to CUSTOM (`control_handler.cpp:896`). After every start and every RESET the array is
CUSTOM in every decimator, while the saved and displayed topology is another.

Left out of what the runs claim, though the code does it: a saved MIXER_SIDE of "below" is
range-checked against the default frequency when it is replayed before FREQ, rejected, and then
overwritten; a rejected value (MIXER_SIDE, RADIUS under WIDEBAND, LO_CURRENT, malformed URL or port)
is saved and echoed anyway; commands of a user during a replay are not recorded, and a RESET in it
clears the flag early; a MIXER_SIDE of a browser in the midst of a replay's FREQ can be the last to
arrive and leave both ends on different sides; a VFO command before the replay overwrites the saved
set; a failed write is never retried; a short one replaces the good file (`settings_store.cpp:206`
thinks of crashes only), and the next start takes the defaults for what is missing; FREQ gives MUSIC
the centre without the VFO's offset; a restart of heimdall is not followed by another replay.

Fairness: each command thread, reset, writes, the saver and the end of a stop once begun. Nothing
makes a browser, a fault or a restart happen.

### Theorems (`SettingsProofs`)

`SaverCorrect` is `SaverSound` for any commands of the browsers, any number of VFOs, and any number
of writes that fail or come short, crashes and restarts.

- *Who knows.* `InStep` is the invariant: whenever the file is not what the store is, somebody is
  on record as knowing it (`Announced`): the flag, a thread between the store and the flag, a reset
  between the store and its write, or the saver that took the flag down and has not serialised yet.
  While a version is being written the same holds of that version (`writer.snap`), so that a change
  which comes after serialisation is announced anew and survives the rename. `DirtyOrSaved` is the
  case where every one of those is idle.
- *One writer.* `OneWriter` ties the writer to the thread that called `write_now`. The second file
  is the serialised version when it is renamed, or came short, and then the step that renames it
  sets the history `seen.short` and `seen.failed`; `FileWhole` follows.
- *Types.* That VFO identifiers stay distinct and their number between 1 and MAX_DECIMATORS needs
  that a free identifier exists below the bound (a count: `Added`, `Resized`) and that removing one
  keeps the others. `Resized` is the closed form of the loops of the code; the commands are those of
  `BoundsAssumption`, and the invariant says that a replay only sends what a store may hold.

`SettingsCorrect` is `SettingsAgree`, for the same. The invariant (`SettingsInv`) adds to the one of
the saver what the thread in a command has yet to do:

- *One at a time.* As long as no command of a browser came across a replay (`~seen.crossed`), one
  thread is in a command at most, the flag is up exactly while that thread replays, and what it has
  left to replay is the rest of the schema with the values of the store (`Alone`, `Rest`).
- *The store follows.* A setting in force is the stored one unless the start's replay is still to
  come, or a thread lags: it is in a replay that has not come to that setting, in a reset before its
  replay, or about to record that very setting (`Follows`, `Lags`). A thread that is idle does not
  lag.
- *Restored as saved.* `Brings` says what is in force after the first so many commands of the replay
  (`Progress`), in the order of the schema: DoA is as saved from the second to the seventh and on
  with beamforming from the eighth. For the VFOs it needs that a list made of a snapshot has that
  snapshot (`RoundTrip`), though the identifiers are others.
- *Browsers agree.* `Shows`: DoA, which commands of other names change, is shown at once; the FM
  switch when its command is recorded.
- *A retune converges.* `Converging` follows the last FREQ: not sent yet; sent and its side not
  chosen; its side chosen and not sent; both on their way, one behind the other at the end of the
  pipe; arrived. The side then in force reaches the frequency, so heimdall does not refuse it.

The proof found a bound that hid something: with a MIXER_SIDE that the event loop has applied and
not yet sent while the replay retunes, both messages of the FREQ arrive first and the side last, and
both ends keep different sides. `RetuneConverges` used to count such a FREQ and no session held it;
now it counts a FREQ only when the other thread is in no FREQ or MIXER_SIDE, and a session has the
case.

## What stays with TLC, and why

- *Liveness* (`NothingHangs`, `PerBinEnds`, `LossesAreHandled`, `ResizeEnds`, `EverythingArrives`,
  `ScansGoOn`, `SavedInTheEnd`): the prover has no rules for fairness and ENABLED.

The proofs assume of the constants only what the named ASSUMEs of the modules say, which TLC
evaluates in every run, and what the theorems state as hypotheses: `OnlyRetunes`, `SeveralNeeded`,
`Undisturbed`, `Readers # {}`, `Prompt`; and of the behaviour `ChecksApart`, `GivesUpCalmly` and, in
`LocksCorrectInTime`, that no retune takes a minute.

## Not modelled

Of the services: `gpsd_client` (a daemon that dies silently is never noticed, `:254`; a failed send
loops without delay), station information, system statistics and the dashboards; of the servers,
HTTP and WebSocket framing, queries and downloads; of the settings, the parsing of heimdall's option
file. In pipeline control the window between the test for recovery or scanner and the lock
(`pipeline_control.cpp:113`). For good: floating-point DSP (FFT, MUSIC, filters), which TLC cannot
evaluate and whose properties are numerical; USB, GPIO, HTTP and terminal I/O; the third-party queue
(taken to be a FIFO per producer and consumer, which is how it is used); generated and vendored
files.
