--------------------------- MODULE MCCalibration ---------------------------
(* Small instances of Calibration for TLC.                                   *)
EXTENDS Calibration

\* Commands that retune and wait for the settings to be stable.
RetuneCommands == {"set_frequency", "set_gain", "set_array"}
\* What can interrupt the measurement of the equalizer, but for a change of gain
\* (see the README) and the noise-off of a user.
EqualizerCommands ==
    {"set_frequency", "PER_BIN_DISABLE", "PER_BIN_ENABLE", "FFT_DISABLE", "FFT_ENABLE",
     "BIAS_TEE_ENABLE", "reset_lag_compensation", "wideband_on", "wideband_off"}
\* Everything that clients of a KerberosSDR can send.
KerberosCommands == Retunes \cup
    {"web_gain", "FFT_ENABLE", "FFT_DISABLE", "BIAS_TEE_ENABLE", "BIAS_TEE_DISABLE",
     "PER_BIN_ENABLE", "PER_BIN_DISABLE", "FORCE_RECAL", "reset_lag_compensation",
     "wideband_on", "wideband_off", "start_scanner", "stop_scanner"}
=============================================================================
