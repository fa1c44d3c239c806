-------------------------- MODULE MCClientPipeline --------------------------
\* The client's sample path with two FFT workers on two channels.
EXTENDS ClientPipeline
=============================================================================
