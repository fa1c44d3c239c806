-------------------------- MODULE MCIngestPipeline --------------------------
(* Small instances of IngestPipeline for TLC. *)
EXTENDS IngestPipeline, TLC

CONSTANT f1

OneFlusher == {f1}
OnlyTwo == {2}
TwoOrThree == {2, 3}
=============================================================================
