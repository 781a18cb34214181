---------------------------- MODULE MCAudioPipeline ----------------------------
(* One player buffer is as long as three of the mixer's short buffers; the   *)
(* mixer may also choose one of twice that length, or an unacceptable one.   *)
EXTENDS AudioPipeline

MCRates == {0, 1, 2}
MCLengths == {0, 1, 2, 3}
MCCounts == {0, 1}
=============================================================================
