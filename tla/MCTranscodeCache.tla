--------------------------- MODULE MCTranscodeCache ---------------------------
(* Instances of TranscodeCache for TLC.                                     *)
EXTENDS TranscodeCache, TLC

Interchangeable == Permutations(Requests) \cup Permutations(Songs)
===============================================================================
