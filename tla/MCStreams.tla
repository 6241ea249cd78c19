------------------------------- MODULE MCStreams -------------------------------
(***************************************************************************)
(* Values for the constants of Streams: one status of every class, and one *)
(* that no class names.                                                    *)
(***************************************************************************)
EXTENDS Streams

OneOfEach == {200, 401, 402, 429, 400, 503, 418}
================================================================================
