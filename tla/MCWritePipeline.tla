-------------------------- MODULE MCWritePipeline --------------------------
(* One document, two contents: the order of its writes can be told.       *)
EXTENDS WritePipeline

CONSTANTS a, x, y

MCId == {a}
MCContent == {x, y}
=============================================================================
