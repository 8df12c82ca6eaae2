------------------------- MODULE MCIncrementalBuild --------------------------
(* A program of one object, compiled from a source that includes a header. *)
EXTENDS IncrementalBuild, TLC

CONSTANTS src, hdr, obj, prog

ObjectInputs == (obj :> {src}) @@ (prog :> {obj})
ObjectIncludes == (obj :> {hdr}) @@ (prog :> {})
=============================================================================
