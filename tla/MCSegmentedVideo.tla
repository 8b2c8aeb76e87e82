-------------------------- MODULE MCSegmentedVideo --------------------------
(* The transport alone, for what does not hold of it.                       *)
EXTENDS SegmentedVideo

CONSTANT upload

\* One scene is cut from an upload, the others from the original video.
Sources == [s \in Segments |-> IF s = upload THEN "uploaded" ELSE "original"]
=============================================================================
