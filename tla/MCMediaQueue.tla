---------------------------- MODULE MCMediaQueue ----------------------------
(* Instances of MediaQueue for TLC.                                        *)
EXTENDS MediaQueue, TLC

CONSTANTS a, b, w1, w2

NoDependencies == [j \in Jobs |-> {}]
\* b is prepared from the result of a.
BAfterA == [j \in Jobs |-> IF j = b THEN {a} ELSE {}]

OneFile == [j \in Jobs |-> 1]
TwoFiles == [j \in Jobs |-> 2]
\* a analyses (no file), b exports one.
FileOfB == [j \in Jobs |-> IF j = b THEN 1 ELSE 0]

LightA == [j \in Jobs |-> IF j = a THEN "light" ELSE "transcode"]
AllTranscode == [j \in Jobs |-> "transcode"]
OneSlot == [class \in {"light", "transcode"} |-> 1]
TwoSlots == [class \in {"light", "transcode"} |-> 2]

UnitSize == [j \in Jobs |-> 1]

Interchangeable == Permutations(Workers)
=============================================================================
