------------------------------ MODULE MCDAStage ------------------------------
(* Instances of DAStage for TLC.                                            *)
EXTENDS DAStage

CONSTANTS d1, d2, d3, u1, u2, v1, v2

(* A device: the disk d1 for the whole of it and a partition d2.            *)
DeviceUnit   == [d \in {d1, d2} |-> u1]
DeviceVolume == [d \in {d1, d2} |-> IF d = d1 THEN v1 ELSE v2]

(* One disk.                                                                *)
SoloUnit   == [d \in {d1} |-> u1]
SoloVolume == [d \in {d1} |-> v1]

(* Two units.                                                               *)
AgainUnit   == [d \in {d1, d2} |-> IF d = d1 THEN u1 ELSE u2]

(* It comes back with another partition.                                    *)
TwinUnit   == [d \in {d1, d2, d3} |-> IF d = d1 THEN u1 ELSE u2]
TwinVolume == [d \in {d1, d2, d3} |-> IF d = d3 THEN v2 ELSE v1]

(* A container d2 whose media is stacked upon that of d1.                   *)
StackRelated == {<<u1, u2>>, <<u2, u1>>}
=============================================================================
