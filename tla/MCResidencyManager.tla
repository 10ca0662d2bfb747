------------------------ MODULE MCResidencyManager ------------------------
(* Instances of ResidencyManager for TLC: up to four heaps of 1 or 2       *)
(* bytes, in one segment or two.                                           *)
EXTENDS ResidencyManager

CONSTANTS h1, h2, h3, h4

Sizes == [h \in Heaps |-> IF h \in {h1, h3} THEN 1 ELSE 2]
AllLocal == [h \in Heaps |-> Local]
TwoSegments == [h \in Heaps |-> IF h \in {h1, h3} THEN Local ELSE NonLocal]
AllResident == [h \in Heaps |-> "resident"]
OneUnknown == [h \in Heaps |-> IF h = h3 THEN "unknown" ELSE "resident"]
OneNotResident == [h \in Heaps |-> IF h = h3 THEN "notResident" ELSE "resident"]
===========================================================================
