--------------------------- MODULE MC_GRAM5Upload ---------------------------
(* Instance of GRAM5Upload for TLC.  Two job manager instances: one whose  *)
(* version parses and that sends an lrm, one whose version string does not *)
(* match and that sends no lrm, so both branches of every NULL-able lookup *)
(* are taken; one value per other dimension key, so that a second packet  *)
(* hits what the first inserted; one standard RSL attribute (bit 0) and    *)
(* one extension attribute that gets the next id.                          *)
EXTENDS GRAM5Upload

CONSTANTS u1, u2, h1, l1, poll,      \* packet field values
          Count, Ext                 \* RSL attribute names

\* Field D: "3.14 (g, 7-78)", whose dirt timestamp is 7, and "garbage".
MCVersionString == <<"3", ".", "1", "4", " ", "(", "g", ",", " ", "7", "-", "7", "8", ")">>
MCGarbage == <<"g", "a", "r", "b", "a", "g", "e">>

MCJobManagerOf ==
    (u1 :> [host |-> h1, version |-> MCVersionString, lrm |-> l1, flags |-> poll]) @@
    (u2 :> [host |-> h1, version |-> MCGarbage, lrm |-> None, flags |-> poll])
\* Dirt timestamps in hours.  Outside a repeated local hour the round trip
\* through the local time gives the timestamp back; 7 is in the second
\* occurrence of a repeated hour, which mktime may read as the first (6).
MCDirtRoundTrip == (7 :> 7)
MCDirtRoundTripDst == (7 :> 6)
MCStdAttrs == (Count :> 0)
MCStdBitfields == {1}
\* A standard bit (1) that no seeded attribute has: a newer job manager.
MCStdBitfieldsUnknownBit == {1, 2}
MCExtAttrLists == {<<>>, <<Ext>>}
MCStagingFields == {"p"}
=============================================================================
