----------------------------- MODULE MCSaveSync -----------------------------
(* Two players, two client slots, two downloads at a time, saves of two    *)
(* chunks.  The cfg files choose who saves and who may lose the connection.*)
EXTENDS SaveSync

CONSTANTS p1, p2, s1, s2, w1, w2, none, dflt, unsent, zero

MCPlayers == {p1, p2}
MCOne     == {p1}
MCOther   == {p2}
MCNobody  == {}
MCSlots   == {s1, s2}
MCOwnPlace == [p \in MCPlayers |-> IF p = p1 THEN {s1} ELSE {s2}]
MCAnyPlace == [p \in MCPlayers |-> MCSlots]
MCWorkers == {w1, w2}
=============================================================================
