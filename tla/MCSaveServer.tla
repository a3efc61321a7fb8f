---------------------------- MODULE MCSaveServer ----------------------------
(* A small server: two client slots, two concurrent downloads, saves of    *)
(* two chunks cut from the default save or from one uploaded image.        *)
EXTENDS SaveServer

CONSTANTS s1, s2, w1, w2, none, dflt, img1, unsent

MCSlots    == {s1, s2}
MCWorkers  == {w1, w2}
MCImages   == {dflt, img1}
=============================================================================
