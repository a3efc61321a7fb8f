----------------------------- MODULE MCSessions -----------------------------
(***************************************************************************)
(* Connections that come and go under shared hashes and late DISCONNECTs.  *)
(* Nobody enters a scene here, so that no packet thread runs: that is in   *)
(* MCAgreement, with fewer places.                                         *)
(***************************************************************************)
EXTENDS Sessions, TLC

CONSTANTS g1, g2, h1, h2

NextConnection ==
  \/ \E p \in Peers : RejectPacket(p) \/ ReceiveHello(p) \/ ServerDisconnect(p)
  \/ \E g \in Games : Rejoin(g) \/ LoseConnection(g) \/ ReceiveList(g)

MCSpec == Init /\ [][NextConnection]_vars /\ Fairness
=============================================================================
