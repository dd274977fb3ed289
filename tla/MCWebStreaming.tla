---------------------------- MODULE MCWebStreaming ----------------------------
(***************************************************************************)
(* WebStreaming for TLC: a behaviour has viewers or browser peers, not     *)
(* both.  They meet only in the broadcast channel, of which every receiver *)
(* has its own view.                                                       *)
(***************************************************************************)
EXTENDS WebStreaming

OneKind == (\A c \in Clients : client'[c].at = "new") \/ (\A r \in Relays : relay'[r].at = "new")

MCSpec == Init /\ [][Next /\ OneKind]_vars /\ Fairness
=============================================================================
