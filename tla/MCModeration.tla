------------------------------ MODULE MCModeration ------------------------------
(* One list to import: everybody blocked and whitelisted, every stream flagged. *)
EXTENDS Moderation

OneImport == {[blocked |-> Peers, white |-> Peers, flags |-> [s \in StreamIds |-> 1]]}
NoImport == {}
=============================================================================
