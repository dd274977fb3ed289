-------------------------------- MODULE MCRelay --------------------------------
(***************************************************************************)
(* Relaying for TLC: the relay node, the buffer it keeps of one stream     *)
(* under every order of arrival, and the validator of stream messages.     *)
(* They share no state here, so a behaviour is about one of them, which    *)
(* the initial state chooses; what the fairness of the node asks for is    *)
(* not enabled in the others.                                              *)
(***************************************************************************)
EXTENDS RelayNode, StreamHistory, Validation

CONSTANT MaxInputs   \* bound: chunks and control messages sent to the node, and its starts

VARIABLES subject, starts

allVars == <<vars, relay, history, validatorVars, subject, starts>>

MCInit == /\ subject \in {"node", "stream", "validator"}
          /\ starts = 0
          /\ Init /\ StreamInit /\ ValidatorInit
MCNext ==
    /\ \/ /\ subject = "node" /\ Next
          /\ starts' = IF ctl = "down" /\ ctl' # "down" THEN starts + 1 ELSE starts
          /\ published' + messages' + starts' <= MaxInputs
          /\ UNCHANGED <<relay, history, validatorVars>>
       \/ subject = "stream" /\ StreamNext /\ UNCHANGED <<vars, starts, validatorVars>>
       \/ subject = "validator" /\ ValidatorNext /\ UNCHANGED <<vars, starts, relay, history>>
    /\ UNCHANGED subject
MCSpec == MCInit /\ [][MCNext]_allVars /\ Fairness
=============================================================================
