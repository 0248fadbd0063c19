---------------------------- MODULE SealedIdentity ----------------------------
(***************************************************************************)
(* What noded promises of an identity whose key is in the TPM: the key is  *)
(* generated once and never replaced, the certificate on disk changes only *)
(* to a new one for that key, in one step and never back to none, and what *)
(* the server presents is nothing, or the certificate that was on disk     *)
(* when it was last loaded.                                                *)
(***************************************************************************)
CONSTANTS Keys, NoKey, Serials, NoSerial

VARIABLES
    key,      \* the node key
    current,  \* the certificate a restart would find
    served    \* the certificate the TLS server presents

identity == <<key, current, served>>

Nothing == [serial |-> NoSerial, key |-> NoKey]

Init == key = NoKey /\ current = Nothing /\ served = Nothing

\* The key is made when there is none.
Generate ==
    /\ key = NoKey
    /\ key' \in Keys
    /\ UNCHANGED <<current, served>>

\* The first certificate, or one that replaces the one before.
Obtain ==
    /\ key # NoKey
    /\ current' \in [serial : Serials \ {current.serial, served.serial}, key : {key}]
    /\ UNCHANGED <<key, served>>

\* The server loads the certificate.
Present ==
    /\ current # Nothing
    /\ served' = current
    /\ UNCHANGED <<key, current>>

\* The process ends.
Stop ==
    /\ served' = Nothing
    /\ UNCHANGED <<key, current>>

Next == Generate \/ Obtain \/ Present \/ Stop

Spec == Init /\ [][Next]_identity
=============================================================================
