------------------------------ MODULE MCClient ------------------------------
(* Instances of the client; the configurations choose the encryption and the *)
(* number of attempts.                                                       *)
EXTENDS Client
=============================================================================
