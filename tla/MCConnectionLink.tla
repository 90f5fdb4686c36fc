-------------------------- MODULE MCConnectionLink --------------------------
(* Two streams, so that the second package is queued or overlaps the write of *)
(* the first, one of them with a body that is read in two parts.              *)
EXTENDS ConnectionLink, TLC

CONSTANTS a, b

MCPackages == {a, b}

MCBodyLength == a :> 2 @@ b :> 1

MCUid == a :> 0 @@ b :> 1
=============================================================================
