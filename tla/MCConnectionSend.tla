-------------------------- MODULE MCConnectionSend --------------------------
(* Three streams, one of which carries a frame of three units, so that two   *)
(* packages can wait in the queue while the first is being written in parts. *)
EXTENDS ConnectionSend, TLC

CONSTANTS a, b, c

MCPackages == {a, b, c}

MCFrameLength == a :> 3 @@ b :> 2 @@ c :> 2
=============================================================================
