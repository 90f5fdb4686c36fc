------------------------- MODULE MCConnectionReceive -------------------------
(* Three packages: a body read in parts, an empty body, and two packages with *)
(* the same uid, which is also the uid of the first stream of this side.      *)
EXTENDS ConnectionReceive, TLC

CONSTANTS a, b, c

MCPackages == {a, b, c}

MCBodyLength == a :> 2 @@ b :> 1 @@ c :> 0

MCUid == a :> 0 @@ b :> 0 @@ c :> 1
=============================================================================
