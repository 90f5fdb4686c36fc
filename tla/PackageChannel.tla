--------------------------- MODULE PackageChannel ---------------------------
(***************************************************************************)
(* What one direction of a connection promises its users: the packages     *)
(* accepted from the output streams come out on the other side in the      *)
(* order in which they were accepted, none twice and none skipped, until   *)
(* the direction breaks.  After that nothing more comes out.               *)
(* ConnectionSend and ConnectionLink are shown to implement this module.   *)
(***************************************************************************)
EXTENDS Naturals, Sequences

CONSTANT Packages           \* the packages that may be handed over

VARIABLES accepted,         \* packages in the order they were accepted
          transmitted,      \* packages that came out completely
          broken            \* TRUE once the direction has failed or was closed

vars == <<accepted, transmitted, broken>>

Init == accepted = <<>> /\ transmitted = <<>> /\ broken = FALSE

\* A package is accepted once.  A broken channel still accepts packages.
Accept(p) ==
    /\ \A i \in 1 .. Len(accepted) : accepted[i] # p
    /\ accepted' = Append(accepted, p)
    /\ UNCHANGED <<transmitted, broken>>

\* The oldest package that has not come out does.  It may be the last one a
\* failing channel still lets out.
Transmit ==
    /\ ~ broken
    /\ Len(transmitted) < Len(accepted)
    /\ transmitted' = Append(transmitted, accepted[Len(transmitted) + 1])
    /\ broken' \in BOOLEAN
    /\ UNCHANGED accepted

Break ==
    /\ ~ broken
    /\ broken' = TRUE
    /\ UNCHANGED <<accepted, transmitted>>

Next == Transmit \/ Break \/ \E p \in Packages : Accept(p)

Spec == Init /\ [][Next]_vars

\* A channel that is not broken keeps transmitting.
FairSpec == Spec /\ WF_vars(Transmit)
=============================================================================
