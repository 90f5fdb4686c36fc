------------------------------ MODULE MCServer ------------------------------
(* Instances of the server; the configurations choose the thread policies.   *)
EXTENDS Server

\* The default policy, or the caller of start runs the service.
MCPolicies == {OnePerConnection, Fixed(0)}

MCPerConnection == {OnePerConnection}
MCFixedCount == {Fixed(1)}
=============================================================================
