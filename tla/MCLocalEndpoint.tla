-------------------------- MODULE MCLocalEndpoint --------------------------
(* LocalEndpoint for TLC: its endpoints are interchangeable. *)
EXTENDS LocalEndpoint, TLC

EndpointSymmetry == Permutations(Endpoints)

=============================================================================
