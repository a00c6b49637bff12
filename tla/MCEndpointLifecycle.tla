------------------------ MODULE MCEndpointLifecycle ------------------------
(* EndpointLifecycle for TLC: its endpoints are interchangeable. *)
EXTENDS EndpointLifecycle, TLC

EndpointSymmetry == Permutations(Endpoints)

=============================================================================
