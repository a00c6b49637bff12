------------------------ MODULE MCClientConnections ------------------------
(* ClientConnections for TLC: its endpoints are interchangeable. *)
EXTENDS ClientConnections, TLC

EndpointSymmetry == Permutations(Endpoints)

=============================================================================
