--------------------------- MODULE MCPathLifecycle ---------------------------
(* A path of a client or of a server.                                      *)
EXTENDS PathLifecycle

CONSTANT r1

MCClient    == {"client"}
MCRoles     == {"client", "server"}
MCOneReader == {r1}
=============================================================================
