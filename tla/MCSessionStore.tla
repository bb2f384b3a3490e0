--------------------------- MODULE MCSessionStore ---------------------------
(* An instance of SessionStore for TLC.                                    *)
EXTENDS SessionStore
=============================================================================
