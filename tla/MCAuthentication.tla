-------------------------- MODULE MCAuthentication --------------------------
(***************************************************************************)
(* Small instances of AuthenticationController for TLC.                    *)
(***************************************************************************)
EXTENDS AuthenticationController
=============================================================================
