------------------------------ MODULE MCSocket ------------------------------
(***************************************************************************)
(* Three daemons contend for the user's path, so that a third meets what   *)
(* two have left of it.  Nobody has the system's path, which a client tries *)
(* when the user's does not answer.                                        *)
(***************************************************************************)
EXTENDS Socket

CONSTANTS d1, d2, d3, user, system

MCProcs == {d1, d2, d3}
MCPaths == {user, system}
MCPathOf == [p \in MCProcs |-> user]
MCSearch == <<user, system>>
=============================================================================
