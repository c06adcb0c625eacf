---------------------------- MODULE ApiProcesses ----------------------------
(***************************************************************************)
(* The processes that serve the API.  The image starts two of them         *)
(* (docker/Dockerfile.api, --workers 2) and a deployment may run several   *)
(* such containers; whichever is free takes a connection.  What a module of *)
(* the backend keeps in a global variable, each of them has for itself.    *)
(***************************************************************************)
EXTENDS FiniteSets

CONSTANT Processes

ASSUME SomeProcesses == IsFiniteSet(Processes) /\ Processes # {}
=============================================================================
