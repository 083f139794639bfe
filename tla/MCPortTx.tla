------------------------------ MODULE MCPortTx ------------------------------
(* The server and a CLI command, two workspaces and a range of two ports:     *)
(* calls for one workspace and for two overlap, prefer a port or not, lose    *)
(* against each other and run out of ports.                                   *)
EXTENDS PortTx
=============================================================================
