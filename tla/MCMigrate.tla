----------------------------- MODULE MCMigrate -----------------------------
(* A server, two commands and a server that does not migrate on a new        *)
(* database, with the repository's files.                                    *)
EXTENDS Migrate

CONSTANTS server, up, cli, bare
MCProcesses == {server, up, cli, bare}
MCMigrating == {server, up, cli}
MCServers == {server}
MCIdempotent == {1}
=============================================================================
