----------------------------- MODULE MCLifecycle -----------------------------
(* Small instances of Lifecycle: what users ask for and which requests they   *)
(* make.  Two workers stand for the server and a CLI command with --wait.     *)
EXTENDS Lifecycle, TLC

Built    == [built |-> TRUE, sshPort |-> AnyPort]
Prebuilt == [built |-> FALSE, sshPort |-> AnyPort]
Pinned   == [built |-> FALSE, sshPort |-> 1]

OneOfEach == {Built, Prebuilt, Pinned}
AutoPort  == {Built, Prebuilt}

StopResumeDelete == {"cancel", "resume", "delete"}
StopDeleteRemove == {"cancel", "delete", "remove"}
DeleteOnly       == {"delete"}

\* Workspaces are interchangeable, and so are the worker loops.
Symmetry == Permutations(Workspaces) \cup Permutations(Workers)
=============================================================================
