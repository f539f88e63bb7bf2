--------------------------- MODULE MCSnapshotPush ---------------------------
(* A small instance of SnapshotPush; its constants need no definitions.    *)
EXTENDS SnapshotPush
=============================================================================
