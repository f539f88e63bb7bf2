----------------------------- MODULE MCReaders ------------------------------
(* The readers of foreign files that share no state, side by side: world    *)
(* says which of them a behaviour is about.                                 *)
EXTENDS TailReader, QoderSession, OpenCodeScan, OpenCodeRows
VARIABLE world

readerVars == <<tailVars, qoderVars, scanVars, rowsVars, world>>

ReadersInit ==
  /\ RolloutInit /\ QoderInit /\ ScanInit /\ RowsInit
  /\ world \in {"rollout", "qoder", "scan", "rows"}

ReadersNext ==
  /\ UNCHANGED world
  /\ \/ world = "rollout" /\ RolloutNext /\ UNCHANGED <<qoderVars, scanVars, rowsVars>>
     \/ world = "qoder"   /\ QoderNext   /\ UNCHANGED <<tailVars, scanVars, rowsVars>>
     \/ world = "scan"    /\ ScanNext    /\ UNCHANGED <<tailVars, qoderVars, rowsVars>>
     \/ world = "rows"    /\ RowsNext    /\ UNCHANGED <<tailVars, qoderVars, scanVars>>

ReadersFairness ==
  /\ WF_tailVars(world = "rollout" /\ StatRollout)
  /\ WF_tailVars(world = "rollout" /\ ReadRollout)
  /\ WF_qoderVars(world = "qoder" /\ ReadSegment)
  /\ WF_qoderVars(world = "qoder" /\ RecordCompleted)

ReadersSpec == ReadersInit /\ [][ReadersNext]_readerVars /\ ReadersFairness

\* What was appended is read in the end, once the program writes no more.
ReadersCatchUp ==
  /\ world = "rollout" => ReaderCatchesUp
  /\ world = "qoder" => SegmentGetsRead
=============================================================================
