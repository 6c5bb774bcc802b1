---------------------------- MODULE MCRetrieval ----------------------------
(***************************************************************************)
(* Instances of Retrieval for TLC.                                         *)
(***************************************************************************)
EXTENDS Retrieval

Archive(id) == [archive_id |-> id, vault |-> "configured"]

(* What ArchiveTask commits when no upload fails, and when one does.       *)
GoodCatalog  == {{Archive(1), Archive(2)}}
MixedCatalog == {{Archive(1), Archive(2)}, {Archive(0), Archive(1)}}

AllFaults == RFaultKinds
CutFault  == {"cut"}
=============================================================================
