--------------------------- MODULE MCArchiveTask ---------------------------
(***************************************************************************)
(* Instances of ArchiveTask for TLC.  Sizes are 0 and 1 byte: the cut at   *)
(* ARCHIVEMB is checked by MCCrawler's runs, here NumFiles cuts batches.   *)
(***************************************************************************)
EXTENDS ArchiveTask, TLC

CONSTANTS f1, f2, f3, w1, w2

TwoFiles   == {f1, f2}
ThreeFiles == {f1, f2, f3}
SmallSizes == {0, 1}
OneByte    == {1}
TwoWorkers == {w1, w2}
NoLinks    == {}
AgesSame   == [f \in Files |-> 1]

EndFaults    == {"change", "upload", "database", "kill"}
HardFaults   == FaultKinds \ {"change"}

(* Files and workers are interchangeable: no link, the same age.           *)
Symmetry == Permutations(Workers) \cup Permutations(Files)
=============================================================================
