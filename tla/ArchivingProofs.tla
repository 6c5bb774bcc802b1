--------------------------- MODULE ArchivingProofs ---------------------------
(***************************************************************************)
(* What holds of the crawl for every tree, NUMFILES and ARCHIVEMB, and of  *)
(* the archiving tasks for every number of workers and every combination   *)
(* of failures.                                                            *)
(*                                                                         *)
(* CrawlInv is proved for a step of the crawl by itself, so that the tasks *)
(* that step with it can use it.  TaskInv says what each stage of a task   *)
(* has made true (Hand), what the vault and the catalog hold (InVault,     *)
(* InCatalog), and that every task has one owner at a time, the worker,    *)
(* the vault or the catalog, which is why nothing is archived twice        *)
(* (OneOwner).                                                             *)
(*                                                                         *)
(* Then what holds of the retrieval command and the daemon for every       *)
(* catalog, every number of jobs and every combination of failures.  RInv  *)
(* follows one job through its two owners: Glacier's job is about the      *)
(* archive of the row that names it (RowsMatch, Asked), and what the       *)
(* daemon's open transaction has saved is what its position in the loop    *)
(* says (Transaction), so that a commit writes ready and downloaded        *)
(* together and a file before both.                                        *)
(***************************************************************************)
EXTENDS ArchiveTask, Retrieval, SumTheorems
-----------------------------------------------------------------------------
(* The crawl.                                                              *)

(* The batch being filled is within NUMFILES, and empty only while it also *)
(* weighs nothing, so that addFile never closes an empty batch.            *)
FillingOK ==
  /\ Len(jobarray) <= NumFiles
  /\ jobarray = <<>> => arraysize = 0

(* No file is in two places of sent, or of jobarray.                       *)
SentOnce ==
  \A i, j \in DOMAIN sent : \A k \in DOMAIN sent[i], l \in DOMAIN sent[j] :
    sent[i][k] = sent[j][l] => i = j /\ k = l

HeldOnce ==
  \A k, l \in DOMAIN jobarray : jobarray[k] = jobarray[l] => k = l

(* The walk yields each file once: what is still to come is in no batch,   *)
(* and until the walk ends jobarray shares nothing with sent.              *)
Apart ==
  /\ \A i \in DOMAIN sent : \A k \in DOMAIN sent[i] : sent[i][k] \notin todo
  /\ \A l \in DOMAIN jobarray : jobarray[l] \notin todo
  /\ cpc = "walking" =>
       \A i \in DOMAIN sent : \A k \in DOMAIN sent[i], l \in DOMAIN jobarray :
         sent[i][k] # jobarray[l]

CrawlInv ==
  CrawlTypeOK /\ BatchesWithinCount /\ FillingOK /\ SentOnce /\ HeldOnce /\ Apart
-----------------------------------------------------------------------------
LEMMA CrawlInvInit == CrawlerAssumption /\ CrawlerInit => CrawlInv
  BY SMT DEF CrawlerAssumption, CrawlerInit, CrawlInit, CrawlInv, CrawlTypeOK, Job,
     BatchesWithinCount, FillingOK, SentOnce, HeldOnce, Apart

(* Megabytes rounds down: nothing is no megabyte.                          *)
LEMMA NoBytesNoMegabytes == Megabytes(0) = 0
  BY SMT DEF Megabytes

(* A file size that can be added is a natural number.                      *)
LEMMA VisitedSize ==
  ASSUME CrawlerAssumption, CrawlTypeOK, NEW f \in Files, Visit(f)
  PROVE  size[f] \in Nat
  BY DEF CrawlerAssumption, CrawlTypeOK, Job, Visit

LEMMA AddToBatchInv ==
  ASSUME CrawlerAssumption, CrawlInv, NEW f \in Files, AddToBatch(f), UNCHANGED size
  PROVE  CrawlInv'
PROOF
  <1>1. size[f] \in Nat
    BY VisitedSize DEF CrawlInv, AddToBatch
  <1>2. /\ f \in todo /\ cpc = "walking"
        /\ jobarray' = Append(jobarray, f) /\ jobarray \in Seq(Files)
        /\ todo' = todo \ {f} /\ sent' = sent /\ cpc' = cpc
    BY DEF AddToBatch, Visit, CrawlInv, CrawlTypeOK, Job
  <1>3. CrawlTypeOK'
    BY <1>1, <1>2, SMT DEF CrawlInv, CrawlTypeOK, Job, AddToBatch
  <1>4. BatchesWithinCount' /\ SentOnce'
    BY <1>2 DEF CrawlInv, BatchesWithinCount, SentOnce
  <1>5. FillingOK'
    BY <1>2, SMT DEF CrawlInv, FillingOK, AddToBatch, HasRoom, CrawlerAssumption
  <1>6. HeldOnce'
    BY <1>2, SMT DEF CrawlInv, HeldOnce, Apart
  <1>7. Apart'
    BY <1>2, SMT DEF CrawlInv, Apart
  <1> QED
    BY <1>3, <1>4, <1>5, <1>6, <1>7 DEF CrawlInv

(* A batch is closed by appending jobarray to sent.                        *)
LEMMA SendInv ==
  ASSUME CrawlerAssumption, CrawlInv, cpc = "walking", jobarray # <<>>,
         sent' = Append(sent, jobarray)
  PROVE  BatchesWithinCount' /\ SentOnce' /\ sent' \in Seq(Job)
PROOF
  <1>1. jobarray \in Job /\ sent \in Seq(Job) /\ NumFiles \in Nat
    BY DEF CrawlInv, CrawlTypeOK, CrawlerAssumption
  <1>2. Len(jobarray) \in 1..NumFiles
    BY <1>1, SMT DEF CrawlInv, FillingOK, Job
  <1>3. /\ sent' \in Seq(Job) /\ DOMAIN sent' = 1..(Len(sent) + 1)
        /\ sent'[Len(sent) + 1] = jobarray
        /\ \A i \in DOMAIN sent : sent'[i] = sent[i]
        /\ DOMAIN sent = 1..Len(sent)
    BY <1>1, SMT
  <1>4. BatchesWithinCount'
    <2> SUFFICES ASSUME NEW i \in 1..(Len(sent) + 1)
                 PROVE  Len(sent'[i]) \in 1..NumFiles
      BY <1>3, Zenon DEF BatchesWithinCount
    <2>1. CASE i \in DOMAIN sent
      BY <2>1, <1>3 DEF CrawlInv, BatchesWithinCount
    <2>2. CASE i = Len(sent) + 1
      BY <2>2, <1>2, <1>3
    <2> QED
      BY <1>1, <1>3, <2>1, <2>2
  <1>5. SentOnce'
    BY <1>1, <1>3, SMT DEF CrawlInv, SentOnce, HeldOnce, Apart
  <1> QED
    BY <1>3, <1>4, <1>5

LEMMA StartNextBatchInv ==
  ASSUME CrawlerAssumption, CrawlInv, NEW f \in Files, StartNextBatch(f), UNCHANGED size
  PROVE  CrawlInv'
PROOF
  <1>1. size[f] \in Nat
    BY VisitedSize DEF CrawlInv, StartNextBatch
  <1>2. /\ f \in todo /\ cpc = "walking" /\ cpc' = cpc
        /\ jobarray' = <<f>> /\ jobarray \in Seq(Files)
        /\ todo' = todo \ {f} /\ sent' = Append(sent, jobarray)
        /\ sent \in Seq(Job)
    BY DEF StartNextBatch, Visit, CrawlInv, CrawlTypeOK, Job
  <1>3. jobarray # <<>>
    BY NoBytesNoMegabytes, SMT
    DEF CrawlInv, FillingOK, StartNextBatch, HasRoom, CrawlerAssumption
  <1>4. BatchesWithinCount' /\ SentOnce' /\ sent' \in Seq(Job)
    BY <1>2, <1>3, SendInv
  <1>5. CrawlTypeOK'
    BY <1>1, <1>2, <1>4, SMT DEF CrawlInv, CrawlTypeOK, Job, StartNextBatch
  <1>6. FillingOK' /\ HeldOnce'
    BY <1>2, SMT DEF FillingOK, HeldOnce, CrawlerAssumption
  <1>7. Apart'
    BY <1>2, SMT DEF CrawlInv, Apart
  <1> QED
    BY <1>4, <1>5, <1>6, <1>7 DEF CrawlInv

LEMMA FinishWalkInv ==
  ASSUME CrawlerAssumption, CrawlInv, FinishWalk, UNCHANGED size
  PROVE  CrawlInv'
PROOF
  <1>1. /\ cpc = "walking" /\ cpc' = "walked" /\ todo = {}
        /\ UNCHANGED <<todo, jobarray, arraysize>>
    BY DEF FinishWalk
  <1>2. BatchesWithinCount' /\ SentOnce' /\ sent' \in Seq(Job)
    <2>1. CASE jobarray = <<>>
      BY <2>1 DEF FinishWalk, CrawlInv, CrawlTypeOK, Job, BatchesWithinCount, SentOnce
    <2>2. CASE jobarray # <<>>
      BY <1>1, <2>2, SendInv DEF FinishWalk
    <2> QED
      BY <2>1, <2>2
  <1>3. CrawlTypeOK'
    BY <1>2, SMT DEF CrawlInv, CrawlTypeOK, Job, FinishWalk
  <1>4. FillingOK' /\ HeldOnce' /\ Apart'
    BY <1>1 DEF CrawlInv, FillingOK, HeldOnce, Apart
  <1> QED
    BY <1>2, <1>3, <1>4 DEF CrawlInv

(* The remaining steps move neither files nor batches.                     *)
LEMMA QuietStepInv ==
  ASSUME CrawlInv, UNCHANGED size,
         (\E f \in Files : SkipFile(f)) \/ RecordTotal \/ CrawlFails
  PROVE  CrawlInv'
PROOF
  <1>1. /\ todo' \subseteq todo /\ UNCHANGED <<jobarray, arraysize, sent, totaljobsize>>
        /\ cpc' = "walking" => cpc = "walking"
        /\ cpc' \in {"walking", "walked", "done", "failed"}
        /\ totalbytes' \in Nat
    BY DEF SkipFile, RecordTotal, CrawlFails, CrawlInv, CrawlTypeOK, Job
  <1>2. CrawlTypeOK'
    BY <1>1 DEF CrawlInv, CrawlTypeOK, Job
  <1> QED
    BY <1>1, <1>2 DEF CrawlInv, BatchesWithinCount, FillingOK, SentOnce, HeldOnce, Apart

LEMMA CrawlStepInv ==
  ASSUME CrawlerAssumption, CrawlInv, CrawlStep, UNCHANGED size
  PROVE  CrawlInv'
  BY AddToBatchInv, StartNextBatchInv, FinishWalkInv, QuietStepInv DEF CrawlStep

(* Files may change and vanish while the crawl stands still.               *)
LEMMA CrawlStutterInv ==
  ASSUME CrawlInv, UNCHANGED crawlVars, size' \in [Files -> Sizes \cup {Gone}]
  PROVE  CrawlInv'
  BY DEF CrawlInv, CrawlTypeOK, Job, BatchesWithinCount, FillingOK, SentOnce, HeldOnce,
     Apart, crawlVars
-----------------------------------------------------------------------------
(* addFile, for every tree, NUMFILES and ARCHIVEMB: no batch is longer     *)
(* than NUMFILES, the batch is as long as it is counted, and no file is in *)
(* two places.                                                             *)
THEOREM CrawlInvariant == CrawlerSpec => []CrawlInv
PROOF
  <1>1. CrawlerInit => CrawlInv
    BY CrawlInvInit, CrawlerAssumption
  <1>2. CrawlInv /\ [CrawlerNext]_crawlerVars => CrawlInv'
    <2>1. ASSUME CrawlInv, CrawlerNext PROVE CrawlInv'
      BY <2>1, CrawlerAssumption, CrawlStepInv DEF CrawlerNext
    <2>2. ASSUME CrawlInv, UNCHANGED crawlerVars PROVE CrawlInv'
      BY <2>2, CrawlStutterInv DEF crawlerVars, CrawlInv, CrawlTypeOK, Job
    <2> QED
      BY <2>1, <2>2
  <1> QED
    BY <1>1, <1>2, PTL DEF CrawlerSpec

(* The crawl's state keeps its types for every tree and every setting.     *)
THEOREM CrawlTypes == CrawlerSpec => []CrawlTypeOK
  BY CrawlInvariant, PTL DEF CrawlInv

(* For every NUMFILES: no batch is empty, none has more than NUMFILES files.*)
THEOREM CrawlCounts == CrawlerSpec => []BatchesWithinCount
  BY CrawlInvariant, PTL DEF CrawlInv
-----------------------------------------------------------------------------
(* Nothing is lost, nothing else is taken.  This half needs a tree that    *)
(* nothing touches, so it is proved for CrawlerNext only.                  *)
InSent(f) == \E i \in DOMAIN sent : \E k \in DOMAIN sent[i] : sent[i][k] = f
InHeld(f) == cpc = "walking" /\ \E l \in DOMAIN jobarray : jobarray[l] = f
Due(f)    == f \in Archivable \ todo /\ size[f] # Gone

OnlyDue == \A f \in Files : InSent(f) \/ InHeld(f) => Due(f)
AllDue  == cpc # "failed" => \A f \in Files : Due(f) => InSent(f) \/ InHeld(f)

WalkInv == CrawlInv /\ OnlyDue /\ AllDue

(* A file is in the batches of sent' = Append(sent, job) if it was in sent *)
(* or is in job.                                                           *)
LEMMA InSentAppend ==
  ASSUME NEW f, sent \in Seq(Job), NEW job \in Job, sent' = Append(sent, job)
  PROVE  InSent(f)' <=> InSent(f) \/ \E k \in DOMAIN job : job[k] = f
PROOF
  <1>1. /\ DOMAIN sent' = 1..(Len(sent) + 1) /\ DOMAIN sent = 1..Len(sent)
        /\ Len(sent) \in Nat
        /\ sent'[Len(sent) + 1] = job
        /\ \A i \in DOMAIN sent : sent'[i] = sent[i]
    BY SMT
  <1>2. DOMAIN sent' = DOMAIN sent \cup {Len(sent) + 1}
    BY <1>1, SMT
  <1> QED
    BY <1>1, <1>2, ZenonT(40) DEF InSent

LEMMA AddToBatchWalk ==
  ASSUME CrawlerAssumption, WalkInv, NEW f \in Files, AddToBatch(f), UNCHANGED size
  PROVE  OnlyDue' /\ AllDue'
PROOF
  <1>1. /\ cpc = "walking" /\ cpc' = cpc /\ sent' = sent /\ todo' = todo \ {f}
        /\ jobarray' = Append(jobarray, f) /\ jobarray \in Seq(Files)
        /\ f \in Archivable /\ size[f] # Gone
    BY DEF AddToBatch, Visit, WalkInv, CrawlInv, CrawlTypeOK, Job, Archivable
  <1>2. \A g \in Files : InHeld(g)' <=> InHeld(g) \/ g = f
    BY <1>1, SMTT(30) DEF InHeld
  <1>3. \A g \in Files : InSent(g)' <=> InSent(g)
    BY <1>1 DEF InSent
  <1>4. \A g \in Files : Due(g)' <=> Due(g) \/ g = f
    BY <1>1 DEF Due, Archivable, Selected
  <1> QED
    BY <1>1, <1>2, <1>3, <1>4 DEF WalkInv, OnlyDue, AllDue

LEMMA StartNextBatchWalk ==
  ASSUME CrawlerAssumption, WalkInv, NEW f \in Files, StartNextBatch(f), UNCHANGED size
  PROVE  OnlyDue' /\ AllDue'
PROOF
  <1>1. /\ cpc = "walking" /\ cpc' = cpc /\ todo' = todo \ {f}
        /\ sent' = Append(sent, jobarray) /\ sent \in Seq(Job)
        /\ jobarray' = <<f>> /\ jobarray \in Job
        /\ f \in Archivable /\ size[f] # Gone
    BY DEF StartNextBatch, Visit, WalkInv, CrawlInv, CrawlTypeOK, Archivable
  <1>2. \A g \in Files : InHeld(g)' <=> g = f
    BY <1>1, SMT DEF InHeld
  <1>3. \A g \in Files : InSent(g)' <=> InSent(g) \/ InHeld(g)
    BY <1>1, InSentAppend DEF InHeld
  <1>4. \A g \in Files : Due(g)' <=> Due(g) \/ g = f
    BY <1>1 DEF Due, Archivable, Selected
  <1> QED
    BY <1>1, <1>2, <1>3, <1>4 DEF WalkInv, OnlyDue, AllDue

LEMMA FinishWalkWalk ==
  ASSUME CrawlerAssumption, WalkInv, FinishWalk, UNCHANGED size
  PROVE  OnlyDue' /\ AllDue'
PROOF
  <1>1. /\ cpc = "walking" /\ cpc' = "walked" /\ UNCHANGED todo
        /\ sent \in Seq(Job) /\ jobarray \in Job
    BY DEF FinishWalk, WalkInv, CrawlInv, CrawlTypeOK
  <1>2. \A g \in Files : ~InHeld(g)'
    BY <1>1 DEF InHeld
  <1>3. \A g \in Files : InSent(g)' <=> InSent(g) \/ InHeld(g)
    <2>1. CASE jobarray = <<>>
      BY <1>1, <2>1 DEF FinishWalk, InSent, InHeld
    <2>2. CASE jobarray # <<>>
      BY <1>1, <2>2, InSentAppend DEF FinishWalk, InHeld
    <2> QED
      BY <2>1, <2>2
  <1>4. \A g \in Files : Due(g)' <=> Due(g)
    BY <1>1 DEF Due, Archivable, Selected
  <1> QED
    BY <1>1, <1>2, <1>3, <1>4 DEF WalkInv, OnlyDue, AllDue

LEMMA SkipFileWalk ==
  ASSUME WalkInv, NEW f \in Files, SkipFile(f), UNCHANGED size
  PROVE  OnlyDue' /\ AllDue'
PROOF
  <1>1. /\ cpc' = cpc /\ sent' = sent /\ jobarray' = jobarray /\ todo' = todo \ {f}
        /\ f \notin Archivable \/ size[f] = Gone
    BY DEF SkipFile, Archivable
  <1>2. \A g \in Files : Due(g)' <=> Due(g)
    BY <1>1 DEF Due, Archivable, Selected
  <1> QED
    BY <1>1, <1>2 DEF WalkInv, OnlyDue, AllDue, InSent, InHeld

LEMMA EndWalk ==
  ASSUME WalkInv, RecordTotal \/ CrawlFails, UNCHANGED size
  PROVE  OnlyDue' /\ AllDue'
PROOF
  <1>1. /\ sent' = sent /\ jobarray' = jobarray /\ todo' = todo
        /\ \/ cpc = "walked" /\ cpc' = "done"
           \/ cpc' = "failed"
    BY DEF RecordTotal, CrawlFails
  <1>2. \A g \in Files : Due(g)' <=> Due(g)
    BY <1>1 DEF Due, Archivable, Selected
  <1>3. \A g \in Files : (InSent(g)' <=> InSent(g)) /\ ~InHeld(g)'
    BY <1>1 DEF InSent, InHeld
  <1>4. cpc = "walked" => \A g \in Files : ~InHeld(g)
    BY DEF InHeld
  <1> QED
    BY <1>1, <1>2, <1>3, <1>4 DEF WalkInv, OnlyDue, AllDue

LEMMA WalkInvInit == CrawlerInit => OnlyDue /\ AllDue
  BY DEF CrawlerInit, CrawlInit, OnlyDue, AllDue, Due, InSent, InHeld, Archivable

LEMMA WalkInvHolds == CrawlerSpec => []WalkInv
PROOF
  <1>1. CrawlerInit => WalkInv
    BY CrawlInvInit, WalkInvInit, CrawlerAssumption DEF WalkInv
  <1>2. ASSUME WalkInv, [CrawlerNext]_crawlerVars PROVE WalkInv'
    <2>1. ASSUME CrawlerNext PROVE WalkInv'
      <3>1. CrawlInv'
        BY <1>2, <2>1, CrawlStepInv, CrawlerAssumption DEF WalkInv, CrawlerNext
      <3>2. OnlyDue' /\ AllDue'
        BY <1>2, <2>1, CrawlerAssumption, AddToBatchWalk, StartNextBatchWalk,
           FinishWalkWalk, SkipFileWalk, EndWalk DEF CrawlerNext, CrawlStep
      <3> QED
        BY <3>1, <3>2 DEF WalkInv
    <2>2. ASSUME UNCHANGED crawlerVars PROVE WalkInv'
      <3>1. CrawlInv'
        BY <1>2, <2>2, CrawlStutterInv DEF WalkInv, crawlerVars, CrawlInv, CrawlTypeOK
      <3>2. OnlyDue' /\ AllDue'
        BY <1>2, <2>2 DEF crawlerVars, crawlVars, WalkInv, OnlyDue, AllDue, Due,
           InSent, InHeld, Archivable, Selected
      <3> QED
        BY <3>1, <3>2 DEF WalkInv
    <2> QED
      BY <1>2, <2>1, <2>2
  <1> QED
    BY <1>1, <1>2, PTL DEF CrawlerSpec

LEMMA WalkInvMeaning == WalkInv => EveryFileInOneBatch
PROOF
  <1> SUFFICES ASSUME WalkInv PROVE EveryFileInOneBatch
    OBVIOUS
  <1>1. /\ Sent = {f \in Files : InSent(f)}
        /\ Held = {f \in Files : InHeld(f)}
    <2>1. /\ \A i \in DOMAIN sent : \A k \in DOMAIN sent[i] : sent[i][k] \in Files
          /\ \A l \in DOMAIN jobarray : jobarray[l] \in Files
      BY SMT DEF WalkInv, CrawlInv, CrawlTypeOK, Job
    <2> QED
      BY <2>1 DEF Sent, Held, Range, InSent, InHeld
  <1>2. Sent \cap Held = {}
    BY <1>1 DEF WalkInv, CrawlInv, Apart, InSent, InHeld
  <1>3. cpc # "failed" => Sent \cup Held = {f \in Archivable \ todo : size[f] # Gone}
    BY <1>1 DEF WalkInv, OnlyDue, AllDue, Due, Archivable
  <1> QED
    BY <1>2, <1>3 DEF EveryFileInOneBatch, NoFileTwice, WalkInv, CrawlInv, SentOnce

(* For every tree and setting, the walk puts each selected file into       *)
(* exactly one batch: addFile's aliasing and resets lose and repeat none.  *)
THEOREM CrawlLosesNothing == CrawlerSpec => []EveryFileInOneBatch
  BY WalkInvHolds, WalkInvMeaning, PTL
-----------------------------------------------------------------------------
(* Bytes.  A batch is light if it was below ARCHIVEMB before its last file *)
(* came, and full if it has reached a limit.  Like WalkInv this is about a *)
(* tree that nothing touches: arraysize is what the files weighed when     *)
(* they were added.                                                        *)
Light(q) == q # <<>> => Megabytes(Bytes(Range(q) \ {q[Len(q)]})) < ArchiveMB
Full(q) == Len(q) = NumFiles \/ Megabytes(Bytes(Range(q))) >= ArchiveMB

WeightInv ==
  /\ size \in [Files -> Sizes] /\ IsFiniteSet(Sent)
  /\ \A i \in DOMAIN sent : Light(sent[i]) /\ (i < Len(sent) => Full(sent[i]))
  /\ cpc = "walking" =>
       /\ Light(jobarray) /\ arraysize = Bytes(Range(jobarray))
       /\ \A i \in DOMAIN sent : Full(sent[i])
  /\ cpc # "failed" => totaljobsize = Bytes(Sent)
  /\ cpc = "done" => totalbytes = totaljobsize

LEMMA BytesAre ==
  ASSUME CrawlerAssumption, size \in [Files -> Sizes],
         NEW S \in SUBSET Files, IsFiniteSet(S)
  PROVE  /\ Bytes(S) \in Nat
         /\ S = {} => Bytes(S) = 0
         /\ \A f \in Files \ S : Bytes(S \cup {f}) = Bytes(S) + size[f]
         /\ \A T \in SUBSET Files :
              IsFiniteSet(T) /\ S \cap T = {} => Bytes(S \cup T) = Bytes(S) + Bytes(T)
PROOF
  <1>1. \A T : Bytes(T) = Total(size, T)
    BY SumOnSetIsTotal DEF Bytes
  <1>2. \A f \in Files : size[f] \in Nat
    BY DEF CrawlerAssumption
  <1>3. Total(size, S) \in Nat
    BY <1>2, TotalType
  <1>4. S = {} => Total(size, S) = 0
    BY TotalStep
  <1>5. \A f \in Files \ S : Total(size, S \cup {f}) = Total(size, S) + size[f]
    BY <1>2, TotalWith
  <1>6. ASSUME NEW T \in SUBSET Files, IsFiniteSet(T), S \cap T = {}
        PROVE  Total(size, S \cup T) = Total(size, S) + Total(size, T)
    BY <1>2, <1>6, TotalUnion
  <1> QED
    BY <1>1, <1>3, <1>4, <1>5, <1>6

LEMMA RangeOfSeq ==
  ASSUME NEW q \in Seq(Files)
  PROVE  /\ Range(q) \in SUBSET Files /\ IsFiniteSet(Range(q))
         /\ \A f \in Files : Range(Append(q, f)) = Range(q) \cup {f}
PROOF
  <1>1. DOMAIN q = 1..Len(q) /\ Len(q) \in Nat /\ \A k \in 1..Len(q) : q[k] \in Files
    OBVIOUS
  <1>2. q \in Surjection(1..Len(q), Range(q))
    BY <1>1 DEF Surjection, Range
  <1>3. IsFiniteSet(Range(q))
    BY <1>1, <1>2, FS_Interval, FS_Surjection
  <1>4. ASSUME NEW f \in Files PROVE Range(Append(q, f)) = Range(q) \cup {f}
    <2>1. /\ DOMAIN Append(q, f) = 1..(Len(q) + 1)
          /\ \A k \in 1..Len(q) : Append(q, f)[k] = q[k]
          /\ Append(q, f)[Len(q) + 1] = f
      BY <1>1
    <2>2. 1..(Len(q) + 1) = (1..Len(q)) \cup {Len(q) + 1}
      BY <1>1
    <2> QED
      BY <1>1, <2>1, <2>2 DEF Range
  <1> QED
    BY <1>1, <1>3, <1>4 DEF Range

LEMMA SentAppend ==
  ASSUME NEW job, sent \in Seq(Job), job \in Job, sent' = Append(sent, job)
  PROVE  /\ Sent' = Sent \cup Range(job)
         /\ Len(sent') = Len(sent) + 1 /\ Len(sent) \in Nat
         /\ DOMAIN sent' = (DOMAIN sent) \cup {Len(sent) + 1}
         /\ DOMAIN sent = 1..Len(sent)
         /\ \A i \in DOMAIN sent : sent'[i] = sent[i]
         /\ sent'[Len(sent) + 1] = job
PROOF
  <1>1. /\ Len(sent') = Len(sent) + 1 /\ Len(sent) \in Nat
        /\ DOMAIN sent' = 1..(Len(sent) + 1)
        /\ DOMAIN sent = 1..Len(sent)
        /\ \A i \in DOMAIN sent : sent'[i] = sent[i]
        /\ sent'[Len(sent) + 1] = job
    BY SMT
  <1>2. DOMAIN sent' = (DOMAIN sent) \cup {Len(sent) + 1}
    BY <1>1
  <1>3. Sent' = Sent \cup Range(job)
    BY <1>1, <1>2 DEF Sent
  <1> QED
    BY <1>1, <1>2, <1>3

(* Weights do not change while sizes do not.                               *)
LEMMA WeightsStay ==
  ASSUME UNCHANGED size
  PROVE  \A q : (Light(q)' <=> Light(q)) /\ (Full(q)' <=> Full(q))
  BY DEF Light, Full, Bytes

LEMMA AddToBatchWeight ==
  ASSUME CrawlerAssumption, CrawlInv, WeightInv, NEW f \in Files, AddToBatch(f),
         UNCHANGED size
  PROVE  WeightInv'
PROOF
  <1>1. /\ cpc = "walking" /\ cpc' = cpc /\ sent' = sent /\ f \in todo
        /\ jobarray' = Append(jobarray, f) /\ jobarray \in Seq(Files)
        /\ arraysize' = arraysize + size[f] /\ totaljobsize' = totaljobsize
    BY DEF AddToBatch, Visit, CrawlInv, CrawlTypeOK, Job
  <1>2. f \notin Range(jobarray)
    BY <1>1 DEF CrawlInv, Apart, Range
  <1>3. Range(jobarray') = Range(jobarray) \cup {f} /\ jobarray'[Len(jobarray')] = f
    BY <1>1, RangeOfSeq, SMT
  <1>4. arraysize' = Bytes(Range(jobarray'))
    BY <1>1, <1>2, <1>3, RangeOfSeq, BytesAre DEF WeightInv
  <1>5. Light(jobarray')
    <2>1. Range(jobarray') \ {f} = Range(jobarray)
      BY <1>2, <1>3
    <2>2. Megabytes(Bytes(Range(jobarray))) < ArchiveMB
      BY <1>1 DEF WeightInv, AddToBatch, HasRoom
    <2> QED
      BY <1>3, <2>1, <2>2, Zenon DEF Light
  <1>6. WeightInv!1' /\ Sent' = Sent
    BY <1>1 DEF WeightInv, Sent
  <1> QED
    BY <1>1, <1>4, <1>5, <1>6, WeightsStay DEF WeightInv, Bytes

(* The bytes of what was sent grow by those of the batch that is sent.     *)
LEMMA SendWeight ==
  ASSUME CrawlerAssumption, CrawlInv, WeightInv, cpc = "walking",
         sent' = Append(sent, jobarray)
  PROVE  /\ IsFiniteSet(Sent') /\ Sent' \in SUBSET Files
         /\ Bytes(Sent') = totaljobsize + arraysize
         /\ \A i \in DOMAIN sent' : Light(sent'[i])
         /\ \A i \in DOMAIN sent' : i < Len(sent') => Full(sent'[i])
         /\ Full(jobarray) => \A i \in DOMAIN sent' : Full(sent'[i])
PROOF
  <1>1. sent \in Seq(Job) /\ jobarray \in Seq(Files) /\ jobarray \in Job
    BY DEF CrawlInv, CrawlTypeOK, Job
  <1>2. Sent \in SUBSET Files /\ Sent \cap Range(jobarray) = {}
    <2>1. \A i \in DOMAIN sent : \A k \in DOMAIN sent[i] : sent[i][k] \in Files
      BY <1>1, SMT DEF Job
    <2> QED
      BY <2>1 DEF Sent, Range, CrawlInv, Apart
  <1>3. /\ Range(jobarray) \in SUBSET Files /\ IsFiniteSet(Range(jobarray))
        /\ IsFiniteSet(Sent)
    BY <1>1, RangeOfSeq DEF WeightInv
  <1>4. Sent' = Sent \cup Range(jobarray)
    BY <1>1, SentAppend
  <1>5. IsFiniteSet(Sent') /\ Sent' \in SUBSET Files
    BY <1>2, <1>3, <1>4, FS_Union
  <1>6. Bytes(Sent \cup Range(jobarray)) = Bytes(Sent) + Bytes(Range(jobarray))
    BY <1>2, <1>3, BytesAre DEF WeightInv
  <1>7. /\ Len(sent') = Len(sent) + 1 /\ Len(sent) \in Nat
        /\ DOMAIN sent' = (DOMAIN sent) \cup {Len(sent) + 1}
        /\ DOMAIN sent = 1..Len(sent)
        /\ \A i \in DOMAIN sent : sent'[i] = sent[i]
        /\ sent'[Len(sent) + 1] = jobarray
    BY <1>1, SentAppend
  <1>8. /\ Light(jobarray) /\ \A i \in DOMAIN sent : Light(sent[i]) /\ Full(sent[i])
        /\ arraysize = Bytes(Range(jobarray)) /\ totaljobsize = Bytes(Sent)
    BY DEF WeightInv
  <1>9. /\ \A i \in DOMAIN sent' : Light(sent'[i])
        /\ \A i \in DOMAIN sent' : i < Len(sent') => Full(sent'[i])
        /\ Full(jobarray) => \A i \in DOMAIN sent' : Full(sent'[i])
    BY <1>7, <1>8
  <1> QED
    BY <1>4, <1>5, <1>6, <1>8, <1>9

LEMMA StartNextBatchWeight ==
  ASSUME CrawlerAssumption, CrawlInv, WeightInv, NEW f \in Files, StartNextBatch(f),
         UNCHANGED size
  PROVE  WeightInv'
PROOF
  <1>1. /\ cpc = "walking" /\ cpc' = cpc /\ sent' = Append(sent, jobarray)
        /\ jobarray' = <<f>> /\ jobarray \in Seq(Files)
        /\ arraysize' = size[f] /\ totaljobsize' = totaljobsize + arraysize
        /\ size[f] \in Nat
    BY VisitedSize DEF StartNextBatch, Visit, CrawlInv, CrawlTypeOK, Job
  <1>2. Full(jobarray)
    <2>1. arraysize = Bytes(Range(jobarray))
      BY <1>1 DEF WeightInv
    <2>2. /\ Len(jobarray) <= NumFiles /\ Len(jobarray) \in Nat
          /\ NumFiles \in Nat /\ ArchiveMB \in Nat /\ Megabytes(arraysize) \in Nat
      <3>1. arraysize \in Nat
        BY DEF CrawlInv, CrawlTypeOK
      <3> QED
        BY <1>1, <3>1 DEF CrawlInv, FillingOK, CrawlerAssumption, Megabytes
    <2>3. ~(Len(jobarray) < NumFiles) \/ ~(Megabytes(arraysize) < ArchiveMB)
      BY DEF StartNextBatch, HasRoom
    <2>4. Len(jobarray) = NumFiles \/ Megabytes(arraysize) >= ArchiveMB
      BY <2>2, <2>3
    <2> QED
      BY <2>1, <2>4, Zenon DEF Full
  <1>3. Range(jobarray') = {f} /\ jobarray'[Len(jobarray')] = f
    BY <1>1 DEF Range
  <1>4. Bytes({}) = 0 /\ Bytes({f}) = size[f]
    <2>1. IsFiniteSet({}) /\ {} \in SUBSET Files
      BY FS_EmptySet
    <2>2. Bytes({}) = 0 /\ Bytes({} \cup {f}) = Bytes({}) + size[f]
      BY <2>1, BytesAre DEF WeightInv
    <2> QED
      BY <1>1, <2>2
  <1>5. Light(jobarray') /\ arraysize' = Bytes(Range(jobarray'))
    <2>1. Range(jobarray') \ {f} = {} /\ Megabytes(0) < ArchiveMB
      BY <1>3, NoBytesNoMegabytes DEF CrawlerAssumption
    <2> QED
      BY <1>1, <1>3, <1>4, <2>1, Zenon DEF Light
  <1>6. /\ IsFiniteSet(Sent') /\ totaljobsize' = Bytes(Sent')
        /\ \A i \in DOMAIN sent' : Light(sent'[i])
        /\ \A i \in DOMAIN sent' : Full(sent'[i])
    BY <1>1, <1>2, SendWeight
  <1> QED
    BY <1>1, <1>5, <1>6, WeightsStay DEF WeightInv, Bytes

LEMMA FinishWalkWeight ==
  ASSUME CrawlerAssumption, CrawlInv, WeightInv, FinishWalk, UNCHANGED size
  PROVE  WeightInv'
PROOF
  <1>1. /\ cpc = "walking" /\ cpc' = "walked"
        /\ totaljobsize' = totaljobsize + arraysize
        /\ totaljobsize \in Nat
    BY DEF FinishWalk, CrawlInv, CrawlTypeOK
  <1>2. CASE jobarray = <<>>
    <2>1. sent' = sent /\ totaljobsize' = totaljobsize
      BY <1>1, <1>2 DEF FinishWalk, CrawlInv, FillingOK
    <2> QED
      BY <1>1, <2>1, WeightsStay DEF WeightInv, Bytes, Sent
  <1>3. CASE jobarray # <<>>
    <2>1. sent' = Append(sent, jobarray)
      BY <1>3 DEF FinishWalk
    <2>2. /\ IsFiniteSet(Sent') /\ totaljobsize' = Bytes(Sent')
          /\ \A i \in DOMAIN sent' : Light(sent'[i])
          /\ \A i \in DOMAIN sent' : i < Len(sent') => Full(sent'[i])
      BY <1>1, <2>1, SendWeight
    <2> QED
      BY <1>1, <2>2, WeightsStay DEF WeightInv, Bytes
  <1> QED
    BY <1>2, <1>3

LEMMA QuietStepWeight ==
  ASSUME WeightInv, UNCHANGED size,
         (\E f \in Files : SkipFile(f)) \/ RecordTotal \/ CrawlFails \/ UNCHANGED crawlVars
  PROVE  WeightInv'
PROOF
  <1>1. /\ UNCHANGED <<jobarray, arraysize, totaljobsize, sent>>
        /\ \/ UNCHANGED <<cpc, totalbytes>>
           \/ cpc = "walked" /\ cpc' = "done" /\ totalbytes' = totaljobsize
           \/ cpc' = "failed"
    BY DEF SkipFile, RecordTotal, CrawlFails, crawlVars
  <1> QED
    BY <1>1, WeightsStay DEF WeightInv, Bytes, Sent

LEMMA WeightInvInit == CrawlerAssumption /\ CrawlerInit => WeightInv
PROOF
  <1> SUFFICES ASSUME CrawlerAssumption, CrawlerInit PROVE WeightInv
    OBVIOUS
  <1>1. /\ size \in [Files -> Sizes] /\ sent = <<>> /\ jobarray = <<>> /\ arraysize = 0
        /\ totaljobsize = 0 /\ cpc = "walking"
    BY DEF CrawlerInit, CrawlInit
  <1>2. Sent = {} /\ Range(jobarray) = {} /\ IsFiniteSet({})
    BY <1>1, FS_EmptySet DEF Sent, Range
  <1>3. Bytes({}) = 0
    BY <1>1, <1>2, BytesAre
  <1>4. DOMAIN sent = {} /\ jobarray = <<>>
    BY <1>1
  <1>5. Light(jobarray)
    BY <1>4, Zenon DEF Light
  <1> QED
    BY <1>1, <1>2, <1>3, <1>4, <1>5 DEF WeightInv

LEMMA WeightInvHolds == CrawlerSpec => []WeightInv
PROOF
  <1>1. CrawlerInit => WeightInv
    BY WeightInvInit, CrawlerAssumption
  <1>2. ASSUME CrawlInv, WeightInv, [CrawlerNext]_crawlerVars PROVE WeightInv'
    BY <1>2, CrawlerAssumption, AddToBatchWeight, StartNextBatchWeight, FinishWalkWeight,
       QuietStepWeight DEF CrawlerNext, CrawlStep, crawlerVars
  <1> QED
    BY <1>1, <1>2, CrawlInvariant, PTL DEF CrawlerSpec

(* For every ARCHIVEMB: a batch passes the limit by its last file at most, *)
(* and only the last batch of a crawl is cut before it has reached a limit.*)
THEOREM CrawlBatchSizes == CrawlerSpec => []BatchesWithinBytes
PROOF
  <1>1. CrawlInv /\ WeightInv => BatchesWithinBytes
    <2> SUFFICES ASSUME CrawlInv, WeightInv, NEW i \in DOMAIN sent
                 PROVE  /\ Megabytes(Bytes(Range(sent[i]) \ {sent[i][Len(sent[i])]})) < ArchiveMB
                        /\ i < Len(sent) => Full(sent[i])
      BY Zenon DEF BatchesWithinBytes, Full
    <2>1. sent[i] # <<>>
      BY CrawlerAssumption DEF CrawlInv, BatchesWithinCount, CrawlerAssumption
    <2> QED
      BY <2>1 DEF WeightInv, Light
  <1> QED
    BY <1>1, CrawlInvariant, WeightInvHolds, PTL

(* However the walk is cut into batches, what main() records as the total  *)
(* is the size of all that was sent.                                       *)
THEOREM CrawlTotal == CrawlerSpec => []TotalIsWhatWasSent
PROOF
  <1>1. WeightInv => TotalIsWhatWasSent
    BY DEF WeightInv, TotalIsWhatWasSent, Sent
  <1> QED
    BY <1>1, WeightInvHolds, PTL
-----------------------------------------------------------------------------
(* The archiving tasks.                                                    *)

Whole(entries, i) == Lists(entries, sent[i], Len(sent[i]))

(* What worker w has in hand.                                              *)
Hand(w) ==
  LET s == st[w]
  IN  s.pc # "idle" =>
        /\ s.task \in started
        /\ s.pc = "started" => s.rows = <<>>
        /\ s.pc \in {"tarring", "filing"} => s.pos \in 1..Len(sent[s.task])
        /\ s.pc = "tarring" =>
             /\ s.task \in DOMAIN tars /\ s.rows = <<>>
             /\ Lists(tars[s.task], sent[s.task], s.pos - 1)
        /\ s.pc = "filing" => Lists(s.rows, sent[s.task], s.pos - 1)
        /\ s.pc \in {"filing", "filed"} /\ ~opts.dry =>
             s.task \in DOMAIN tars /\ Whole(tars[s.task], s.task)
        /\ s.pc \in {"filed", "uploaded", "counted"} => Whole(s.rows, s.task)
        /\ s.pc \in {"uploaded", "counted"} /\ s.id # 0 =>
             s.id \in DOMAIN vault /\ vault[s.id].task = s.task

InVault ==
  \A a \in DOMAIN vault :
    vault[a].task \in started /\ Whole(vault[a].tar, vault[a].task)

InCatalog ==
  \A r \in archives :
    /\ r.task \in started
    /\ Whole(r.files, r.task)
    /\ r.archive_id # 0 =>
         r.archive_id \in DOMAIN vault /\ vault[r.archive_id].task = r.task

Busy(w) == st[w].pc # "idle"
Past(w) == st[w].pc \in {"uploaded", "counted"}

OneWorker  == \A v, w \in Workers : Busy(v) /\ Busy(w) /\ st[v].task = st[w].task => v = w
OneArchive == \A a, b \in DOMAIN vault : vault[a].task = vault[b].task => a = b
OneRow     == \A q, r \in archives : q.task = r.task => q = r
StoredLate == \A w \in Workers : \A a \in DOMAIN vault :
                Busy(w) /\ vault[a].task = st[w].task => Past(w)
FiledLast  == \A w \in Workers : \A r \in archives : Busy(w) => r.task # st[w].task

OneOwner == OneWorker /\ OneArchive /\ OneRow /\ StoredLate /\ FiledLast

TaskInv ==
  /\ CrawlInv /\ TaskTypeOK
  /\ \A w \in Workers : Hand(w)
  /\ InVault /\ InCatalog /\ OneOwner
-----------------------------------------------------------------------------
LEMMA TaskInvInit ==
  ASSUME CrawlerAssumption, TaskAssumption, Init
  PROVE  TaskInv
PROOF
  <1>1. CrawlInv
    BY CrawlInvInit DEF Init
  <1>2. Idle \in WorkerState
    BY SMT DEF Idle, WorkerState, NotCounted
  <1>3. TaskTypeOK
    <2>1. DOMAIN tars \subseteq started /\ tars \in [DOMAIN tars -> Seq(Entry)]
      <3>1. tars = [i \in {} |-> <<>>]
        BY DEF Init, TaskInit
      <3> QED
        BY <3>1
    <2> QED
      BY <1>1, <1>2, <2>1, SMT DEF Init, TaskInit, TaskTypeOK, CrawlInv
  <1>4. \A w \in Workers : Hand(w) /\ ~Busy(w)
    BY DEF Init, TaskInit, Hand, Idle, Busy
  <1>5. InVault /\ InCatalog
    BY SMT DEF Init, TaskInit, InVault, InCatalog
  <1>6. OneOwner
    BY <1>4, SMT DEF OneOwner, OneWorker, OneArchive, OneRow, StoredLate, FiledLast,
       Init, TaskInit
  <1> QED
    BY <1>1, <1>3, <1>4, <1>5, <1>6 DEF TaskInv

(* Celery's queue only grows, and a batch sent stays as it is.             *)
LEMMA SentGrows ==
  ASSUME CrawlInv, CrawlStep
  PROVE  \A i \in DOMAIN sent : i \in DOMAIN sent' /\ sent'[i] = sent[i]
PROOF
  <1>1. sent \in Seq(Job) /\ jobarray \in Job
    BY DEF CrawlInv, CrawlTypeOK
  <1>2. sent' = sent \/ sent' = Append(sent, jobarray)
    BY DEF CrawlStep, AddToBatch, StartNextBatch, SkipFile, FinishWalk, RecordTotal,
       CrawlFails
  <1> QED
    BY <1>1, <1>2, SMT

(* The crawl, and whatever happens to the files, leave the tasks alone.    *)
LEMMA OthersStep ==
  ASSUME TaskInv, CrawlInv', UNCHANGED taskVars,
         \A i \in DOMAIN sent : i \in DOMAIN sent' /\ sent'[i] = sent[i]
  PROVE  TaskInv'
PROOF
  <1>1. started \subseteq DOMAIN sent
    BY DEF TaskInv, TaskTypeOK
  <1>2. /\ UNCHANGED <<opts, started, st, tars, vault, archives, bytesuploaded, rowLock,
                       mishaps>>
        /\ \A i \in started : i \in DOMAIN sent' /\ sent'[i] = sent[i]
    BY <1>1 DEF taskVars
  <1>3. TaskTypeOK'
    BY <1>2 DEF TaskInv, TaskTypeOK, CrawlInv
  <1>4. \A w \in Workers : Hand(w)'
    BY <1>2 DEF TaskInv, Hand, Whole, Lists
  <1>5. InVault' /\ InCatalog'
    <2>1. \A i \in started : sent'[i] = sent[i]
      BY <1>2
    <2>2. InVault'
      BY <1>2, <2>1 DEF TaskInv, InVault, Whole
    <2>3. InCatalog'
      BY <1>2, <2>1 DEF TaskInv, InCatalog, Whole
    <2> QED
      BY <2>2, <2>3
  <1>6. OneOwner'
    BY <1>2 DEF TaskInv, OneOwner, OneWorker, OneArchive, OneRow, StoredLate,
       FiledLast, Busy, Past
  <1> QED
    BY <1>3, <1>4, <1>5, <1>6 DEF TaskInv
-----------------------------------------------------------------------------
(* A step of a busy worker that commits nothing: it goes on with its task  *)
(* or rolls back, and may have stored its tar.                             *)
Moves(w) ==
  /\ Busy(w)
  /\ UNCHANGED <<crawlerVars, opts, started, archives, bytesuploaded>>
  /\ st'[w] \in WorkerState
  /\ st' = [st EXCEPT ![w] = st'[w]]
  /\ DOMAIN tars' \subseteq started /\ tars' \in [DOMAIN tars' -> Seq(Entry)]
  /\ \A i \in DOMAIN tars \ {st[w].task} : i \in DOMAIN tars' /\ tars'[i] = tars[i]
  /\ mishaps' \subseteq started \X FaultKinds
  /\ rowLock' \in Workers \cup {NoWorker}
  /\ Busy(w)' => st'[w].task = st[w].task
  /\ \/ vault' = vault /\ (Busy(w)' /\ Past(w) => Past(w)')
     \/ Store(w) /\ At(w, "filed") /\ ~opts.dry /\ (Busy(w)' => Past(w)')

(* Storing adds one archive and keeps the others under their ids.          *)
LEMMA StoreAppends ==
  ASSUME TaskInv, NEW w \in Workers, Store(w), st[w].task \in DOMAIN tars
  PROVE  /\ DOMAIN vault' = DOMAIN vault \cup {Len(vault) + 1}
         /\ Len(vault) + 1 \notin DOMAIN vault /\ Len(vault) + 1 \in Nat
         /\ Len(vault) + 1 # 0
         /\ vault'[Len(vault) + 1] =
              [task |-> st[w].task, vault |-> UploadVault, tar |-> tars[st[w].task]]
         /\ \A a \in DOMAIN vault : vault'[a] = vault[a]
         /\ vault' \in Seq([task : Nat, vault : {"configured", "generated"},
                            tar : Seq(Entry)])
PROOF
  <1> DEFINE T == [task : Nat, vault : {"configured", "generated"}, tar : Seq(Entry)]
             e == [task |-> st[w].task, vault |-> UploadVault, tar |-> tars[st[w].task]]
  <1>1. e \in T
    <2>1. tars[st[w].task] \in Seq(Entry)
      BY DEF TaskInv, TaskTypeOK
    <2> QED
      BY <2>1 DEF TaskInv, TaskTypeOK, WorkerState, UploadVault
  <1>2. vault \in Seq(T) /\ vault' = Append(vault, e)
    BY DEF TaskInv, TaskTypeOK, Store
  <1> HIDE DEF T, e
  <1>3. /\ DOMAIN vault' = 1..(Len(vault) + 1) /\ DOMAIN vault = 1..Len(vault)
        /\ Len(vault) \in Nat
        /\ vault'[Len(vault) + 1] = e
        /\ \A a \in DOMAIN vault : vault'[a] = vault[a]
        /\ vault' \in Seq(T)
    BY <1>1, <1>2, SMT
  <1>4. DOMAIN vault' = DOMAIN vault \cup {Len(vault) + 1}
    BY <1>3, SMT
  <1>5. Len(vault) + 1 \notin DOMAIN vault /\ Len(vault) + 1 \in Nat /\ Len(vault) + 1 # 0
    BY <1>3, SMT
  <1> QED
    BY <1>3, <1>4, <1>5 DEF T, e

(* The tar to be uploaded is in TEMP_DIR, and whole.                       *)
LEMMA TarAtHand ==
  ASSUME TaskInv, NEW w \in Workers, At(w, "filed"), ~opts.dry
  PROVE  /\ st[w].task \in DOMAIN tars /\ Whole(tars[st[w].task], st[w].task)
         /\ tars[st[w].task] \in Seq(Entry)
PROOF
  <1>1. st[w].task \in DOMAIN tars /\ Whole(tars[st[w].task], st[w].task)
    BY DEF TaskInv, Hand, At
  <1> QED
    BY <1>1 DEF TaskInv, TaskTypeOK

LEMMA MovesInv ==
  ASSUME TaskInv, NEW w \in Workers, Moves(w), Hand(w)'
  PROVE  TaskInv'
PROOF
  <1>1. /\ UNCHANGED <<size, todo, jobarray, arraysize, totaljobsize, sent, cpc, totalbytes,
                       opts, started, archives, bytesuploaded>>
        /\ \A v \in Workers \ {w} : st'[v] = st[v]
        /\ st' \in [Workers -> WorkerState]
    BY DEF Moves, crawlerVars, crawlVars, TaskInv, TaskTypeOK
  <1>2. CrawlInv'
    BY <1>1, CrawlStutterInv DEF TaskInv, CrawlInv, CrawlTypeOK, crawlVars
  <1>3. /\ DOMAIN vault \subseteq DOMAIN vault'
        /\ \A a \in DOMAIN vault : vault'[a] = vault[a]
        /\ vault' \in Seq([task : Nat, vault : {"configured", "generated"},
                           tar : Seq(Entry)])
    BY StoreAppends, TarAtHand DEF Moves, TaskInv, TaskTypeOK
  <1>4. TaskTypeOK'
    BY <1>1, <1>2, <1>3 DEF Moves, TaskInv, TaskTypeOK, CrawlInv
  <1>5. \A v \in Workers : Hand(v)'
    <2> SUFFICES ASSUME NEW v \in Workers \ {w} PROVE Hand(v)'
      OBVIOUS
    <2>1. Hand(v) /\ st'[v] = st[v]
      BY <1>1 DEF TaskInv
    <2>2. Busy(v) => st[v].task # st[w].task
      BY DEF Moves, TaskInv, OneOwner, OneWorker
    <2>3. Busy(v) /\ st[v].task \in DOMAIN tars =>
            st[v].task \in DOMAIN tars' /\ tars'[st[v].task] = tars[st[v].task]
      BY <2>2 DEF Moves
    <2> QED
      BY <2>1, <2>3, <1>1, <1>3 DEF Hand, Whole, Busy
  <1>6. InCatalog'
    BY <1>1, <1>3 DEF TaskInv, InCatalog, Whole
  <1>7. InVault' /\ OneArchive' /\ StoredLate'
    <2>1. CASE vault' = vault
      BY <2>1, <1>1 DEF Moves, TaskInv, OneOwner, InVault, OneArchive, StoredLate,
         Whole, Busy, Past
    <2>2. CASE Store(w) /\ At(w, "filed") /\ ~opts.dry /\ (Busy(w)' => Past(w)')
      <3> PICK n : /\ DOMAIN vault' = DOMAIN vault \cup {n} /\ n \notin DOMAIN vault
                   /\ vault'[n].task = st[w].task /\ vault'[n].tar = tars[st[w].task]
                   /\ \A a \in DOMAIN vault : vault'[a] = vault[a]
        <4> DEFINE m == Len(vault) + 1
        <4>1. /\ DOMAIN vault' = DOMAIN vault \cup {m} /\ m \notin DOMAIN vault
              /\ vault'[m] = [task |-> st[w].task, vault |-> UploadVault,
                              tar |-> tars[st[w].task]]
              /\ \A a \in DOMAIN vault : vault'[a] = vault[a]
          BY <2>2, StoreAppends, TarAtHand
        <4> HIDE DEF m
        <4> QED
          BY <4>1
      <3>1. /\ Busy(w) /\ ~Past(w)
            /\ st[w].task \in started /\ Whole(tars[st[w].task], st[w].task)
        BY <2>2, TarAtHand DEF TaskInv, Hand, At, Busy, Past
      <3>2. \A a \in DOMAIN vault : vault[a].task # st[w].task
        BY <3>1 DEF TaskInv, OneOwner, StoredLate
      <3>3. InVault'
        BY <1>1, <3>1 DEF TaskInv, InVault, Whole
      <3>4. OneArchive'
        BY <3>2 DEF TaskInv, OneOwner, OneArchive
      <3>5. ASSUME NEW v \in Workers, NEW a \in DOMAIN vault', Busy(v)',
                   vault'[a].task = st'[v].task
            PROVE  Past(v)'
        <4>1. CASE v = w
          BY <2>2, <3>5, <4>1
        <4>2. CASE v # w
          <5>1. st'[v] = st[v] /\ Busy(v) /\ st[v].task # st[w].task
            BY <1>1, <3>1, <3>5, <4>2 DEF Busy, TaskInv, OneOwner, OneWorker
          <5>2. a \in DOMAIN vault /\ vault'[a] = vault[a]
            BY <3>5, <5>1
          <5> QED
            BY <3>5, <5>1, <5>2 DEF TaskInv, OneOwner, StoredLate, Past
        <4> QED
          BY <4>1, <4>2
      <3> QED
        BY <3>3, <3>4, <3>5 DEF StoredLate
    <2> QED
      BY <2>1, <2>2 DEF Moves
  <1>8. OneWorker' /\ OneRow' /\ FiledLast'
    BY <1>1 DEF Moves, TaskInv, OneOwner, OneWorker, OneRow, FiledLast, Busy
  <1> QED
    BY <1>2, <1>4, <1>5, <1>6, <1>7, <1>8 DEF TaskInv, OneOwner
-----------------------------------------------------------------------------
(* Each loop of the task lists one more file of its batch.                 *)
LEMMA ListsAppend ==
  ASSUME NEW entries \in Seq(Entry), NEW job, NEW n \in Nat, NEW e \in Entry,
         Lists(entries, job, n), e.file = job[n + 1]
  PROVE  Lists(Append(entries, e), job, n + 1)
PROOF
  <1>1. Len(Append(entries, e)) = n + 1
    BY SMT DEF Lists
  <1>2. ASSUME NEW k \in 1..(n + 1)
        PROVE  Append(entries, e)[k].file = job[k]
    <2>1. CASE k = n + 1
      <3>1. Append(entries, e)[n + 1] = e
        BY SMT DEF Lists
      <3> QED
        BY <2>1, <3>1
    <2>2. CASE k \in 1..n
      <3>1. Append(entries, e)[k] = entries[k]
        BY <2>2, SMT DEF Lists
      <3> QED
        BY <2>2, <3>1 DEF Lists
    <2>3. k = n + 1 \/ k \in 1..n
      BY SMT
    <2> QED
      BY <2>1, <2>2, <2>3
  <1> QED
    BY <1>1, <1>2 DEF Lists

(* The file a loop has reached, when it is there, makes an entry.          *)
LEMMA CurrentEntry ==
  ASSUME CrawlerAssumption, TaskInv, NEW w \in Workers,
         st[w].pc \in {"tarring", "filing"}, size[Current(w)] # Gone
  PROVE  /\ [file |-> Current(w), bytes |-> size[Current(w)]] \in Entry
         /\ size[Current(w)] \in Nat
         /\ st[w].task \in DOMAIN sent /\ JobOf(w) \in Seq(Files)
         /\ st[w].pos \in 1..Len(JobOf(w)) /\ Len(JobOf(w)) \in Nat
PROOF
  <1>1. /\ st[w].task \in DOMAIN sent /\ st[w].pos \in 1..Len(JobOf(w))
    BY DEF TaskInv, TaskTypeOK, Hand, JobOf
  <1>2. sent \in Seq(Seq(Files))
    BY DEF TaskInv, CrawlInv, CrawlTypeOK, Job
  <1>3. JobOf(w) \in Seq(Files)
    BY <1>1, <1>2, SMT DEF JobOf
  <1>4. Current(w) \in Files /\ Len(JobOf(w)) \in Nat
    BY <1>1, <1>3, SMT DEF Current
  <1>5. size[Current(w)] \in Sizes /\ Sizes \subseteq Nat
    BY <1>4 DEF TaskInv, CrawlInv, CrawlTypeOK, CrawlerAssumption
  <1> QED
    BY <1>1, <1>3, <1>4, <1>5 DEF Entry

LEMMA CreateArchiveMoves ==
  ASSUME CrawlerAssumption, TaskInv, NEW w \in Workers, CreateArchive(w),
         UNCHANGED crawlerVars
  PROVE  Moves(w) /\ Hand(w)'
PROOF
  <1> DEFINE i == st[w].task
  <1>1. /\ st[w] \in WorkerState /\ st \in [Workers -> WorkerState]
        /\ st[w].pc = "started" /\ i \in started /\ st[w].rows = <<>>
        /\ DOMAIN tars \subseteq started /\ tars \in [DOMAIN tars -> Seq(Entry)]
    BY DEF TaskInv, TaskTypeOK, Hand, CreateArchive, At
  <1>2. st'[w] = [st[w] EXCEPT !.pc = IF opts.dry THEN "filing" ELSE "tarring",
                               !.pos = 1]
    BY <1>1 DEF CreateArchive
  <1>3. st'[w] \in WorkerState /\ st' = [st EXCEPT ![w] = st'[w]]
    <2>1. st'[w] \in WorkerState
      <3>1. PICK pc \in {"filing", "tarring"}, pos \in Nat :
              st'[w] = [st[w] EXCEPT !.pc = pc, !.pos = pos]
        BY <1>2
      <3> QED
        BY <1>1, <3>1, Zenon DEF WorkerState
    <2>2. st' = [st EXCEPT ![w] = st'[w]]
      BY <1>1 DEF CreateArchive
    <2> QED
      BY <2>1, <2>2
  <1>4. /\ DOMAIN tars' \subseteq started /\ tars' \in [DOMAIN tars' -> Seq(Entry)]
        /\ \A j \in DOMAIN tars \ {i} : j \in DOMAIN tars' /\ tars'[j] = tars[j]
        /\ ~opts.dry => i \in DOMAIN tars' /\ tars'[i] = <<>>
    <2>1. CASE opts.dry
      BY <1>1, <2>1 DEF CreateArchive
    <2>2. CASE ~opts.dry
      <3>1. tars' = [j \in DOMAIN tars \cup {i} |-> IF j = i THEN <<>> ELSE tars[j]]
        BY <2>2 DEF CreateArchive, OpenTar
      <3>2. DOMAIN tars' = DOMAIN tars \cup {i}
        BY <3>1
      <3>3. /\ tars'[i] = <<>>
            /\ \A j \in DOMAIN tars \ {i} : j \in DOMAIN tars' /\ tars'[j] = tars[j]
        BY <3>1
      <3>4. <<>> \in Seq(Entry)
        OBVIOUS
      <3>5. tars' \in [DOMAIN tars' -> Seq(Entry)]
        BY <1>1, <3>1, <3>2, <3>4
      <3> QED
        BY <1>1, <3>2, <3>3, <3>5
    <2> QED
      BY <2>1, <2>2
  <1>5. Moves(w)
    BY <1>1, <1>2, <1>3, <1>4 DEF Moves, CreateArchive, TaskInv, TaskTypeOK, Busy, Past
  <1>6. 1 \in 1..Len(sent[i])
    BY <1>1, SMT DEF TaskInv, CrawlInv, BatchesWithinCount, TaskTypeOK,
       CrawlerAssumption
  <1>7. /\ st'[w].pos = 1 /\ st'[w].rows = <<>> /\ st'[w].task = i
        /\ st'[w].pc = IF opts.dry THEN "filing" ELSE "tarring"
        /\ opts' = opts /\ started' = started /\ sent' = sent
    BY <1>1, <1>2, <1>3 DEF CreateArchive, crawlerVars, crawlVars, WorkerState
  <1>8. Lists(<<>>, sent[i], 1 - 1)
    BY SMT DEF Lists
  <1> QED
    BY <1>1, <1>4, <1>5, <1>6, <1>7, <1>8 DEF Hand

LEMMA TarFileMoves ==
  ASSUME CrawlerAssumption, TaskInv, NEW w \in Workers, TarFile(w),
         UNCHANGED crawlerVars
  PROVE  Moves(w) /\ Hand(w)'
PROOF
  <1> DEFINE e == [file |-> Current(w), bytes |-> size[Current(w)]]
             n == st[w].pos
             i == st[w].task
  <1>1. /\ st[w] \in WorkerState /\ st \in [Workers -> WorkerState]
        /\ st[w].pc = "tarring" /\ i \in started /\ i \in DOMAIN tars
        /\ Lists(tars[i], sent[i], n - 1) /\ st[w].rows = <<>>
        /\ n \in 1..Len(sent[i])
        /\ DOMAIN tars \subseteq started /\ tars \in [DOMAIN tars -> Seq(Entry)]
    BY DEF TaskInv, TaskTypeOK, Hand, TarFile, At
  <1>2. /\ e \in Entry /\ n \in 1..Len(JobOf(w)) /\ Len(JobOf(w)) \in Nat
        /\ e.file = sent[i][n]
    BY <1>1, CurrentEntry DEF TarFile, Current, JobOf
  <1>3. st'[w] = [st[w] EXCEPT !.pos = IF n = Len(JobOf(w)) THEN 1 ELSE @ + 1,
                    !.pc = IF n = Len(JobOf(w)) THEN "filing" ELSE @]
    BY <1>1 DEF TarFile
  <1>4. /\ st' = [st EXCEPT ![w] = st'[w]]
        /\ tars' = [tars EXCEPT ![i] = Append(@, e)]
    BY <1>1 DEF TarFile
  <1> HIDE DEF e
  <1>5. /\ st'[w].rows = <<>> /\ st'[w].task = i
        /\ st'[w].pos = IF n = Len(JobOf(w)) THEN 1 ELSE n + 1
        /\ st'[w].pc = IF n = Len(JobOf(w)) THEN "filing" ELSE "tarring"
        /\ st'[w] \in WorkerState
    <2>1. n + 1 \in Nat
      BY <1>1, <1>2, SMT DEF WorkerState
    <2>2. PICK pc \in {"filing", "tarring"}, pos \in Nat :
            st'[w] = [st[w] EXCEPT !.pos = pos, !.pc = pc]
      BY <1>1, <1>3, <2>1
    <2>3. st'[w] \in WorkerState
      BY <1>1, <2>2, Zenon DEF WorkerState
    <2> QED
      BY <1>1, <1>3, <2>3, SMT DEF WorkerState
  <1>6. /\ DOMAIN tars' = DOMAIN tars /\ tars' \in [DOMAIN tars' -> Seq(Entry)]
        /\ tars'[i] = Append(tars[i], e)
        /\ \A j \in DOMAIN tars \ {i} : tars'[j] = tars[j]
    <2>1. DOMAIN tars' = DOMAIN tars
      BY <1>4
    <2>2. tars[i] \in Seq(Entry)
      BY <1>1
    <2>3. Append(tars[i], e) \in Seq(Entry)
      BY <1>2, <2>2, SMT
    <2> QED
      BY <1>1, <1>4, <2>1, <2>3
  <1>7. Moves(w)
    <2>1. mishaps' \subseteq started \X FaultKinds
      BY DEF TarFile, TaskInv, TaskTypeOK
    <2> QED
      BY <1>1, <1>4, <1>5, <1>6, <2>1 DEF Moves, TarFile, TaskInv, TaskTypeOK, Busy, Past
  <1>8. Lists(tars'[i], sent[i], n)
    <2>1. tars[i] \in Seq(Entry) /\ n - 1 \in Nat /\ (n - 1) + 1 = n
      BY <1>1, <1>2, SMT DEF WorkerState
    <2> HIDE DEF n
    <2> QED
      BY <1>1, <1>2, <1>6, <2>1, ListsAppend
  <1>9. UNCHANGED <<opts, started, sent>>
    BY DEF TarFile, crawlerVars, crawlVars
  <1>10. CASE n = Len(JobOf(w))
    <2>1. Lists(<<>>, sent[i], 1 - 1)
      BY SMT DEF Lists
    <2>2. 1 \in 1..Len(sent[i])
      BY <1>1, <1>2, SMT DEF JobOf
    <2> QED
      BY <1>1, <1>5, <1>6, <1>7, <1>8, <1>9, <1>10, <2>1, <2>2 DEF Hand, Whole, JobOf
  <1>11. CASE n # Len(JobOf(w))
    <2>1. n + 1 \in 1..Len(sent[i]) /\ (n + 1) - 1 = n
      BY <1>1, <1>2, <1>11, SMT DEF JobOf
    <2> HIDE DEF n
    <2> QED
      BY <1>1, <1>5, <1>6, <1>7, <1>8, <1>9, <1>11, <2>1 DEF Hand
  <1> QED
    BY <1>10, <1>11

LEMMA FileRowMoves ==
  ASSUME CrawlerAssumption, TaskInv, NEW w \in Workers, FileRow(w),
         UNCHANGED crawlerVars
  PROVE  Moves(w) /\ Hand(w)'
PROOF
  <1> DEFINE e == [file |-> Current(w), bytes |-> size[Current(w)]]
             n == st[w].pos
  <1>1. /\ st[w] \in WorkerState /\ st \in [Workers -> WorkerState]
        /\ st[w].pc = "filing" /\ st[w].task \in started
        /\ Lists(st[w].rows, sent[st[w].task], n - 1)
        /\ ~opts.dry => st[w].task \in DOMAIN tars /\ Whole(tars[st[w].task], st[w].task)
        /\ n \in 1..Len(sent[st[w].task])
    BY DEF TaskInv, TaskTypeOK, Hand, FileRow, At
  <1>2. /\ e \in Entry /\ n \in 1..Len(JobOf(w)) /\ Len(JobOf(w)) \in Nat
        /\ e.file = sent[st[w].task][n] /\ size[Current(w)] \in Nat
    BY <1>1, CurrentEntry DEF FileRow, Current, JobOf
  <1>3. st'[w] = [st[w] EXCEPT !.rows = Append(@, e),
                    !.bytes = @ + size[Current(w)],
                    !.pos = IF n = Len(JobOf(w)) THEN @ ELSE @ + 1,
                    !.pc = IF n = Len(JobOf(w)) THEN "filed" ELSE @]
    BY <1>1 DEF FileRow
  <1>4. st' = [st EXCEPT ![w] = st'[w]]
    BY <1>1 DEF FileRow
  <1> HIDE DEF e
  <1>5. /\ st'[w].rows = Append(st[w].rows, e)
        /\ st'[w].task = st[w].task
        /\ st'[w].pos = IF n = Len(JobOf(w)) THEN n ELSE n + 1
        /\ st'[w].pc = IF n = Len(JobOf(w)) THEN "filed" ELSE "filing"
        /\ st'[w] \in WorkerState
    <2>1. /\ Append(st[w].rows, e) \in Seq(Entry) /\ n + 1 \in Nat /\ n \in Nat
          /\ st[w].bytes + size[Current(w)] \in Nat
      BY <1>1, <1>2, SMTT(30) DEF WorkerState
    <2> DEFINE pc == IF n = Len(JobOf(w)) THEN "filed" ELSE "filing"
               pos == IF n = Len(JobOf(w)) THEN n ELSE n + 1
               rows == Append(st[w].rows, e)
               bytes == st[w].bytes + size[Current(w)]
    <2>2. st'[w] = [st[w] EXCEPT !.rows = rows, !.bytes = bytes, !.pos = pos,
                                 !.pc = pc]
      BY <1>1, <1>3
    <2>4. /\ pc \in {"filing", "filed"} /\ pos \in Nat
          /\ rows \in Seq(Entry) /\ bytes \in Nat
      BY <2>1
    <2> HIDE DEF n, pc, pos, rows, bytes
    <2>3. st'[w] \in WorkerState
      BY <1>1, <2>2, <2>4, ZenonT(40) DEF WorkerState
    <2>5. /\ st'[w].rows = rows
          /\ st'[w].task = st[w].task /\ st'[w].pos = pos /\ st'[w].pc = pc
      BY <1>1, <2>2, SMTT(30) DEF WorkerState
    <2> QED
      BY <2>3, <2>5 DEF rows, pos, pc
  <1>6. Moves(w)
    BY <1>1, <1>4, <1>5 DEF Moves, FileRow, TaskInv, TaskTypeOK, Busy, Past
  <1>7. Lists(st'[w].rows, sent[st[w].task], n)
    <2>1. st[w].rows \in Seq(Entry) /\ n - 1 \in Nat /\ (n - 1) + 1 = n
      BY <1>1, <1>2, SMT DEF WorkerState
    <2> HIDE DEF n
    <2> QED
      BY <1>1, <1>2, <1>5, <2>1, ListsAppend
  <1>8. UNCHANGED <<opts, started, sent, tars>>
    BY DEF FileRow, crawlerVars, crawlVars
  <1>9. CASE n = Len(JobOf(w))
    BY <1>1, <1>5, <1>6, <1>7, <1>8, <1>9 DEF Hand, Whole, JobOf
  <1>10. CASE n # Len(JobOf(w))
    <2>1. n + 1 \in 1..Len(sent[st[w].task]) /\ (n + 1) - 1 = n
      BY <1>1, <1>2, <1>10, SMT DEF JobOf
    <2> HIDE DEF n
    <2> QED
      BY <1>1, <1>5, <1>6, <1>7, <1>8, <1>10, <2>1 DEF Hand, Whole
  <1> QED
    BY <1>9, <1>10

(* DryRollback, UploadRaises, TaskRaises, TaskFails, Kill: nothing is left *)
(* in hand.                                                                *)
LEMMA RollbackMoves ==
  ASSUME CrawlerAssumption, TaskInv, NEW w \in Workers, UNCHANGED crawlerVars,
         DryRollback(w) \/ UploadRaises(w) \/ TaskRaises(w) \/ TaskFails(w) \/ Kill(w)
  PROVE  Moves(w) /\ Hand(w)'
PROOF
  <1>1. /\ Busy(w)
        /\ UNCHANGED <<opts, started, archives, bytesuploaded, tars>>
        /\ Rollback(w)
        /\ vault' = vault \/ (Store(w) /\ At(w, "filed") /\ ~opts.dry)
    BY DEF DryRollback, UploadRaises, TaskRaises, TaskFails, FailsAt, Kill, Busy, At
  <1>2. Idle \in WorkerState
    BY SMT DEF Idle, WorkerState, NotCounted
  <1>3. st' = [st EXCEPT ![w] = Idle] /\ st'[w] = Idle
    BY <1>1 DEF Rollback, TaskInv, TaskTypeOK
  <1>4. ~Busy(w)'
    BY <1>3 DEF Busy, Idle
  <1>5. rowLock' \in Workers \cup {NoWorker}
    BY <1>1 DEF Rollback, TaskInv, TaskTypeOK
  <1>6. DOMAIN tars' \subseteq started /\ tars' \in [DOMAIN tars' -> Seq(Entry)]
    BY <1>1 DEF TaskInv, TaskTypeOK
  <1>7. mishaps' \subseteq started \X FaultKinds
    <2>1. mishaps' = mishaps \/ \E fault \in {"reply", "database", "tar", "kill"} : Befalls(w, fault)
      BY DEF DryRollback, UploadRaises, TaskRaises, TaskFails, Kill
    <2>2. mishaps \subseteq started \X FaultKinds /\ st[w].task \in started
      BY <1>1 DEF TaskInv, TaskTypeOK, Hand, Busy
    <2> QED
      BY <2>1, <2>2 DEF Befalls, FaultKinds
  <1> QED
    BY <1>1, <1>2, <1>3, <1>4, <1>5, <1>6, <1>7 DEF Moves, Hand, Busy

(* The upload has stored the tar, and the task goes on with its id, or it  *)
(* goes on with id 0.                                                      *)
LEMMA UploadMoves ==
  ASSUME CrawlerAssumption, TaskInv, NEW w \in Workers, UNCHANGED crawlerVars,
         UploadStored(w) \/ UploadReturnsZero(w)
  PROVE  Moves(w) /\ Hand(w)'
PROOF
  <1>1. /\ st[w] \in WorkerState /\ st \in [Workers -> WorkerState]
        /\ st[w].pc = "filed" /\ st[w].task \in started
        /\ Whole(st[w].rows, st[w].task)
        /\ DOMAIN tars \subseteq started /\ tars \in [DOMAIN tars -> Seq(Entry)]
        /\ mishaps \subseteq started \X FaultKinds
        /\ rowLock \in Workers \cup {NoWorker}
    BY DEF TaskInv, TaskTypeOK, Hand, UploadStored, UploadReturnsZero, At
  <1>2. /\ UNCHANGED <<opts, started, archives, bytesuploaded, rowLock, sent>>
        /\ ~opts.dry /\ At(w, "filed")
        /\ mishaps' \subseteq started \X FaultKinds
    BY <1>1 DEF UploadStored, UploadReturnsZero, crawlerVars, crawlVars, Befalls, FaultKinds
  <1>8. /\ DOMAIN tars' \subseteq started /\ tars' \in [DOMAIN tars' -> Seq(Entry)]
        /\ \A i \in DOMAIN tars \ {st[w].task} : i \in DOMAIN tars' /\ tars'[i] = tars[i]
    <2>1. CASE UNCHANGED tars
      BY <1>1, <2>1
    <2>2. CASE tars' = UnlinkTar(st[w].task)
      <3>1. tars' = [i \in DOMAIN tars \ {st[w].task} |-> tars[i]]
        BY <2>2 DEF UnlinkTar
      <3>2. DOMAIN tars' = DOMAIN tars \ {st[w].task}
        BY <3>1
      <3>3. \A i \in DOMAIN tars' : tars'[i] = tars[i] /\ tars'[i] \in Seq(Entry)
        BY <1>1, <3>1, <3>2
      <3>4. tars' \in [DOMAIN tars' -> Seq(Entry)]
        BY <1>1, <3>1, <3>2
      <3> QED
        BY <1>1, <3>2, <3>3, <3>4
    <2> QED
      BY <2>1, <2>2 DEF UploadStored, UploadReturnsZero
  <1>3. PICK id \in Nat :
          /\ st' = [st EXCEPT ![w].pc = "uploaded", ![w].id = id]
          /\ vault' = vault \/ Store(w)
          /\ id # 0 => id \in DOMAIN vault' /\ vault'[id].task = st[w].task
    <2>1. CASE UploadReturnsZero(w)
      <3>1. /\ st' = [st EXCEPT ![w].pc = "uploaded", ![w].id = 0]
            /\ vault' = vault \/ Store(w)
        BY <2>1 DEF UploadReturnsZero
      <3> QED
        BY <3>1
    <2>2. CASE UploadStored(w)
      <3> DEFINE m == Len(vault) + 1
      <3>1. m \in Nat /\ m \in DOMAIN vault' /\ vault'[m].task = st[w].task
        <4>1. Store(w)
          BY <2>2 DEF UploadStored
        <4>2. /\ m \in Nat /\ m \in DOMAIN vault'
              /\ vault'[m] = [task |-> st[w].task, vault |-> UploadVault,
                              tar |-> tars[st[w].task]]
          BY <4>1, <1>2, StoreAppends, TarAtHand
        <4> HIDE DEF m
        <4> QED
          BY <4>2
      <3>2. st' = [st EXCEPT ![w].pc = "uploaded", ![w].id = m] /\ Store(w)
        BY <2>2 DEF UploadStored
      <3> HIDE DEF m
      <3> QED
        BY <3>1, <3>2
    <2> QED
      BY <2>1, <2>2
  <1>4. st'[w] = [st[w] EXCEPT !.pc = "uploaded", !.id = id]
    BY <1>1, <1>3
  <1>5. /\ st'[w].pc = "uploaded" /\ st'[w].id = id
        /\ st'[w].task = st[w].task /\ st'[w].rows = st[w].rows
        /\ st'[w] \in WorkerState
        /\ st' = [st EXCEPT ![w] = st'[w]]
    <2>1. st'[w] \in WorkerState
      BY <1>1, <1>4, Zenon DEF WorkerState
    <2>2. st' = [st EXCEPT ![w] = st'[w]]
      BY <1>1, <1>3
    <2> QED
      BY <1>1, <1>4, <2>1, <2>2, SMT DEF WorkerState
  <1>6. Moves(w)
    BY <1>1, <1>2, <1>3, <1>5, <1>8 DEF Moves, Busy, Past, At
  <1>7. Hand(w)'
    BY <1>1, <1>2, <1>3, <1>5 DEF Hand, Whole
  <1> QED
    BY <1>6, <1>7

LEMMA StatsMoves ==
  ASSUME CrawlerAssumption, TaskInv, NEW w \in Workers, UNCHANGED crawlerVars,
         UpdateStats(w) \/ StatsFail(w)
  PROVE  Moves(w) /\ Hand(w)'
PROOF
  <1>1. /\ st[w] \in WorkerState /\ st \in [Workers -> WorkerState]
        /\ st[w].pc = "uploaded" /\ st[w].task \in started
        /\ Whole(st[w].rows, st[w].task)
        /\ st[w].id # 0 => st[w].id \in DOMAIN vault /\ vault[st[w].id].task = st[w].task
    BY DEF TaskInv, TaskTypeOK, Hand, UpdateStats, StatsFail, At
  <1>2. /\ UNCHANGED <<opts, started, tars, vault, archives, bytesuploaded, sent>>
        /\ rowLock' \in Workers \cup {NoWorker}
        /\ DOMAIN tars \subseteq started /\ tars \in [DOMAIN tars -> Seq(Entry)]
        /\ mishaps' \subseteq started \X FaultKinds
    BY DEF UpdateStats, StatsFail, crawlerVars, crawlVars, TaskInv, TaskTypeOK
  <1>3. PICK t \in Nat \cup {NotCounted} :
          st' = [st EXCEPT ![w].pc = "counted", ![w].newtotal = t]
    <2>1. CASE UpdateStats(w)
      <3>1. bytesuploaded + st[w].bytes \in Nat
        BY <1>1, SMT DEF TaskInv, TaskTypeOK, WorkerState
      <3> QED
        BY <2>1, <3>1 DEF UpdateStats
    <2>2. CASE StatsFail(w)
      <3>1. st[w].newtotal \in Nat \cup {NotCounted}
        BY <1>1 DEF WorkerState
      <3>2. /\ st' = [st EXCEPT ![w].pc = "counted"]
            /\ [st[w] EXCEPT !.pc = "counted"]
                 = [st[w] EXCEPT !.pc = "counted", !.newtotal = st[w].newtotal]
        BY <2>2, <1>1, Zenon DEF StatsFail, WorkerState
      <3> QED
        BY <1>1, <3>1, <3>2
    <2> QED
      BY <2>1, <2>2
  <1>4. st'[w] = [st[w] EXCEPT !.pc = "counted", !.newtotal = t]
    BY <1>1, <1>3
  <1>5. /\ st'[w].pc = "counted" /\ st'[w].id = st[w].id
        /\ st'[w].task = st[w].task /\ st'[w].rows = st[w].rows
        /\ st'[w] \in WorkerState
        /\ st' = [st EXCEPT ![w] = st'[w]]
    <2>1. st'[w] \in WorkerState
      BY <1>1, <1>4, Zenon DEF WorkerState
    <2>2. st' = [st EXCEPT ![w] = st'[w]]
      BY <1>1, <1>3
    <2> QED
      BY <1>1, <1>4, <2>1, <2>2, SMT DEF WorkerState
  <1>6. Moves(w)
    BY <1>1, <1>2, <1>5 DEF Moves, Busy, Past
  <1>7. Hand(w)'
    BY <1>1, <1>2, <1>5 DEF Hand, Whole
  <1> QED
    BY <1>6, <1>7
-----------------------------------------------------------------------------
(* A task that begins is one that nobody has had: it is taken from the     *)
(* batches outside started, and everything else is about started ones.     *)
LEMMA StartTaskInv ==
  ASSUME TaskInv, NEW w \in Workers, StartTask(w), UNCHANGED crawlerVars
  PROVE  TaskInv'
PROOF
  <1>1. PICK i \in DOMAIN sent \ started :
          /\ started' = started \cup {i}
          /\ st' = [st EXCEPT ![w] = [Idle EXCEPT !.pc = "started", !.task = i]]
    BY DEF StartTask
  <1>2. /\ UNCHANGED <<size, todo, jobarray, arraysize, totaljobsize, sent, cpc, totalbytes,
                       opts, tars, vault, archives, bytesuploaded, rowLock, mishaps>>
        /\ ~Busy(w)
    BY DEF StartTask, crawlerVars, crawlVars, Busy, At
  <1>3. /\ st'[w] = [Idle EXCEPT !.pc = "started", !.task = i]
        /\ \A v \in Workers \ {w} : st'[v] = st[v]
        /\ i \in Nat
    BY <1>1, SMT DEF TaskInv, TaskTypeOK, CrawlInv, CrawlTypeOK
  <1>4. /\ st'[w].pc = "started" /\ st'[w].task = i
        /\ st'[w].rows = <<>>
    BY <1>3 DEF Idle
  <1>5. CrawlInv'
    BY <1>2, CrawlStutterInv DEF TaskInv, CrawlInv, CrawlTypeOK, crawlVars
  <1>6. st' \in [Workers -> WorkerState]
    <2>1. Idle \in WorkerState
      BY SMT DEF Idle, WorkerState, NotCounted
    <2>2. [Idle EXCEPT !.pc = "started", !.task = i] \in WorkerState
      BY <1>3, <2>1, Zenon DEF WorkerState
    <2> QED
      BY <1>1, <2>2 DEF TaskInv, TaskTypeOK
  <1>7. TaskTypeOK'
    BY <1>1, <1>2, <1>5, <1>6 DEF TaskInv, TaskTypeOK, CrawlInv
  <1>8. \A v \in Workers : Hand(v)'
    <2>1. Hand(w)'
      BY <1>1, <1>4 DEF Hand
    <2>2. ASSUME NEW v \in Workers \ {w} PROVE Hand(v)'
      BY <1>1, <1>2, <1>3 DEF TaskInv, Hand, Whole
    <2> QED
      BY <2>1, <2>2
  <1>9. InVault' /\ InCatalog'
    BY <1>1, <1>2 DEF TaskInv, InVault, InCatalog, Whole
  <1>10. OneWorker'
    <2>1. \A v \in Workers : Busy(v) => st[v].task \in started
      BY DEF TaskInv, Hand, Busy
    <2> QED
      BY <1>1, <1>3, <1>4, <2>1 DEF TaskInv, OneOwner, OneWorker, Busy
  <1>11. OneArchive' /\ OneRow'
    BY <1>2 DEF TaskInv, OneOwner, OneArchive, OneRow
  <1>12. StoredLate'
    BY <1>1, <1>2, <1>3, <1>4 DEF TaskInv, InVault, OneOwner, StoredLate, Busy, Past
  <1>13. FiledLast'
    BY <1>1, <1>2, <1>3, <1>4 DEF TaskInv, InCatalog, OneOwner, FiledLast, Busy
  <1> QED
    BY <1>5, <1>7, <1>8, <1>9, <1>10, <1>11, <1>12, <1>13 DEF TaskInv, OneOwner

(* The commit hands the task over from the worker to the catalog.          *)
LEMMA CommitInv ==
  ASSUME TaskInv, NEW w \in Workers, Commit(w), UNCHANGED crawlerVars
  PROVE  TaskInv'
PROOF
  <1> DEFINE r == [task |-> st[w].task, archive_id |-> st[w].id, vault |-> RowVault,
                   files |-> st[w].rows, bytesize |-> st[w].bytes,
                   counted |-> st[w].newtotal # NotCounted]
  <1>1. /\ UNCHANGED <<size, todo, jobarray, arraysize, totaljobsize, sent, cpc, totalbytes,
                       opts, started, tars, vault, mishaps>>
        /\ archives' = archives \cup {r}
        /\ st' = [st EXCEPT ![w] = Idle]
    BY DEF Commit, crawlerVars, crawlVars
  <1>2. /\ st[w] \in WorkerState
        /\ st'[w] = Idle /\ \A v \in Workers \ {w} : st'[v] = st[v]
    BY <1>1 DEF TaskInv, TaskTypeOK
  <1>3. /\ Busy(w) /\ st[w].task \in started
        /\ Whole(st[w].rows, st[w].task)
        /\ st[w].id # 0 => st[w].id \in DOMAIN vault /\ vault[st[w].id].task = st[w].task
    BY DEF TaskInv, Hand, Commit, At, Busy
  <1>4. CrawlInv'
    BY <1>1, CrawlStutterInv DEF TaskInv, CrawlInv, CrawlTypeOK, crawlVars
  <1>5. TaskTypeOK'
    <2>1. st' \in [Workers -> WorkerState]
      <3>1. Idle \in WorkerState
        BY SMT DEF Idle, WorkerState, NotCounted
      <3> QED
        BY <1>1, <3>1 DEF TaskInv, TaskTypeOK
    <2>2. r \in [task : Nat, archive_id : Nat, vault : {"configured", "none"},
                 files : Seq(Entry), bytesize : Nat, counted : BOOLEAN]
      <3>1. RowVault \in {"configured", "none"}
        BY DEF RowVault
      <3> QED
        BY <1>2, <3>1 DEF WorkerState
    <2>3. bytesuploaded' \in Nat /\ rowLock' \in Workers \cup {NoWorker}
      BY <1>2 DEF Commit, TaskInv, TaskTypeOK, WorkerState
    <2> HIDE DEF r
    <2> QED
      BY <1>1, <1>4, <2>1, <2>2, <2>3 DEF TaskInv, TaskTypeOK, CrawlInv
  <1>6. \A v \in Workers : Hand(v)'
    BY <1>1, <1>2 DEF TaskInv, Hand, Whole, Idle
  <1>7. InVault'
    BY <1>1 DEF TaskInv, InVault, Whole
  <1>8. InCatalog'
    BY <1>1, <1>3 DEF TaskInv, InCatalog, Whole
  <1>9. ~Busy(w)'
    BY <1>2 DEF Busy, Idle
  <1>10. OneWorker' /\ OneArchive' /\ StoredLate'
    BY <1>1, <1>2, <1>9 DEF TaskInv, OneOwner, OneWorker, OneArchive, StoredLate, Busy, Past
  <1>11. OneRow'
    BY <1>1, <1>3 DEF TaskInv, OneOwner, OneRow, FiledLast
  <1>12. FiledLast'
    BY <1>1, <1>2, <1>3, <1>9 DEF TaskInv, OneOwner, OneWorker, FiledLast, Busy
  <1> QED
    BY <1>4, <1>5, <1>6, <1>7, <1>8, <1>10, <1>11, <1>12 DEF TaskInv, OneOwner

LEMMA WorkerInv ==
  ASSUME CrawlerAssumption, TaskInv, NEW w \in Workers, WorkerStep(w) \/ WorkerFault(w),
         UNCHANGED crawlerVars
  PROVE  TaskInv'
PROOF
  <1>1. CASE StartTask(w)
    BY <1>1, StartTaskInv
  <1>2. CASE Commit(w)
    BY <1>2, CommitInv
  <1>3. CASE CreateArchive(w) \/ TarFile(w) \/ FileRow(w) \/ UploadStored(w)
             \/ UploadReturnsZero(w) \/ UpdateStats(w) \/ StatsFail(w)
             \/ DryRollback(w) \/ UploadRaises(w) \/ TaskRaises(w) \/ TaskFails(w)
             \/ Kill(w)
    <2>1. Moves(w) /\ Hand(w)'
      BY <1>3, CreateArchiveMoves, TarFileMoves, FileRowMoves, UploadMoves, StatsMoves,
         RollbackMoves
    <2> QED
      BY <2>1, MovesInv
  <1> QED
    BY <1>1, <1>2, <1>3 DEF WorkerStep, WorkerFault

LEMMA CrawlingInv ==
  ASSUME CrawlerAssumption, TaskInv, Crawling
  PROVE  TaskInv'
PROOF
  <1>1. CrawlStep /\ UNCHANGED size /\ UNCHANGED taskVars
    BY DEF Crawling, CrawlStep
  <1>2. CrawlInv /\ CrawlInv'
    BY <1>1, CrawlStepInv DEF TaskInv
  <1> QED
    BY <1>1, <1>2, SentGrows, OthersStep

LEMMA FilesInv ==
  ASSUME TaskInv, UNCHANGED <<crawlVars, taskVars>>,
         size' \in [Files -> Sizes \cup {Gone}]
  PROVE  TaskInv'
PROOF
  <1>1. CrawlInv'
    BY CrawlStutterInv DEF TaskInv
  <1>2. sent' = sent
    BY DEF crawlVars
  <1> QED
    BY <1>1, <1>2, OthersStep

LEMMA TaskNextInv ==
  ASSUME CrawlerAssumption, TaskInv, [Next]_vars
  PROVE  TaskInv'
PROOF
  <1>1. CASE Crawling
    BY <1>1, CrawlingInv
  <1>2. CASE \E w \in Workers : (WorkerStep(w) \/ WorkerFault(w)) /\ UNCHANGED crawlerVars
    BY <1>2, WorkerInv
  <1>3. CASE \E f \in Files : (FileChanges(f) \/ FileVanishes(f))
                                /\ UNCHANGED <<crawlVars, taskVars>>
    <2>1. size' \in [Files -> Sizes \cup {Gone}]
      BY <1>3 DEF FileChanges, FileVanishes, TaskInv, CrawlInv, CrawlTypeOK
    <2> QED
      BY <1>3, <2>1, FilesInv
  <1>4. CASE UNCHANGED vars
    <2>1. UNCHANGED <<crawlVars, taskVars>> /\ size' = size
      BY <1>4 DEF vars, crawlerVars
    <2> QED
      BY <2>1, FilesInv DEF TaskInv, CrawlInv, CrawlTypeOK
  <1> QED
    BY <1>1, <1>2, <1>3, <1>4 DEF Next
-----------------------------------------------------------------------------
(* Together with SentOnce, one owner per task means one place per file.    *)
LEMMA TaskInvMeaning ==
  TaskInv => TaskTypeOK /\ RecordedIsStored /\ ArchivedAtMostOnce
PROOF
  <1> SUFFICES ASSUME TaskInv PROVE RecordedIsStored /\ ArchivedAtMostOnce
    BY DEF TaskInv
  <1>1. started \subseteq DOMAIN sent
    BY DEF TaskInv, TaskTypeOK
  <1>2. RecordedIsStored
    BY <1>1 DEF TaskInv, InCatalog, InVault, RecordedIsStored, Whole
  <1>3. ASSUME NEW i \in DOMAIN sent, NEW j \in DOMAIN sent,
               NEW d \in Seq(Entry), NEW e \in Seq(Entry), Whole(d, i), Whole(e, j),
               NEW k \in DOMAIN d, NEW l \in DOMAIN e, d[k].file = e[l].file
        PROVE  i = j /\ k = l
    <2>1. sent[i] \in Seq(Files) /\ sent[j] \in Seq(Files)
      BY SMT DEF TaskInv, CrawlInv, CrawlTypeOK, Job
    <2>2. /\ k \in DOMAIN sent[i] /\ d[k].file = sent[i][k]
          /\ l \in DOMAIN sent[j] /\ e[l].file = sent[j][l]
      BY <1>3, <2>1, SMT DEF Whole, Lists
    <2>3. sent[i][k] = sent[j][l]
      BY <1>3, <2>2
    <2>4. SentOnce
      BY DEF TaskInv, CrawlInv
    <2> QED
      BY <2>2, <2>3, <2>4, Zenon DEF SentOnce
  <1>4. /\ \A a \in DOMAIN vault : /\ vault[a].task \in DOMAIN sent
                                   /\ vault[a].tar \in Seq(Entry)
                                   /\ Whole(vault[a].tar, vault[a].task)
        /\ \A r \in archives : /\ r.task \in DOMAIN sent /\ r.files \in Seq(Entry)
                               /\ Whole(r.files, r.task)
    <2>1. \A a \in DOMAIN vault : vault[a].tar \in Seq(Entry)
      <3> DEFINE T == [task : Nat, vault : {"configured", "generated"}, tar : Seq(Entry)]
      <3>1. vault \in Seq(T)
        BY DEF TaskInv, TaskTypeOK
      <3> HIDE DEF T
      <3>2. \A a \in DOMAIN vault : vault[a] \in T
        BY <3>1, SMT
      <3> QED
        BY <3>2 DEF T
    <2>2. \A r \in archives : r.files \in Seq(Entry)
      BY DEF TaskInv, TaskTypeOK
    <2> QED
      BY <1>1, <2>1, <2>2 DEF TaskInv, InVault, InCatalog
  <1>5. ArchivedAtMostOnce
    <2>1. ASSUME NEW a \in DOMAIN vault, NEW b \in DOMAIN vault,
                 NEW k \in DOMAIN vault[a].tar, NEW l \in DOMAIN vault[b].tar,
                 vault[a].tar[k].file = vault[b].tar[l].file
          PROVE  a = b /\ k = l
      BY <1>3, <1>4, <2>1 DEF TaskInv, OneOwner, OneArchive
    <2>2. ASSUME NEW q \in archives, NEW r \in archives,
                 NEW k \in DOMAIN q.files, NEW l \in DOMAIN r.files,
                 q.files[k].file = r.files[l].file
          PROVE  q = r /\ k = l
      BY <1>3, <1>4, <2>2 DEF TaskInv, OneOwner, OneRow
    <2> QED
      BY <2>1, <2>2 DEF ArchivedAtMostOnce
  <1> QED
    BY <1>2, <1>5

(* archiveFilesTask, for every number of workers and all failures: what a  *)
(* task has made is in one hand at a time, and vault and catalog hold      *)
(* whole batches.                                                          *)
THEOREM TaskInvariant == Spec => []TaskInv
PROOF
  <1>1. Init => TaskInv
    BY TaskInvInit, CrawlerAssumption, TaskAssumption
  <1>2. TaskInv /\ [Next]_vars => TaskInv'
    BY TaskNextInv, CrawlerAssumption
  <1> QED
    BY <1>1, <1>2, PTL DEF Spec

(* The tasks' state keeps its types, whatever fails.                       *)
THEOREM TaskTypes == Spec => []TaskTypeOK
  BY TaskInvariant, TaskInvMeaning, PTL

(* For every number of workers, every tree and every combination of        *)
(* failures, a committed row with an archive id names an archive that      *)
(* Glacier holds and that contains exactly the files the row lists.        *)
THEOREM CatalogIsSound == Spec => []RecordedIsStored
  BY TaskInvariant, TaskInvMeaning, PTL

(* And no file is archived or listed twice.                                *)
THEOREM NothingArchivedTwice == Spec => []ArchivedAtMostOnce
  BY TaskInvariant, TaskInvMeaning, PTL
-----------------------------------------------------------------------------
LEMMA CommitAdds ==
  ASSUME NEW w \in Workers, Commit(w)
  PROVE  \E r : /\ r.task = st[w].task /\ r.archive_id = st[w].id
                /\ archives' = archives \cup {r}
PROOF
  <1> DEFINE r == [task |-> st[w].task, archive_id |-> st[w].id, vault |-> RowVault,
                   files |-> st[w].rows, bytesize |-> st[w].bytes,
                   counted |-> st[w].newtotal # NotCounted]
  <1>1. r.task = st[w].task /\ r.archive_id = st[w].id /\ archives' = archives \cup {r}
    BY DEF Commit
  <1> HIDE DEF r
  <1> QED
    BY <1>1

(* Steps of a worker leave the others where they are.                      *)
LEMMA OneMoves ==
  ASSUME TaskInv, NEW w \in Workers, WorkerStep(w) \/ WorkerFault(w)
  PROVE  st \in [Workers -> WorkerState] /\ \A v \in Workers \ {w} : st'[v] = st[v]
  BY DEF WorkerStep, WorkerFault, StartTask, CreateArchive, TarFile, FileRow, DryRollback,
     UploadStored, UploadReturnsZero, UploadRaises, UpdateStats, StatsFail, Commit,
     TaskRaises, TaskFails, Kill, Rollback, TaskInv, TaskTypeOK

(* What befalls a task stays on record.                                    *)
LEMMA MishapsGrow ==
  ASSUME NEW w \in Workers, WorkerStep(w) \/ WorkerFault(w)
  PROVE  mishaps \subseteq mishaps'
  BY DEF WorkerStep, WorkerFault, StartTask, CreateArchive, TarFile, FileRow, DryRollback,
     UploadStored, UploadReturnsZero, UploadRaises, UpdateStats, StatsFail, Commit,
     TaskRaises, TaskFails, Kill, Befalls

(* An archive has its row, or its worker, who hands it over in Commit, or  *)
(* its task was killed, lost Glacier's reply or had its transaction fail.  *)
LEMMA StoredStep ==
  ASSUME TaskInv, StoredIsRecorded, [Next]_vars
  PROVE  StoredIsRecorded'
PROOF
  <1> DEFINE Has(w, a) == Past(w) /\ st[w].id = a
             HasNow(w, a) == st'[w].pc \in {"uploaded", "counted"} /\ st'[w].id = a
             Lost(i) == \E fault \in {"kill", "reply", "database"} : <<i, fault>> \in mishaps
             LostNow(i) == \E fault \in {"kill", "reply", "database"} : <<i, fault>> \in mishaps'
  <1>0. \A a \in DOMAIN vault :
          \/ \E r \in archives : r.archive_id = a
          \/ \E w \in Workers : Has(w, a)
          \/ Lost(vault[a].task)
    BY DEF StoredIsRecorded, Past
  <1>1. CASE UNCHANGED <<vault, archives, st, mishaps>>
    BY <1>1 DEF StoredIsRecorded
  <1>2. ASSUME NEW w \in Workers, WorkerStep(w) \/ WorkerFault(w)
        PROVE  StoredIsRecorded'
    <2>0. st \in [Workers -> WorkerState] /\ \A v \in Workers \ {w} : st'[v] = st[v]
      BY <1>2, OneMoves
    <2>1. mishaps \subseteq mishaps'
      BY <1>2, MishapsGrow
    <2>2. \A v \in Workers \ {w}, a \in DOMAIN vault : Has(v, a) => HasNow(v, a)
      BY <2>0 DEF Past
    <2>3. \A i : Lost(i) => LostNow(i)
      BY <2>1
    <2>4. ASSUME UNCHANGED archives,
                 UNCHANGED vault \/ (Store(w) /\ At(w, "filed") /\ ~opts.dry
                                      /\ (LostNow(st[w].task) \/ HasNow(w, Len(vault) + 1))),
                 \A a \in DOMAIN vault : Has(w, a) => HasNow(w, a) \/ LostNow(vault[a].task)
          PROVE  StoredIsRecorded'
      <3> DEFINE n == Len(vault) + 1
      <3>1. \A a \in DOMAIN vault : /\ vault'[a] = vault[a]
                                    /\ \/ \E r \in archives' : r.archive_id = a
                                       \/ \E v \in Workers : HasNow(v, a)
                                       \/ LostNow(vault[a].task)
        <4>1. \A a \in DOMAIN vault : vault'[a] = vault[a]
          BY <2>4, StoreAppends, TarAtHand
        <4> HIDE DEF Has, HasNow, Lost, LostNow
        <4> QED
          BY <1>0, <2>2, <2>3, <2>4, <4>1
      <3>2. CASE UNCHANGED vault
        BY <3>1, <3>2 DEF StoredIsRecorded, Past
      <3>3. CASE Store(w) /\ At(w, "filed") /\ ~opts.dry
                   /\ (LostNow(st[w].task) \/ HasNow(w, n))
        <4>1. /\ DOMAIN vault' = DOMAIN vault \cup {n}
              /\ vault'[n].task = st[w].task
          <5>1. /\ DOMAIN vault' = DOMAIN vault \cup {n}
                /\ vault'[n] = [task |-> st[w].task, vault |-> UploadVault,
                                tar |-> tars[st[w].task]]
            BY <3>3, StoreAppends, TarAtHand
          <5> HIDE DEF n
          <5> QED
            BY <5>1
        <4> HIDE DEF n
        <4>2. ASSUME NEW a \in DOMAIN vault'
              PROVE  \/ \E r \in archives' : r.archive_id = a
                     \/ \E v \in Workers : HasNow(v, a)
                     \/ LostNow(vault'[a].task)
          <5>1. CASE a \in DOMAIN vault
            BY <3>1, <5>1
          <5>2. CASE a = n
            BY <3>3, <4>1, <5>2
          <5> QED
            BY <4>1, <5>1, <5>2
        <4> QED
          BY <4>2 DEF StoredIsRecorded, Past
      <3> QED
        BY <2>4, <3>2, <3>3
    <2>5. CASE StartTask(w) \/ CreateArchive(w) \/ TarFile(w) \/ FileRow(w) \/ DryRollback(w)
               \/ TaskRaises(w)
      <3>1. ~Past(w) /\ UNCHANGED <<vault, archives>>
        BY <2>5 DEF StartTask, CreateArchive, TarFile, FileRow, DryRollback, TaskRaises, At, Past
      <3>2. \A a : ~Has(w, a)
        BY <3>1
      <3> QED
        BY <2>4, <3>1, <3>2
    <2>6. CASE UploadReturnsZero(w) \/ UploadRaises(w)
      <3>1. /\ ~Past(w) /\ UNCHANGED archives /\ At(w, "filed") /\ ~opts.dry
            /\ UNCHANGED vault \/ (Store(w) /\ Befalls(w, "reply"))
        BY <2>6 DEF UploadReturnsZero, UploadRaises, At, Past
      <3>2. \A a : ~Has(w, a)
        BY <3>1
      <3>3. Befalls(w, "reply") => LostNow(st[w].task)
        BY DEF Befalls
      <3> QED
        BY <2>4, <3>1, <3>2, <3>3
    <2>7. CASE UploadStored(w)
      <3> DEFINE n == Len(vault) + 1
      <3>1. ~Past(w) /\ UNCHANGED archives /\ At(w, "filed") /\ ~opts.dry /\ Store(w)
        BY <2>7 DEF UploadStored, At, Past
      <3>2. st' = [st EXCEPT ![w].pc = "uploaded", ![w].id = n]
        BY <2>7 DEF UploadStored
      <3> HIDE DEF n
      <3>3. st'[w].pc = "uploaded" /\ st'[w].id = n
        BY <2>0, <3>2 DEF WorkerState
      <3>4. HasNow(w, n) /\ \A a : ~Has(w, a)
        BY <3>1, <3>3 DEF Past
      <3> QED
        BY <2>4, <3>1, <3>4 DEF n
    <2>8. CASE UpdateStats(w) \/ StatsFail(w)
      <3>1. st'[w].pc = "counted" /\ st'[w].id = st[w].id /\ UNCHANGED <<vault, archives>>
        BY <2>0, <2>8 DEF UpdateStats, StatsFail, WorkerState
      <3>2. \A a : Has(w, a) => HasNow(w, a)
        BY <3>1 DEF Past
      <3> QED
        BY <2>4, <3>1, <3>2
    <2>9. CASE TaskFails(w) \/ Kill(w)
      <3>1. PICK fault \in {"database", "tar", "kill"} :
              /\ Befalls(w, fault) /\ UNCHANGED archives
              /\ UNCHANGED vault \/ (Store(w) /\ At(w, "filed") /\ ~opts.dry /\ fault = "kill")
              /\ fault = "tar" => ~Past(w)
        BY <2>9 DEF TaskFails, FailsAt, Kill, Past
      <3>2. \A a : Has(w, a) => vault[a].task = st[w].task \/ a = 0
        BY DEF TaskInv, Hand, Past
      <3>3. \A a \in DOMAIN vault : a # 0
        BY SMT DEF TaskInv, TaskTypeOK
      <3>4. fault # "tar" => LostNow(st[w].task)
        BY <3>1 DEF Befalls
      <3>5. \A a \in DOMAIN vault : Has(w, a) => LostNow(vault[a].task)
        <4> HIDE DEF Lost, LostNow
        <4> QED
          BY <3>1, <3>2, <3>3, <3>4
      <3> HIDE DEF Has, HasNow, Lost, LostNow
      <3> QED
        BY <2>4, <3>1, <3>4, <3>5
    <2>10. CASE Commit(w)
      <3>1. PICK r : r.archive_id = st[w].id /\ archives' = archives \cup {r}
        BY <2>10, CommitAdds
      <3>2. UNCHANGED <<vault, mishaps>>
        BY <2>10 DEF Commit
      <3> QED
        BY <1>0, <2>2, <3>1, <3>2 DEF StoredIsRecorded, Past
    <2> QED
      BY <1>2, <2>5, <2>6, <2>7, <2>8, <2>9, <2>10 DEF WorkerStep, WorkerFault
  <1>3. CASE \/ Crawling
             \/ \E f \in Files : (FileChanges(f) \/ FileVanishes(f))
                                   /\ UNCHANGED <<crawlVars, taskVars>>
             \/ UNCHANGED vars
    BY <1>1, <1>3 DEF Crawling, taskVars, vars
  <1> QED
    BY <1>2, <1>3 DEF Next

(* For every number of workers and every combination of failures, an       *)
(* archive is in a committed row, or its worker still has the id, or its   *)
(* own task was killed, lost Glacier's reply or had its transaction fail.  *)
THEOREM EveryArchiveIsRecorded == Spec => []StoredIsRecorded
PROOF
  <1>1. Init => StoredIsRecorded
    BY SMT DEF Init, TaskInit, StoredIsRecorded
  <1>2. TaskInv /\ StoredIsRecorded /\ [Next]_vars => StoredIsRecorded'
    BY StoredStep
  <1> QED
    BY <1>1, <1>2, TaskInvariant, PTL DEF Spec
-----------------------------------------------------------------------------
(* Nothing is lost on the way.  Whatever happens to the files, a file that *)
(* the walk has left behind it and that still exists is in a batch.        *)
LEMMA AllDueStep ==
  ASSUME CrawlInv, AllDue, CrawlStep, UNCHANGED size
  PROVE  AllDue'
PROOF
  <1>1. sent \in Seq(Job) /\ jobarray \in Job
    BY DEF CrawlInv, CrawlTypeOK
  <1> SUFFICES ASSUME cpc' # "failed", NEW g \in Files, Due(g)' PROVE InSent(g)' \/ InHeld(g)'
    BY DEF AllDue
  <1>2. g \in Archivable /\ g \notin todo' /\ size[g] # Gone /\ size'[g] = size[g]
    BY DEF Due, Archivable, Selected
  <1>3. InSent(g) => InSent(g)'
    BY SentGrows DEF InSent
  <1>4. CASE g \in todo
    <2>1. PICK f \in Files : AddToBatch(f) \/ StartNextBatch(f) \/ SkipFile(f)
      BY <1>2, <1>4 DEF CrawlStep, FinishWalk, RecordTotal, CrawlFails
    <2>2. g = f /\ ~SkipFile(f)
      BY <1>2, <1>4, <2>1 DEF AddToBatch, StartNextBatch, SkipFile, Visit, Archivable
    <2>3. CASE AddToBatch(f)
      <3>1. jobarray' = Append(jobarray, g) /\ cpc' = "walking"
        BY <2>2, <2>3 DEF AddToBatch, Visit
      <3>2. Len(jobarray) + 1 \in DOMAIN jobarray' /\ jobarray'[Len(jobarray) + 1] = g
        BY <1>1, <3>1, SMT DEF Job
      <3> QED
        BY <3>1, <3>2 DEF InHeld
    <2>4. CASE StartNextBatch(f)
      <3>1. jobarray' = <<g>> /\ cpc' = "walking"
        BY <2>2, <2>4 DEF StartNextBatch, Visit
      <3> QED
        BY <3>1, SMT DEF InHeld
    <2> QED
      BY <2>1, <2>2, <2>3, <2>4
  <1>5. CASE g \notin todo
    <2>1. cpc # "failed"
      BY DEF CrawlStep, AddToBatch, StartNextBatch, Visit, SkipFile, FinishWalk, RecordTotal,
         CrawlFails
    <2>2. InSent(g) \/ InHeld(g)
      BY <1>2, <1>5, <2>1 DEF AllDue, Due
    <2>3. CASE InHeld(g) /\ \E f \in Files : AddToBatch(f)
      <3>1. PICK f \in Files : jobarray' = Append(jobarray, f)
        BY <2>3 DEF AddToBatch
      <3>2. \A l \in DOMAIN jobarray : l \in DOMAIN jobarray' /\ jobarray'[l] = jobarray[l]
        BY <1>1, <3>1, SMT DEF Job
      <3>3. cpc' = "walking"
        BY <2>3 DEF AddToBatch, Visit
      <3> QED
        BY <2>3, <3>2, <3>3 DEF InHeld
    <2>4. CASE InHeld(g) /\ sent' = Append(sent, jobarray)
      BY <1>1, <2>4, InSentAppend DEF InHeld
    <2>5. CASE InHeld(g) /\ ~(sent' = Append(sent, jobarray)) /\ ~\E f \in Files : AddToBatch(f)
      <3>1. (\E f \in Files : SkipFile(f)) \/ (FinishWalk /\ jobarray = <<>>) \/ RecordTotal
        BY <2>5 DEF CrawlStep, StartNextBatch, FinishWalk, CrawlFails
      <3>2. UNCHANGED <<jobarray, cpc>>
        BY <2>5, <3>1, SMT DEF InHeld, SkipFile, RecordTotal
      <3> QED
        BY <2>5, <3>2 DEF InHeld
    <2> QED
      BY <1>3, <2>2, <2>3, <2>4, <2>5
  <1> QED
    BY <1>4, <1>5

(* A task that has begun has its whole tar in TEMP_DIR, or its archive in  *)
(* the catalog, or a worker who has not made the one or still has the      *)
(* other to record, or has been hit.                                       *)
Traced(i) ==
  \/ Hit(i)
  \/ i \in DOMAIN tars /\ Whole(tars[i], i)
  \/ \E r \in archives : r.task = i /\ r.archive_id # 0
  \/ \E w \in Workers : /\ st[w].task = i
                        /\ \/ st[w].pc \in {"started", "tarring"}
                           \/ Past(w) /\ st[w].id # 0

AllTraced == opts.tags /\ ~opts.dry => \A i \in started : Traced(i)

LEMMA TracedStep ==
  ASSUME TaskInv, TaskInv', AllTraced, NEW w \in Workers, WorkerStep(w) \/ WorkerFault(w),
         UNCHANGED crawlerVars
  PROVE  AllTraced'
PROOF
  <1> DEFINE Has(v, i) == /\ st[v].task = i
                          /\ \/ st[v].pc \in {"started", "tarring"}
                             \/ Past(v) /\ st[v].id # 0
             Left(i) == i \in DOMAIN tars /\ Whole(tars[i], i)
             Listed(i) == \E r \in archives : r.task = i /\ r.archive_id # 0
  <1>0. /\ UNCHANGED <<opts, sent, size>>
        /\ st \in [Workers -> WorkerState] /\ \A v \in Workers \ {w} : st'[v] = st[v]
        /\ archives \subseteq archives' /\ mishaps \subseteq mishaps'
    <2>1. UNCHANGED opts /\ archives \subseteq archives'
      BY DEF WorkerStep, WorkerFault, StartTask, CreateArchive, TarFile, FileRow, DryRollback,
         UploadStored, UploadReturnsZero, UploadRaises, UpdateStats, StatsFail, Commit,
         TaskRaises, TaskFails, Kill
    <2> QED
      BY <2>1, OneMoves, MishapsGrow DEF crawlerVars, crawlVars
  <1> SUFFICES ASSUME opts.tags, ~opts.dry, NEW i \in started' PROVE Traced(i)'
    BY <1>0 DEF AllTraced
  <1>1. \A v \in Workers \ {w} : Has(v, i) => Has(v, i)'
    BY <1>0 DEF Past
  <1>2. i \in started => Hit(i) \/ Left(i) \/ Listed(i) \/ \E v \in Workers : Has(v, i)
    BY DEF AllTraced, Traced
  <1>3. Hit(i) => Hit(i)'
    BY <1>0 DEF Hit
  <1>4. Listed(i) => Listed(i)'
    BY <1>0
  <1>5. Hit(i)' \/ Left(i)' \/ Listed(i)' \/ (\E v \in Workers : Has(v, i)') => Traced(i)'
    BY DEF Traced, Past
  <1>6. ASSUME i \in started,
               Left(i) => Left(i)' \/ Has(w, i)',
               Has(w, i) => Left(i)' \/ Has(w, i)' \/ Hit(i)' \/ Listed(i)'
        PROVE  Traced(i)'
    <2> HIDE DEF Has, Left, Listed
    <2> QED
      BY <1>1, <1>2, <1>3, <1>4, <1>5, <1>6
  <1>7. UNCHANGED tars => (Left(i) => Left(i)')
    BY <1>0 DEF Whole
  <1>8. CASE StartTask(w)
    <2>1. ~Has(w, i) /\ UNCHANGED tars
      BY <1>8 DEF StartTask, At, Past
    <2>2. CASE i \in started
      BY <2>1, <2>2, <1>6, <1>7
    <2>3. CASE i \notin started
      <3>1. st' = [st EXCEPT ![w] = [Idle EXCEPT !.pc = "started", !.task = i]]
        BY <1>8, <2>3 DEF StartTask
      <3>2. st'[w].pc = "started" /\ st'[w].task = i
        BY <1>0, <3>1 DEF Idle
      <3> QED
        BY <3>2, <1>5
    <2> QED
      BY <2>2, <2>3
  <1>9. CASE CreateArchive(w) \/ TarFile(w)
    <2>1. /\ i \in started /\ st[w].task \in started
          /\ st[w].pc \in {"started", "tarring"}
      BY <1>9 DEF CreateArchive, TarFile, At, TaskInv, Hand
    <2>2. st'[w].task = st[w].task /\ st'[w].pc \in {"tarring", "filing"}
      BY <1>0, <1>9, <2>1 DEF CreateArchive, TarFile, At, WorkerState
    <2>3. CASE i = st[w].task
      <3>1. st'[w].pc = "filing" => Left(i)'
        BY <1>0, <2>2, <2>3 DEF TaskInv, Hand
      <3>2. st'[w].pc = "tarring" => Has(w, i)'
        BY <2>2, <2>3
      <3> QED
        BY <1>5, <2>2, <3>1, <3>2
    <2>4. CASE i # st[w].task
      <3>1. i \in DOMAIN tars => i \in DOMAIN tars' /\ tars'[i] = tars[i]
        BY <1>9, <2>4 DEF CreateArchive, TarFile, OpenTar
      <3>2. Left(i) => Left(i)'
        BY <1>0, <3>1 DEF Whole
      <3> QED
        BY <1>6, <2>1, <2>4, <3>2
    <2> QED
      BY <2>3, <2>4
  <1>10. CASE FileRow(w) \/ DryRollback(w) \/ UploadReturnsZero(w) \/ UploadRaises(w)
    <2>1. i \in started /\ UNCHANGED tars /\ ~Has(w, i)
      BY <1>10 DEF FileRow, DryRollback, UploadReturnsZero, UploadRaises, At, Past
    <2> QED
      BY <2>1, <1>6, <1>7
  <1>11. CASE UploadStored(w)
    <2> DEFINE n == Len(vault) + 1
    <2>0. n # 0
      BY <1>11, StoreAppends, TarAtHand DEF UploadStored
    <2>1. /\ i \in started /\ ~Has(w, i)
          /\ tars' = tars \/ tars' = UnlinkTar(st[w].task)
          /\ st' = [st EXCEPT ![w].pc = "uploaded", ![w].id = n]
      BY <1>11 DEF UploadStored, At, Past
    <2> HIDE DEF n
    <2>2. st'[w].pc = "uploaded" /\ st'[w].id = n /\ st'[w].task = st[w].task
      BY <1>0, <2>1 DEF WorkerState
    <2>3. i = st[w].task => Has(w, i)'
      BY <2>0, <2>2 DEF Past
    <2>4. i # st[w].task => (Left(i) => Left(i)')
      <3>1. i # st[w].task /\ i \in DOMAIN tars => i \in DOMAIN tars' /\ tars'[i] = tars[i]
        BY <2>1 DEF UnlinkTar
      <3> QED
        BY <1>0, <3>1 DEF Whole
    <2> QED
      BY <2>1, <2>3, <2>4, <1>6
  <1>12. CASE UpdateStats(w) \/ StatsFail(w)
    <2>1. /\ i \in started /\ UNCHANGED tars
          /\ st'[w].pc = "counted" /\ st'[w].id = st[w].id /\ st'[w].task = st[w].task
          /\ st[w].pc \notin {"started", "tarring"}
      BY <1>0, <1>12 DEF UpdateStats, StatsFail, WorkerState, At
    <2>2. Has(w, i) => Has(w, i)'
      BY <2>1 DEF Past
    <2> QED
      BY <2>1, <2>2, <1>6, <1>7
  <1>13. CASE Commit(w)
    <2>1. PICK r : r.task = st[w].task /\ r.archive_id = st[w].id /\ archives' = archives \cup {r}
      BY <1>13, CommitAdds
    <2>2. i \in started /\ UNCHANGED tars /\ st[w].pc \notin {"started", "tarring"}
      BY <1>13 DEF Commit, At
    <2>3. Has(w, i) => Listed(i)'
      BY <2>1, <2>2
    <2> QED
      BY <2>2, <2>3, <1>6, <1>7
  <1>14. CASE TaskRaises(w)
    <2>1. /\ i \in started /\ UNCHANGED tars
          /\ st[w].pc \in {"tarring", "filing"} /\ size[Current(w)] = Gone
      BY <1>14 DEF TaskRaises
    <2>2. Has(w, i) => Hit(i)'
      <3>1. st[w].task \in DOMAIN sent /\ st[w].pos \in 1..Len(sent[st[w].task])
        BY <2>1 DEF TaskInv, TaskTypeOK, Hand
      <3>2. sent \in Seq(Seq(Files))
        BY DEF TaskInv, CrawlInv, CrawlTypeOK, Job
      <3>3. sent[st[w].task] \in Seq(Files)
        BY <3>1, <3>2, SMT
      <3>4. Current(w) \in Range(sent[st[w].task])
        BY <3>1, <3>3, SMT DEF Current, JobOf, Range
      <3> QED
        BY <1>0, <2>1, <3>4 DEF Hit
    <2> QED
      BY <2>1, <2>2, <1>6, <1>7
  <1>15. CASE TaskFails(w) \/ Kill(w)
    <2>1. /\ i \in started /\ UNCHANGED tars
          /\ \E fault \in {"kill", "database", "tar"} : Befalls(w, fault)
      BY <1>15 DEF TaskFails, Kill
    <2>2. Has(w, i) => Hit(i)'
      BY <2>1 DEF Befalls, Hit
    <2> QED
      BY <2>1, <2>2, <1>6, <1>7
  <1> QED
    BY <1>8, <1>9, <1>10, <1>11, <1>12, <1>13, <1>14, <1>15 DEF WorkerStep, WorkerFault

(* A crawl that is done has no file left to visit.                         *)
WalkedOut == cpc \in {"walked", "done"} => todo = {}

LostInv == WalkedOut /\ AllDue /\ AllTraced

LEMMA WalkedOutStep ==
  ASSUME WalkedOut, CrawlStep
  PROVE  WalkedOut'
  BY DEF WalkedOut, CrawlStep, AddToBatch, StartNextBatch, Visit, SkipFile, FinishWalk,
     RecordTotal, CrawlFails

LEMMA LostStep ==
  ASSUME CrawlerAssumption, TaskInv, LostInv, [Next]_vars
  PROVE  LostInv'
PROOF
  <1> USE DEF LostInv
  <1>1. CASE Crawling
    <2>1. CrawlStep /\ UNCHANGED size /\ UNCHANGED taskVars
      BY <1>1 DEF Crawling, CrawlStep
    <2>2. AllTraced'
      <3>1. /\ \A i \in started : i \in DOMAIN sent' /\ sent'[i] = sent[i]
            /\ UNCHANGED <<size, opts, started, st, tars, archives, mishaps>>
        BY <2>1, SentGrows DEF TaskInv, TaskTypeOK, taskVars
      <3>2. \A i \in started : Traced(i) => Traced(i)'
        BY <3>1, Zenon DEF Traced, Hit, Whole, Past
      <3> QED
        BY <3>1, <3>2 DEF AllTraced
    <2> QED
      BY <2>1, <2>2, AllDueStep, WalkedOutStep DEF TaskInv
  <1>2. ASSUME NEW w \in Workers, WorkerStep(w) \/ WorkerFault(w),
               UNCHANGED crawlerVars
        PROVE  LostInv'
    <2>1. AllDue'
      BY <1>2 DEF crawlerVars, crawlVars, AllDue, Due, InSent, InHeld, Archivable, Selected
    <2>2. WalkedOut'
      BY <1>2 DEF crawlerVars, crawlVars, WalkedOut
    <2>3. TaskInv'
      BY <1>2, WorkerInv
    <2> QED
      BY <1>2, <2>1, <2>2, <2>3, TracedStep
  <1>3. ASSUME NEW f \in Files, FileChanges(f) \/ FileVanishes(f),
               UNCHANGED <<crawlVars, taskVars>>
        PROVE  LostInv'
    <2>1. \A g \in Files : size'[g] # Gone => size[g] # Gone
      BY <1>3 DEF FileChanges, FileVanishes, TaskInv, CrawlInv, CrawlTypeOK
    <2>2. AllDue'
      BY <1>3, <2>1 DEF crawlVars, AllDue, Due, InSent, InHeld, Archivable, Selected
    <2>3. AllTraced'
      <3>1. \A g \in Files : size[g] = Gone => size'[g] = Gone
        BY <1>3 DEF FileChanges, FileVanishes, TaskInv, CrawlInv, CrawlTypeOK
      <3>2. \A i \in started : Range(sent[i]) \subseteq Files
        <4>1. sent \in Seq(Seq(Files)) /\ started \subseteq DOMAIN sent
          BY DEF TaskInv, CrawlInv, CrawlTypeOK, Job, TaskTypeOK
        <4>2. \A i \in started : sent[i] \in Seq(Files)
          BY <4>1, SMT
        <4> QED
          BY <4>2, SMT DEF Range
      <3>3. UNCHANGED <<sent, opts, started, st, tars, archives, mishaps>>
        BY <1>3 DEF crawlVars, taskVars
      <3>4. \A i \in started : Traced(i) => Traced(i)'
        <4> TAKE i \in started
        <4>1. Hit(i) => Hit(i)'
          BY <3>1, <3>2, <3>3 DEF Hit
        <4> QED
          BY <3>3, <4>1, Zenon DEF Traced, Whole, Past
      <3> QED
        BY <3>3, <3>4 DEF AllTraced
    <2>4. WalkedOut'
      BY <1>3 DEF crawlVars, WalkedOut
    <2> QED
      BY <2>2, <2>3, <2>4
  <1>4. CASE UNCHANGED vars
    BY <1>4 DEF vars, crawlerVars, crawlVars, taskVars, AllDue, Due, InSent, InHeld,
       Archivable, Selected, AllTraced, Traced, Hit, Whole, WalkedOut, Past
  <1> QED
    BY <1>1, <1>2, <1>3, <1>4 DEF Next

LEMMA LostMeaning == TaskInv /\ LostInv => ArchivedOrLeftBehind
PROOF
  <1> SUFFICES ASSUME TaskInv, LostInv, Quiet, cpc = "done", opts.tags, ~opts.dry,
                      NEW f \in Archivable, size[f] # Gone
               PROVE  \/ \E r \in archives : r.archive_id # 0 /\ f \in FilesOf(r.files)
                      \/ \E i \in DOMAIN tars : f \in FilesOf(tars[i])
                      \/ \E i \in DOMAIN sent : f \in Range(sent[i]) /\ Hit(i)
    BY DEF ArchivedOrLeftBehind
  <1>1. InSent(f)
    <2>1. Due(f) /\ f \in Files
      BY DEF Due, Archivable, LostInv, WalkedOut
    <2> QED
      BY <2>1 DEF LostInv, AllDue, InHeld
  <1>2. PICK i \in DOMAIN sent : \E k \in DOMAIN sent[i] : sent[i][k] = f
    BY <1>1 DEF InSent
  <1>3. PICK k \in DOMAIN sent[i] : sent[i][k] = f
    BY <1>2
  <1>4. f \in Range(sent[i]) /\ i \in started /\ sent[i] \in Seq(Files)
    <2>1. f \in Range(sent[i]) /\ i \in started
      BY <1>2, <1>3 DEF Range, Quiet
    <2> QED
      BY <2>1, SMT DEF TaskInv, CrawlInv, CrawlTypeOK, Job
  <1>5. ASSUME NEW d \in Seq(Entry), Whole(d, i)
        PROVE  f \in FilesOf(d)
    <2>1. k \in DOMAIN d /\ d[k].file = f
      BY <1>3, <1>4, <1>5, SMT DEF Whole, Lists
    <2> QED
      BY <2>1 DEF FilesOf
  <1>6. \/ Hit(i)
        \/ i \in DOMAIN tars /\ Whole(tars[i], i)
        \/ \E r \in archives : r.task = i /\ r.archive_id # 0
    BY <1>4 DEF LostInv, AllTraced, Traced, Quiet, At, Past
  <1>7. i \in DOMAIN tars => tars[i] \in Seq(Entry)
    BY DEF TaskInv, TaskTypeOK
  <1>8. \A r \in archives : r.task = i => r.files \in Seq(Entry) /\ Whole(r.files, i)
    BY DEF TaskInv, TaskTypeOK, InCatalog
  <1> QED
    BY <1>4, <1>5, <1>6, <1>7, <1>8

(* For every number of workers and every combination of failures, a crawl  *)
(* that is done and whose tasks have ended has every selected file that    *)
(* still exists in an archive the catalog lists or in a tar in TEMP_DIR,   *)
(* unless its own task was killed, lost its tar or its transaction, or met *)
(* a vanished file.                                                        *)
THEOREM NoFileIsLost == Spec => []ArchivedOrLeftBehind
PROOF
  <1>1. Init => LostInv
    BY WalkInvInit DEF Init, TaskInit, CrawlerInit, CrawlInit, LostInv, WalkedOut, AllTraced
  <1>2. TaskInv /\ LostInv /\ [Next]_vars => LostInv'
    BY LostStep, CrawlerAssumption
  <1>3. TaskInv /\ LostInv => ArchivedOrLeftBehind
    BY LostMeaning
  <1> QED
    BY <1>1, <1>2, <1>3, TaskInvariant, PTL DEF Spec
-----------------------------------------------------------------------------
(* The sums that BytesUploadedExact compares are totals (SumTheorems), so  *)
(* they grow by the row, or the entry, that is added.                      *)
RowBytes(S) == MapThenSumSet(LAMBDA r : r.bytesize, S)

LEMMA RowBytesAdd ==
  ASSUME NEW S, IsFiniteSet(S), \A q \in S : q.bytesize \in Nat
  PROVE  /\ RowBytes(S) \in Nat
         /\ S = {} => RowBytes(S) = 0
         /\ \A r : r \notin S /\ r.bytesize \in Nat =>
              RowBytes(S \cup {r}) = RowBytes(S) + r.bytesize
PROOF
  <1> DEFINE weight(R) == [q \in R |-> q.bytesize]
             Adds(R, it) ==
               it = [s \in SUBSET R |-> IF s = {} THEN 0
                       ELSE Picked(s).bytesize + it[s \ {Picked(s)}]]
  <1>1. ASSUME NEW R, IsFiniteSet(R)
        PROVE  RowBytes(R) = Total(weight(R), R)
    <2>1. \A s \in SUBSET R : s # {} => weight(R)[Picked(s)] = Picked(s).bytesize
      BY PickedIn
    <2>2. \A it : AddedUp(weight(R), SUBSET R, it) <=> Adds(R, it)
      BY <2>1 DEF AddedUp
    <2>3. PICK jt : AddedUp(weight(R), SUBSET R, jt)
      BY <1>1, AddingUpExists
    <2> DEFINE it == CHOOSE it : Adds(R, it)
    <2>4. Adds(R, it)
      <3> HIDE DEF Adds, weight
      <3> QED
        BY <2>2, <2>3
    <2>5. RowBytes(R) = it[R]
      BY DEF RowBytes, MapThenSumSet, MapThenFoldSet, Picked
    <2> HIDE DEF it, Adds, weight
    <2>6. it[R] = Total(weight(R), R)
      BY <1>1, <2>2, <2>4, TotalIs
    <2> QED
      BY <2>5, <2>6
  <1>2. \A q \in S : weight(S)[q] = q.bytesize
    OBVIOUS
  <1>3. Total(weight(S), S) \in Nat
    BY <1>2, TotalType
  <1>4. S = {} => Total(weight(S), S) = 0
    BY TotalStep
  <1>5. ASSUME NEW r, r \notin S, r.bytesize \in Nat
        PROVE  RowBytes(S \cup {r}) = RowBytes(S) + r.bytesize
    <2> DEFINE u == weight(S \cup {r})
    <2>1. IsFiniteSet(S \cup {r})
      BY FS_AddElement
    <2>2. \A q \in S : u[q] = weight(S)[q] /\ u[q] \in Nat
      OBVIOUS
    <2>3. u[r] = r.bytesize
      OBVIOUS
    <2> HIDE DEF u, weight
    <2>4. Total(u, S) = Total(weight(S), S)
      BY <2>2, TotalSame
    <2>5. Total(u, S \cup {r}) = Total(u, S) + u[r]
      BY <1>5, <2>2, <2>3, TotalWith
    <2>6. RowBytes(S \cup {r}) = Total(u, S \cup {r})
      BY <1>1, <2>1 DEF u
    <2>7. RowBytes(S) = Total(weight(S), S)
      BY <1>1
    <2> QED
      BY <2>3, <2>4, <2>5, <2>6, <2>7
  <1>6. RowBytes(S) = Total(weight(S), S)
    BY <1>1
  <1> QED
    BY <1>3, <1>4, <1>5, <1>6

LEMMA SizeAppend ==
  ASSUME NEW rows \in Seq(Entry)
  PROVE  /\ Size(rows) \in Nat
         /\ rows = <<>> => Size(rows) = 0
         /\ \A e \in Entry : Size(Append(rows, e)) = Size(rows) + e.bytes
PROOF
  <1> DEFINE weight(d) == [k \in DOMAIN d |-> d[k].bytes]
             Adds(d, it) ==
               it = [s \in SUBSET (DOMAIN d) |-> IF s = {} THEN 0
                       ELSE d[Picked(s)].bytes + it[s \ {Picked(s)}]]
  <1>1. ASSUME NEW d, IsFiniteSet(DOMAIN d)
        PROVE  Size(d) = Total(weight(d), DOMAIN d)
    <2>1. \A s \in SUBSET (DOMAIN d) : s # {} => weight(d)[Picked(s)] = d[Picked(s)].bytes
      BY PickedIn
    <2>2. \A it : AddedUp(weight(d), SUBSET (DOMAIN d), it) <=> Adds(d, it)
      BY <2>1 DEF AddedUp
    <2>3. PICK jt : AddedUp(weight(d), SUBSET (DOMAIN d), jt)
      BY <1>1, AddingUpExists
    <2> DEFINE it == CHOOSE it : Adds(d, it)
    <2>4. Adds(d, it)
      <3> HIDE DEF Adds, weight
      <3> QED
        BY <2>2, <2>3
    <2>5. Size(d) = it[DOMAIN d]
      BY DEF Size, FoldFunction, FoldFunctionOnSet, MapThenFoldSet, Picked
    <2> HIDE DEF it, Adds, weight
    <2>6. it[DOMAIN d] = Total(weight(d), DOMAIN d)
      BY <1>1, <2>2, <2>4, TotalIs
    <2> QED
      BY <2>5, <2>6
  <1>2. /\ DOMAIN rows = 1..Len(rows) /\ Len(rows) \in Nat
        /\ \A k \in DOMAIN rows : rows[k].bytes \in Nat
    <2>1. /\ DOMAIN rows = 1..Len(rows) /\ Len(rows) \in Nat
          /\ \A k \in DOMAIN rows : rows[k] \in Entry
      OBVIOUS
    <2> QED
      BY <2>1 DEF Entry
  <1>3. IsFiniteSet(DOMAIN rows)
    BY <1>2, FS_Interval
  <1>4. Size(rows) = Total(weight(rows), DOMAIN rows)
    BY <1>1, <1>3
  <1>5. Total(weight(rows), DOMAIN rows) \in Nat
    BY <1>2, <1>3, TotalType
  <1>6. rows = <<>> => Total(weight(rows), DOMAIN rows) = 0
    <2>1. rows = <<>> => DOMAIN rows = {}
      BY <1>2
    <2> HIDE DEF weight
    <2> QED
      BY <1>3, <2>1, TotalStep
  <1>7. ASSUME NEW e \in Entry PROVE Size(Append(rows, e)) = Size(rows) + e.bytes
    <2> DEFINE d == Append(rows, e)
               n == Len(rows) + 1
               u == weight(d)
    <2>0. e.bytes \in Nat
      BY DEF Entry
    <2>1. /\ DOMAIN d = (DOMAIN rows) \cup {n} /\ n \notin DOMAIN rows
          /\ \A k \in DOMAIN rows : d[k] = rows[k]
          /\ d[n] = e /\ e.bytes \in Nat
      BY <1>2, <2>0, SMT
    <2> HIDE DEF d, n
    <2>2. IsFiniteSet(DOMAIN d)
      BY <1>3, <2>1, FS_AddElement
    <2>3. \A k \in DOMAIN rows : u[k] = weight(rows)[k] /\ u[k] \in Nat
      BY <1>2, <2>1
    <2>4. u[n] = e.bytes
      BY <2>1
    <2>5. Size(d) = Total(u, DOMAIN d)
      BY <1>1, <2>2
    <2> HIDE DEF u, weight
    <2>6. Total(u, DOMAIN rows) = Total(weight(rows), DOMAIN rows)
      BY <1>3, <2>3, TotalSame
    <2>7. Total(u, (DOMAIN rows) \cup {n}) = Total(u, DOMAIN rows) + u[n]
      BY <1>3, <2>1, <2>3, <2>4, TotalWith
    <2>8. Size(d) = Size(rows) + e.bytes
      BY <1>4, <2>1, <2>4, <2>5, <2>6, <2>7
    <2> QED
      BY <2>8 DEF d
  <1> QED
    BY <1>4, <1>5, <1>6, <1>7

Counts(w) == st[w].newtotal # NotCounted

(* A transaction that is going to write the statistics has the row's lock  *)
(* and read the committed value under it.                                  *)
CountInv ==
  /\ IsFiniteSet(archives)
  /\ \A w \in Workers : st[w].bytes = Size(st[w].rows)
  /\ \A w \in Workers : Counts(w) =>
       At(w, "counted") /\ rowLock = w /\ st[w].newtotal = bytesuploaded + st[w].bytes
  /\ bytesuploaded = RowBytes({r \in archives : r.counted})
  /\ \A r \in archives : r.bytesize = Size(r.files)

LEMMA NoEntries == Size(<<>>) = 0
PROOF
  <1>1. <<>> \in Seq(Entry)
    OBVIOUS
  <1> QED
    BY <1>1, SizeAppend

LEMMA IdleCounts == /\ Idle.bytes = 0 /\ Idle.rows = <<>> /\ Idle.newtotal = NotCounted
                    /\ Idle.pc = "idle"
  BY DEF Idle

(* A step that commits nothing keeps CountInv, if its worker's own part    *)
(* stays right and the lock is not taken from another.                     *)
LEMMA CountStay ==
  ASSUME CountInv, NEW w \in Workers, UNCHANGED <<archives, bytesuploaded>>,
         \A v \in Workers \ {w} : st'[v] = st[v] /\ (rowLock = v => rowLock' = v),
         st'[w].bytes = Size(st'[w].rows),
         Counts(w)' => /\ st'[w].pc = "counted" /\ rowLock' = w
                       /\ st'[w].newtotal = bytesuploaded + st'[w].bytes
  PROVE  CountInv'
PROOF
  <1>1. \A v \in Workers : (st[v].bytes = Size(st[v].rows))'
    BY DEF CountInv
  <1>2. \A v \in Workers : Counts(v)' =>
          At(v, "counted")' /\ rowLock' = v /\ (st[v].newtotal = bytesuploaded + st[v].bytes)'
    BY DEF CountInv, Counts, At
  <1> QED
    BY <1>1, <1>2 DEF CountInv

LEMMA RollbackCounts ==
  ASSUME TaskInv, CountInv, NEW w \in Workers, Rollback(w), UNCHANGED <<archives, bytesuploaded>>
  PROVE  CountInv'
PROOF
  <1>1. st'[w] = Idle /\ \A v \in Workers \ {w} : st'[v] = st[v]
    BY DEF Rollback, TaskInv, TaskTypeOK
  <1>2. \A v \in Workers \ {w} : rowLock = v => rowLock' = v
    BY DEF Rollback
  <1>3. st'[w].bytes = Size(st'[w].rows) /\ ~Counts(w)'
    BY <1>1, NoEntries, IdleCounts DEF Counts
  <1> QED
    BY <1>1, <1>2, <1>3, CountStay

LEMMA FileRowCounts ==
  ASSUME CrawlerAssumption, TaskInv, CountInv, NEW w \in Workers, FileRow(w),
         UNCHANGED crawlerVars
  PROVE  CountInv'
PROOF
  <1> DEFINE e == [file |-> Current(w), bytes |-> size[Current(w)]]
  <1>1. /\ st[w] \in WorkerState /\ st \in [Workers -> WorkerState]
        /\ st[w].task \in started /\ st[w].pos \in 1..Len(sent[st[w].task])
    BY DEF TaskInv, TaskTypeOK, Hand, FileRow, At
  <1>2. e \in Entry /\ e.bytes = size[Current(w)] /\ st[w].rows \in Seq(Entry)
    <2>1. st[w].pc = "filing" /\ size[Current(w)] # Gone
      BY DEF FileRow, At
    <2>2. e \in Entry
      BY <2>1, CurrentEntry
    <2> QED
      BY <1>1, <2>2 DEF WorkerState
  <1> HIDE DEF e
  <1>3. /\ st'[w].rows = Append(st[w].rows, e) /\ st'[w].bytes = st[w].bytes + e.bytes
        /\ st'[w].newtotal = st[w].newtotal
        /\ \A v \in Workers \ {w} : st'[v] = st[v]
    <2> DEFINE last == st[w].pos = Len(JobOf(w))
               pos == IF last THEN st[w].pos ELSE st[w].pos + 1
               pc == IF last THEN "filed" ELSE st[w].pc
    <2>1. st' = [st EXCEPT ![w] = [st[w] EXCEPT !.rows = Append(st[w].rows, e),
                   !.bytes = st[w].bytes + e.bytes, !.pos = pos, !.pc = pc]]
      BY <1>1, <1>2 DEF FileRow, e
    <2> HIDE DEF pos, pc
    <2> QED
      BY <1>1, <2>1 DEF WorkerState
  <1>4. st'[w].bytes = Size(st'[w].rows)
    BY <1>2, <1>3, SizeAppend DEF CountInv
  <1>5. ~Counts(w) /\ ~Counts(w)'
    BY <1>3 DEF CountInv, Counts, FileRow, At
  <1>6. UNCHANGED <<archives, bytesuploaded, rowLock>>
    BY DEF FileRow
  <1> QED
    BY <1>3, <1>4, <1>5, <1>6, CountStay

(* The other steps of a task touch neither its file rows nor their sum,    *)
(* and only the statistics make a worker count.                            *)
LEMMA StageCounts ==
  ASSUME TaskInv, CountInv, NEW w \in Workers,
         StartTask(w) \/ CreateArchive(w) \/ TarFile(w) \/ UploadStored(w)
           \/ UploadReturnsZero(w) \/ UpdateStats(w) \/ StatsFail(w)
  PROVE  CountInv'
PROOF
  <1>1. st \in [Workers -> WorkerState]
    BY DEF TaskInv, TaskTypeOK
  <1>2. /\ UNCHANGED <<archives, bytesuploaded>>
        /\ \A v \in Workers \ {w} : st'[v] = st[v]
    BY <1>1 DEF StartTask, CreateArchive, TarFile, UploadStored, UploadReturnsZero,
       UpdateStats, StatsFail
  <1>3. \A v \in Workers \ {w} : rowLock = v => rowLock' = v
    BY TaskAssumption DEF StartTask, CreateArchive, TarFile, UploadStored, UploadReturnsZero,
       UpdateStats, StatsFail, TaskAssumption
  <1>4. st[w].pc # "counted" /\ ~Counts(w)
    BY DEF CountInv, StartTask, CreateArchive, TarFile, UploadStored, UploadReturnsZero,
       UpdateStats, StatsFail, At
  <1>5. CASE StartTask(w)
    <2>1. PICK i : st' = [st EXCEPT ![w] = [Idle EXCEPT !.pc = "started", !.task = i]]
      BY <1>5 DEF StartTask
    <2>2. /\ st'[w].bytes = 0 /\ st'[w].rows = <<>> /\ st'[w].newtotal = NotCounted
      BY <1>1, <2>1 DEF Idle
    <2>3. st'[w].bytes = Size(st'[w].rows) /\ ~Counts(w)'
      BY <2>2, NoEntries DEF Counts
    <2> QED
      BY <1>2, <1>3, <2>3, CountStay
  <1>6. CASE \/ CreateArchive(w) \/ TarFile(w) \/ UploadStored(w) \/ UploadReturnsZero(w)
             \/ StatsFail(w)
    <2>1. /\ st'[w].bytes = st[w].bytes /\ st'[w].rows = st[w].rows
          /\ st'[w].newtotal = st[w].newtotal
      BY <1>1, <1>6, SMTT(30) DEF CreateArchive, TarFile, UploadStored, UploadReturnsZero,
         StatsFail, WorkerState
    <2>2. st'[w].bytes = Size(st'[w].rows) /\ ~Counts(w)'
      BY <1>4, <2>1 DEF Counts, CountInv
    <2> QED
      BY <1>2, <1>3, <2>2, CountStay
  <1>7. CASE UpdateStats(w)
    <2>1. st' = [st EXCEPT ![w] = [st[w] EXCEPT !.pc = "counted",
                                     !.newtotal = bytesuploaded + st[w].bytes]]
      BY <1>7 DEF UpdateStats
    <2>2. /\ st'[w].bytes = st[w].bytes /\ st'[w].rows = st[w].rows
          /\ st'[w].pc = "counted" /\ rowLock' = w
          /\ st'[w].newtotal = bytesuploaded + st[w].bytes
      BY <1>1, <1>7, <2>1 DEF UpdateStats, WorkerState
    <2>3. st'[w].bytes = Size(st'[w].rows)
      BY <2>2 DEF CountInv
    <2> QED
      BY <1>2, <1>3, <2>2, <2>3, CountStay
  <1> QED
    BY <1>5, <1>6, <1>7

(* The committed row is a new one, and so is its share of the sum.         *)
LEMMA CommitCounts ==
  ASSUME TaskInv, CountInv, NEW w \in Workers, Commit(w)
  PROVE  CountInv'
PROOF
  <1> DEFINE r == [task |-> st[w].task, archive_id |-> st[w].id, vault |-> RowVault,
                   files |-> st[w].rows, bytesize |-> st[w].bytes,
                   counted |-> st[w].newtotal # NotCounted]
             counted == {q \in archives : q.counted}
  <1>1. /\ archives' = archives \cup {r}
        /\ st' = [st EXCEPT ![w] = Idle]
        /\ bytesuploaded' = IF Counts(w) THEN st[w].newtotal ELSE bytesuploaded
        /\ rowLock' = IF rowLock = w THEN NoWorker ELSE rowLock
        /\ Busy(w)
    BY DEF Commit, Counts, Busy, At
  <1>2. /\ st[w] \in WorkerState
        /\ st'[w] = Idle /\ \A v \in Workers \ {w} : st'[v] = st[v]
    BY <1>1 DEF TaskInv, TaskTypeOK
  <1>3. /\ r.task = st[w].task /\ r.files = st[w].rows /\ r.bytesize = st[w].bytes
        /\ r.counted = Counts(w) /\ r.bytesize \in Nat
    BY <1>2 DEF Counts, WorkerState
  <1> HIDE DEF r
  <1>4. r \notin archives
    BY <1>1, <1>3 DEF TaskInv, OneOwner, FiledLast
  <1>5. IsFiniteSet(archives')
    BY <1>1, FS_AddElement DEF CountInv
  <1>6. \A v \in Workers : (st[v].bytes = Size(st[v].rows))'
    BY <1>2, NoEntries, IdleCounts DEF CountInv
  <1>7. \A v \in Workers \ {w} : Counts(v)' => ~Counts(w)
    BY <1>2 DEF CountInv, Counts
  <1>8. ASSUME NEW v \in Workers, Counts(v)'
        PROVE  At(v, "counted")' /\ rowLock' = v
                 /\ (st[v].newtotal = bytesuploaded + st[v].bytes)'
    <2>1. v # w
      BY <1>2, <1>8, IdleCounts DEF Counts
    <2>2. st'[v] = st[v] /\ Counts(v) /\ bytesuploaded' = bytesuploaded
      BY <1>1, <1>2, <1>7, <1>8, <2>1 DEF Counts
    <2> QED
      BY <1>1, <2>1, <2>2 DEF CountInv, At
  <1>9. /\ IsFiniteSet(counted) /\ \A q \in counted : q.bytesize \in Nat
        /\ bytesuploaded = RowBytes(counted)
    <2>1. counted \in SUBSET archives
      OBVIOUS
    <2>2. \A q \in archives : q.bytesize \in Nat
      BY DEF TaskInv, TaskTypeOK
    <2>3. IsFiniteSet(counted)
      BY <2>1, FS_Subset DEF CountInv
    <2> QED
      BY <2>2, <2>3 DEF CountInv
  <1>10. (bytesuploaded = RowBytes(counted))'
    <2>1. CASE Counts(w)
      <3>1. bytesuploaded' = bytesuploaded + r.bytesize
        BY <1>1, <1>3, <2>1 DEF CountInv
      <3>2. counted' = counted \cup {r} /\ r \notin counted
        BY <1>1, <1>3, <1>4, <2>1
      <3> HIDE DEF counted
      <3>3. RowBytes(counted \cup {r}) = RowBytes(counted) + r.bytesize
        BY <1>3, <1>9, <3>2, RowBytesAdd
      <3> QED
        BY <1>9, <3>1, <3>2, <3>3
    <2>2. CASE ~Counts(w)
      <3>1. bytesuploaded' = bytesuploaded
        BY <1>1, <2>2
      <3>2. counted' = counted
        BY <1>1, <1>3, <2>2
      <3> HIDE DEF counted
      <3> QED
        BY <1>9, <3>1, <3>2
    <2> QED
      BY <2>1, <2>2
  <1>11. \A q \in archives' : q.bytesize = Size(q.files)
    BY <1>1, <1>3 DEF CountInv
  <1> QED
    BY <1>5, <1>6, <1>8, <1>10, <1>11 DEF CountInv

LEMMA CountStep ==
  ASSUME CrawlerAssumption, TaskInv, CountInv, [Next]_vars
  PROVE  CountInv'
PROOF
  <1>1. CASE UNCHANGED <<archives, bytesuploaded, rowLock, st>>
    BY <1>1 DEF CountInv, Counts, At
  <1>2. ASSUME NEW w \in Workers, WorkerStep(w) \/ WorkerFault(w), UNCHANGED crawlerVars
        PROVE  CountInv'
    <2>1. CASE DryRollback(w) \/ UploadRaises(w) \/ TaskRaises(w) \/ TaskFails(w)
               \/ Kill(w)
      BY <2>1, RollbackCounts DEF DryRollback, UploadRaises, TaskRaises, TaskFails, Kill
    <2> QED
      BY <1>2, <2>1, FileRowCounts, StageCounts, CommitCounts DEF WorkerStep, WorkerFault
  <1>3. CASE \/ Crawling
             \/ \E f \in Files : (FileChanges(f) \/ FileVanishes(f))
                                   /\ UNCHANGED <<crawlVars, taskVars>>
             \/ UNCHANGED vars
    BY <1>1, <1>3 DEF Crawling, taskVars, vars
  <1> QED
    BY <1>2, <1>3 DEF Next

(* However the workers' transactions interleave, fail and die, the crawl's *)
(* bytesuploaded is the sum over the committed rows that were counted, and *)
(* each of those is the sum over its file rows.                            *)
THEOREM NoUpdateIsLost == Spec => []BytesUploadedExact
PROOF
  <1>1. Init => CountInv
    <2> SUFFICES ASSUME Init PROVE CountInv
      OBVIOUS
    <2>1. /\ archives = {} /\ bytesuploaded = 0 /\ \A w \in Workers : st[w] = Idle
      BY DEF Init, TaskInit
    <2>2. IsFiniteSet({}) /\ RowBytes({}) = 0
      BY FS_EmptySet, RowBytesAdd
    <2>3. {r \in archives : r.counted} = {}
      BY <2>1
    <2> QED
      BY <2>1, <2>2, <2>3, NoEntries, IdleCounts DEF CountInv, Counts
  <1>2. TaskInv /\ CountInv /\ [Next]_vars => CountInv'
    BY CountStep, CrawlerAssumption
  <1>3. CountInv => BytesUploadedExact
    BY DEF CountInv, BytesUploadedExact, RowBytes
  <1> QED
    BY <1>1, <1>2, <1>3, TaskInvariant, PTL DEF Spec
-----------------------------------------------------------------------------
(* ArchiveTask implements Catalog.  A step that stores an archive maps to  *)
(* Catalog's Store, a commit to its Record, every other step to a stutter. *)
(* What Store and Record demand, that no file comes twice and that the     *)
(* archive is there and has the record's files, follows from TaskInv.      *)
FilesOfJob(i) == {sent[i][k] : k \in DOMAIN sent[i]}

(* Entries that list a whole batch are about its files, of which there is  *)
(* at least one, ...                                                       *)
LEMMA WholeFiles ==
  ASSUME TaskInv, NEW i \in DOMAIN sent, NEW d \in Seq(Entry), Whole(d, i)
  PROVE  FilesOf(d) = FilesOfJob(i) /\ FilesOf(d) \in (SUBSET Files) \ {{}}
PROOF
  <1>1. sent[i] \in Seq(Files) /\ Len(sent[i]) \in 1..NumFiles
    BY SMT DEF TaskInv, CrawlInv, CrawlTypeOK, Job, BatchesWithinCount
  <1>2. DOMAIN d = DOMAIN sent[i] /\ \A k \in DOMAIN d : d[k].file = sent[i][k]
    BY <1>1, SMT DEF Whole, Lists
  <1>3. FilesOf(d) = FilesOfJob(i)
    BY <1>2, Zenon DEF FilesOf, FilesOfJob
  <1>4. 1 \in DOMAIN sent[i] /\ \A k \in DOMAIN sent[i] : sent[i][k] \in Files
    BY <1>1, CrawlerAssumption, SMT DEF CrawlerAssumption
  <1>5. FilesOfJob(i) \subseteq Files /\ sent[i][1] \in FilesOfJob(i)
    BY <1>4, Zenon DEF FilesOfJob
  <1>6. FilesOfJob(i) # {} /\ FilesOfJob(i) \in SUBSET Files
    BY <1>5, Zenon
  <1> QED
    BY <1>3, <1>6, Zenon

(* ... and those of two batches have no file in common.                    *)
LEMMA JobsApart ==
  ASSUME TaskInv, NEW i \in DOMAIN sent, NEW j \in DOMAIN sent, i # j
  PROVE  FilesOfJob(i) \cap FilesOfJob(j) = {}
  BY DEF TaskInv, CrawlInv, SentOnce, FilesOfJob

(* Every archive and every row lists a whole batch.                        *)
LEMMA VaultAndRows ==
  ASSUME TaskInv
  PROVE  /\ \A a \in DOMAIN vault : /\ vault[a].task \in DOMAIN sent
                                    /\ FilesOf(vault[a].tar) = FilesOfJob(vault[a].task)
         /\ \A r \in archives : /\ r.task \in DOMAIN sent
                                /\ FilesOf(r.files) = FilesOfJob(r.task)
PROOF
  <1> DEFINE T == [task : Nat, vault : {"configured", "generated"}, tar : Seq(Entry)]
  <1>1. vault \in Seq(T) /\ started \subseteq DOMAIN sent
    BY DEF TaskInv, TaskTypeOK
  <1>2. \A a \in DOMAIN vault : vault[a].tar \in Seq(Entry)
    <2> HIDE DEF T
    <2>1. \A a \in DOMAIN vault : vault[a] \in T
      BY <1>1, SMT
    <2> QED
      BY <2>1 DEF T
  <1>3. \A r \in archives : r.files \in Seq(Entry)
    BY DEF TaskInv, TaskTypeOK
  <1> QED
    BY <1>1, <1>2, <1>3, WholeFiles DEF TaskInv, InVault, InCatalog
-----------------------------------------------------------------------------
(* A worker that stores its tar brings files that were not stored before.  *)
LEMMA StoreRefines ==
  ASSUME TaskInv, NEW w \in Workers, Store(w), At(w, "filed"), ~opts.dry,
         archives' = archives
  PROVE  Cat!Next
PROOF
  <1> DEFINE n == Len(vault) + 1
             f == FilesOf(tars[st[w].task])
             G == [a \in DOMAIN vault |-> FilesOf(vault[a].tar)]
  <1>1. /\ DOMAIN vault' = DOMAIN vault \cup {n} /\ n \notin DOMAIN vault /\ n \in Nat
        /\ vault'[n].tar = tars[st[w].task]
        /\ \A a \in DOMAIN vault : vault'[a] = vault[a]
    <2>1. vault'[n] = [task |-> st[w].task, vault |-> UploadVault, tar |-> tars[st[w].task]]
      BY StoreAppends, TarAtHand
    <2>2. vault'[n].tar = tars[st[w].task]
      BY <2>1
    <2> QED
      BY <2>2, StoreAppends, TarAtHand, Zenon
  <1>2. /\ st[w].task \in DOMAIN sent /\ tars[st[w].task] \in Seq(Entry)
        /\ Whole(tars[st[w].task], st[w].task)
        /\ Busy(w) /\ ~Past(w)
    BY TarAtHand DEF TaskInv, Hand, At, Busy, Past, TaskTypeOK, WorkerState
  <1>3. f = FilesOfJob(st[w].task) /\ f \in (SUBSET Files) \ {{}}
    BY <1>2, WholeFiles
  <1>4. \A a \in DOMAIN vault : vault[a].task # st[w].task
    BY <1>2 DEF TaskInv, OneOwner, StoredLate
  <1>5. \A a \in DOMAIN G : G[a] \cap f = {}
    BY <1>2, <1>3, <1>4, VaultAndRows, JobsApart
  <1>6. G' = Append(G, f)
    <2>1. DOMAIN vault = 1..Len(vault) /\ Len(vault) \in Nat
      BY SMT DEF TaskInv, TaskTypeOK
    <2>2. Len(G) = Len(vault)
      BY <2>1, SMT
    <2>3. Append(G, f) = [a \in 1..n |-> IF a = n THEN f ELSE G[a]]
      BY <2>1, <2>2, SMT
    <2>4. G' = [a \in DOMAIN vault' |-> FilesOf(vault'[a].tar)]
      BY DEF FilesOf
    <2>5. DOMAIN vault' = 1..n
      BY <1>1, <2>1, SMT
    <2> QED
      BY <1>1, <2>1, <2>3, <2>4, <2>5
  <1>7. Cat!Store(f)
    BY <1>5, <1>6 DEF Cat!Store
  <1> QED
    BY <1>3, <1>7 DEF Cat!Next

(* A committed row is about files that no row lists, and its archive id,   *)
(* if it has one, is that of the archive with these files.                 *)
LEMMA CommitRefines ==
  ASSUME TaskInv, NEW w \in Workers, Commit(w)
  PROVE  Cat!Next
PROOF
  <1> DEFINE s == st[w]
             f == FilesOf(s.rows)
             G == [a \in DOMAIN vault |-> FilesOf(vault[a].tar)]
             M(r) == [archive_id |-> r.archive_id, files |-> FilesOf(r.files)]
             R == {M(r) : r \in archives}
  <1>1. PICK r : /\ archives' = archives \cup {r}
                 /\ r.task = s.task /\ r.archive_id = s.id /\ r.files = s.rows
    <2> DEFINE r == [task |-> s.task, archive_id |-> s.id, vault |-> RowVault,
                     files |-> s.rows, bytesize |-> s.bytes,
                     counted |-> s.newtotal # NotCounted]
    <2>1. archives' = archives \cup {r}
      BY DEF Commit
    <2>2. r.task = s.task /\ r.archive_id = s.id /\ r.files = s.rows
      OBVIOUS
    <2> HIDE DEF r
    <2> QED
      BY <2>1, <2>2
  <1>2. /\ s.task \in DOMAIN sent /\ s.rows \in Seq(Entry) /\ s.id \in Nat
        /\ Whole(s.rows, s.task)
        /\ s.id # 0 => s.id \in DOMAIN vault /\ vault[s.id].task = s.task
        /\ Busy(w)
    BY DEF TaskInv, Hand, Commit, At, Busy, TaskTypeOK, WorkerState
  <1>3. f = FilesOfJob(s.task) /\ f \in (SUBSET Files) \ {{}}
    BY <1>2, WholeFiles
  <1>4. \A q \in archives : q.task # s.task
    BY <1>2 DEF TaskInv, OneOwner, FiledLast
  <1>5. \A q \in R : q.files \cap f = {}
    BY <1>2, <1>3, <1>4, VaultAndRows, JobsApart
  <1>6. s.id # 0 => s.id \in DOMAIN G /\ G[s.id] = f
    BY <1>2, <1>3, VaultAndRows
  <1>7. R' = R \cup {[archive_id |-> s.id, files |-> f]}
    <2>1. R' = {M(q) : q \in archives'}
      BY DEF FilesOf
    <2> QED
      BY <1>1, <2>1
  <1>8. G' = G
    BY DEF Commit, FilesOf
  <1>9. s.id \in {0} \cup DOMAIN G
    BY <1>6
  <1> HIDE DEF f, s
  <1> QED
    BY <1>3, <1>5, <1>6, <1>7, <1>8, <1>9 DEF Cat!Next, Cat!Record

(* Every other step leaves the vault and the catalog alone.                *)
Stutter ==
  UNCHANGED <<[a \in DOMAIN vault |-> FilesOf(vault[a].tar)],
              {[archive_id |-> r.archive_id, files |-> FilesOf(r.files)] : r \in archives}>>

LEMMA QuietRefines ==
  ASSUME UNCHANGED <<vault, archives>>
  PROVE  Stutter
  BY DEF Stutter, FilesOf

LEMMA StepRefines ==
  ASSUME TaskInv, [Next]_vars
  PROVE  Cat!Next \/ Stutter
PROOF
  <1>1. CASE \E w \in Workers : (WorkerStep(w) \/ WorkerFault(w)) /\ UNCHANGED crawlerVars
    <2>1. PICK w \in Workers : WorkerStep(w) \/ WorkerFault(w)
      BY <1>1
    <2>2. CASE Commit(w)
      BY <2>2, CommitRefines
    <2>3. CASE \/ StartTask(w) \/ CreateArchive(w) \/ TarFile(w) \/ FileRow(w)
               \/ DryRollback(w) \/ UpdateStats(w) \/ StatsFail(w) \/ TaskRaises(w)
               \/ TaskFails(w)
      BY <2>3, QuietRefines DEF StartTask, CreateArchive, TarFile, FileRow, DryRollback,
         UpdateStats, StatsFail, TaskRaises, TaskFails
    <2>4. CASE UploadStored(w) \/ UploadReturnsZero(w) \/ UploadRaises(w) \/ Kill(w)
      <3>1. archives' = archives
        BY <2>4 DEF UploadStored, UploadReturnsZero, UploadRaises, Kill
      <3>2. vault' = vault \/ (Store(w) /\ At(w, "filed") /\ ~opts.dry)
        BY <2>4 DEF UploadStored, UploadReturnsZero, UploadRaises, Kill
      <3> QED
        BY <3>1, <3>2, QuietRefines, StoreRefines
    <2> QED
      BY <2>1, <2>2, <2>3, <2>4 DEF WorkerStep, WorkerFault
  <1>2. CASE \/ Crawling
             \/ \E f \in Files : (FileChanges(f) \/ FileVanishes(f))
                                  /\ UNCHANGED <<crawlVars, taskVars>>
             \/ UNCHANGED vars
    BY <1>2, QuietRefines DEF Crawling, taskVars, vars
  <1> QED
    BY <1>1, <1>2 DEF Next

(* The tasks, with every combination of failures and for every number of   *)
(* workers, implement the abstract catalog.                                *)
THEOREM TasksImplementCatalog == Spec => ImplementsCatalog
PROOF
  <1>1. Init => Cat!Init
    BY SMT DEF Init, TaskInit, Cat!Init
  <1>2. TaskInv /\ [Next]_vars => Cat!Next \/ Stutter
    BY StepRefines
  <1> QED
    BY <1>1, <1>2, TaskInvariant, PTL DEF Spec, ImplementsCatalog, Cat!Spec, Stutter
-----------------------------------------------------------------------------
(* The retrieval.                                                          *)

JobRecord == [archive_id : Nat, status : {"running", "succeeded", "failed", "gone"}]
RowRecord == [archive_id : Nat, job : Nat \ {0}, ready : BOOLEAN, downloaded : BOOLEAN]

FileRecord == [job : Nat, archive_id : Nat, kind : {"whole", "cut", "broken"}]
ClientRecord ==
  [pc : {"ended", "requesting", "inserting"}, chosen : SUBSET catalog,
   wanted : SUBSET catalog, first : Nat, row : catalog \cup {NoRow},
   job : Nat, failed : BOOLEAN]

(* The job the command has just been given is for the row it works on.     *)
Asked ==
  client.pc = "inserting" =>
    /\ client.job \in DOMAIN jobs
    /\ jobs[client.job].archive_id = client.row.archive_id

(* A recorded job exists and is for the archive the row names.             *)
RowsMatch ==
  \A i \in DOMAIN retrieves :
    /\ retrieves[i].job \in DOMAIN jobs
    /\ jobs[retrieves[i].job].archive_id = retrieves[i].archive_id

(* What the loop of reads took for the archive of this row is in a file.   *)
InFile(row) ==
  \E kind \in {"whole", "cut"} :
    [job |-> row.job, archive_id |-> row.archive_id, kind |-> kind] \in restored

(* What the daemon has saved and not yet committed.                        *)
Transaction ==
  /\ daemon.pc \in {"asleep", "scanning", "exited"} => daemon.saved = {}
  /\ daemon.pc = "downloading" =>
       /\ daemon.row \in DOMAIN retrieves
       /\ daemon.saved = {<<daemon.row, "ready">>}
  /\ daemon.pc = "downloaded" =>
       /\ daemon.row \in DOMAIN retrieves
       /\ daemon.saved = {<<daemon.row, "ready">>, <<daemon.row, "downloaded">>}
       /\ InFile(retrieves[daemon.row])

(* A job the running command was given for this archive is recorded.       *)
Requested(id) ==
  \E i \in DOMAIN retrieves :
    retrieves[i].job > client.first /\ retrieves[i].archive_id = id

(* DownloadedIsRestored, in other words.                                   *)
RowsInFiles ==
  \A i \in DOMAIN retrieves : retrieves[i].downloaded => InFile(retrieves[i])

(* A row the command chose and no longer has to request is the one it      *)
(* works on, or has a job of its own recorded.                             *)
Progress ==
  /\ client.first <= Len(jobs)
  /\ client.pc = "inserting" => client.job > client.first
  /\ client.pc # "ended" => ~client.failed
  /\ client.pc = "ended" /\ ~client.failed => client.wanted = {}
  /\ ~client.failed =>
       \A r \in client.chosen \ client.wanted :
         (client.pc = "inserting" /\ r = client.row) \/ Requested(r.archive_id)

(* The jobs initiated since the command started.                           *)
JobsKept ==
  \A j \in DOMAIN jobs : j > client.first =>
    Recorded(j) \/ (j = client.job /\ (client.pc = "inserting" \/ client.failed))

RInv ==
  /\ RTypeOK /\ Asked /\ RowsMatch /\ Transaction
  /\ ReadyIsDownloaded /\ RowsInFiles /\ Progress /\ JobsKept
-----------------------------------------------------------------------------
LEMMA RInvInit ==
  ASSUME RetrievalAssumption, RInit
  PROVE  RInv
  BY SMT DEF RetrievalAssumption, RInit, RInv, RTypeOK, Asked, RowsMatch, Transaction,
     ReadyIsDownloaded, RowsInFiles, Progress, JobsKept, Ended, Asleep, NoRow

(* What RTypeOK says of the two tables, position by position.              *)
LEMMA Tables ==
  ASSUME RTypeOK
  PROVE  /\ Len(jobs) \in Nat /\ DOMAIN jobs = 1..Len(jobs)
         /\ \A j \in DOMAIN jobs : jobs[j] \in JobRecord
         /\ Len(retrieves) \in Nat /\ DOMAIN retrieves = 1..Len(retrieves)
         /\ \A i \in DOMAIN retrieves : retrieves[i] \in RowRecord
PROOF
  <1>1. jobs \in Seq(JobRecord) /\ retrieves \in Seq(RowRecord)
    BY DEF RTypeOK, JobRecord, RowRecord
  <1> QED
    BY <1>1, SMT

(* Steps of the command that touch only client, and initiate nothing.      *)
LEMMA ClientMoves ==
  ASSUME RInv, client'.pc # "inserting",
         client' \in ClientRecord, Progress', JobsKept',
         UNCHANGED <<catalog, jobs, retrieves, daemon, restored, failures>>
  PROVE  RInv'
PROOF
  <1>1. RTypeOK'
    BY DEF RInv, RTypeOK, ClientRecord
  <1>2. Asked'
    BY DEF Asked
  <1>3. RowsMatch' /\ Transaction' /\ ReadyIsDownloaded' /\ RowsInFiles'
    BY DEF RInv, RowsMatch, Transaction, ReadyIsDownloaded, RowsInFiles, InFile
  <1> QED
    BY <1>1, <1>2, <1>3 DEF RInv

(* Steps of the daemon that leave the tables alone.                        *)
LEMMA DaemonMoves ==
  ASSUME RInv, UNCHANGED <<catalog, client, jobs, retrieves>>,
         daemon' \in [pc : {"asleep", "scanning", "downloading", "downloaded", "exited"},
                      left : SUBSET DOMAIN retrieves, row : Nat,
                      saved : SUBSET (Nat \X {"ready", "downloaded"})],
         restored \subseteq restored',
         restored' \subseteq FileRecord,
         failures' \in 0..MaxFailures,
         Transaction'
  PROVE  RInv'
PROOF
  <1>1. RTypeOK'
    BY DEF RInv, RTypeOK, FileRecord
  <1>2. Asked' /\ RowsMatch' /\ ReadyIsDownloaded' /\ RowsInFiles'
    BY DEF RInv, Asked, RowsMatch, ReadyIsDownloaded, RowsInFiles, InFile
  <1>3. Progress' /\ JobsKept'
    BY DEF RInv, Progress, Requested, JobsKept, Recorded
  <1> QED
    BY <1>1, <1>2, <1>3 DEF RInv
-----------------------------------------------------------------------------
LEMMA StartClientInv ==
  ASSUME RInv, StartClient
  PROVE  RInv'
PROOF
  <1>1. PICK mode \in {"all", "search", "one"} : \E wanted \in Selection(mode) :
          client' = [Ended EXCEPT !.pc = "requesting", !.chosen = wanted,
                                  !.wanted = wanted, !.first = Len(jobs)]
    BY DEF StartClient
  <1>2. PICK wanted \in Selection(mode) :
          client' = [Ended EXCEPT !.pc = "requesting", !.chosen = wanted,
                                  !.wanted = wanted, !.first = Len(jobs)]
    BY <1>1
  <1>3. wanted \subseteq catalog
    BY <1>2, SMT DEF Selection
  <1>4. client' = [pc |-> "requesting", chosen |-> wanted, wanted |-> wanted,
                   first |-> Len(jobs), row |-> NoRow, job |-> 0, failed |-> FALSE]
    BY <1>2 DEF Ended
  <1>5. /\ Len(jobs) \in Nat /\ DOMAIN jobs = 1..Len(jobs)
        /\ UNCHANGED <<catalog, jobs, retrieves, daemon, restored, failures>>
    BY Tables DEF RInv, StartClient
  <1>6. client' \in ClientRecord
    BY <1>3, <1>4, <1>5 DEF ClientRecord
  <1>7. Progress'
    BY <1>4, <1>5, SMT DEF Progress
  <1>8. JobsKept'
    BY <1>4, <1>5, SMT DEF JobsKept
  <1> QED
    BY <1>4, <1>5, <1>6, <1>7, <1>8, ClientMoves

(* The row cannot be requested, the loop is through, or something fails.   *)
LEMMA ClientEndsInv ==
  ASSUME RInv, (\E r \in catalog : InitiateFails(r)) \/ EndClient \/ ClientFails
  PROVE  RInv'
PROOF
  <1>1. /\ UNCHANGED <<catalog, jobs, retrieves, daemon, restored, failures>>
        /\ client.pc # "ended"
        /\ \/ client' = [client EXCEPT !.pc = "ended", !.failed = TRUE]
           \/ /\ client.pc = "requesting" /\ client.wanted = {}
              /\ client' = [client EXCEPT !.pc = "ended"]
    BY DEF InitiateFails, EndClient, ClientFails
  <1>2. client \in ClientRecord
    BY DEF RInv, RTypeOK, ClientRecord
  <1>3. /\ client' \in ClientRecord /\ client'.pc = "ended"
        /\ client'.chosen = client.chosen /\ client'.wanted = client.wanted
        /\ client'.first = client.first /\ client'.job = client.job
        /\ client'.failed \/ (client.pc = "requesting" /\ client.wanted = {}
                               /\ client'.failed = client.failed)
    BY <1>1, <1>2 DEF ClientRecord
  <1>4. Progress'
    BY <1>1, <1>3 DEF RInv, Progress, Requested
  <1>5. JobsKept'
    BY <1>1, <1>3 DEF RInv, JobsKept, Recorded
  <1> QED
    BY <1>1, <1>3, <1>4, <1>5, ClientMoves

LEMMA InitiateInv ==
  ASSUME RetrievalAssumption, RInv, NEW r \in catalog, Initiate(r)
  PROVE  RInv'
PROOF
  <1> DEFINE n == Len(jobs) + 1
             e == [archive_id |-> r.archive_id, status |-> "running"]
  <1>1. e \in JobRecord
    BY DEF RetrievalAssumption, RInv, RTypeOK, JobRecord
  <1>2. jobs \in Seq(JobRecord) /\ jobs' = Append(jobs, e)
    BY DEF RInv, RTypeOK, JobRecord, Initiate
  <1> HIDE DEF e
  <1>3. /\ DOMAIN jobs = 1..Len(jobs) /\ Len(jobs) \in Nat
        /\ DOMAIN jobs' = 1..n
        /\ jobs'[n] = e /\ \A j \in DOMAIN jobs : jobs'[j] = jobs[j]
        /\ jobs' \in Seq(JobRecord)
    BY <1>1, <1>2, SMT
  <1>4. DOMAIN jobs' = DOMAIN jobs \cup {n} /\ n \in Nat
    BY <1>3, SMT
  <1>5. client' = [client EXCEPT !.pc = "inserting", !.row = r, !.job = n,
                                 !.wanted = @ \ {r}]
    BY DEF Initiate
  <1>6. UNCHANGED <<catalog, retrieves, daemon, restored, failures>>
        /\ client.pc = "requesting"
    BY DEF Initiate
  <1>7. RTypeOK'
    <2>1. client' \in [pc : {"ended", "requesting", "inserting"},
                       chosen : SUBSET catalog, wanted : SUBSET catalog, first : Nat,
                       row : catalog \cup {NoRow}, job : Nat, failed : BOOLEAN]
      BY <1>4, <1>5 DEF RInv, RTypeOK
    <2> QED
      BY <1>3, <1>6, <2>1 DEF RInv, RTypeOK, JobRecord
  <1>8. /\ client'.pc = "inserting" /\ client'.job = n /\ client'.row = r
        /\ client'.first = client.first /\ client'.failed = client.failed
        /\ client'.chosen = client.chosen /\ client'.wanted = client.wanted \ {r}
        /\ client.first \in Nat
    BY <1>5 DEF RInv, RTypeOK
  <1>9. Asked'
    BY <1>3, <1>4, <1>8 DEF Asked, e
  <1>10. RowsMatch'
    BY <1>3, <1>4, <1>6 DEF RInv, RowsMatch
  <1>11. Transaction' /\ ReadyIsDownloaded' /\ RowsInFiles'
    BY <1>6 DEF RInv, Transaction, ReadyIsDownloaded, RowsInFiles, InFile
  <1>12. Len(jobs') = n /\ client.first <= Len(jobs) /\ client.first < n
    BY <1>3, <1>8, SMT DEF RInv, Progress
  <1>13. client.failed = FALSE
    BY <1>6 DEF RInv, Progress, RTypeOK
  <1>14. Progress'
    <2>1. client'.first <= Len(jobs') /\ client'.job > client'.first
      BY <1>3, <1>8, <1>12, SMT
    <2>2. \A q \in client'.chosen \ client'.wanted : q = r \/ Requested(q.archive_id)'
      BY <1>6, <1>8, <1>13 DEF RInv, Progress, Requested
    <2> HIDE DEF n
    <2> QED
      BY <1>8, <1>13, <2>1, <2>2 DEF Progress
  <1>15. JobsKept'
    <2> HIDE DEF n
    <2> QED
      BY <1>4, <1>6, <1>8, <1>13 DEF RInv, JobsKept, Recorded
  <1> QED
    BY <1>7, <1>9, <1>10, <1>11, <1>14, <1>15 DEF RInv

LEMMA InsertInv ==
  ASSUME RetrievalAssumption, RInv, InsertRetrieve
  PROVE  RInv'
PROOF
  <1> DEFINE n == Len(retrieves) + 1
             e == Retrieve(client.row.archive_id, client.job)
  <1>1. /\ client.pc = "inserting" /\ client.job \in DOMAIN jobs
        /\ client.job \in Nat \ {0}
        /\ jobs[client.job].archive_id = client.row.archive_id
        /\ client.row.archive_id \in Nat
    <2>1. client.pc = "inserting"
      BY DEF InsertRetrieve
    <2>2. client.job \in DOMAIN jobs /\ jobs[client.job].archive_id = client.row.archive_id
      BY <2>1 DEF RInv, Asked
    <2>3. RTypeOK
      BY DEF RInv
    <2>4. jobs[client.job] \in JobRecord /\ client.job \in Nat \ {0}
      BY <2>2, <2>3, Tables, SMT
    <2> QED
      BY <2>1, <2>2, <2>4 DEF JobRecord
  <1>2. e \in RowRecord
    BY <1>1 DEF Retrieve, RowRecord
  <1>3. retrieves \in Seq(RowRecord) /\ retrieves' = Append(retrieves, e)
    BY DEF RInv, RTypeOK, RowRecord, InsertRetrieve
  <1>4. e.job = client.job /\ e.archive_id = client.row.archive_id
        /\ e.ready = FALSE /\ e.downloaded = FALSE
    BY DEF Retrieve
  <1> HIDE DEF e
  <1>5. /\ DOMAIN retrieves = 1..Len(retrieves) /\ Len(retrieves) \in Nat
        /\ DOMAIN retrieves' = 1..n
        /\ retrieves'[n] = e /\ \A i \in DOMAIN retrieves : retrieves'[i] = retrieves[i]
        /\ retrieves' \in Seq(RowRecord)
    BY <1>2, <1>3, SMT
  <1>6. DOMAIN retrieves' = DOMAIN retrieves \cup {n}
    BY <1>5, SMT
  <1>7. /\ UNCHANGED <<catalog, jobs, daemon, restored, failures>>
        /\ client' = [client EXCEPT !.pc = "requesting"]
    BY DEF InsertRetrieve
  <1>8. RTypeOK'
    <2>1. client' \in [pc : {"ended", "requesting", "inserting"},
                       chosen : SUBSET catalog, wanted : SUBSET catalog, first : Nat,
                       row : catalog \cup {NoRow}, job : Nat, failed : BOOLEAN]
      BY <1>7 DEF RInv, RTypeOK
    <2>2. daemon' \in [pc : {"asleep", "scanning", "downloading", "downloaded", "exited"},
                       left : SUBSET DOMAIN retrieves', row : Nat,
                       saved : SUBSET (Nat \X {"ready", "downloaded"})]
      BY <1>6, <1>7 DEF RInv, RTypeOK
    <2> QED
      BY <1>5, <1>7, <2>1, <2>2 DEF RInv, RTypeOK, RowRecord
  <1>9. /\ client'.pc = "requesting" /\ client'.chosen = client.chosen
        /\ client'.wanted = client.wanted /\ client'.first = client.first
        /\ client'.failed = client.failed /\ client'.job = client.job
        /\ client'.row = client.row
    BY <1>7 DEF RInv, RTypeOK
  <1>10. Asked'
    BY <1>9 DEF Asked
  <1>11. RowsMatch'
    BY <1>1, <1>4, <1>5, <1>6, <1>7 DEF RInv, RowsMatch
  <1>12. Transaction'
    BY <1>5, <1>6, <1>7 DEF RInv, Transaction, InFile
  <1>13. ReadyIsDownloaded'
    BY <1>4, <1>5, <1>6 DEF RInv, ReadyIsDownloaded
  <1>14. RowsInFiles'
    BY <1>4, <1>5, <1>6, <1>7 DEF RInv, RowsInFiles, InFile
  <1>15. Progress'
    <2>1. client.job > client.first /\ client.failed = FALSE
      BY <1>1 DEF RInv, Progress, RTypeOK
    <2>2. Requested(client.row.archive_id)'
      <3>1. Len(retrieves) + 1 \in DOMAIN retrieves'
        BY <1>6
      <3>2. /\ retrieves'[Len(retrieves) + 1].job > client.first
            /\ retrieves'[Len(retrieves) + 1].archive_id = client.row.archive_id
        BY <1>4, <1>5, <2>1
      <3> QED
        BY <1>9, <3>1, <3>2 DEF Requested
    <2>3. \A q \in client.chosen \ client.wanted :
            q # client.row => Requested(q.archive_id)
      BY <2>1 DEF RInv, Progress
    <2>4. \A q \in client.chosen \ client.wanted :
            q # client.row => Requested(q.archive_id)'
      BY <1>5, <1>6, <1>9, <2>3 DEF Requested
    <2> QED
      BY <1>7, <1>9, <2>1, <2>2, <2>4 DEF RInv, Progress
  <1>16. JobsKept'
    <2>1. SUFFICES ASSUME NEW j \in DOMAIN jobs, j > client.first
          PROVE  \E i \in DOMAIN retrieves' : retrieves'[i].job = j
      BY <1>7, <1>9 DEF JobsKept, Recorded
    <2>2. (\E i \in DOMAIN retrieves : retrieves[i].job = j) \/ client.job = j
      BY <2>1 DEF RInv, JobsKept, Recorded
    <2> QED
      BY <1>4, <1>5, <1>6, <2>2
  <1> QED
    BY <1>8, <1>10, <1>11, <1>12, <1>13, <1>14, <1>15, <1>16 DEF RInv

LEMMA ClientInv ==
  ASSUME RetrievalAssumption, RInv, Client
  PROVE  RInv'
PROOF
  <1>1. CASE StartClient
    BY <1>1, StartClientInv
  <1>2. CASE \E r \in catalog : Initiate(r)
    BY <1>2, InitiateInv
  <1>3. CASE InsertRetrieve
    BY <1>3, InsertInv
  <1>4. CASE (\E r \in catalog : InitiateFails(r)) \/ EndClient \/ ClientFails
    BY <1>4, ClientEndsInv
  <1> QED
    BY <1>1, <1>2, <1>3, <1>4 DEF Client

(* Glacier's steps change the status of a job, which RInv does not mention.*)
LEMMA GlacierInv ==
  ASSUME RInv, NEW j \in DOMAIN jobs, Complete(j) \/ Expire(j)
  PROVE  RInv'
PROOF
  <1>1. PICK s \in {"succeeded", "failed", "gone"} : jobs' = [jobs EXCEPT ![j].status = s]
    BY DEF Complete, Expire
  <1>2. UNCHANGED <<catalog, client, retrieves, daemon, restored, failures>>
    BY DEF Complete, Expire
  <1>3. \A k \in DOMAIN jobs : jobs[k] \in JobRecord
    BY Tables DEF RInv
  <1>4. DOMAIN jobs' = DOMAIN jobs
    BY <1>1
  <1>5. \A k \in DOMAIN jobs : /\ jobs'[k].archive_id = jobs[k].archive_id
                               /\ jobs'[k] \in JobRecord
    BY <1>1, <1>3 DEF JobRecord
  <1>6. jobs' \in Seq(JobRecord)
    <2>1. Len(jobs) \in Nat /\ DOMAIN jobs = 1..Len(jobs)
      BY Tables DEF RInv
    <2>2. jobs' \in [1..Len(jobs) -> JobRecord]
      BY <1>1, <1>4, <1>5, <2>1
    <2> QED
      BY <2>1, <2>2, SMT
  <1>7. RTypeOK'
    BY <1>2, <1>6 DEF RInv, RTypeOK, JobRecord
  <1>8. Asked' /\ RowsMatch'
    BY <1>2, <1>4, <1>5 DEF RInv, Asked, RowsMatch
  <1>9. Transaction' /\ ReadyIsDownloaded' /\ RowsInFiles'
    BY <1>2 DEF RInv, Transaction, ReadyIsDownloaded, RowsInFiles, InFile
  <1>10. Len(jobs') = Len(jobs)
    BY <1>1, Tables, <1>6, <1>4, SMT DEF RInv
  <1>11. Progress' /\ JobsKept'
    BY <1>2, <1>4, <1>10 DEF RInv, Progress, Requested, JobsKept, Recorded
  <1> QED
    BY <1>7, <1>8, <1>9, <1>11 DEF RInv
-----------------------------------------------------------------------------
(* A commit writes what is saved: nothing, or both columns of one row.     *)
LEMMA DaemonCommitInv ==
  ASSUME RInv, daemon.pc = "downloaded" \/ daemon.pc = "scanning",
         retrieves' = Committed,
         UNCHANGED <<catalog, client, jobs, restored, failures>>,
         daemon' \in [pc : {"asleep", "scanning"}, left : SUBSET DOMAIN retrieves,
                      row : {0}, saved : {{}}]
  PROVE  RInv'
PROOF
  <1>1. /\ Len(retrieves) \in Nat /\ DOMAIN retrieves = 1..Len(retrieves)
        /\ \A i \in DOMAIN retrieves : retrieves[i] \in RowRecord
    BY Tables DEF RInv
  <1>2. DOMAIN retrieves' = DOMAIN retrieves
    BY DEF Committed
  <1>3. \A i \in DOMAIN retrieves :
          /\ retrieves'[i] \in RowRecord
          /\ retrieves'[i].job = retrieves[i].job
          /\ retrieves'[i].archive_id = retrieves[i].archive_id
          /\ retrieves'[i].ready = (retrieves[i].ready \/ <<i, "ready">> \in daemon.saved)
          /\ retrieves'[i].downloaded =
               (retrieves[i].downloaded \/ <<i, "downloaded">> \in daemon.saved)
    <2> TAKE i \in DOMAIN retrieves
    <2> DEFINE r == retrieves[i]
               a == r.ready \/ <<i, "ready">> \in daemon.saved
               b == r.downloaded \/ <<i, "downloaded">> \in daemon.saved
    <2>1. retrieves'[i] = [r EXCEPT !.ready = a, !.downloaded = b]
      BY DEF Committed
    <2>2. r \in RowRecord /\ a \in BOOLEAN /\ b \in BOOLEAN
      BY <1>1
    <2> HIDE DEF r, a, b
    <2>3. /\ [r EXCEPT !.ready = a, !.downloaded = b] \in RowRecord
          /\ [r EXCEPT !.ready = a, !.downloaded = b].job = r.job
          /\ [r EXCEPT !.ready = a, !.downloaded = b].archive_id = r.archive_id
          /\ [r EXCEPT !.ready = a, !.downloaded = b].ready = a
          /\ [r EXCEPT !.ready = a, !.downloaded = b].downloaded = b
      BY <2>2, Zenon DEF RowRecord
    <2> QED
      BY <2>1, <2>3 DEF r, a, b
  <1>4. \A i \in DOMAIN retrieves :
          /\ <<i, "ready">> \in daemon.saved <=> <<i, "downloaded">> \in daemon.saved
          /\ <<i, "downloaded">> \in daemon.saved =>
               InFile(retrieves[i])
    BY DEF RInv, Transaction
  <1>5. RTypeOK'
    <2>1. retrieves' \in Seq(RowRecord)
      <3>1. retrieves' \in [1..Len(retrieves) -> RowRecord]
        BY <1>1, <1>2, <1>3 DEF Committed
      <3> QED
        BY <1>1, <3>1, SMT
    <2>2. daemon' \in [pc : {"asleep", "scanning", "downloading", "downloaded", "exited"},
                       left : SUBSET DOMAIN retrieves', row : Nat,
                       saved : SUBSET (Nat \X {"ready", "downloaded"})]
      BY <1>2
    <2> QED
      BY <2>1, <2>2 DEF RInv, RTypeOK, RowRecord
  <1>6. /\ \A i \in DOMAIN retrieves : /\ retrieves'[i].job = retrieves[i].job
                                      /\ retrieves'[i].archive_id = retrieves[i].archive_id
        /\ UNCHANGED <<client, jobs>>
    BY <1>3
  <1>11. Asked' /\ RowsMatch'
    BY <1>2, <1>6 DEF RInv, Asked, RowsMatch
  <1>7. Transaction'
    BY DEF Transaction
  <1>8. ReadyIsDownloaded'
    BY <1>2, <1>3, <1>4 DEF RInv, ReadyIsDownloaded
  <1>9. RowsInFiles'
    BY <1>2, <1>3, <1>4 DEF RInv, RowsInFiles, InFile
  <1>10. JobsKept'
    BY <1>2, <1>6 DEF RInv, JobsKept, Recorded
  <1>12. Progress'
    BY <1>2, <1>6 DEF RInv, Progress, Requested
  <1> QED
    BY <1>5, <1>7, <1>8, <1>9, <1>10, <1>11, <1>12 DEF RInv

LEMMA DescribeInv ==
  ASSUME RInv, NEW i \in DOMAIN retrieves, Describe(i)
  PROVE  RInv'
PROOF
  <1> DEFINE D == [pc : {"asleep", "scanning", "downloading", "downloaded", "exited"},
                   left : SUBSET DOMAIN retrieves, row : Nat,
                   saved : SUBSET (Nat \X {"ready", "downloaded"})]
  <1>1. daemon \in D /\ failures \in 0..MaxFailures /\ i \in Nat
        /\ restored \subseteq FileRecord
    BY Tables, SMTT(30) DEF RInv, RTypeOK, FileRecord
  <1>2. daemon.pc = "scanning" /\ daemon.saved = {}
    BY DEF Describe, RInv, Transaction
  <1>3. UNCHANGED <<catalog, client, jobs, retrieves, restored, failures>>
    BY DEF Describe
  <1>4. CASE daemon' = [daemon EXCEPT !.left = @ \ {i}]
    <2>1. daemon' \in D /\ daemon'.pc = "scanning" /\ daemon'.saved = {}
      BY <1>1, <1>2, <1>4
    <2> QED
      BY <1>1, <1>3, <2>1, DaemonMoves DEF Transaction
  <1>5. CASE daemon' = [daemon EXCEPT !.pc = "downloading", !.row = i,
                          !.left = @ \ {i}, !.saved = @ \cup {<<i, "ready">>}]
    <2> DEFINE l == daemon.left \ {i}
               s == {<<i, "ready">>}
    <2>1. l \in SUBSET DOMAIN retrieves /\ s \in SUBSET (Nat \X {"ready", "downloaded"})
      BY <1>1
    <2>2. daemon' = [daemon EXCEPT !.pc = "downloading", !.row = i, !.left = l, !.saved = s]
      BY <1>2, <1>5
    <2>3. s = {<<i, "ready">>}
      OBVIOUS
    <2> HIDE DEF l, s
    <2>4. daemon' \in D
      BY <1>1, <2>1, <2>2, Zenon
    <2>5. daemon'.pc = "downloading" /\ daemon'.row = i /\ daemon'.saved = s
      BY <1>1, <2>2
    <2> QED
      BY <1>1, <1>3, <2>3, <2>4, <2>5, DaemonMoves DEF Transaction
  <1>6. CASE daemon' = Exited
    <2>1. daemon' \in D /\ daemon'.pc = "exited" /\ daemon'.saved = {}
      BY <1>6 DEF Exited, Asleep
    <2> QED
      BY <1>1, <1>3, <2>1, DaemonMoves DEF Transaction
  <1> QED
    BY <1>4, <1>5, <1>6 DEF Describe

LEMMA DownloadInv ==
  ASSUME RetrievalAssumption, RInv, Download
  PROVE  RInv'
PROOF
  <1> DEFINE D == [pc : {"asleep", "scanning", "downloading", "downloaded", "exited"},
                   left : SUBSET DOMAIN retrieves, row : Nat,
                   saved : SUBSET (Nat \X {"ready", "downloaded"})]
             now == retrieves[daemon.row]
  <1>1. daemon \in D /\ failures \in 0..MaxFailures /\ restored \subseteq FileRecord
    BY DEF RInv, RTypeOK, FileRecord
  <1>2. daemon.row \in DOMAIN retrieves /\ daemon.saved = {<<daemon.row, "ready">>}
    BY DEF Download, RInv, Transaction
  <1>3. /\ now.job \in Nat /\ now.archive_id \in Nat /\ daemon.row \in Nat
        /\ CurrentJob.archive_id = now.archive_id
    BY <1>1, <1>2, Tables DEF RInv, RowsMatch, CurrentJob, RowRecord
  <1>4. PICK kind \in {"whole", "cut"} : restored' = restored \cup {File(kind)}
    BY DEF Download
  <1>10. /\ daemon' = [daemon EXCEPT !.pc = "downloaded",
                                     !.saved = @ \cup {<<daemon.row, "downloaded">>}]
         /\ UNCHANGED <<catalog, client, jobs, retrieves>>
    BY DEF Download
  <1>11. failures' \in 0..MaxFailures
    <2>1. failures' = failures \/ (failures < MaxFailures /\ failures' = failures + 1)
      BY DEF Download
    <2> QED
      BY <1>1, <2>1, SMT DEF RetrievalAssumption
  <1>12. File(kind) = [job |-> now.job, archive_id |-> now.archive_id, kind |-> kind]
    BY <1>3 DEF File
  <1>5. /\ daemon' \in D /\ daemon'.pc = "downloaded" /\ daemon'.row = daemon.row
        /\ daemon'.saved = {<<daemon.row, "ready">>, <<daemon.row, "downloaded">>}
    <2> DEFINE s == {<<daemon.row, "ready">>, <<daemon.row, "downloaded">>}
    <2>1. s \in SUBSET (Nat \X {"ready", "downloaded"})
      BY <1>3
    <2>2. daemon' = [daemon EXCEPT !.pc = "downloaded", !.saved = s]
      BY <1>2, <1>10
    <2> HIDE DEF s
    <2>3. daemon' \in D
      BY <1>1, <2>1, <2>2, Zenon
    <2>4. daemon'.pc = "downloaded" /\ daemon'.row = daemon.row /\ daemon'.saved = s
      BY <1>1, <2>2
    <2> QED
      BY <2>3, <2>4 DEF s
  <1>6. InFile(retrieves[daemon.row])'
    <2> HIDE DEF now
    <2>1. [job |-> now.job, archive_id |-> now.archive_id, kind |-> kind] \in restored'
      BY <1>4, <1>12
    <2>2. retrieves'[daemon'.row] = now
      BY <1>5, <1>10 DEF now
    <2> QED
      BY <1>4, <2>1, <2>2 DEF InFile
  <1>7. Transaction'
    BY <1>2, <1>5, <1>6, <1>10 DEF Transaction
  <1>8. restored' \subseteq FileRecord
    <2> HIDE DEF now
    <2>1. ASSUME NEW job \in Nat, NEW id \in Nat, NEW k \in {"whole", "cut", "broken"}
          PROVE  [job |-> job, archive_id |-> id, kind |-> k] \in FileRecord
      BY DEF FileRecord
    <2>2. File(kind) \in FileRecord
      BY <1>3, <1>12, <2>1
    <2> QED
      BY <1>1, <1>4, <2>2
  <1> QED
    BY <1>1, <1>4, <1>5, <1>7, <1>8, <1>10, <1>11, DaemonMoves

(* A failure, a death or a restart leaves nothing saved, and every file.   *)
LEMMA FailureInv ==
  ASSUME RetrievalAssumption, RInv, DownloadFails \/ DaemonDies \/ Restart \/ Scan
  PROVE  RInv'
PROOF
  <1> DEFINE D == [pc : {"asleep", "scanning", "downloading", "downloaded", "exited"},
                   left : SUBSET DOMAIN retrieves, row : Nat,
                   saved : SUBSET (Nat \X {"ready", "downloaded"})]
  <1>1. daemon \in D /\ failures \in 0..MaxFailures /\ restored \subseteq FileRecord
    BY DEF RInv, RTypeOK, FileRecord
  <1>2. UNCHANGED <<catalog, client, jobs, retrieves>>
    BY DEF DownloadFails, DaemonDies, Restart, Scan
  <1>3. /\ daemon' \in D /\ daemon'.saved = {}
        /\ daemon'.pc \in {"scanning", "exited", "asleep"}
    <2>1. CASE DownloadFails
      BY <1>1, <2>1 DEF DownloadFails
    <2>2. CASE DaemonDies \/ Restart
      <3>1. daemon' = Exited \/ daemon' = Asleep
        BY <2>2 DEF DaemonDies, Restart
      <3> QED
        BY <3>1 DEF Exited, Asleep
    <2>3. CASE Scan
      BY <2>3 DEF Scan, Asleep
    <2> QED
      BY <2>1, <2>2, <2>3
  <1>4. failures' \in 0..MaxFailures
    <2>1. failures' = failures \/ (failures < MaxFailures /\ failures' = failures + 1)
      BY DEF DownloadFails, DownloadRaises, DaemonDies, Restart, Scan
    <2> QED
      BY <1>1, <2>1, SMT DEF RetrievalAssumption
  <1>5. restored' = restored \/ (daemon.pc = "downloading"
          /\ \E kind \in {"broken", "whole"} : restored' = restored \cup {File(kind)})
    BY DEF DownloadFails, DownloadRaises, DaemonDies, Restart, Scan
  <1>6. ASSUME daemon.pc = "downloading", NEW kind \in {"broken", "whole"}
        PROVE  File(kind) \in FileRecord
    <2>1. daemon.row \in DOMAIN retrieves /\ retrieves[daemon.row].job \in DOMAIN jobs
      BY <1>6 DEF RInv, Transaction, RowsMatch
    <2>2. CurrentJob.archive_id \in Nat /\ retrieves[daemon.row].job \in Nat
      BY <2>1, Tables DEF RInv, CurrentJob, JobRecord, RowRecord
    <2> QED
      BY <2>2, <1>6 DEF File, FileRecord
  <1>7. restored \subseteq restored' /\ restored' \subseteq FileRecord
    BY <1>1, <1>5, <1>6
  <1>8. Transaction'
    BY <1>3 DEF Transaction
  <1> QED
    BY <1>2, <1>3, <1>4, <1>7, <1>8, DaemonMoves

LEMMA RNextInv ==
  ASSUME RetrievalAssumption, RInv, [RNext]_rvars
  PROVE  RInv'
PROOF
  <1>1. CASE Client
    BY <1>1, ClientInv
  <1>2. CASE \E j \in DOMAIN jobs : Complete(j) \/ Expire(j)
    BY <1>2, GlacierInv
  <1>3. CASE EndScan \/ CommitDownload
    <2>1. daemon \in [pc : {"asleep", "scanning", "downloading", "downloaded", "exited"},
                      left : SUBSET DOMAIN retrieves, row : Nat,
                      saved : SUBSET (Nat \X {"ready", "downloaded"})]
      BY DEF RInv, RTypeOK
    <2>2. daemon' \in [pc : {"asleep", "scanning"}, left : SUBSET DOMAIN retrieves,
                       row : {0}, saved : {{}}]
      <3>1. CASE EndScan
        BY <3>1 DEF EndScan, Asleep
      <3>2. CASE CommitDownload
        BY <2>1, <3>2 DEF CommitDownload
      <3> QED
        BY <1>3, <3>1, <3>2
    <2> QED
      BY <1>3, <2>2, DaemonCommitInv DEF EndScan, CommitDownload
  <1>4. CASE \E i \in DOMAIN retrieves : Describe(i)
    BY <1>4, DescribeInv
  <1>5. CASE Download
    BY <1>5, DownloadInv
  <1>6. CASE DownloadFails \/ DaemonDies \/ Restart \/ Scan
    BY <1>6, FailureInv
  <1>7. CASE UNCHANGED rvars
    <2>1. RTypeOK' /\ Asked' /\ RowsMatch' /\ Transaction'
      BY <1>7 DEF rvars, RInv, RTypeOK, Asked, RowsMatch, Transaction, InFile
    <2>2. ReadyIsDownloaded' /\ RowsInFiles' /\ Progress' /\ JobsKept'
      BY <1>7 DEF rvars, RInv, ReadyIsDownloaded, RowsInFiles, InFile, Progress,
         Requested, JobsKept, Recorded
    <2> QED
      BY <2>1, <2>2 DEF RInv
  <1> QED
    BY <1>1, <1>2, <1>3, <1>4, <1>5, <1>6, <1>7 DEF RNext, DaemonStep
-----------------------------------------------------------------------------
(* startJob and scan_for_task: a row names a job for its own archive, and  *)
(* the open transaction has saved what its place in the loop says.         *)
THEOREM RetrievalInvariant == RSpec => []RInv
PROOF
  <1>1. RInit => RInv
    BY RInvInit, RetrievalAssumption
  <1>2. RInv /\ [RNext]_rvars => RInv'
    BY RNextInv, RetrievalAssumption
  <1> QED
    BY <1>1, <1>2, PTL DEF RSpec

(* The state of command and daemon keeps its types.                        *)
THEOREM RetrievalTypes == RSpec => []RTypeOK
  BY RetrievalInvariant, PTL DEF RInv

(* For every catalog, every number of jobs and every combination of        *)
(* failures, no row is committed as ready without its download, ...        *)
THEOREM NoRowIsStranded == RSpec => []ReadyIsDownloaded
  BY RetrievalInvariant, PTL DEF RInv

(* ... a row that says downloaded has what was read for it up to an end    *)
(* that read() reported in a file, whatever an attempt that raised or was  *)
(* killed has left there, ...                                              *)
THEOREM DownloadsAreRead == RSpec => []DownloadedIsRestored
PROOF
  <1>1. RInv => DownloadedIsRestored
    <2>1. SUFFICES ASSUME RInv, NEW i \in DOMAIN retrieves, retrieves[i].downloaded
          PROVE  {Holds(retrieves[i], "whole"), Holds(retrieves[i], "cut")}
                   \cap restored # {}
      BY DEF DownloadedIsRestored
    <2>2. InFile(retrieves[i])
      BY <2>1 DEF RInv, RowsInFiles
    <2> QED
      BY <2>2 DEF InFile, Holds
  <1> QED
    BY <1>1, RetrievalInvariant, PTL

(* ... and the command, failing anywhere or nowhere, leaves at most the    *)
(* last job it was given out of the database, and none when it ends well.  *)
THEOREM NoJobIsLost == RSpec => []JobsAreRecorded
PROOF
  <1>1. RInv => JobsAreRecorded
    <2> SUFFICES ASSUME RInv PROVE JobsAreRecorded
      OBVIOUS
    <2>1. /\ Len(jobs) \in Nat /\ DOMAIN jobs = 1..Len(jobs) /\ client.first \in Nat
      BY Tables DEF RInv, RTypeOK
    <2>2. ASSUME client.pc = "ended" /\ ~client.failed, NEW r \in client.chosen
          PROVE  Requested(r.archive_id)
      BY <2>2 DEF RInv, Progress
    <2>3. ASSUME NEW j \in (client.first + 1)..Len(jobs)
          PROVE  j \in DOMAIN jobs /\ j > client.first
      BY <2>1, <2>3, SMT
    <2>4. \A j \in (client.first + 1)..Len(jobs) :
            Recorded(j) \/ (j = client.job /\ (client.pc = "inserting" \/ client.failed))
      BY <2>3 DEF RInv, JobsKept
    <2> QED
      BY <2>2, <2>4 DEF JobsAreRecorded, Requested
  <1> QED
    BY <1>1, RetrievalInvariant, PTL
=============================================================================
