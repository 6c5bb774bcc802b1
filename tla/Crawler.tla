------------------------------ MODULE Crawler ------------------------------
(***************************************************************************)
(* The crawl of archiveFiles.py: main() builds one Crawler, walks a tree,  *)
(* cuts the files it selects into batches and hands each batch to Celery   *)
(* (archiver/crawler.py), then writes the crawl's total size to its row.   *)
(*                                                                         *)
(* A file is a member of Files; what os.stat says of it is the variable    *)
(* size, so that a composing module can let files change or vanish while   *)
(* the crawl and the workers run.  Perms, tags and the random tar name of  *)
(* a batch do not influence the crawl; the batch's position in sent stands *)
(* for its tar name (id_generator makes a fresh one for every batch).      *)
(***************************************************************************)
EXTENDS Integers, Sequences, Functions

CONSTANTS
  Files,      (* the files below the crawled path                        *)
  Sizes,      (* the sizes, in bytes, a file may have                    *)
  Links,      (* the files that are symbolic links                       *)
  MtimeAge,   (* days since a file was last modified                     *)
  NumFiles,   (* settings.NUMFILES: files per batch                      *)
  ArchiveMB,  (* settings.ARCHIVEMB: megabytes after which a batch is cut*)
  Older,      (* -x, 0 when absent                                       *)
  Newer,      (* -z, 0 when absent                                       *)
  CrawlMayDie (* whether the crawling process may be killed              *)

(* NUMFILES = 0 or ARCHIVEMB = 0 would make addFile send an empty first    *)
(* batch; the settings file and the README only know positive values.      *)
ASSUME CrawlerAssumption ==
  /\ Sizes \subseteq Nat
  /\ Links \subseteq Files
  /\ MtimeAge \in [Files -> Nat]
  /\ NumFiles \in Nat \ {0}
  /\ ArchiveMB \in Nat \ {0}
  /\ Older \in Int /\ Newer \in Int
  /\ CrawlMayDie \in BOOLEAN

VARIABLES
  size,         (* the file system: a file's size, or Gone               *)
  todo,         (* files os.walk has not yielded yet                     *)
  jobarray,     (* the batch being filled                                *)
  arraysize,    (* its size in bytes                                     *)
  totaljobsize, (* bytes of all closed batches                           *)
  sent,         (* batches handed to Celery, in order                    *)
  cpc,          (* where the crawling process is                         *)
  totalbytes    (* Crawl.totalbytes in the database, 0 by default        *)

crawlVars == <<todo, jobarray, arraysize, totaljobsize, sent, cpc, totalbytes>>
crawlerVars == <<size, crawlVars>>

Gone == -1
Job  == Seq(Files)

(* Which files -x and -z let through.  recurseCrawl compares st_mtime.     *)
Selected(f) ==
  \/ Older <= 0 /\ Newer <= 0
  \/ /\ Older >= 0 /\ Newer >= 0
     /\ Older > 0 => MtimeAge[f] > Older
     /\ Newer > 0 => MtimeAge[f] < Newer

Megabytes(bytes) == (bytes \div 1024) \div 1024

(* A slip: "<=" instead of "<".                                            *)
HasRoomInclusive ==
  Len(jobarray) <= NumFiles /\ Megabytes(arraysize) <= ArchiveMB

HasRoom == Len(jobarray) < NumFiles /\ Megabytes(arraysize) < ArchiveMB
-----------------------------------------------------------------------------
CrawlInit ==
  /\ todo = Files
  /\ jobarray = <<>> /\ arraysize = 0 /\ totaljobsize = 0
  /\ sent = <<>>
  /\ cpc = "walking"
  /\ totalbytes = 0

CrawlerInit == size \in [Files -> Sizes] /\ CrawlInit

(* os.walk yields f, which is to be archived.                              *)
Visit(f) ==
  /\ cpc = "walking" /\ f \in todo
  /\ f \notin Links /\ size[f] # Gone /\ Selected(f)
  /\ todo' = todo \ {f}

(* addFile, the batch still has room.                                      *)
AddToBatch(f) ==
  /\ Visit(f)
  /\ HasRoom
  /\ jobarray' = Append(jobarray, f)
  /\ arraysize' = arraysize + size[f]
  /\ UNCHANGED <<totaljobsize, sent, cpc, totalbytes>>

(* Slips: the closed batch's size is not reset; the new file is forgotten. *)
StartWithOldSize(f) ==
  /\ Visit(f)
  /\ ~HasRoom
  /\ sent' = Append(sent, jobarray)
  /\ totaljobsize' = totaljobsize + arraysize
  /\ jobarray' = <<f>>
  /\ arraysize' = arraysize + size[f]
  /\ UNCHANGED <<cpc, totalbytes>>

StartEmpty(f) ==
  /\ Visit(f)
  /\ ~HasRoom
  /\ sent' = Append(sent, jobarray)
  /\ totaljobsize' = totaljobsize + arraysize
  /\ jobarray' = <<>>
  /\ arraysize' = 0
  /\ UNCHANGED <<cpc, totalbytes>>

(* addFile, the batch is full: it is sent, f starts the next one.          *)
StartNextBatch(f) ==
  /\ Visit(f)
  /\ ~HasRoom
  /\ sent' = Append(sent, jobarray)
  /\ totaljobsize' = totaljobsize + arraysize
  /\ jobarray' = <<f>>
  /\ arraysize' = size[f]
  /\ UNCHANGED <<cpc, totalbytes>>

(* A link, a file outside the -x/-z window, or one that vanished before    *)
(* os.walk listed its directory.                                           *)
SkipFile(f) ==
  /\ cpc = "walking" /\ f \in todo
  /\ f \in Links \/ size[f] = Gone \/ ~Selected(f)
  /\ todo' = todo \ {f}
  /\ UNCHANGED <<jobarray, arraysize, totaljobsize, sent, cpc, totalbytes>>

(* A slip: the last batch's size is not added.                             *)
FinishUncounted ==
  /\ cpc = "walking" /\ todo = {}
  /\ sent' = IF jobarray = <<>> THEN sent ELSE Append(sent, jobarray)
  /\ cpc' = "walked"
  /\ UNCHANGED <<todo, jobarray, arraysize, totaljobsize, totalbytes>>

(* The end of recurseCrawl.  jobarray and arraysize keep the last batch.   *)
FinishWalk ==
  /\ cpc = "walking" /\ todo = {}
  /\ sent' = IF jobarray = <<>> THEN sent ELSE Append(sent, jobarray)
  /\ totaljobsize' = totaljobsize + arraysize
  /\ cpc' = "walked"
  /\ UNCHANGED <<todo, jobarray, arraysize, totalbytes>>

(* main(): Crawl.objects.filter(id=CRAWLID).update(totalbytes=...).        *)
RecordTotal ==
  /\ cpc = "walked"
  /\ totalbytes' = totaljobsize
  /\ cpc' = "done"
  /\ UNCHANGED <<todo, jobarray, arraysize, totaljobsize, sent>>

(* os.stat raises on a listed file that is gone (islink says FALSE of a    *)
(* link that is gone), or apply_async or the process fails: no handler,    *)
(* the batch being filled is lost with it.                                 *)
CrawlFails ==
  /\ cpc \in {"walking", "walked"}
  /\ CrawlMayDie \/ (cpc = "walking" /\ \E f \in todo : size[f] = Gone)
  /\ cpc' = "failed"
  /\ UNCHANGED <<todo, jobarray, arraysize, totaljobsize, sent, totalbytes>>

CrawlStep ==
  \/ \E f \in Files : AddToBatch(f) \/ StartNextBatch(f) \/ SkipFile(f)
  \/ FinishWalk
  \/ RecordTotal
  \/ CrawlFails

CrawlerNext == CrawlStep /\ UNCHANGED size

CrawlerSpec == CrawlerInit /\ [][CrawlerNext]_crawlerVars
-----------------------------------------------------------------------------
Archivable == {f \in Files \ Links : Selected(f)}

Bytes(files) == SumFunctionOnSet(size, files)

CrawlTypeOK ==
  /\ size \in [Files -> Sizes \cup {Gone}]
  /\ todo \subseteq Files
  /\ jobarray \in Job
  /\ arraysize \in Nat /\ totaljobsize \in Nat /\ totalbytes \in Nat
  /\ sent \in Seq(Job)
  /\ cpc \in {"walking", "walked", "done", "failed"}

(* README, NUMFILES: no batch is empty and none holds more than NUMFILES   *)
(* files, however addFile's test and its reset interleave over the walk.   *)
BatchesWithinCount ==
  \A i \in DOMAIN sent : Len(sent[i]) \in 1..NumFiles

(* README, ARCHIVEMB: a batch passes the limit by its last file at most,   *)
(* i.e. without that file it is still below the limit; and only the last   *)
(* batch of a crawl may be cut short: every other reached one of the       *)
(* limits.                                                                 *)
BatchesWithinBytes ==
  \A i \in DOMAIN sent :
    LET n == Len(sent[i])
    IN  /\ Megabytes(Bytes(Range(sent[i]) \ {sent[i][n]})) < ArchiveMB
        /\ i < Len(sent) => \/ n = NumFiles
                            \/ Megabytes(Bytes(Range(sent[i]))) >= ArchiveMB

Sent == UNION {Range(sent[i]) : i \in DOMAIN sent}
Held == IF cpc = "walking" THEN Range(jobarray) ELSE {}

(* The aliasing of jobarray, its copy and the two resets in addFile never  *)
(* put a file into two batches, or twice into one.                         *)
NoFileTwice ==
  /\ \A i, j \in DOMAIN sent : \A k \in DOMAIN sent[i], l \in DOMAIN sent[j] :
       sent[i][k] = sent[j][l] => i = j /\ k = l
  /\ Sent \cap Held = {}

(* Nor do they lose one: unless the crawl fails, what the walk has yielded *)
(* is exactly what was sent or waits in jobarray.                          *)
EveryFileInOneBatch ==
  /\ NoFileTwice
  /\ cpc # "failed" =>
       Sent \cup Held = {f \in Archivable \ todo : size[f] # Gone}

(* What main() records as the crawl's total is the size of what was sent:  *)
(* the workers' progress is measured against it.                           *)
TotalIsWhatWasSent ==
  cpc = "done" =>
    totalbytes = Bytes(UNION {Range(sent[i]) : i \in DOMAIN sent})
=============================================================================
