---------------------------- MODULE ArchiveTask ----------------------------
(***************************************************************************)
(* archiver/tasks.py: the Celery workers that turn the batches of a crawl  *)
(* into tar files, Glacier archives and catalog rows, running while the    *)
(* crawl (Crawler) still sends batches.  Each worker is one process with   *)
(* one manual database transaction; it shares with the others the file     *)
(* system, TEMP_DIR, the Glacier vault and the database.                   *)
(*                                                                         *)
(* A task is named by the position of its batch in sent.  Celery           *)
(* acknowledges a message before it runs the task (acks_late is not set),  *)
(* so a started task is never delivered again.                             *)
(***************************************************************************)
EXTENDS Crawler, FiniteSetsExt

CONSTANTS
  Workers,         (* Celery's pool processes                            *)
  NoWorker,        (* holder of a free row lock                          *)
  VaultConfigured, (* whether settings.GLACIER_VAULT names a vault       *)
  Faults           (* the failures a run lets happen                     *)

FaultKinds == {"change", "vanish", "tar", "upload", "reply", "unlink", "stats",
               "database", "kill"}

ASSUME TaskAssumption ==
  /\ NoWorker \notin Workers
  /\ VaultConfigured \in BOOLEAN
  /\ Faults \subseteq FaultKinds

VARIABLES
  opts,          (* the command line: -n given?, -t given?               *)
  started,       (* tasks a worker has acknowledged                      *)
  st,            (* each worker's locals and its open transaction        *)
  tars,          (* TEMP_DIR: the entries in each task's tar file        *)
  vault,         (* Glacier: its archives, the id being the position     *)
  archives,      (* committed Archives rows with their ArchiveFiles rows *)
  bytesuploaded, (* Crawl.bytesuploaded, as committed                    *)
  rowLock,       (* InnoDB's lock on the Crawl row                       *)
  mishaps        (* history: <<task, fault>> for what hit a task         *)

taskVars == <<opts, started, st, tars, vault, archives, bytesuploaded, rowLock,
              mishaps>>
vars == <<crawlerVars, taskVars>>

(* A worker between two tasks.  rows, bytes, id, newtotal: what the open   *)
(* transaction will write (newtotal is NotCounted unless the statistics    *)
(* UPDATE was made).                                                       *)
NotCounted == -1
Idle == [pc |-> "idle", task |-> 0, pos |-> 0, rows |-> <<>>, bytes |-> 0,
         id |-> 0, newtotal |-> NotCounted]

JobOf(w)  == sent[st[w].task]
Current(w) == JobOf(w)[st[w].pos]
At(w, pc) == st[w].pc = pc

RowVault    == IF VaultConfigured THEN "configured" ELSE "none"
UploadVault == IF VaultConfigured THEN "configured" ELSE "generated"

(* transaction.rollback(), or the database closing a dead session.         *)
Rollback(w) ==
  /\ st' = [st EXCEPT ![w] = Idle]
  /\ rowLock' = IF rowLock = w THEN NoWorker ELSE rowLock

Befalls(w, fault) == mishaps' = mishaps \cup {<<st[w].task, fault>>}

(* tarfile.open(name, "w"), and os.unlink.                                 *)
OpenTar(i)   == [j \in DOMAIN tars \cup {i} |-> IF j = i THEN <<>> ELSE tars[j]]
UnlinkTar(i) == [j \in DOMAIN tars \ {i} |-> tars[j]]
-----------------------------------------------------------------------------
TaskInit ==
  /\ opts \in [dry : BOOLEAN, tags : BOOLEAN]
  /\ started = {}
  /\ st = [w \in Workers |-> Idle]
  /\ tars = [i \in {} |-> <<>>]
  /\ vault = <<>>
  /\ archives = {}
  /\ bytesuploaded = 0
  /\ rowLock = NoWorker
  /\ mishaps = {}

Init == CrawlerInit /\ TaskInit

(* A slip: the message stays in the queue when the task begins.            *)
StartUnacknowledged(w) ==
  /\ At(w, "idle")
  /\ \E i \in DOMAIN sent \ started :
       st' = [st EXCEPT ![w] = [Idle EXCEPT !.pc = "started", !.task = i]]
  /\ UNCHANGED <<opts, started, tars, vault, archives, bytesuploaded, rowLock,
                 mishaps>>

(* The message is acknowledged and archiveFilesTask begins.                *)
StartTask(w) ==
  /\ At(w, "idle")
  /\ \E i \in DOMAIN sent \ started :
       /\ started' = started \cup {i}
       /\ st' = [st EXCEPT ![w] = [Idle EXCEPT !.pc = "started", !.task = i]]
  /\ UNCHANGED <<opts, tars, vault, archives, bytesuploaded, rowLock, mishaps>>

(* archive_create: the Archives row and its tags, then makeTar opens the   *)
(* tar file, which a dry run leaves out altogether.                        *)
CreateArchive(w) ==
  /\ At(w, "started")
  /\ opts.tags
  /\ st' = [st EXCEPT ![w].pc = IF opts.dry THEN "filing" ELSE "tarring",
                      ![w].pos = 1]
  /\ tars' = IF opts.dry THEN tars ELSE OpenTar(st[w].task)
  /\ UNCHANGED <<opts, started, vault, archives, bytesuploaded, rowLock,
                 mishaps>>

(* One round of makeTar's loop.                                            *)
TarFile(w) ==
  /\ At(w, "tarring")
  /\ size[Current(w)] # Gone
  /\ LET last == st[w].pos = Len(JobOf(w))
     IN  st' = [st EXCEPT ![w].pos = IF last THEN 1 ELSE @ + 1,
                          ![w].pc  = IF last THEN "filing" ELSE @]
  /\ tars' = [tars EXCEPT ![st[w].task] =
                 Append(@, [file |-> Current(w), bytes |-> size[Current(w)]])]
  /\ UNCHANGED <<opts, started, vault, archives, bytesuploaded, rowLock,
                 mishaps>>

(* One round of the loop that stats the files again for their rows.        *)
FileRow(w) ==
  /\ At(w, "filing")
  /\ size[Current(w)] # Gone
  /\ LET last == st[w].pos = Len(JobOf(w))
     IN  st' = [st EXCEPT
           ![w].rows  = Append(@, [file |-> Current(w), bytes |-> size[Current(w)]]),
           ![w].bytes = @ + size[Current(w)],
           ![w].pos   = IF last THEN @ ELSE @ + 1,
           ![w].pc    = IF last THEN "filed" ELSE @]
  /\ UNCHANGED <<opts, started, tars, vault, archives, bytesuploaded, rowLock,
                 mishaps>>

(* DRY: transaction.rollback() instead of bulk_create and the upload.      *)
DryRollback(w) ==
  /\ At(w, "filed")
  /\ opts.dry
  /\ Rollback(w)
  /\ UNCHANGED <<opts, started, tars, vault, archives, bytesuploaded, mishaps>>

(* Glacier stores the tar under a new id.                                  *)
Store(w) ==
  vault' = Append(vault, [task |-> st[w].task, vault |-> UploadVault,
                          tar |-> tars[st[w].task]])

(* bulk_create, then uploadToGlacier returns the new id; the tar is        *)
(* removed unless unlink raises, which is only logged.                     *)
UploadStored(w) ==
  /\ At(w, "filed") /\ ~opts.dry
  /\ Store(w)
  /\ st' = [st EXCEPT ![w].pc = "uploaded", ![w].id = Len(vault) + 1]
  /\ \/ tars' = UnlinkTar(st[w].task)
     \/ "unlink" \in Faults /\ UNCHANGED tars
  /\ UNCHANGED <<opts, started, archives, bytesuploaded, rowLock, mishaps>>

(* Slips: the tar is removed although the upload failed; the function ends *)
(* without "return 0".                                                     *)
UploadFailedUnlinks(w) ==
  /\ At(w, "filed") /\ ~opts.dry
  /\ "upload" \in Faults
  /\ tars' = UnlinkTar(st[w].task)
  /\ st' = [st EXCEPT ![w].pc = "uploaded", ![w].id = 0]
  /\ UNCHANGED <<opts, started, vault, archives, bytesuploaded, rowLock,
                 mishaps>>

UploadReturnsNothing(w) ==
  /\ At(w, "filed") /\ ~opts.dry
  /\ "upload" \in Faults
  /\ st' = [st EXCEPT ![w].pc = "uploaded", ![w].id = -1]
  /\ UNCHANGED <<opts, started, tars, vault, archives, bytesuploaded, rowLock,
                 mishaps>>

(* The upload raises with two arguments: uploadToGlacier logs it, returns  *)
(* 0 and keeps the tar.  Glacier may have completed it all the same.       *)
UploadReturnsZero(w) ==
  /\ At(w, "filed") /\ ~opts.dry
  /\ \/ "upload" \in Faults /\ UNCHANGED <<vault, mishaps>>
     \/ "reply" \in Faults /\ Store(w) /\ Befalls(w, "reply")
  /\ st' = [st EXCEPT ![w].pc = "uploaded", ![w].id = 0]
  /\ UNCHANGED <<opts, started, tars, archives, bytesuploaded, rowLock>>

(* The exception has other than two arguments, "x, y = exc.args" raises in *)
(* the handler, and the task rolls back.                                   *)
UploadRaises(w) ==
  /\ At(w, "filed") /\ ~opts.dry
  /\ \/ "upload" \in Faults /\ UNCHANGED <<vault, mishaps>>
     \/ "reply" \in Faults /\ Store(w) /\ Befalls(w, "reply")
  /\ Rollback(w)
  /\ UNCHANGED <<opts, started, tars, archives, bytesuploaded>>

(* A slip: the value is read, added to and saved without F() and its lock. *)
UpdateUnlocked(w) ==
  /\ At(w, "uploaded")
  /\ st' = [st EXCEPT ![w].pc = "counted",
                      ![w].newtotal = bytesuploaded + st[w].bytes]
  /\ UNCHANGED <<opts, started, tars, vault, archives, bytesuploaded, rowLock,
                 mishaps>>

(* update(bytesuploaded = F('bytesuploaded') + total_bytesize): the        *)
(* database reads the committed value under the row's lock and keeps the   *)
(* lock until the transaction ends.                                        *)
UpdateStats(w) ==
  /\ At(w, "uploaded")
  /\ rowLock = NoWorker
  /\ rowLock' = w
  /\ st' = [st EXCEPT ![w].pc = "counted",
                      ![w].newtotal = bytesuploaded + st[w].bytes]
  /\ UNCHANGED <<opts, started, tars, vault, archives, bytesuploaded, mishaps>>

(* A slip: the statistics have no handler of their own.                    *)
StatsFailRollsBack(w) ==
  /\ At(w, "uploaded")
  /\ "stats" \in Faults
  /\ Rollback(w)
  /\ UNCHANGED <<opts, started, tars, vault, archives, bytesuploaded, mishaps>>

(* The statistics raise (a lock wait timeout, say): logged, not rolled back.*)
StatsFail(w) ==
  /\ At(w, "uploaded")
  /\ "stats" \in Faults
  /\ st' = [st EXCEPT ![w].pc = "counted"]
  /\ UNCHANGED <<opts, started, tars, vault, archives, bytesuploaded, rowLock,
                 mishaps>>

(* A slip: the transaction is left open at the end of the task.            *)
CommitKeepsLock(w) ==
  /\ At(w, "counted")
  /\ archives' = archives \cup
       {[task |-> st[w].task, archive_id |-> st[w].id, vault |-> RowVault,
         files |-> st[w].rows, bytesize |-> st[w].bytes,
         counted |-> st[w].newtotal # NotCounted]}
  /\ bytesuploaded' = IF st[w].newtotal = NotCounted THEN bytesuploaded
                                                     ELSE st[w].newtotal
  /\ st' = [st EXCEPT ![w] = Idle]
  /\ UNCHANGED <<opts, started, tars, vault, rowLock, mishaps>>

Commit(w) ==
  /\ At(w, "counted")
  /\ archives' = archives \cup
       {[task |-> st[w].task, archive_id |-> st[w].id, vault |-> RowVault,
         files |-> st[w].rows, bytesize |-> st[w].bytes,
         counted |-> st[w].newtotal # NotCounted]}
  /\ bytesuploaded' = IF st[w].newtotal = NotCounted THEN bytesuploaded
                                                     ELSE st[w].newtotal
  /\ st' = [st EXCEPT ![w] = Idle]
  /\ rowLock' = IF rowLock = w THEN NoWorker ELSE rowLock
  /\ UNCHANGED <<opts, started, tars, vault, mishaps>>

(* A slip: the handler commits what the transaction has so far.            *)
TaskRaisesCommits(w) ==
  /\ \/ At(w, "started") /\ ~opts.tags
     \/ st[w].pc \in {"tarring", "filing"} /\ size[Current(w)] = Gone
  /\ archives' = archives \cup
       {[task |-> st[w].task, archive_id |-> 0, vault |-> RowVault,
         files |-> st[w].rows, bytesize |-> st[w].bytes, counted |-> FALSE]}
  /\ Rollback(w)
  /\ UNCHANGED <<opts, started, tars, vault, bytesuploaded, mishaps>>

(* An exception outside the upload: "for tag in None", or a file that is   *)
(* gone when makeTar or the row loop stats it.  A handler rolls back; a    *)
(* tar file already opened stays in TEMP_DIR.                              *)
TaskRaises(w) ==
  /\ \/ At(w, "started") /\ ~opts.tags
     \/ st[w].pc \in {"tarring", "filing"} /\ size[Current(w)] = Gone
  /\ Rollback(w)
  /\ UNCHANGED <<opts, started, tars, vault, archives, bytesuploaded, mishaps>>

(* The same handlers end the task when the database fails: at              *)
(* archive_create, get_next_data_id, bulk_create, update_archive_id,       *)
(* c.save or the commit, or when a deadlock at the statistics rolls the    *)
(* whole transaction back.  And when the tar file cannot be opened or      *)
(* written.  An archive id not yet committed is lost.                      *)
FailsAt == [database |-> {"started", "filing", "filed", "uploaded", "counted"},
            tar      |-> {"started", "tarring"}]

TaskFails(w) ==
  /\ \E fault \in {"database", "tar"} \cap Faults :
       /\ st[w].pc \in FailsAt[fault] /\ (fault = "tar" => ~opts.dry)
       /\ Befalls(w, fault)
  /\ Rollback(w)
  /\ UNCHANGED <<opts, started, tars, vault, archives, bytesuploaded>>

(* A slip: the message of a killed task returns to the queue (acks_late).  *)
KillRedelivers(w) ==
  /\ "kill" \in Faults
  /\ ~At(w, "idle")
  /\ \/ UNCHANGED vault
     \/ At(w, "filed") /\ ~opts.dry /\ Store(w)
  /\ started' = started \ {st[w].task}
  /\ Befalls(w, "kill")
  /\ Rollback(w)
  /\ UNCHANGED <<opts, tars, archives, bytesuploaded>>

(* celeryd runs with --time-limit=300: the process is killed wherever it   *)
(* is, maybe when Glacier has the archive and the tar is not yet unlinked. *)
(* Its transaction is gone, its tar file stays.                            *)
Kill(w) ==
  /\ "kill" \in Faults
  /\ ~At(w, "idle")
  /\ \/ UNCHANGED vault
     \/ At(w, "filed") /\ ~opts.dry /\ Store(w)
  /\ Befalls(w, "kill")
  /\ Rollback(w)
  /\ UNCHANGED <<opts, started, tars, archives, bytesuploaded>>

WorkerStep(w) ==
  \/ StartTask(w) \/ CreateArchive(w) \/ TarFile(w) \/ FileRow(w)
  \/ DryRollback(w) \/ UploadStored(w) \/ UploadReturnsZero(w)
  \/ UploadRaises(w) \/ UpdateStats(w) \/ Commit(w) \/ TaskRaises(w)

(* What a worker may meet at any time, and is not owed.                    *)
WorkerFault(w) == StatsFail(w) \/ TaskFails(w) \/ Kill(w)

(* Other programs write and delete the files being archived.               *)
FileChanges(f) ==
  /\ "change" \in Faults /\ size[f] # Gone
  /\ \E s \in Sizes \ {size[f]} : size' = [size EXCEPT ![f] = s]

FileVanishes(f) ==
  /\ "vanish" \in Faults /\ size[f] # Gone
  /\ size' = [size EXCEPT ![f] = Gone]

(* main()'s UPDATE of the Crawl row waits for the row's lock.              *)
Crawling ==
  /\ \/ \E f \in Files : AddToBatch(f) \/ StartNextBatch(f) \/ SkipFile(f)
     \/ FinishWalk
     \/ rowLock = NoWorker /\ RecordTotal
     \/ CrawlFails
  /\ UNCHANGED <<size, taskVars>>

Next ==
  \/ Crawling
  \/ \E w \in Workers : (WorkerStep(w) \/ WorkerFault(w))
                        /\ UNCHANGED crawlerVars
  \/ \E f \in Files : (FileChanges(f) \/ FileVanishes(f))
                        /\ UNCHANGED <<crawlVars, taskVars>>

(* The crawl and each worker are running processes; no failure is owed.    *)
Fairness ==
  /\ WF_vars(Crawling)
  /\ \A w \in Workers : WF_vars(WorkerStep(w) /\ UNCHANGED crawlerVars)

Spec == Init /\ [][Next]_vars /\ Fairness
-----------------------------------------------------------------------------
(* entries lists the first n files of job, in the job's order.             *)
Lists(entries, job, n) ==
  /\ Len(entries) = n
  /\ \A k \in 1..n : entries[k].file = job[k]

Entry == [file : Files, bytes : Nat]

Size(rows) == FoldFunction(LAMBDA e, sum : e.bytes + sum, 0, rows)

Working(i) == \E w \in Workers : ~At(w, "idle") /\ st[w].task = i

Quiet == /\ cpc \in {"done", "failed"}
         /\ started = DOMAIN sent
         /\ \A w \in Workers : At(w, "idle")

WorkerState ==
  [pc : {"idle", "started", "tarring", "filing", "filed", "uploaded", "counted"},
   task : Nat, pos : Nat, rows : Seq(Entry), bytes : Nat, id : Nat,
   newtotal : Nat \cup {NotCounted}]

TaskTypeOK ==
  /\ CrawlTypeOK
  /\ opts \in [dry : BOOLEAN, tags : BOOLEAN]
  /\ started \subseteq DOMAIN sent
  /\ st \in [Workers -> WorkerState]
  /\ DOMAIN tars \subseteq started
  /\ tars \in [DOMAIN tars -> Seq(Entry)]
  /\ vault \in Seq([task : Nat, vault : {"configured", "generated"},
                    tar : Seq(Entry)])
  /\ archives \subseteq [task : Nat, archive_id : Nat,
                         vault : {"configured", "none"}, files : Seq(Entry),
                         bytesize : Nat, counted : BOOLEAN]
  /\ bytesuploaded \in Nat
  /\ rowLock \in Workers \cup {NoWorker}
  /\ mishaps \subseteq started \X FaultKinds

(* README: the database is the only way to find the files again.  A        *)
(* committed row with an archive id names an archive Glacier holds, whose  *)
(* tar and whose file rows are the batch the crawl sent, in its order,     *)
(* whatever fails, vanishes or is killed while the two are written.        *)
RecordedIsStored ==
  \A r \in archives :
    /\ r.task \in DOMAIN sent
    /\ Lists(r.files, sent[r.task], Len(sent[r.task]))
    /\ r.archive_id # 0 =>
         /\ r.archive_id \in DOMAIN vault
         /\ vault[r.archive_id].task = r.task
         /\ Lists(vault[r.archive_id].tar, sent[r.task], Len(sent[r.task]))

(* The tasks implement Catalog: together, whatever fails, they only ever   *)
(* add archives of new files and records of archives that are there.       *)
FilesOf(entries) == {entries[k].file : k \in DOMAIN entries}

Cat == INSTANCE Catalog WITH
  glacier <- [a \in DOMAIN vault |-> FilesOf(vault[a].tar)],
  rows    <- {[archive_id |-> r.archive_id, files |-> FilesOf(r.files)] : r \in archives}

ImplementsCatalog == Cat!Spec

(* Two workers never archive the same file: neither Glacier nor the        *)
(* catalog has it twice, whatever batches fail, and however the crawl's    *)
(* sending interleaves with the workers' taking.                           *)
ArchivedAtMostOnce ==
  /\ \A a, b \in DOMAIN vault :
       \A k \in DOMAIN vault[a].tar, l \in DOMAIN vault[b].tar :
         vault[a].tar[k].file = vault[b].tar[l].file => a = b /\ k = l
  /\ \A q, r \in archives :
       \A k \in DOMAIN q.files, l \in DOMAIN r.files :
         q.files[k].file = r.files[l].file => q = r /\ k = l

(* README: tasks.py keeps a searchable record of what it put in Glacier.   *)
(* Every archive is in a committed row, or the worker that stored it still *)
(* holds its id, or its own task was killed, lost Glacier's reply or had   *)
(* its transaction fail: nothing that befalls another task, no upload that *)
(* failed and no statistics that failed make Glacier hold what nobody can  *)
(* find.                                                                   *)
StoredIsRecorded ==
  \A a \in DOMAIN vault :
    \/ \E r \in archives : r.archive_id = a
    \/ \E w \in Workers : st[w].pc \in {"uploaded", "counted"} /\ st[w].id = a
    \/ \E fault \in {"kill", "reply", "database"} :
         <<vault[a].task, fault>> \in mishaps

(* The F() expression and the row lock lose no update: bytesuploaded is    *)
(* the sum over the committed tasks whose statistics were not skipped, and *)
(* each of those counts what its file rows say.                            *)
BytesUploadedExact ==
  /\ bytesuploaded = MapThenSumSet(LAMBDA r : r.bytesize,
                                   {r \in archives : r.counted})
  /\ \A r \in archives : r.bytesize = Size(r.files)

(* When a crawl given tags is done and the workers are quiet, every        *)
(* selected file that still exists is in an archive the catalog lists, or  *)
(* in the tar file its task left in TEMP_DIR, or its batch had a file      *)
(* vanish, or its own task was killed or had its tar or its transaction    *)
(* fail.  A failed or half-failed upload, a tar that cannot be unlinked,   *)
(* failed statistics and whatever befalls other batches lose nothing.      *)
Hit(i) ==
  \/ \E f \in Range(sent[i]) : size[f] = Gone
  \/ \E fault \in {"kill", "database", "tar"} : <<i, fault>> \in mishaps

ArchivedOrLeftBehind ==
  Quiet /\ cpc = "done" /\ opts.tags /\ ~opts.dry =>
    \A f \in Archivable : size[f] # Gone =>
      \/ \E r \in archives : r.archive_id # 0 /\ f \in FilesOf(r.files)
      \/ \E i \in DOMAIN tars : f \in FilesOf(tars[i])
      \/ \E i \in DOMAIN sent : f \in Range(sent[i]) /\ Hit(i)

(* The row lock blocks neither the other workers nor the crawl for ever:   *)
(* every batch sent is taken and its task ends, ...                        *)
TaskEnds ==
  \A i \in 1..Cardinality(Files) :
    i \in DOMAIN sent ~> i \in started /\ ~Working(i)

(* ... and the crawl, which also updates the locked row, ends.             *)
CrawlEnds == <>(cpc \in {"done", "failed"})
=============================================================================
