# A verification of glacier-archive

glacier-archive crawls a directory tree, packs its files into tar files, uploads these to
AWS Glacier and keeps a searchable record of files and archives in a database, from which
archives are later retrieved.  The trees are CIFS shares: beside the program lie an extension
module that reads their ACLs and the cifs-utils that mount them, set ACLs and answer the
kernel's requests for keys.  This directory holds TLA+ models of both, the TLC runs that check
them on small instances, and TLAPS proofs of what matters most for every instance.  File names
below are relative to `src/glacier_archive/` unless they start with `src/`; those of C files
are in `cifsacl/`.

- [1. The system](#1-the-system)
- [2. The modules and the code](#2-the-modules-and-the-code)
- [3. The runs](#3-the-runs)
- [4. The proofs](#4-the-proofs)
- [5. What the code does otherwise than it says](#5-what-the-code-does-otherwise-than-it-says)
- [6. What is not modelled](#6-what-is-not-modelled)
- [7. Plan](#7-plan)

## 1. The system

### Components

| component | source | state it keeps | operations |
|---|---|---|---|
| crawl | `archiver/crawler.py`, `main` of `archiver/archiveFiles.py` | `jobarray`, `arraysize`, `totaljobsize`; the Crawl row's `totalbytes` | `recurseCrawl` walks and selects, `addFile` batches, `apply_async` sends, `main` records the total |
| archiving task | `archiver/tasks.py`, `makeTar` and `uploadToGlacier` of `archiver/archiveFiles.py` | its locals, one open transaction, a tar file in TEMP_DIR | create the archive row, tar, file rows, upload, statistics, commit |
| catalog | `archiver/models.py` | Crawl, Archives, ArchiveFiles, ArchiveRetrieve, tags, UserCache | inserts and updates by the three programs |
| retrieval command | `archiver/findAndRetrieveFiles.py` | the rows to request | choose rows, `startJob`: initiate a job, record it |
| retrieval daemon | `archiver/FindDaemon.py` | the list of one scan, one open transaction, files in TEMP_RESTORE_DIR | `scan_for_task`: describe each open job, download, commit |
| SID cache | `lookupSID` in `archiver/models.py` | UserCache rows, Django's users and groups | look up, ask LDAP, create the account, insert, look again |
| CIFS permissions | `cifsaclmodule.c`, `buildPerms`, `addPerms` | guardian's permission rows | read a security descriptor, map it to rights |
| ACL tools | `setcifsacl.c`, `getcifsacl.c` | the file's descriptor on the server | add, delete, modify or set ACEs; print |
| mount helper | `mount.cifs.c`, `resolve_host.c` | `parsed_info`, shared by parent and child | assemble the mount information, mount, try the next address |
| mount table lock | `mtab.c`, `add_mtab` | `/etc/mtab`, `mtab~` and its record lock | lock, append, sync or cut back, unlock |
| key helpers | `cifscreds.c`, `cifs.upcall.c`, `cifs.idmap.c` | the kernel's keyrings, ticket caches | stash, update and clear credentials; answer requests for tickets, names and ids |
| encoders | `asn1.c`, `spnego.c` | `struct asn1_data` | write and read tagged items |
| id sequence | `archiver/sql/archivefiles.sql` | one table without transactions, two variables of each connection | `R_ObjectId_nextval`, from which a task takes the primary keys of its file rows |
| search index | `archiver/search_indexes.py` | an index outside the program | indexing declarations |
| C support code | `data_blob.c`, `util.c`, `replace.h`, `config.h` | none | buffers, string copies, portability |
| Django project, init scripts | `glacier_archive/*.py`, `archiver/scripts/` | none | settings, supervision |

### How they interact

```
 archiveFiles.py (crawl) --batches, Celery--> N workers (tasks.py) --tar--> TEMP_DIR
   |   ^  | totalbytes                         |        \--upload--> Glacier vault
   |   |  v                                    | rows, rights, bytesuploaded, one transaction each
   |   |  +------------- the database ---------+-----------------+
   |   |   UserCache, accounts   ^ catalog rows                  ^ ready, downloaded
   |   +-----------+             |                               |
   |  findAndRetrieveFiles.py ---+---job--> Glacier <--describe, get-- FindDaemon.py
   |
   +--getfacl--> CIFS share <--getxattr, setxattr-- setcifsacl
                   ^ mount.cifs --> mtab~, /etc/mtab
                   + kernel --request-key--> cifs.upcall --spnego.c, asn1.c--> KDC
                     user keyring <-- cifscreds          cifs.idmap --> winbind
```

The crawl and the workers run at the same time: workers take batches while the walk goes on,
and all of them, the crawl included, update the same Crawl row.  The crawl and the workers
read the file system at different times.  The retrieval command and the daemon meet in the
ArchiveRetrieve table and in Glacier.  The workers take the ids of their file rows from one
sequence, outside their transactions.  Several crawls meet in the SID cache; a crawl and
setcifsacl meet in a file's descriptor; several mount.cifs meet in `mtab~`; several cifscreds
meet in a keyring.

### What is hard

- *Concurrency.*  The Crawl row is updated with an `F()` expression by each worker, inside a
  transaction that then holds the row's lock until it commits; `main` needs the row too.
- *Check, then act.*  `lookupSID` looks for a row, asks LDAP and inserts; cifscreds searches all
  addresses and stores; setcifsacl reads and writes;
  `R_ObjectId_nextval` inserts, reads and deletes.  Others step in between.
- *Two systems that cannot commit together.*  The upload cannot be rolled back.  Everything
  after it, and everything that can go wrong before it, decides whether the catalog and
  Glacier agree.  The same holds between `initiate_job` and the ArchiveRetrieve row, between
  a downloaded file and `downloaded`, and between a key and its permissions.
- *Failures with several exits.*  `uploadToGlacier` swallows an exception with two arguments
  and returns 0, and raises itself on any other (`x, y = exc.args`, and `exc.args>0` is always
  true in Python 2); the statistics have a handler of their own; the rest rolls back, and when
  that is a database error after the upload the archive's id is lost.  Celery
  kills a task after 300 seconds wherever it is; the child of mount.cifs may be killed in the
  middle of what the parent will use; a helper may die with the lock file in place.
- *Time of check, time of use.*  A file is `stat`ed by the crawl, by `makeTar` and again for
  its row; it may change or vanish in between.
- *Retries.*  mount.cifs and cifs.upcall go back to an earlier line with other names or
  addresses, and must come to an end.
- *Layouts.*  setcifsacl computes with offsets and sizes that a server chose; `asn1.c` makes room
  for a length under tags that are still open.
- *Endless processes.*  The daemon must come back to every open job, through failed jobs,
  failed downloads and its own exits.

### What makes each part correct

- Crawl: every selected file is in exactly one batch; a batch respects NUMFILES and ARCHIVEMB
  and is cut only when it must be; the recorded total is the size of what was sent.
- Tasks: a row with an archive id names an archive Glacier holds with exactly the row's files;
  nothing is archived twice; what is in Glacier is recorded, and what is not is in a tar file
  left behind, unless something befell that very task; the byte statistics lose no update; no
  lock is held for ever.
- Retrieval: a command that ends well has recorded a job for every row, one that fails has lost one
  job at most; a row is `ready` only together with `downloaded`, and `downloaded` only after the
  output of its job was read to an end that `read` reported (which need not be the end of the
  archive, section 5); every job that is done is downloaded in the end.
- Ids: no two file rows get the same primary key, so that no right reaches a file it is not for.
- Rights: whoever has a right by a file's ACL gets it, and nobody else; setcifsacl sends the
  ACL that was asked for.
- Mounts: nothing half assembled is mounted; a user mounts what fstab says; one helper at a time
  writes mtab, no entry is lost, and status 0 tells of a whole one.
- Keys: stashed passwords are kept from others and until they are cleared; a ticket is for the
  server and the user of the request; every request is answered.
- Encoders: what was written is read back, and what goes on after an error does not take it back.

`PROJECT.json` lists the hazards behind these, each at its line, with the properties that
would notice it.

## 2. The modules and the code

| module | models | is extended by |
|---|---|---|
| `Crawler` | the crawl | `ArchiveTask`, `MCCrawler`, `ArchivingProofs` |
| `Catalog` | what crawl and workers promise about Glacier and the database: the abstract specification | instantiated by `ArchiveTask` |
| `ArchiveTask` | the workers, together with the running crawl, Glacier, TEMP_DIR and the database | `MCArchiveTask`, `ArchivingProofs` |
| `Retrieval` | command and daemon, together with Glacier and the database | `MCRetrieval`, `ArchivingProofs` |
| `CifsAcl` | setcifsacl and the server that keeps the descriptor | `FilePerms`, `CifsAclProofs` |
| `FilePerms` | from a descriptor to rights: getfacl, buildPerms, the SID cache, addPerms, while setcifsacl runs | `MCFilePerms`, `FilePermsProofs` |
| `ObjectId` | the workers' calls of `R_ObjectId_nextval` and what becomes of the ids | `MCFilePerms`, `FilePermsProofs` |
| `MountTable` | what the helpers promise about mtab: the abstract specification | instantiated by `MtabLock` |
| `MtabLock` | several mount.cifs in `add_mtab`, the lock file and its record lock | `MCMtabLock`, `MtabLockProofs` |
| `MountHelper` | one mount.cifs, parent and child | `MCMountHelper`, `MountHelperProofs` |
| `CifsCreds` | several cifscreds and a keyring | `MCKeys`, `KeysProofs` |
| `Upcall` | cifs.upcall and cifs.idmap for one request of the kernel | `MCKeys`, `KeysProofs` |
| `Asn1` | a writer, the bytes on their way, a reader | `MCAsn1`, `Asn1Proofs` |
| `MC...` | instances for TLC: files, sizes, command lines, faults, symmetry | |
| `...Proofs` | theorems | |
| `SumTheorems` | induction and sums, for the proofs | `ArchivingProofs`, `CifsAclProofs`, `Asn1Proofs` |

Some modules define *slips* next to an action (`HasRoomInclusive`, `UpdateUnlocked`, ...): the
action as it would be with a plausible mistake.  No specification uses them; replacing the
action by its slip shows that the properties below notice the mistake.

### Crawler

| code | TLA+ |
|---|---|
| `self.jobarray`, `self.arraysize`, `self.totaljobsize` | the variables of these names |
| `af.apply_async(args=[id, jobcopy, ...])` | append to `sent`; the position stands for the random tar name |
| `os.walk`'s remaining files | `todo`, a set: the order of a walk is any order |
| `os.stat(f).st_size`, or the exception | `size[f]`, or `Gone` |
| the `-x`/`-z` tests of `recurseCrawl` | `Selected` |
| the test, and the two branches of `addFile` | `HasRoom`, `AddToBatch`, `StartNextBatch` |
| a link, or a file the window leaves out | `SkipFile` |
| the end of `recurseCrawl`; `update(totalbytes=...)` | `FinishWalk`; `RecordTotal` |
| `os.stat` raises, `apply_async` raises, the process dies | `CrawlFails` |

`addFile` with its aliasing of `jobcopy` and `jobarray` is one action because the crawl is one
thread and `apply_async` has serialized its arguments when it returns.  Each file is a step of
its own, since workers and other programs run between any two.  `size` is a variable so that
`ArchiveTask` can let files change.

### ArchiveTask

Each worker is a process with a program counter; its record `st[w]` holds the task's locals and
what its open transaction will write.  Nothing of that is visible to others until `Commit`; a
`Rollback` forgets it.  The steps are the points between which another process, a failure or
a kill makes a difference:

| code (`tasks.py` unless named) | step |
|---|---|
| Celery acknowledges and calls the task | `StartTask` |
| `archive_create`, `tarfile.open` (not with DRY) | `CreateArchive`; without `-t`, `TaskRaises` |
| one round of `makeTar`'s loop | `TarFile` |
| one round of the loop over ArchiveFiles | `FileRow` |
| `transaction.rollback()` of a dry run | `DryRollback` |
| `bulk_create` and `uploadToGlacier` | `UploadStored`, `UploadReturnsZero`, `UploadRaises` |
| `crawlfil.update(bytesuploaded = F(...) + ...)` | `UpdateStats`, which waits for `rowLock`; `StatsFail` |
| `transaction.commit()` | `Commit` |
| the two outer handlers | `TaskRaises` for tags and files; `TaskFails` for a database or a tar file that fails |
| `--time-limit=300` in `scripts/init/celeryd.conf` | `Kill`, also inside the upload |
| other programs on the file system | `FileChanges`, `FileVanishes` |

`Faults` names the failures a run lets happen.  `reply` is an upload that Glacier completes but
whose answer never arrives.  `database` is an error at `archive_create`, `get_next_data_id`,
`bulk_create`, `update_archive_id`, `c.save` or the commit, or a deadlock at the statistics, which
rolls the whole transaction back (`FailsAt`); `tar` is a tar file that cannot be opened or written.
`mishaps` is a history variable: which of these, and of kills and lost replies, befell which task.
The properties use it to say that a loss is that task's own; no action reads it.

`Catalog` has two variables, the archives Glacier holds and the records of the database, and two
steps, `Store` and `Record`.  `ArchiveTask` maps its vault and its committed Archives rows
onto them, each reduced to its set of files (`Cat`, `ImplementsCatalog`): an upload is a `Store`,
a commit a `Record`, every other step of crawl, workers and file system a stutter.

External assumptions, visible only through their use in `src/`: Celery acknowledges before a
task runs (`acks_late` is not set), so no task is delivered twice; an UPDATE locks its row until
the transaction ends and reads the latest committed value (InnoDB); Glacier gives every upload a
fresh id.  The tag table's locks (`taggit`) are not
modelled.

### Retrieval

`catalog` holds what `ArchiveTask` may have committed, rows with id 0 included, which a failed
upload leaves.  `jobs` is Glacier's list of retrieval jobs, `retrieves` the ArchiveRetrieve
table.

| code | TLA+ |
|---|---|
| `main` of the command: `-a`, `-s`, neither | `Selection`, `StartClient` |
| `startJob` up to and including `initiate_job`; its `sys.exit` | `Initiate`; `InitiateFails` |
| `archive_retrieve` | `InsertRetrieve` |
| `filter(ready=False)` | `Scan` |
| `describe_job` and what follows from its answer | `Describe` |
| `ready=True` ... `downloaded=True` | `Download`; `DownloadFails` for the inner handler |
| `transaction.commit()`; the end of `scan_for_task` | `CommitDownload`; `EndScan` |
| every `sys.exit(2)` of the daemon, or a kill | `Describe` on a job that is gone, `DaemonDies` |
| Glacier's side of a job | `Complete`, `Expire` |
| `transaction.rollback()` | `daemon.saved` emptied, in `DownloadFails` and on every exit |

`ready` is saved before the download, in the transaction of the whole row.  `daemon.saved` is
that open transaction: pairs of a row and a column it has set.  `Committed` is the table with
these written; `CommitDownload` and, through `commit_on_success`, `EndScan` commit it.  The slip
`DownloadFailsKeeps` is the program without the inner rollback: the next commit would take
`ready` with it.  A tar is restored under a fresh
random name, so `restored` is the set of what the files hold: the `whole` archive, the part that
was there when the connection was closed early (`cut`), or what a call that raised, or a kill, has
left (`broken`).  The read loop takes any empty read for the end and compares what it has with
neither length nor hash, and Python 2's `read(amt)` returns an empty string on an early close: so a
`cut` file is a `Download` like a whole one, and only what raises is a `DownloadFails`.

### CifsAcl and FilePerms

The server keeps a descriptor as a record.  What getxattr returns (`Marshal`) and setxattr sends
is a sequence of 32-bit words, because where the parts lie decides what the code does; offsets and
sizes count words.  A server may put the DACL behind the SIDs or in front of them (`layout`).

| code | TLA+ |
|---|---|
| `parse_cmdline_aces`, `build_cmdline_aces`, the `verify_` functions | `ParseCommand`, `BuiltFrom` |
| the label `cifsacl` with its growing buffer | `GetXattr` |
| `copy_sec_desc`, `get_sec_desc_size` | `CopySecDesc`, `Fresh` |
| `copy_ace` for one ACE after the other; how far `acesptr` moves | `CopyAces`; `Packed`, `Spread` |
| `ace_add`, `ace_set`, `ace_modify`, `ace_delete` | `AceAdd`, `AceSet`, `AceModify`, `AceDelete` |
| `setacl_action`, `setxattr` | `SetaclAction`, `SetXattr` |
| `cifsacl_getfacl`, which tries one size | `Getfacl`, `Parsed` |
| `lookupSID`: cache, directory, account, insert, second look | `Lookup`, `Resolve`, `CreateAccount`, `InsertRow`, `LookAgain` |
| `buildPerms`, `addPerms` | `Perm`, `Assigned`, `Granted` |

Each look at the database is a step: another crawl may commit between any two.  `isolation` is
the database's: a session sees what is committed, or what was when it first read.  The second,
`snapshot`, is MySQL's default, which `settings.py:16` leaves as it is.  `made` is a history
variable: which crawl inserted which account and which row.

### ObjectId

| code | TLA+ |
|---|---|
| the rows of `R_ObjectId_seq_tbl`, its AUTO_INCREMENT | `seqtbl`, `autoinc` |
| `LAST_INSERT_ID()`, `@R_ObjectId_val` | `lastId`, `val` of a connection |
| `insert`, `set`, `delete`, `return` | `InsertNull`, `SetVal`, `DeleteAll`, `ReturnVal` |
| `bulk.append(f)`, `bulk_create`, commit, rollback | `ReturnVal`, `BulkCreate`, `CommitRows`, `RollbackRows` |
| a worker killed, a new connection | `LoseConnection` |

MySQL may keep the statements of a function together with a lock of its own; the model does
not rely on it, and lets other connections step in between any two.  It relies on MyISAM for this: an
insert takes the next number at once and the counter never goes back, whatever is deleted.
`ArchiveTask` leaves the ids out, which the properties there do not look at.

### MtabLock

| code | step |
|---|---|
| signals blocked, the link target created | `OpenTarget` |
| `link(linktargetfile, mtab~)`, and the test of the time | `Link` |
| `open(mtab~)`, which fails if its owner has just removed it | `OpenLock` |
| `fcntl(F_SETLK)` of whoever made the link | `Claim` |
| `fcntl(F_SETLKW)`, which the blocked alarm does not interrupt | `Wait`, `Blocked`; `LockFails` |
| the next round | `Retry` |
| `setmntent`, `lockf`, the size | `OpenTable` |
| `addmntent`, in full, in part or not | `AddEntry` |
| `ftruncate` after a failed `addmntent`, unchecked | `CutBack` |
| `my_endmntent`: sync, or cut back "best effort" | `EndTable` |
| `unlock_mtab`: close and unlink | `CloseLock`, `UnlinkLock` |
| `sigprocmask` with the handlers of `lock_mtab` installed, and the exit | `Unmask` |
| SIGKILL; the limit runs out | `Kill`, `TimeOut` |

A lock file is known by its maker, since `link` gives it the maker's target.  `holder` is the
record lock on each; closing or dying drops it.  An entry of mtab is `whole`, a `part` (what a failed
`addmntent` wrote, which has no newline, so that the next line continues it) or `unwanted` (whole, but
not synced, and the truncation failed too: `Disowned`).  A helper that ends forgets all but its
status and whether the lock file is its own.

`MountTable` has a table and the helpers that succeeded or failed.  It promises that no entry is
lost, that each helper adds at most one, that 0 means a whole entry is there and EX_FILEIO that none
is, a part or an unwanted one at most.  EX_USER, with which a signal ends the helper when the mask
is restored, and a kill promise neither.  An entry counts from the step that decides it
(`Committed`), so that cutting one back is no step of the table.

### MountHelper

The child's steps are those of `assemble_mountinfo`, one per option in `parse_options` and one per
line of a credentials file (`ParseCred`, `ReadCredLine`, `EndCred`); between any two it may be
killed (`ChildDies`).  The parent waits (`WaitForChild`) and then asks the kernel (`Mount`,
`TryNextAddress`, `TryUpper`) until it is done.  An option is a key and a value; the kernel's option
string is a sequence of such words, and `MAX_OPTIONS` counts words.  `parse_options` refuses what
does not fit; what is appended later, by `strlcat`, is cut off without a word (`Cuts`), at the end
of a word or inside it (`Part`): the version, user and domain in `Finish`, and address, UNC,
options, prefix and password for each attempt (`MountWords`, `Asks`).  `WithIds` appends the ids and
writes `backupuid=` or `backupgid=` over `gid=` but for its first letter, as the code does. -h, -V
and unknown switches print and end (`OnlyPrints`): -h and -V with 0, as the usage text of an unknown
switch also does.  `requests` records what the kernel was asked, with its answers. `RecordMount` is
`add_mtab`, whose steps are in `MtabLock`.

### CifsCreds and Upcall

`CifsCreds` has one process per command.  A search is two steps, the list of the keyring and the
descriptions of its keys (`ReadKeyring`, `Describe`); each keyctl is a step (`KeyAdd`, `SetPerm`,
`Drop`, `Unlink`).  `failures` counts system calls that fail although nothing is wrong.  A key
remembers who gave it its password.  The kernel's part is external: a key added under an existing
description is updated, and KEYCTL_SETPERM by a process without the right is refused.

`Upcall` is one helper and the key it was started for: `UpcallMain` and `Decode` take the
request apart, `Scan` looks at one ticket cache per step, `Keytab` falls back on the keytab, `Ask`
tries a principal, `AskTicket`, `GuessDomain` and `TryOnce` are the retries of `retry_new_hostname`,
`Pack` and `Instantiate` answer, `Out` ends, which for cifs.upcall is `NegateOnError` and for
cifs.idmap `JustReturn`.  `Resolve` and `Map` are the other two kinds of
request.  Meanwhile owners renew their tickets, and the kernel may give up.

### Asn1

`WriteItem` and `ReadItem` are the functions of `asn1.c` on a byte buffer with the stack of open
tags; bytes have 16 values, so that every limit (127, 255, 65535 and more of real bytes) is met by
short documents.  `WriteNext`, `Load` and `ReadNext` are a writer, the delivery, which may cut or
change the bytes, and a reader that goes on after an error, as a caller that tests at the end does.
An int has `Width` bytes, two at least (`Ints`), and `Word` values.  What the code stores in an int
or an `unsigned int` is cut to it: what is left of a tag, a `size_t` minus an offset, in
`asn1_tag_remaining` (`Remaining`, `Signed`), and the numbers of an OID (`NumberBytes`).  A tag's
length itself is not cut to a `size_t`, of which only the part an int keeps is used.  `ended`
records the tags ended without an error, with their length and how far they were read.  `Legible`
says which documents come back as they were: the first byte of an OID holds its first two numbers
(`Arc` times one and the other, which is below `Arc`), each of the others is below `Word` and takes
at most five bytes, which every `unsigned int` does, and what is read as the rest of a tag is
followed by the end of that tag.  `MCAsn1` states that every document of its run is legible, so the
precondition takes none of them away.

## 3. The runs

| run | bounds | what it shows |
|---|---|---|
| `crawl_batches` | 6 files (1 link, 1 outside the window), sizes 0, 1 MB - 1, 1 MB + 1, NUMFILES 3, ARCHIVEMB 2 | `BatchesWithinCount`, `BatchesWithinBytes`, `EveryFileInOneBatch`, `TotalIsWhatWasSent` for every walk order and a crawl that may die |
| `task_faults` | 3 files of 0 or 1 byte, 2 workers, every failure but changing sizes | `RecordedIsStored`, `ArchivedAtMostOnce`, `StoredIsRecorded`, `ArchivedOrLeftBehind`, and `ImplementsCatalog`, the refinement |
| `task_ends` | 2 files of 0 or 1 byte that change, 2 workers, failing uploads, a database that fails, kills, no vault configured | `BytesUploadedExact`; `TaskEnds` and `CrawlEnds` under fairness |
| `retrieve` | 2 archives or 1 and a failed upload, 2 jobs, 2 daemon failures, every failure | `ReadyIsDownloaded`, `DownloadedIsRestored`, `JobsAreRecorded`; `DoneIsDownloaded` under fairness |
| `retrieve_cut` | 2 archives, 2 jobs, one connection closed early and nothing else | a violation of `DownloadedIsWhole`, see [section 5](#5-what-the-code-does-otherwise-than-it-says) |
| `mtab` | 3 helpers, every failure | `OneWriter`, `NothingLeftBehind`, `ImplementsMountTable`, the refinement; `AddEnds` under fairness |
| `mtab_standstill` | 2 helpers, no failure but a sync that hangs | a violation of `WaitIsLimited`, see section 5 |
| `mount` | about 50 command lines with every option, 2 address lists, every answer | `MountsOnlyCompleteInfo`, `UserMountsFollowFstab`, `TriesInOrder`; `MountEnds` under fairness |
| `acl` | 3 SIDs of 5, 4 and 1 subauthorities, 7 commands, 8 files, 2 layouts, 1 tool, 2 crawls, both isolations; 5 ids, 2 workers, batches of 2 | `SendsWhatWasAsked`, `RightsArrive`; `UniqueIds`, `OldIdsAreDeleted` |
| `asn1` | about 1,500 documents of one or two items, nested tags up to three length bytes, 7 documents damaged in every way by one byte or an early end | `ReadsWhatWasWritten`, `EndedTagsNest`, `ErrorsLast` |
| `keys` | 2 commands out of 10 on 2 hosts with 2 failures; 1 request out of 20, 3 ticket caches | `StashedIsKept`, `KeysAreRestricted`, `ClearedIsGone`, `TicketIsRight`, `BestIsLongest`; `CommandsEnd`, `RequestEnds` under fairness |
| `upcall_negates` | the requests of `keys` | a violation of `NegatedOnError` by cifs.upcall, see section 5 |

The type invariants `TaskTypeOK`, which includes the crawl's, and `RTypeOK` are checked with the first
run of their module; `CrawlTypeOK` and `MtabTypeOK` are proved.

**Bounds, and why they are enough.**

- *Files and batches.*  Four selected files and NUMFILES 3, ARCHIVEMB 2 give batches cut by count
  (three small files), by bytes (one or two files above the megabyte), and the last one cut short,
  in one crawl.  The sizes lie on both sides of the boundary the two integer divisions make; a
  file of 1 MB - 1 adds nothing to the megabytes until another is added to it.  In the task runs
  two batches, one of two files and one of one, or two of one, keep two workers busy at once
  and let a worker be in the middle of a batch; every pair of tasks interferes through
  the Crawl row alone, so a third worker adds no new kind of interference.
- *Failures.*  A failure in `ArchiveTask` is not counted: any number may happen.  In `Retrieval`
  `MaxFailures` bounds downloads that fail or are cut short and deaths of the daemon (2: one in the
  row being worked on, one after a restart), and `MaxJobs` the jobs ever initiated (2: one behind
  the other in a scan, or two for the same archive).  The command is run as often as `MaxJobs`
  allows.
- *Helpers at the lock.*  Three: one that holds it, one that waits for it, and one that comes
  after the waiting one has got, given up or inherited it.  They are interchangeable, so
  `InOrderSpec` lets them begin in one order, which, unlike a symmetry of TLC's, is sound for `AddEnds`.
- *Command lines.*  In `mount` each option of `parse_options` occurs with and without a value, and
  those that depend on another occur after it; `MAX_OPTIONS` 6 is reached by the options given, by
  the final ids, by version, user and domain, and by each attempt's own words.  In `keys` a command
  for a host with two addresses meets one for a host with one of these, in every order, and the
  words `a` and `cl` test the abbreviations; the requests lack each token that matters once, or
  spoil it.
- *Descriptors.*  SIDs have 5, 4 and 1 subauthorities because `copy_sec_desc` copies 5; lists of 0,
  1 and 2 ACEs; BUFSIZE is chosen so that two long ACEs need a second try.  `MCSpec` lets either
  the tool or the crawls run while the others are between their transactions: a tool's steps before
  setxattr change nothing and a crawl looks at the file once, so these steps commute.
- *Ids.*  Two workers with two rows each and five numbers: one may be rolled back or killed and begin
  again while the other still has its rows to commit.  `MCFilePerms` runs either the rights or the
  ids, which share no state.
- *Bytes.*  A byte has sixteen values and an int `Width` 4 of them, 65,536 values, a tag's length
  one to four bytes or, damaged, more: lengths that an int cuts are among what a changed byte makes.
  Payloads lie on both sides of 7, 15 and 255 and of what the inner tag's length adds.
- *Symmetry.*  `task_faults` permutes workers and files, which no constant distinguishes there; nor
  does `Catalog`, which has no fairness, so the symmetry is sound for `ImplementsCatalog` too.  Runs
  with liveness properties use no symmetry.
- *Deadlock.*  Retrieval runs check it: daemon and command go on for ever.  A crawl and its
  workers, a helper and a command really stop when they are done, so the other runs do not.

**Fairness.**  `ArchiveTask`: weak fairness of the crawl and of each worker, which are running
processes that the operating system schedules; a pool process that is killed is replaced by
Celery.  No failure and no kill is owed.  The row lock needs no strong fairness in these
instances: each task takes it at most once, so it is free for good after finitely many tasks.
`Retrieval`: weak fairness of the command, of the daemon's steps, of Glacier completing each job,
and of the operator who restarts an exited daemon (the init scripts do not supervise it).
`DoneIsDownloaded` is false without the restarts.  The failures of the daemon are bounded by
`MaxFailures`, which stands for "not for ever".  It promises nothing once Glacier has dropped a job,
since the daemon then exits at that job in every scan (section 5).

`MtabLock`: weak fairness of each helper (`LockStep \/ TableStep`) and of its time limit
(`TimeOut`); no death and no failure is owed.  Time is not modelled: `TimeOut` may come at any
moment and comes at last, so the properties hold for every setting of the limit.  It does not end a
wait in `fcntl(F_SETLKW)`, and neither does a failing `fcntl` (`LockFails`), which may happen but
need not: a waiter goes on because the holder does, or dies.  `AddEnds` rests on holders that go on;
`StandstillFairness` leaves the sync out, and `mtab_standstill` shows a helper that waits for ever.
`MountHelper`: weak fairness of parent and child; the number of addresses bounds the retries.
`CifsCreds`: weak fairness of each command; `MaxFailures` stands for "calls do not fail for ever",
without which `clearall` need not end.  `Upcall`: weak fairness of the helper and of the kernel,
which completes the key when the helper has ended without an answer.

## 4. The proofs

All theorems hold for every value of the constants allowed by the named assumptions of the
modules they are about (`CrawlerAssumption`, `TaskAssumption`, `RetrievalAssumption`,
`MtabAssumption`, `CredsAssumption`, `UpcallAssumption`, `HelperAssumption`, `CifsAclAssumption`,
`FilePermsAssumption`, `ObjectIdAssumption`, `Asn1Assumption`): natural sizes, NUMFILES and
ARCHIVEMB positive, any number of files, workers, archives, jobs, helpers, keys, caches, ACEs and
command lines, bytes of any size, and any kinds of failure.  Three of them say something of the
world.  A host that is resolved has an address, and no other program describes its keys the way cifscreds
does.  The names `buildPerms` makes up ("root", "AnonymousUser") are nobody's in the directory, which
has one SID for a name, and S-1-1-0 is no account of it.

`SumTheorems`

- What the others need and the library does not have in a form that can be cited: induction over the
  numbers and over finite sets, stated for sets in place of predicates and proved from the library's
  theorem on well-founded relations (`LeastNatural`, `InductiveSet`, `SubsetInduction`); that a
  function given by iteration exists and is what its equations say (`IterationExists`); and that the
  sums of the community modules (`SumOnSet`) are a `Total` that grows by what is added to the set.

`ArchivingProofs`: the crawl

- `CrawlInvariant`: `CrawlInv` is inductive.  `BatchesWithinCount` alone is not: that a closed
  batch is not empty needs `FillingOK` (an empty `jobarray` weighs nothing, so `addFile` never
  closes it), and that no file is in two batches needs `HeldOnce` and `Apart` (what the walk has
  still to yield is in no batch, and `jobarray` shares nothing with `sent`).  The step lemma is
  proved for `CrawlStep` alone, so that the
  proofs about the tasks use it while workers step too.
- `CrawlTypes`, `CrawlCounts` follow from it.
- `CrawlLosesNothing`: `EveryFileInOneBatch`, with `WalkInv`, which adds that exactly the due files
  are in `sent` or in `jobarray`.  It is about a tree that nothing touches (`CrawlerSpec`).
- `CrawlBatchSizes` and `CrawlTotal`: `BatchesWithinBytes` and `TotalIsWhatWasSent`, from `WeightInv`.
  `arraysize` is what the files of `jobarray` weigh (for a tree that nothing touches), every batch
  was below ARCHIVEMB before its last file came (`Light`), and all but the last have reached a
  limit (`Full`).  That the totals of the batches add up needs `Apart`.

`ArchivingProofs`: the tasks

- `TaskInvariant`: `TaskInv` is inductive.  `RecordedIsStored` speaks of committed rows only; what
  they say was collected over several steps, so `Hand(w)` states what each stage of a task has
  made true of its locals (the tar lists a prefix of the batch while it is being written, the rows
  do, the id names an archive of this task).  `ArchivedAtMostOnce` speaks of files; it follows
  from `SentOnce` of the crawl and `OneOwner`: a task is at one worker at most, in one archive and
  one row at most, and once it is in Glacier or in the catalog no worker is before that point.
- `CatalogIsSound`, `NothingArchivedTwice` and `TaskTypes` follow.  They include kills and lost
  replies: these only ever lose a record, never make a false one.

- `EveryArchiveIsRecorded`: `StoredIsRecorded` follows from one step to the next.  Only `Commit`
  and what the property names take an archive's id from its worker: `Commit` writes the row at once;
  a kill, a database error at any place after the upload and a reply that is lost leave their trace in
  `mishaps`, under the task whose archive it is (`StoredStep`, `MishapsGrow`).  No hypothesis is left:
  all failures may happen, to other tasks too.
- `NoFileIsLost`: `ArchivedOrLeftBehind`, from `LostInv`.  Of the crawl
  it keeps `AllDue`, the half of `WalkInv` that survives files which change and vanish, and that a
  walk is over before the crawl is done; of the tasks `AllTraced`: one that has begun has its whole batch
  in its tar file, or in a row with an archive's id, or has a worker who has still to make the one or
  write the other, or was `Hit`: a file of its batch is gone, or it was killed or failed
  by the database or the tar file.  With `Quiet` there is no such worker.

Most steps of a worker touch nothing but its own record, the tar files and possibly the vault's
end.  `MovesInv` treats these once (`Moves`), so that each action only has to show its own
`Hand(w)'`; `StartTask` and `Commit` change shared state and have lemmas of their own.

- `NoUpdateIsLost`: `BytesUploadedExact`, for any number of workers and every failure.  `CountInv`
  says of each transaction that is going to write the statistics that it has the row's lock, and that
  the new value is the committed one plus what its own rows weigh, and of the committed value that
  it is the sum over the counted rows.  What others commit cannot come between, because the lock is
  taken before the value is read.
- `TasksImplementCatalog`: `Spec => ImplementsCatalog`, the refinement that `task_faults` checks.
  Initial states map to initial states; every step maps to `Store`, to `Record` or to a stutter,
  one lemma per kind of step.  That a `Store` brings no file a second time needs `OneOwner`, that a
  `Record` names exactly the files of its archive needs `Hand(w)`; both come from `TaskInv`.

`ArchivingProofs`: the retrieval

- `RetrievalInvariant`: `RInv` is inductive.  `ReadyIsDownloaded` speaks of committed rows, so it
  needs `Transaction`: what is saved and not committed is nothing, `ready` of the row being
  downloaded, or both its columns, and in that last case a file holds what was read up to an end
  that `read` reported (`InFile`).  `DownloadedIsRestored`
  also needs `RowsMatch` (the job a row names is for the row's archive), which needs `Asked` (so is
  the job between `initiate_job` and its insert).  `JobsAreRecorded` needs `Progress`, which follows the
  rows chosen through a command that has not failed, and `JobsKept`, which holds for one that has as well.
- `RetrievalTypes`, `NoRowIsStranded`, `DownloadsAreRead` and `NoJobIsLost` follow, for every
  combination of failures.

`MtabLockProofs`

- `StepInv`: `MtabInv` is inductive.  `OneWriter` says that two helpers never write mtab at once, and
  is not: nothing in it says why.  `LockInv` ties a helper's `we_created_lockfile` to the maker
  of `mtab~`, `HeldInv` lets nobody work on mtab, or be about to remove `mtab~`, who has not made
  it.  Two helpers at `append` would then both be the one `lockfile`.  The record lock plays no
  part: it shortens the wait, and a helper that makes the link goes on even if a waiter
  still has the record lock.
- `OneWriterHolds`, and `NothingLeft` with `TargetInv` (the link target exists only inside an
  attempt) and the half of `HeldInv` that is about `done`, follow; `MtabTypeCorrect` too.
- `ImplementsTable`: `MtabSpec => ImplementsMountTable`.  Opening, waiting and linking map to
  stutters; the step that ends the writing maps to `Add`, with a whole entry where it was synced, with
  a part or an unwanted one where the truncation failed as well, and to a stutter where the table was cut
  back.  The exit maps to `Succeed` or `Fail`, the signal at the restored mask and a kill to an end
  that promises neither.  `EntryInv` says what each stage makes of the exit status and of the entry;
  that a cut restores exactly the committed table needs `SizeInv` and the single writer.

`KeysProofs`: cifscreds

- `StashedKeysAreRestricted`, `NoKeyIsLost` and `ClearedKeysAreGone`: `KeysAreRestricted`,
  `StashedIsKept` and `ClearedIsGone`.  `CredsInv` says of every tool what its place in the command
  makes true of the keyring it shares.  What is hard is that it reads the keyring in one step and
  uses what it read in another, so each part speaks of the keys that were there when the command began,
  which have the lower serial numbers: the list it has read covers them all (`ListOK`),
  an add that can see has found none of its own at the addresses it has searched, so that one which is
  there now has come since (`SearchOK`), and the key it is about to unlink or to restrict is one it
  may touch (`KeyOK`).  At `drop`, after a `setperm` that failed, a key with the default permissions costs
  one failure.  All parts survive the other tools' steps because a key keeps its serial number and its
  description, and is never made less restricted (`Evolves`, `OthersKeep`).
- `ClearedIsGone` needs `ClearInv` besides: no two keys of ours have the same description, and a
  clear leaves behind it no key from before its start at an address it is done with.

`KeysProofs`: cifs.upcall

- `TokensAreRight` and `LongestCacheIsChosen`: `TicketIsRight` and `BestIsLongest`.  `UpcallInv` says
  what each stage of the helper has settled: the host is the one of the description or, once the plain
  principal of that one was asked for, the one its address has (`HostOK`); the best cache is the
  user's own, or his keytab's (`BestOK`), and lasts as long as any that was looked at if no owner
  renews his meanwhile (`LongestOK`); a principal that is packed is one the scheme allows and the KDC
  knows (`PrincipalOK`).

`MountHelperProofs`

- `ShapeInv`: the lists are lists, and the child works only while the parent waits.  `ParseEffect`
  says once what a word of the command line can do to the information, so that the proofs below
  need not look at the disjuncts of `ParseOption` again.
- `NothingHalfAssembled`: `MountsOnlyCompleteInfo`.  It speaks of requests, which the parent
  makes; `AssembledInv` says for every place of the child what has been put together by then, and
  that the parent goes on only when the child has ended with 0, at its last place.  The end of the
  options is what `Finish` appends (`Final`) as long as the buffer is not full; a command that only
  prints (`OnlyPrints`) asks for nothing.
- `UsersGetTheirLine`: `UserMountsFollowFstab`, with `FollowInv` (once past `fstab`, all the
  child of a user has still to parse, and all it has parsed, is from the line it has found: `FstabOK`)
  and `RequestsInv`.  An option cut at the end of the buffer counts as the `Whole` it was a part of.
- `AddressesInOrder`: `TriesInOrder`.  `TriesInv` and `NextTry` relate what is left of the address list
  to the requests made so far: it is the list without those that were refused.

`FilePermsProofs`: the ids

- `NoIdTwice` and `SequenceIsCleared`: `UniqueIds` and `OldIdsAreDeleted`.  `UniqueIds` speaks of
  the ids in `bulk` and in committed rows; one on its way through the function is in neither.
  `IdInv` counts it among what a connection has (`Has`), and says that all of that is below the
  counter, in no committed row and at no other connection.  `OneStep` shows once that a step which
  takes the next number, or none, keeps it.

`CifsAclProofs`, and `FilePermsProofs` for the specification with the crawls: setcifsacl

- `SendsTheAclAsked`: `SendsWhatWasAsked`.  `ToolsInv` says only that a setcifsacl about to write has
  read a descriptor, whatever the server laid out and whatever another setcifsacl wrote before;
  the rest is about what the code makes of one (`SendsAsked`).  It goes down to the words and back:
  - `MarshalIs` says where a server puts the words of a descriptor, `CopyIs` and `CopyAcesIs` what a copy
    changes and leaves, `CopySecDescIs` from which of its layers each word of the new descriptor comes.
    `Places` is the arithmetic of `Apart`: the 7 words copied for each SID reach neither the ACEs nor
    their number, though a SID with fewer subauthorities brings words of its neighbour with it.
  - In return, the first word of a SID and the first three of an ACE leave a server no choice of what
    it reads (`OneSid`, `OneAce`), so that a list of ACEs is read in one way or in none (`ListsRead`).
  - ACEs one behind the other are all read (`PackedMeans`).  `ace_set` puts them
    `sizeof(struct cifs_ace)` apart; behind a shorter one the server finds memory as
    malloc left it, and takes nothing (`SpreadMeans`).
  - `KeptIsAsked` and `ModifiedIsAsked`: the loops of `ace_delete` and `ace_modify`, by induction over
    the ACEs fetched and over those given, make the lists that `AskedAces` says in one sentence.
    For `ace_modify` this needs that an ACE modified keeps its SID and type, so that the next
    one given finds the same first ACE (`BecameAlike`).

`FilePermsProofs`: the rights

- `RightsReachTheirAccounts`: `RightsArrive`.  `PermsInv` says of the shared tables that a row of the
  cache is what the directory says and has its account (`RowsOK`), and of each crawl that what it
  has made of an entry is one of the outcomes its SID can have, that what its session sees was
  committed, and that it inserts a row only for an account that is there (`CrawlOK`).  Where sessions
  see what is committed, a crawl that was refused has been overtaken, so that the row it
  looks for again is there, and none of the entries it is done with has lost its account
  (`Sound`).  Under a snapshot that is not so.  There `MadeInv` follows who inserted what (`made`): a
  session sees what it inserted itself, so that what is there and it does not see is a `Rival`'s, and
  an entry is left out only because of one (`Traced`).  That tables only grow (`Grows`, `Adds`) carries
  both over the steps of others.

`Asn1Proofs`

- `Asn1Invariant`: `Asn1Inv` is inductive.  The lemmas before it say of each function what it may do to
  the struct: a writer only appends, and `asn1_pop_tag` stays within what was written after its tag
  was pushed (`WriterOK`); a reader only goes forward within the buffer, keeps an error, and opens a
  tag where it is, or none (`ReaderOK`, `Follows`, `Opens`).
- `TagsNest`: `EndedTagsNest`, with `StackOK`.  `asn1_start_tag` compares the length of a tag with the
  whole buffer and not with the tag around it; that ended tags nest rests on `asn1_end_tag`
  alone, which wants the offset to be the tag's end, and on offsets that never go back.  The tag's end
  is where an int says it is: `asn1_tag_remaining` keeps of a length what an int keeps (`% Word`), and
  the theorem is about buffers an int can count.
- `ErrorsAreFinal`: `ErrorsLast`, for every function that keeps an error, and for
  `asn1_check_enumerated` the half that it keeps: an error from before its call.
- `WhatWasWrittenIsRead`: `ReadsWhatWasWritten`, by `BackInv`, which speaks of the layout of a document
  and of nothing the program stores.  It says of the items done so far where each begins (`pos`), how
  long each tag is (`len`, -1 while it is open) and which tags are open behind each item (`stk`).
    - *One number.*  Big-endian bytes, the bytes of a length, of an int with its sign and of the
      numbers of an OID are those of the number (`UnsignedBigEndian`, `LengthGets`, `IntBack`, `OidBack`).
    - *One item.*  `At(bytes, p, s)`: s lies in bytes behind the first p.  Where the bytes of
      an item lie, the reader gets its value and stops behind it (`AtomGets`, `AtomChecks`), whatever
      surrounds them.
    - *The writer.*  An item that is written goes to the end (`AtomWrites`, `Extends`).  A tag that ends
      takes one byte out and puts its length in, which may be longer: all before it stays, all
      behind it moves by the same (`PopWrites`, `Spliced`).  Hence the layout of n items becomes that of
      n + 1 (`LaidNext`, `LaidPop`).  The hard part is that earlier lengths remain right when
      a later pop moves bytes: a tag that has ended lies wholly before or wholly inside each tag
      still open (`Nested`, `Outside`), so it moves as a whole or not at all (`MatchedPop`).
    - *The reader.*  Between two items its offset and its open tags are those of the layout
      (`Stands`): no length can lead out of the buffer (`WholePush`), and each tag ends where its
      last item does (`WholePop`), so `asn1_end_tag` finds nothing left.

  The theorem speaks of documents that are `Legible`, of fewer than `Base`^4 bytes, as
  `asn1_pop_tag` writes lengths of up to four, and below `Word \div 2`, so that no length turns
  negative in an int; what is not legible does not come back, see section 5, *Encoders*.  The proof
  has shown that an int of one byte would not do either, hence the two of `Asn1Assumption`; the code
  has four.

*Only model-checked.*  The liveness properties, which are out of the provers' reach: `TaskEnds`,
`CrawlEnds`, `DoneIsDownloaded`, `AddEnds`, `MountEnds`, `CommandsEnd` and `RequestEnds`.  Every
invariant and every action property of a passing run is a theorem.  `NegatedOnError`,
`DownloadedIsWhole` and `WaitIsLimited` are violated.

*What the attempts at proofs have shown.*  `SendsWhatWasAsked` was false for ACLs the run did not have:
it now says in `Apart` and `Suits` when the parts of a descriptor stay where they are (section 5,
*Rights*).

## 5. What the code does otherwise than it says

Three runs show a counterexample.

- `retrieve_cut`: `src/README.md:153` says the daemon "grabs the tar archive and throws it into
  TEMP_RESTORE_DIR".  The loop takes the first empty read for the end (`archiver/FindDaemon.py:60-66`) and
  compares what it has with neither length nor hash; Python 2's `read(amt)` returns an empty string
  on an early close too.  Such a part is committed as `downloaded`, and never fetched again.
- `mtab_standstill`: the limit of 30 seconds "also counts time which we spend in fcntl(F_SETLKW)"
  (`mtab.c:135`).  But `add_mtab` has blocked SIGALRM with all other signals (`mount.cifs.c:1536`):
  nothing interrupts that wait if the holder neither dies nor goes on, as in an fsync that hangs.
- `upcall_negates`: the comment at `cifs.upcall.c:1019` says that on error
  the helper negates the key itself, so that the kernel does not hang it off a searchable keyring.
  `cifs.upcall.c:1024` does so only `if (rc != 0 && key == 0)`, and a request that has got that far has a
  key other than 0: no key is ever negated, and completing a failed request is left to the kernel.

The rest was read while modelling, and is in the models where they reach it.  None of the passing
runs claims the contrary.

*The archiver.*

- `-x` is documented on the atime (`src/README.md:104`); `recurseCrawl` compares `st_mtime`
  (`archiver/crawler.py:147`).
- Without `-t`, `TAGS` is None and `for tag in tags` raises in every task (`archiver/models.py:48`):
  the crawl archives nothing and says so only in the worker's log.
- Without GLACIER_VAULT the upload goes to a vault with a random name (`archiver/archiveFiles.py:87`)
  that is never recorded.
- A kill between upload and commit (`archiver/scripts/init/celeryd.conf:16`) leaves an archive that
  no row names.  So does a database error after the upload, at `update_archive_id`, `c.save` or the
  commit, or a deadlock at the statistics (`archiver/tasks.py:98-114`): the handler rolls back
  (`:119-121`), and the archive's id is written nowhere else.
- A failed upload is committed with id 0, stored as "0", which passes `if r.archive_id`; Glacier
  refuses it and `startJob` exits the whole command (`archiver/findAndRetrieveFiles.py:61`).
- A job Glacier has dropped makes `describe_job` raise, which exits the daemon in every scan before it
  reaches the rows behind it (`archiver/FindDaemon.py:83`).
- The tar of a failed upload stays in TEMP_DIR, where nothing retries or removes it, although
  `src/README.md:31` sizes TEMP_DIR for NUM_PROCS tars; `-r` does not influence `os.walk`; restored
  tars are not unpacked (`src/README.md:32`).
- Running `sql/archivefiles.sql` again drops the sequence and starts at 10000 (`archivefiles.sql:3`,
  `:5`); the next batches get ids of existing rows, and fail in `bulk_create` until it is past them.
- Under snapshot isolation, MySQL's default, which `glacier_archive/settings.py:16` leaves as it is,
  `lookupSID`'s second look, in the transaction that began before, does not
  see the other crawl's row: the name of that entry is lost, and with it the right.

*Rights.*

- A DENIED ACE grants what it denies; an owner that is a group, and an owning group that is a user,
  get nothing.
- `getfacl` tries one buffer of 1024 bytes; a longer ACL reads as an empty one.
- `ace_set` puts the ACEs `sizeof(struct cifs_ace)` apart (`setcifsacl.c:197`), but each says it is as
  long as its own SID: a list in which a short SID is not last is corrupt.
- `copy_sec_desc` copies 5 subauthorities for either SID whatever it has, and writes over what lies
  behind a shorter one.  Adding to a file without DACL writes the DACL at offset 0, over the header.
- `copy_sec_desc` writes the SIDs at the offsets they had, after the ACEs (`setcifsacl.c:45`).  If the
  DACL lies in front of them, ACEs that are added are written over by the SIDs; when the last
  one's SID begins where the owner's does, and is as long, the new ACL grants the owner what was asked for
  another.  And `-S` with fewer ACEs than there were allocates too little for the SIDs to be where they
  were.  `setcifsacl.1:55` says the ACL is replaced "entirely with the specified ACEs".
- `verify_ace_flags` returns no value for the flags `0x0`; the flags are then what malloc found.
- After its options are parsed setcifsacl exits with -1 whether it has succeeded or not.  getcifsacl
  prints OBJECT_ALLOWED, where setcifsacl wants ALLOWED_OBJECT.
- Of two setcifsacl on one file, one may undo the other.

*Mounts.*

- `gid=` comes out garbled whenever another id follows it: `out_len` is not moved past it
  (`mount.cifs.c:1291`), the next option is written over it but for its first letter, and the kernel is
  asked for `gbackupuid=` or `gbackupgid=`, so that both are lost (`mount.cifs.8:130`).
- What does not fit into MAX_OPTIONS_LEN is cut off by `strlcat` without a word, inside an option too
  (`mount.cifs.c:1749`, `:1937`): user, domain, prefix and password may be missing from a mount.
- `uid=`, `gid=` and `cruid=` take a name (`mount.cifs.8:115`, `:130`); a name becomes 0
  (`mount.cifs.c:1042`).  `fmask=` and `dmask=` become `file_mode=` and `dir_mode=` without their value.
- `unc=` over a longer device name leaves the tail of the old one.
- `cred=` is also passed on to the kernel, and the flags of the VFS (`nosuid`, ...) are passed on
  as options, which a comment says they are not.
- If the first address of a host is not a TCP one, the list begins with an empty address.
- The share stays mounted when mtab could not be written and the exit status says so.
- A signal that came meanwhile is delivered when `add_mtab` restores the mask with the handlers of
  `lock_mtab` still in place (`mount.cifs.c:1622`, `mtab.c:155`): the helper exits with EX_USER though
  the entry is in mtab.
- The `ftruncate` after a failed `addmntent` or sync is not checked (`mount.cifs.c:1610`, `mtab.c:272`):
  where it fails too, or a kill comes first, a part of an entry stays, which garbles the next line.

*Keys.*

- Two `add` for one host: both keyctl update the same key, the second SETPERM is refused, and
  that process takes the key out again.  No credentials are left, and both report success.
- A search that fails reads as "not found"; `add` then replaces what is there.  `add` and
  `clear` report success whatever failed.  `update` makes a key that was cleared meanwhile again,
  without restricting it.  `clearall` loops for ever if unlinking keeps failing.
- `strget` of cifs.idmap leaves its copy without a terminator; the model lets what is read
  be garbled.  A request without any ticket cache is tried with none.  A number that does not parse
  leaves the helper with all tokens it had found before.

*Encoders.*

- `asn1_check_BOOLEAN` takes the length byte for the value.
- `asn1_check_enumerated` sets `has_error` to false for a wrong value (`asn1.c:810`), where it means
  true: a wrong value is accepted, and so is what an error of its own reading has left.  An error
  from before the call stays, since `asn1_start_tag` then fails (`:805`).
- `asn1_tag_remaining` keeps a `size_t` length in an int (`asn1.c:540`), though the comment at `:528`
  has it return what is left: a tag of 2^32 + n bytes ends after n; where the int is negative, the
  comparison at `:541` is unsigned and finds an error.
- The numbers of an OID are read into an `unsigned int` (`asn1.c:242`): five bytes may hold more,
  and what is above 2^32 is lost.
- Negative integers lose their sign when they are read back.
- `ber_write_OID_String` puts `40*v + v2` in one byte (`asn1.c:238`) whatever the first two numbers
  are: `1.40.1` is written without an error and comes back as `2.0.1`.
- The two functions of `spnego.c` return their buffer whether or not an error has occurred.

## 6. What is not modelled

- The contents of files and tars, descriptions, the names `id_generator` makes (taken to be fresh),
  logging and printing; getcifsacl, which only prints.
- `archiveFiles`, the threaded predecessor of `archiveFilesTask`, which nothing calls, and
  USECELERY=False, for which `main` only prints a line.
- NUMFILES or ARCHIVEMB of 0, which the settings never have.
- The -r option of the retrieval command, which requests nothing.
- Tags, whose table and locks are taggit's; `R_ObjectId_currval`, which nothing calls.
- A crash of the database server: MyISAM's counter is then what its repair finds.
- The C support code: `data_blob.c`, `util.c`, `replace.h`, `config.h`.  Buffers are sequences, and
  the limits that are tested before a copy are guards where a property depends on them.
- A terminal that gives no password, the text of IPv6 addresses and
  the limits on the lengths of names.
- Cryptography: a ticket is what it is for, GSSAPI and Kerberos are external actions of `Upcall`.
- Search index, Django scaffolding, init scripts: no state of their own that the program's
  correctness rests on.

## 7. Plan

Done: the modules, runs and proofs above.  What is left, in this order:

1. Composition of `ArchiveTask` and `Retrieval` over one catalog and one vault: what was archived
   can be restored, end to end.
2. The locks of the tag table, once its library is at hand.
