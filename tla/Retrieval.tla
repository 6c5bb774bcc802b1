----------------------------- MODULE Retrieval -----------------------------
(***************************************************************************)
(* Getting archives back: findAndRetrieveFiles.py asks Glacier for a       *)
(* retrieval job per archive and records it in ArchiveRetrieve;            *)
(* FindDaemon.py looks every CHECKSECONDS at the recorded jobs that are    *)
(* not ready and downloads those that Glacier has completed.  The two      *)
(* programs share the database and Glacier.                                *)
(*                                                                         *)
(* A downloaded tar goes to a file with a fresh random name, so the        *)
(* restore directory is the set of what its files hold: for a job, the     *)
(* whole archive, the part read when the connection was closed early       *)
(* ("cut": in Python 2 read() then returns "", as it does at the end), or  *)
(* the part written when a call raised or the daemon died ("broken").      *)
(***************************************************************************)
EXTENDS Integers, Sequences, FiniteSets

CONSTANTS
  Catalog,      (* the possible contents of the Archives table           *)
  MaxJobs,      (* bound: retrieval jobs ever initiated                  *)
  MaxFailures,  (* bound: failed downloads and kills of the daemon       *)
  RFaults       (* the failures a run lets happen                        *)

RFaultKinds == {"client", "connect", "download", "cut", "jobfails", "expire", "kill"}

ASSUME RetrievalAssumption ==
  /\ \A c \in Catalog : c \subseteq [archive_id : Nat, vault : {"configured", "none"}]
  /\ MaxJobs \in Nat /\ MaxFailures \in Nat
  /\ RFaults \subseteq RFaultKinds

VARIABLES
  catalog,   (* the committed Archives rows                              *)
  client,    (* the running findAndRetrieveFiles.py                      *)
  jobs,      (* Glacier's retrieval jobs, the id being the position      *)
  retrieves, (* the committed ArchiveRetrieve rows, in primary key order *)
  daemon,    (* FindDaemon.py: its position in a scan and its transaction *)
  restored,  (* what the files in TEMP_RESTORE_DIR hold                  *)
  failures   (* counts what MaxFailures bounds                           *)

rvars == <<catalog, client, jobs, retrieves, daemon, restored, failures>>

(* chosen: the rows the command selected; wanted: those left to request;   *)
(* first: the jobs there were before it; row, job: what it asked for last; *)
(* failed: it has exited with an error.                                    *)
NoRow == [archive_id |-> 0, vault |-> "none"]
Ended == [pc |-> "ended", chosen |-> {}, wanted |-> {}, first |-> 0,
          row |-> NoRow, job |-> 0, failed |-> FALSE]

(* left: rows of the scan not yet looked at; row: the one being downloaded; *)
(* saved: what the open transaction has set, as pairs of a row and a column.*)
Asleep == [pc |-> "asleep", left |-> {}, row |-> 0, saved |-> {}]
Exited == [Asleep EXCEPT !.pc = "exited"]

(* Glacier has the archive of this row.                                    *)
Retrievable(r) == r.archive_id # 0 /\ r.vault = "configured"
-----------------------------------------------------------------------------
RInit ==
  /\ catalog \in Catalog
  /\ client = Ended
  /\ jobs = <<>> /\ retrieves = <<>>
  /\ daemon = Asleep
  /\ restored = {}
  /\ failures = 0

(* main() picks the rows: -a one archive id, which get() must find exactly *)
(* once; -s what the index returns; otherwise every row with an id ("0",   *)
(* the id of a failed upload, is one).  -r prints and requests nothing.    *)
Selection(mode) ==
  CASE mode = "all"    -> {catalog}
    [] mode = "search" -> SUBSET catalog
    [] mode = "one"    -> {{r} : r \in {q \in catalog :
                             \A o \in catalog \ {q} : o.archive_id # q.archive_id}}

StartClient ==
  /\ client.pc = "ended"
  /\ \E mode \in {"all", "search", "one"} : \E wanted \in Selection(mode) :
       /\ Len(jobs) + Cardinality(wanted) <= MaxJobs
       /\ client' = [Ended EXCEPT !.pc = "requesting", !.chosen = wanted,
                                   !.wanted = wanted, !.first = Len(jobs)]
  /\ UNCHANGED <<catalog, jobs, retrieves, daemon, restored, failures>>

(* startJob: initiate_job succeeds.                                        *)
Initiate(r) ==
  /\ client.pc = "requesting" /\ r \in client.wanted
  /\ Retrievable(r)
  /\ jobs' = Append(jobs, [archive_id |-> r.archive_id, status |-> "running"])
  /\ client' = [client EXCEPT !.pc = "inserting", !.row = r, !.job = Len(jobs) + 1,
                              !.wanted = @ \ {r}]
  /\ UNCHANGED <<catalog, retrieves, daemon, restored, failures>>

(* startJob: get_vault or initiate_job raises, sys.exit.                   *)
InitiateFails(r) ==
  /\ client.pc = "requesting" /\ r \in client.wanted
  /\ ~Retrievable(r)
  /\ client' = [client EXCEPT !.pc = "ended", !.failed = TRUE]
  /\ UNCHANGED <<catalog, jobs, retrieves, daemon, restored, failures>>

Retrieve(archive_id, job) ==
  [archive_id |-> archive_id, job |-> job, ready |-> FALSE, downloaded |-> FALSE]

(* A slip: archive_retrieve is called without job_id, whose default is     *)
(* None.                                                                   *)
InsertNoJob ==
  /\ client.pc = "inserting"
  /\ retrieves' = Append(retrieves, Retrieve(client.row.archive_id, 0))
  /\ client' = [client EXCEPT !.pc = "requesting"]
  /\ UNCHANGED <<catalog, jobs, daemon, restored, failures>>

(* startJob: archive_retrieve inserts the row.                             *)
InsertRetrieve ==
  /\ client.pc = "inserting"
  /\ retrieves' = Append(retrieves, Retrieve(client.row.archive_id, client.job))
  /\ client' = [client EXCEPT !.pc = "requesting"]
  /\ UNCHANGED <<catalog, jobs, daemon, restored, failures>>

(* The loop over searchrecord is through.                                  *)
EndClient ==
  /\ client.pc = "requesting" /\ client.wanted = {}
  /\ client' = [client EXCEPT !.pc = "ended"]
  /\ UNCHANGED <<catalog, jobs, retrieves, daemon, restored, failures>>

(* A slip: the handlers print and log, and do not exit.                    *)
ClientFailsGoesOn ==
  /\ "client" \in RFaults
  /\ client.pc = "inserting"
  /\ client' = [client EXCEPT !.pc = "requesting"]
  /\ UNCHANGED <<catalog, jobs, retrieves, daemon, restored, failures>>

(* A connection or the database fails, or the command is interrupted: it   *)
(* exits, with a job initiated or not.                                     *)
ClientFails ==
  /\ "client" \in RFaults
  /\ client.pc # "ended"
  /\ client' = [client EXCEPT !.pc = "ended", !.failed = TRUE]
  /\ UNCHANGED <<catalog, jobs, retrieves, daemon, restored, failures>>

Client ==
  \/ StartClient
  \/ \E r \in catalog : Initiate(r) \/ InitiateFails(r)
  \/ InsertRetrieve
  \/ EndClient
  \/ ClientFails

(* Glacier completes a job, which may have failed; the output of a job is  *)
(* kept for a day, then the job is gone.                                   *)
Complete(j) ==
  /\ jobs[j].status = "running"
  /\ \E s \in {"succeeded"} \cup (IF "jobfails" \in RFaults THEN {"failed"} ELSE {}) :
       jobs' = [jobs EXCEPT ![j].status = s]
  /\ UNCHANGED <<catalog, client, retrieves, daemon, restored, failures>>

Expire(j) ==
  /\ "expire" \in RFaults
  /\ jobs[j].status \in {"succeeded", "failed"}
  /\ jobs' = [jobs EXCEPT ![j].status = "gone"]
  /\ UNCHANGED <<catalog, client, retrieves, daemon, restored, failures>>
-----------------------------------------------------------------------------
(* The table once the daemon's transaction is committed.                   *)
Committed ==
  [i \in DOMAIN retrieves |->
     [retrieves[i] EXCEPT !.ready = @ \/ <<i, "ready">> \in daemon.saved,
                          !.downloaded = @ \/ <<i, "downloaded">> \in daemon.saved]]

(* scan_for_task: filter(ready=False), evaluated once per scan.            *)
Scan ==
  /\ daemon.pc = "asleep"
  /\ daemon' = [Asleep EXCEPT !.pc = "scanning",
                   !.left = {i \in DOMAIN retrieves : ~retrieves[i].ready}]
  /\ UNCHANGED <<catalog, client, jobs, retrieves, restored, failures>>

(* commit_on_success: what is saved by now is committed.                   *)
EndScan ==
  /\ daemon.pc = "scanning" /\ daemon.left = {}
  /\ retrieves' = Committed
  /\ daemon' = Asleep
  /\ UNCHANGED <<catalog, client, jobs, restored, failures>>

(* describe_job of the next row, in primary key order: not completed, the  *)
(* loop goes on; completed, however it ended, ready is saved; the job is   *)
(* gone, the call raises and the daemon rolls back and exits.              *)
Describe(i) ==
  /\ daemon.pc = "scanning" /\ i \in daemon.left
  /\ \A k \in daemon.left : i <= k
  /\ LET status == jobs[retrieves[i].job].status
     IN  \/ /\ status = "running"
            /\ daemon' = [daemon EXCEPT !.left = @ \ {i}]
         \/ /\ status \in {"succeeded", "failed"}
            /\ daemon' = [daemon EXCEPT !.pc = "downloading", !.row = i,
                             !.left = @ \ {i}, !.saved = @ \cup {<<i, "ready">>}]
         \/ status = "gone" /\ daemon' = Exited
  /\ UNCHANGED <<catalog, client, jobs, retrieves, restored, failures>>

CurrentJob == jobs[retrieves[daemon.row].job]

File(kind) == [job |-> retrieves[daemon.row].job,
               archive_id |-> CurrentJob.archive_id, kind |-> kind]

(* get_job_output is read until a read returns nothing and downloaded is   *)
(* saved: at the end of the archive, or where the connection was closed.   *)
Download ==
  /\ daemon.pc = "downloading"
  /\ CurrentJob.status = "succeeded"
  /\ \/ restored' = restored \cup {File("whole")} /\ UNCHANGED failures
     \/ /\ "cut" \in RFaults /\ failures < MaxFailures
        /\ failures' = failures + 1
        /\ restored' = restored \cup {File("cut")}
  /\ daemon' = [daemon EXCEPT !.pc = "downloaded",
                              !.saved = @ \cup {<<daemon.row, "downloaded">>}]
  /\ UNCHANGED <<catalog, client, jobs, retrieves>>

(* get_job_output, a read or a write, a.save or the commit raises; the     *)
(* file may not have been opened yet, or be written to its end.            *)
DownloadRaises ==
  /\ daemon.pc = "downloading"
  /\ \/ CurrentJob.status # "succeeded" /\ UNCHANGED <<restored, failures>>
     \/ /\ "download" \in RFaults /\ failures < MaxFailures
        /\ failures' = failures + 1
        /\ \/ UNCHANGED restored
           \/ \E kind \in {"broken", "whole"} : restored' = restored \cup {File(kind)}

(* Slips: the handler does not roll back, so that the next commit takes    *)
(* ready with it; the handler is around the read alone, as if it had ended. *)
DownloadFailsKeeps ==
  /\ DownloadRaises
  /\ daemon' = [daemon EXCEPT !.pc = "scanning", !.row = 0]
  /\ UNCHANGED <<catalog, client, jobs, retrieves>>

DownloadFailsSilently ==
  /\ DownloadRaises
  /\ daemon' = [daemon EXCEPT !.pc = "downloaded",
                              !.saved = @ \cup {<<daemon.row, "downloaded">>}]
  /\ UNCHANGED <<catalog, client, jobs, retrieves>>

(* The inner handler: transaction.rollback(), the loop goes on.            *)
DownloadFails ==
  /\ DownloadRaises
  /\ daemon' = [daemon EXCEPT !.pc = "scanning", !.row = 0, !.saved = {}]
  /\ UNCHANGED <<catalog, client, jobs, retrieves>>

CommitDownload ==
  /\ daemon.pc = "downloaded"
  /\ retrieves' = Committed
  /\ daemon' = [daemon EXCEPT !.pc = "scanning", !.row = 0, !.saved = {}]
  /\ UNCHANGED <<catalog, client, jobs, restored, failures>>

(* The connection or a describe_job raises and the daemon exits, or it is  *)
(* killed; its open transaction is lost, a file it was writing stays.      *)
DaemonDies ==
  /\ daemon.pc # "exited"
  /\ failures < MaxFailures
  /\ failures' = failures + 1
  /\ \/ "connect" \in RFaults /\ daemon.pc = "scanning" /\ UNCHANGED restored
     \/ "kill" \in RFaults /\ UNCHANGED restored
     \/ /\ "kill" \in RFaults /\ daemon.pc = "downloading"
        /\ restored' = restored \cup {File("broken")}
  /\ daemon' = Exited
  /\ UNCHANGED <<catalog, client, jobs, retrieves>>

(* The operator starts the daemon again.                                   *)
Restart ==
  /\ daemon.pc = "exited"
  /\ daemon' = Asleep
  /\ UNCHANGED <<catalog, client, jobs, retrieves, restored, failures>>

DaemonStep ==
  \/ Scan
  \/ EndScan
  \/ \E i \in DOMAIN retrieves : Describe(i)
  \/ Download
  \/ DownloadFails
  \/ CommitDownload

RNext ==
  \/ Client
  \/ \E j \in DOMAIN jobs : Complete(j) \/ Expire(j)
  \/ DaemonStep
  \/ DaemonDies
  \/ Restart

(* The command and the daemon run, Glacier completes its jobs, and someone *)
(* restarts a daemon that has exited.                                      *)
RFairness ==
  /\ WF_rvars(Client)
  /\ \A j \in 1..MaxJobs : WF_rvars(j \in DOMAIN jobs /\ Complete(j))
  /\ WF_rvars(DaemonStep)
  /\ WF_rvars(Restart)

RSpec == RInit /\ [][RNext]_rvars /\ RFairness
-----------------------------------------------------------------------------
RTypeOK ==
  /\ catalog \in Catalog
  /\ client \in [pc : {"ended", "requesting", "inserting"}, chosen : SUBSET catalog,
                 wanted : SUBSET catalog, first : Nat, row : catalog \cup {NoRow},
                 job : Nat, failed : BOOLEAN]
  /\ jobs \in Seq([archive_id : Nat,
                   status : {"running", "succeeded", "failed", "gone"}])
  /\ retrieves \in Seq([archive_id : Nat, job : Nat \ {0},
                        ready : BOOLEAN, downloaded : BOOLEAN])
  /\ daemon \in [pc : {"asleep", "scanning", "downloading", "downloaded", "exited"},
                 left : SUBSET DOMAIN retrieves,
                 row : Nat,
                 saved : SUBSET (Nat \X {"ready", "downloaded"})]
  /\ restored \subseteq [job : Nat, archive_id : Nat,
                         kind : {"whole", "cut", "broken"}]
  /\ failures \in 0..MaxFailures

(* A row is never committed as ready without its download: the next scan   *)
(* filters on ready and would never look at it again.                      *)
ReadyIsDownloaded ==
  \A i \in DOMAIN retrieves : retrieves[i].ready <=> retrieves[i].downloaded

(* A row says downloaded only if a file holds what Glacier's job for its   *)
(* archive returned up to an end that read() reported: a read that raised  *)
(* or was killed, then or in an earlier attempt, is never taken for it.    *)
Holds(row, kind) == [job |-> row.job, archive_id |-> row.archive_id, kind |-> kind]

DownloadedIsRestored ==
  \A i \in DOMAIN retrieves : retrieves[i].downloaded =>
    {Holds(retrieves[i], "whole"), Holds(retrieves[i], "cut")} \cap restored # {}

(* README: "If they're done, it grabs the tar archive and throws it into   *)
(* TEMP_RESTORE_DIR": a row that says downloaded has its whole archive     *)
(* there.  The loop that reads does not compare what it got with the       *)
(* length or the tree hash Glacier sends, so a connection that is closed   *)
(* early makes a file that is cut short.                                   *)
DownloadedIsWhole ==
  \A i \in DOMAIN retrieves : retrieves[i].downloaded =>
    Holds(retrieves[i], "whole") \in restored

(* Little is paid for in vain.  A command that ends without an error has a *)
(* job of its own recorded for every row it chose; of the jobs of one that *)
(* fails, wherever it fails, at most the last is not in the database, and  *)
(* of one that runs only the one about to be inserted.                     *)
Recorded(j) == \E i \in DOMAIN retrieves : retrieves[i].job = j

JobsAreRecorded ==
  /\ client.pc = "ended" /\ ~client.failed =>
       \A r \in client.chosen : \E i \in DOMAIN retrieves :
         retrieves[i].job > client.first /\ retrieves[i].archive_id = r.archive_id
  /\ \A j \in (client.first + 1)..Len(jobs) :
       Recorded(j) \/ (j = client.job /\ (client.pc = "inserting" \/ client.failed))

(* README: "It checks the jobs in your database and sees if they're done.  *)
(* If they're done, it grabs the tar archive": a recorded job that         *)
(* succeeds is downloaded, unless Glacier drops a job: the daemon exits at *)
(* one that is gone, and does not reach those behind it.                   *)
DoneIsDownloaded ==
  \A i, j \in 1..MaxJobs :
    (/\ i \in DOMAIN retrieves /\ retrieves[i].job = j
     /\ jobs[j].status = "succeeded")
    ~> (\/ i \in DOMAIN retrieves /\ retrieves[i].downloaded
        \/ \E k \in DOMAIN jobs : jobs[k].status = "gone")
=============================================================================
