------------------------------ MODULE ObjectId ------------------------------
(***************************************************************************)
(* sql/archivefiles.sql: R_ObjectId_nextval, from which archiveFilesTask   *)
(* takes the primary key of every ArchiveFiles row before the rows exist,  *)
(* so that rights can name them.  The sequence is a MyISAM table without   *)
(* transactions, used from the connections of all workers at once.         *)
(*                                                                         *)
(* MySQL locks the table for a whole statement.  That the function's own   *)
(* three statements are kept together as well is not assumed.              *)
(***************************************************************************)
EXTENDS Integers, Sequences

CONSTANTS
  Sessions,   (* the workers' database connections                         *)
  FirstId,    (* alter table R_ObjectId_seq_tbl AUTO_INCREMENT = 10000     *)
  LastId,     (* bound of the runs: no call begins behind it               *)
  BatchFiles  (* files in a batch, at most                                 *)

ASSUME ObjectIdAssumption == FirstId \in Nat \ {0} /\ LastId \in Nat /\ BatchFiles \in Nat

VARIABLES
  seqtbl,     (* the rows of R_ObjectId_seq_tbl                            *)
  autoinc,    (* its AUTO_INCREMENT, which MyISAM keeps with the table     *)
  conn,       (* the connections, with the task that is run on each        *)
  filerows    (* the primary keys of the committed ArchiveFiles rows       *)

ovars == <<seqtbl, autoinc, conn, filerows>>

(* lastId: LAST_INSERT_ID(), val: @R_ObjectId_val, both the connection's   *)
(* own; bulk: the ids of the rows the task has made so far.                *)
Connected == [pc |-> "filing", lastId |-> 0, val |-> 0, bulk |-> <<>>]

OInit ==
  /\ seqtbl = {}
  /\ autoinc = FirstId
  /\ conn = [s \in Sessions |-> Connected]
  /\ filerows = {}

(* get_next_data_id: insert into R_ObjectId_seq_tbl values (NULL).         *)
InsertNull(s) ==
  /\ conn[s].pc = "filing" /\ Len(conn[s].bulk) < BatchFiles
  /\ autoinc <= LastId
  /\ seqtbl' = seqtbl \cup {autoinc}
  /\ autoinc' = autoinc + 1
  /\ conn' = [conn EXCEPT ![s].pc = "inserted", ![s].lastId = autoinc]
  /\ UNCHANGED filerows

(* A slip: the greatest number in the table is taken for one's own.        *)
SetValToGreatest(s) ==
  /\ conn[s].pc = "inserted"
  /\ \E m \in seqtbl \cup {0} :
       /\ \A n \in seqtbl : n <= m
       /\ conn' = [conn EXCEPT ![s].pc = "set", ![s].val = m]
  /\ UNCHANGED <<seqtbl, autoinc, filerows>>

(* set @R_ObjectId_val = LAST_INSERT_ID().                                 *)
SetVal(s) ==
  /\ conn[s].pc = "inserted"
  /\ conn' = [conn EXCEPT ![s].pc = "set", ![s].val = conn[s].lastId]
  /\ UNCHANGED <<seqtbl, autoinc, filerows>>

(* A slip: only one's own row is deleted.                                  *)
DeleteOwn(s) ==
  /\ conn[s].pc = "set"
  /\ seqtbl' = seqtbl \ {conn[s].val}
  /\ conn' = [conn EXCEPT ![s].pc = "deleted"]
  /\ UNCHANGED <<autoinc, filerows>>

(* delete from R_ObjectId_seq_tbl: the rows of the others too.             *)
DeleteAll(s) ==
  /\ conn[s].pc = "set"
  /\ seqtbl' = {}
  /\ conn' = [conn EXCEPT ![s].pc = "deleted"]
  /\ UNCHANGED <<autoinc, filerows>>

(* return @R_ObjectId_val: the id of the next row of bulk.                 *)
ReturnVal(s) ==
  /\ conn[s].pc = "deleted"
  /\ conn' = [conn EXCEPT ![s].pc = "filing", ![s].bulk = Append(@, conn[s].val)]
  /\ UNCHANGED <<seqtbl, autoinc, filerows>>

(* bulk_create.  A number that is there already would raise; UniqueIds     *)
(* says that there is none.                                                *)
BulkCreate(s) ==
  /\ conn[s].pc = "filing" /\ conn[s].bulk # <<>>
  /\ conn' = [conn EXCEPT ![s].pc = "filed"]
  /\ UNCHANGED <<seqtbl, autoinc, filerows>>

CommitRows(s) ==
  /\ conn[s].pc = "filed"
  /\ filerows' = filerows \cup {conn[s].bulk[i] : i \in DOMAIN conn[s].bulk}
  /\ conn' = [conn EXCEPT ![s].pc = "filing", ![s].bulk = <<>>]
  /\ UNCHANGED <<seqtbl, autoinc>>

(* An error or a dry run rolls the rows back; the sequence stays.          *)
RollbackRows(s) ==
  /\ conn[s].pc \in {"filing", "filed"} /\ conn[s].bulk # <<>>
  /\ conn' = [conn EXCEPT ![s].pc = "filing", ![s].bulk = <<>>]
  /\ UNCHANGED <<seqtbl, autoinc, filerows>>

(* The worker is killed, between two statements of the function or         *)
(* elsewhere; the next one has a new connection.                           *)
LoseConnection(s) ==
  /\ conn' = [conn EXCEPT ![s] = Connected]
  /\ UNCHANGED <<seqtbl, autoinc, filerows>>

SessionStep(s) ==
  \/ InsertNull(s) \/ SetVal(s) \/ DeleteAll(s) \/ ReturnVal(s)
  \/ BulkCreate(s) \/ CommitRows(s) \/ RollbackRows(s) \/ LoseConnection(s)

ONext == \E s \in Sessions : SessionStep(s)

OSpec == OInit /\ [][ONext]_ovars
-----------------------------------------------------------------------------
(* No two rows ever get the same primary key, committed or still to be     *)
(* created, in the same task or in two: whatever the calls of the workers  *)
(* do to each other's rows of the sequence, and whatever is rolled back or *)
(* killed, bulk_create cannot fail on a key, and no right reaches a file   *)
(* it was not given for.                                                   *)
UniqueIds ==
  \A s \in Sessions : \A i \in DOMAIN conn[s].bulk :
    /\ conn[s].bulk[i] \notin filerows
    /\ \A t \in Sessions : \A j \in DOMAIN conn[t].bulk :
         conn[s].bulk[i] = conn[t].bulk[j] => s = t /\ i = j

(* The sequence does not grow: a call that is about to return has left no  *)
(* row that is older than its own, not even of a worker killed between     *)
(* insert and delete.                                                      *)
OldIdsAreDeleted ==
  \A s \in Sessions : conn[s].pc = "deleted" => \A n \in seqtbl : n > conn[s].lastId
=============================================================================
