--------------------------- MODULE FilePermsProofs ---------------------------
(***************************************************************************)
(* Proofs about ObjectId, for any number of connections, any size of       *)
(* batches and any bounds; and about FilePerms, for any number of crawls   *)
(* and of setcifsacl, any directory and any files.                         *)
(***************************************************************************)
EXTENDS FilePerms, CifsAclProofs, ObjectId

Connections ==
  [pc : {"filing", "inserted", "set", "deleted", "filed"}, lastId : Nat, val : Nat,
   bulk : Seq(Nat)]

OTypeOK ==
  /\ seqtbl \subseteq Nat
  /\ autoinc \in Nat
  /\ conn \in [Sessions -> Connections]
  /\ filerows \subseteq Nat

(* The number of a call that is under way, and all numbers a task has.     *)
Calling(c) == c.pc \in {"inserted", "set", "deleted"}
InBulk(c, n) == \E i \in DOMAIN c.bulk : c.bulk[i] = n
Has(c, n) == InBulk(c, n) \/ (Calling(c) /\ c.lastId = n)

(* What a connection has is below the counter, is in no committed row and  *)
(* is there once; @R_ObjectId_val is LAST_INSERT_ID() once it is set.      *)
ConnOK(c, ctr, rows) ==
  /\ \A n \in Nat : Has(c, n) => n < ctr /\ n \notin rows
  /\ Calling(c) => ~InBulk(c, c.lastId)
  /\ c.pc \in {"set", "deleted"} => c.val = c.lastId
  /\ \A i, j \in DOMAIN c.bulk : c.bulk[i] = c.bulk[j] => i = j

Disjoint(c, d) == \A n \in Nat : ~(Has(c, n) /\ Has(d, n))

IdInv ==
  /\ OTypeOK
  /\ \A n \in filerows : n < autoinc
  /\ \A s \in Sessions : ConnOK(conn[s], autoinc, filerows)
  /\ \A s, t \in Sessions : s # t => Disjoint(conn[s], conn[t])

(* A step of one connection that takes no number, or the next one.         *)
LEMMA OneStep ==
  ASSUME IdInv, NEW s \in Sessions, NEW c \in Connections,
         conn' = [conn EXCEPT ![s] = c],
         \/ autoinc' = autoinc
         \/ autoinc' = autoinc + 1,
         \A n \in Nat : Has(c, n) => Has(conn[s], n) \/ (n = autoinc /\ autoinc' = autoinc + 1),
         seqtbl' \subseteq Nat,
         \/ filerows' = filerows
         \/ /\ filerows' = filerows \cup {n \in Nat : InBulk(conn[s], n)}
            /\ \A n \in Nat : ~Has(c, n),
         ConnOK(c, autoinc', filerows)
  PROVE  IdInv'
PROOF
  <1>1. /\ conn'[s] = c
        /\ \A t \in Sessions \ {s} : conn'[t] = conn[t]
        /\ autoinc \in Nat /\ autoinc' \in Nat /\ autoinc <= autoinc'
    BY DEF IdInv, OTypeOK
  <1>2. OTypeOK'
    BY <1>1 DEF IdInv, OTypeOK
  <1>3. \A n \in Nat : InBulk(conn[s], n) => Has(conn[s], n)
    BY DEF Has
  <1>4. \A n \in filerows' : n < autoinc'
    <2>1. \A n \in Nat : Has(conn[s], n) => n < autoinc
      BY DEF IdInv, ConnOK
    <2>2. filerows \subseteq Nat /\ \A n \in filerows : n < autoinc
      BY DEF IdInv, OTypeOK
    <2>3. \A n \in filerows' : n \in Nat /\ n < autoinc
      BY <2>1, <2>2, <1>3
    <2> QED
      BY <2>3, <1>1
  <1>5. ConnOK(c, autoinc', filerows')
    BY DEF ConnOK
  <1>6. ASSUME NEW t \in Sessions \ {s} PROVE ConnOK(conn[t], autoinc', filerows')
    <2>1. \A n \in Nat : Has(conn[t], n) => n < autoinc /\ n \notin filerows /\ ~Has(conn[s], n)
      BY DEF IdInv, ConnOK, Disjoint
    <2>2. \A n \in Nat : Has(conn[t], n) => n < autoinc' /\ n \notin filerows'
      BY <2>1, <1>1, <1>3
    <2> QED
      BY <2>2 DEF IdInv, ConnOK
  <1>7. ASSUME NEW t \in Sessions \ {s} PROVE Disjoint(c, conn[t]) /\ Disjoint(conn[t], c)
    <2>1. \A n \in Nat : Has(conn[t], n) => n < autoinc /\ ~Has(conn[s], n)
      BY DEF IdInv, ConnOK, Disjoint
    <2> QED
      BY <2>1, <1>1 DEF Disjoint
  <1>8. \A t \in Sessions : ConnOK(conn[t], autoinc, filerows)'
    BY <1>1, <1>5, <1>6
  <1>9. \A t, u \in Sessions : t # u => Disjoint(conn[t], conn[u])'
    BY <1>1, <1>7 DEF IdInv
  <1> QED
    BY <1>2, <1>4, <1>8, <1>9 DEF IdInv

LEMMA IdInit == OInit => IdInv
PROOF
  <1> SUFFICES ASSUME OInit PROVE IdInv
    OBVIOUS
  <1>1. Connected \in Connections /\ Connected.bulk = <<>> /\ Connected.pc = "filing"
    BY DEF Connected, Connections
  <1>2. \A n \in Nat : ~Has(Connected, n)
    BY <1>1 DEF Has, InBulk, Calling
  <1>3. \A s \in Sessions : conn[s] = Connected
    BY DEF OInit
  <1> HIDE DEF Connected
  <1>4. OTypeOK /\ filerows = {}
    BY <1>1, ObjectIdAssumption DEF OInit, OTypeOK
  <1>5. \A s \in Sessions : ConnOK(Connected, autoinc, filerows)
    BY <1>1, <1>2 DEF ConnOK, Calling
  <1> QED
    BY <1>2, <1>3, <1>4, <1>5 DEF IdInv, Disjoint

(* A step that leaves the connection with the numbers it had, or fewer.    *)
LEMMA NoNewNumber ==
  ASSUME IdInv, NEW s \in Sessions, NEW c \in Connections,
         conn' = [conn EXCEPT ![s] = c],
         \A n \in Nat : Has(c, n) => Has(conn[s], n),
         seqtbl' \subseteq Nat, UNCHANGED autoinc,
         \/ filerows' = filerows
         \/ /\ filerows' = filerows \cup {n \in Nat : InBulk(conn[s], n)}
            /\ \A n \in Nat : ~Has(c, n),
         Calling(c) => ~InBulk(c, c.lastId),
         c.pc \in {"set", "deleted"} => c.val = c.lastId,
         \A i, j \in DOMAIN c.bulk : c.bulk[i] = c.bulk[j] => i = j
  PROVE  IdInv'
PROOF
  <1>1. ConnOK(c, autoinc', filerows)
    BY DEF IdInv, ConnOK
  <1> QED
    BY <1>1, OneStep

LEMMA InsertInv ==
  ASSUME IdInv, NEW s \in Sessions, InsertNull(s)
  PROVE  IdInv'
PROOF
  <1> DEFINE o == conn[s]
             c == [o EXCEPT !.pc = "inserted", !.lastId = autoinc]
  <1>1. o \in Connections /\ autoinc \in Nat /\ conn \in [Sessions -> Connections]
    BY DEF IdInv, OTypeOK
  <1>2. /\ c \in Connections
        /\ c.pc = "inserted" /\ c.lastId = autoinc /\ c.bulk = o.bulk
    BY <1>1 DEF Connections
  <1>3. conn' = [conn EXCEPT ![s] = c] /\ autoinc' = autoinc + 1 /\ filerows' = filerows
        /\ seqtbl' \subseteq Nat
    BY <1>1 DEF InsertNull, IdInv, OTypeOK
  <1> HIDE DEF c
  <1>4. \A n \in Nat : Has(c, n) => Has(o, n) \/ n = autoinc
    BY <1>2 DEF Has, InBulk
  <1>5. ConnOK(o, autoinc, filerows) /\ \A n \in filerows : n < autoinc
    BY DEF IdInv
  <1>6. ~InBulk(o, autoinc)
    BY <1>1, <1>5 DEF ConnOK, Has
  <1>7. ConnOK(c, autoinc', filerows)
    <2>1. \A n \in Nat : Has(c, n) => n < autoinc + 1 /\ n \notin filerows
      BY <1>1, <1>4, <1>5 DEF ConnOK
    <2>2. ~InBulk(c, c.lastId)
      BY <1>2, <1>6 DEF InBulk
    <2> QED
      BY <2>1, <2>2, <1>2, <1>3, <1>5 DEF ConnOK
  <1> QED
    BY <1>2, <1>3, <1>4, <1>7, OneStep

(* SetVal and DeleteAll.                                                   *)
LEMMA CallInv ==
  ASSUME IdInv, NEW s \in Sessions, SetVal(s) \/ DeleteAll(s)
  PROVE  IdInv'
PROOF
  <1> DEFINE o == conn[s]
             c == IF o.pc = "inserted" THEN [o EXCEPT !.pc = "set", !.val = o.lastId]
                  ELSE [o EXCEPT !.pc = "deleted"]
  <1>1. o \in Connections /\ conn \in [Sessions -> Connections]
    BY DEF IdInv, OTypeOK
  <1>2. ConnOK(o, autoinc, filerows) /\ Calling(o)
    BY DEF IdInv, SetVal, DeleteAll, Calling
  <1>3. /\ c \in Connections
        /\ c.pc \in {"set", "deleted"} /\ c.lastId = o.lastId /\ c.bulk = o.bulk
        /\ c.val = o.lastId
    BY <1>1, <1>2 DEF Connections, ConnOK, Calling
  <1>4. conn' = [conn EXCEPT ![s] = c] /\ UNCHANGED <<autoinc, filerows>>
        /\ seqtbl' \subseteq Nat
    BY <1>1 DEF SetVal, DeleteAll, IdInv, OTypeOK
  <1> HIDE DEF c
  <1>5. \A n \in Nat : Has(c, n) => Has(o, n)
    BY <1>2, <1>3 DEF Has, InBulk
  <1>6. ~InBulk(c, c.lastId)
    BY <1>2, <1>3 DEF ConnOK, InBulk
  <1>7. \A i, j \in DOMAIN c.bulk : c.bulk[i] = c.bulk[j] => i = j
    BY <1>2, <1>3 DEF ConnOK
  <1> QED
    BY <1>3, <1>4, <1>5, <1>6, <1>7, NoNewNumber

LEMMA ReturnInv ==
  ASSUME IdInv, NEW s \in Sessions, ReturnVal(s)
  PROVE  IdInv'
PROOF
  <1> DEFINE o == conn[s]
             b == Append(o.bulk, o.val)
             c == [o EXCEPT !.pc = "filing", !.bulk = b]
  <1>1. o \in Connections /\ conn \in [Sessions -> Connections]
        /\ o.val \in Nat /\ o.bulk \in Seq(Nat)
    BY DEF IdInv, OTypeOK, Connections
  <1>2. ConnOK(o, autoinc, filerows) /\ Calling(o) /\ o.val = o.lastId /\ ~InBulk(o, o.val)
    BY DEF IdInv, ReturnVal, Calling, ConnOK
  <1>3. /\ b \in Seq(Nat)
        /\ Len(o.bulk) \in Nat /\ DOMAIN o.bulk = 1 .. Len(o.bulk)
        /\ DOMAIN b = 1 .. Len(o.bulk) + 1
        /\ \A i \in 1 .. Len(o.bulk) : b[i] = o.bulk[i]
        /\ b[Len(o.bulk) + 1] = o.val
    BY <1>1
  <1> HIDE DEF b
  <1>4. c \in Connections /\ c.pc = "filing" /\ c.bulk = b
    BY <1>1, <1>3 DEF Connections
  <1>5. conn' = [conn EXCEPT ![s] = c] /\ UNCHANGED <<seqtbl, autoinc, filerows>>
    BY <1>1 DEF ReturnVal, b
  <1> HIDE DEF c
  <1>6. \A n \in Nat : Has(c, n) => Has(o, n)
    <2> SUFFICES ASSUME NEW n \in Nat, Has(c, n) PROVE Has(o, n)
      OBVIOUS
    <2>1. PICK i \in DOMAIN b : b[i] = n
      BY <1>4 DEF Has, InBulk, Calling
    <2>2. CASE i = Len(o.bulk) + 1
      BY <2>1, <2>2, <1>2, <1>3 DEF Has
    <2>3. CASE i \in DOMAIN o.bulk
      BY <2>1, <2>3, <1>3 DEF Has, InBulk
    <2> QED
      BY <2>2, <2>3, <1>3
  <1>7. \A i, j \in DOMAIN b : b[i] = b[j] => i = j
    <2>1. \A i \in DOMAIN o.bulk : b[i] # o.val
      BY <1>2, <1>3 DEF InBulk
    <2>2. \A i, j \in DOMAIN o.bulk : o.bulk[i] = o.bulk[j] => i = j
      BY <1>2 DEF ConnOK
    <2> SUFFICES ASSUME NEW i \in DOMAIN b, NEW j \in DOMAIN b, b[i] = b[j] PROVE i = j
      OBVIOUS
    <2>3. CASE i \in DOMAIN o.bulk /\ j \in DOMAIN o.bulk
      BY <2>2, <2>3, <1>3
    <2>4. CASE i = Len(o.bulk) + 1
      BY <2>1, <2>4, <1>3
    <2>5. CASE j = Len(o.bulk) + 1
      BY <2>1, <2>5, <1>3
    <2>6. \A k \in DOMAIN b : k \in DOMAIN o.bulk \/ k = Len(o.bulk) + 1
      BY <1>3, SMT
    <2> HIDE DEF o
    <2> QED
      BY <2>3, <2>4, <2>5, <2>6
  <1>8. ~Calling(c) /\ c.pc \notin {"set", "deleted"}
    BY <1>4 DEF Calling
  <1>9. seqtbl' \subseteq Nat
    BY <1>5 DEF IdInv, OTypeOK
  <1> QED
    BY <1>4, <1>5, <1>6, <1>7, <1>8, <1>9, NoNewNumber

LEMMA BulkInv ==
  ASSUME IdInv, NEW s \in Sessions, BulkCreate(s)
  PROVE  IdInv'
PROOF
  <1> DEFINE o == conn[s]
             c == [o EXCEPT !.pc = "filed"]
  <1>1. o \in Connections /\ conn \in [Sessions -> Connections] /\ ConnOK(o, autoinc, filerows)
    BY DEF IdInv, OTypeOK
  <1>2. c \in Connections /\ c.pc = "filed" /\ c.bulk = o.bulk
    BY <1>1 DEF Connections
  <1>3. /\ conn' = [conn EXCEPT ![s] = c] /\ UNCHANGED <<autoinc, filerows>>
        /\ seqtbl' \subseteq Nat
    BY <1>1 DEF BulkCreate, IdInv, OTypeOK
  <1> HIDE DEF c
  <1>4. \A n \in Nat : Has(c, n) => Has(o, n)
    BY <1>2 DEF Has, InBulk, Calling
  <1>5. ~Calling(c) /\ \A i, j \in DOMAIN c.bulk : c.bulk[i] = c.bulk[j] => i = j
    BY <1>1, <1>2 DEF Calling, ConnOK
  <1> QED
    BY <1>2, <1>3, <1>4, <1>5, NoNewNumber

(* CommitRows, RollbackRows and LoseConnection, which end with no number.  *)
LEMMA EndInv ==
  ASSUME IdInv, NEW s \in Sessions, CommitRows(s) \/ RollbackRows(s) \/ LoseConnection(s)
  PROVE  IdInv'
PROOF
  <1>1. conn[s] \in Connections /\ conn \in [Sessions -> Connections]
    BY DEF IdInv, OTypeOK
  <1>2. PICK c \in Connections : /\ conn' = [conn EXCEPT ![s] = c]
                                 /\ c.pc = "filing" /\ c.bulk = <<>>
    <2>1. Connected \in Connections /\ Connected.pc = "filing" /\ Connected.bulk = <<>>
      BY DEF Connected, Connections
    <2>2. CASE LoseConnection(s)
      BY <2>1, <2>2 DEF LoseConnection
    <2>3. CASE CommitRows(s) \/ RollbackRows(s)
      <3> DEFINE none == <<>>
                 d == [conn[s] EXCEPT !.pc = "filing", !.bulk = none]
      <3>0. none \in Seq(Nat)
        OBVIOUS
      <3> HIDE DEF none
      <3>1. d \in Connections /\ d.pc = "filing" /\ d.bulk = none
        BY <1>1, <3>0 DEF Connections
      <3>2. conn' = [conn EXCEPT ![s] = d]
        BY <2>3, <1>1 DEF CommitRows, RollbackRows, none
      <3> QED
        BY <3>1, <3>2 DEF none
    <2> QED
      BY <2>2, <2>3
  <1>3. \A n \in Nat : ~Has(c, n)
    BY <1>2 DEF Has, InBulk, Calling
  <1>4. UNCHANGED autoinc /\ seqtbl' \subseteq Nat
    BY DEF CommitRows, RollbackRows, LoseConnection, IdInv, OTypeOK
  <1>5. \/ filerows' = filerows
        \/ filerows' = filerows \cup {n \in Nat : InBulk(conn[s], n)}
    <2>1. conn[s].bulk \in Seq(Nat)
      BY <1>1 DEF Connections
    <2>2. {conn[s].bulk[i] : i \in DOMAIN conn[s].bulk} = {n \in Nat : InBulk(conn[s], n)}
      BY <2>1 DEF InBulk
    <2> QED
      BY <2>2 DEF CommitRows, RollbackRows, LoseConnection
  <1>6. ~Calling(c) /\ c.pc \notin {"set", "deleted"}
        /\ \A i, j \in DOMAIN c.bulk : c.bulk[i] = c.bulk[j] => i = j
    BY <1>2 DEF Calling
  <1> QED
    BY <1>2, <1>3, <1>4, <1>5, <1>6, NoNewNumber

LEMMA AlwaysIdInv == OSpec => []IdInv
PROOF
  <1>1. ASSUME IdInv, [ONext]_ovars PROVE IdInv'
    <2>1. CASE UNCHANGED ovars
      BY <1>1, <2>1 DEF ovars, IdInv, OTypeOK
    <2>2. ASSUME NEW s \in Sessions, SessionStep(s) PROVE IdInv'
      BY <1>1, <2>2, InsertInv, CallInv, ReturnInv, BulkInv, EndInv DEF SessionStep
    <2> QED
      BY <1>1, <2>1, <2>2 DEF ONext
  <1> QED
    BY <1>1, IdInit, PTL DEF OSpec

(* Of any number of workers, whatever they interleave, roll back or leave  *)
(* undone when they are killed, no two files get the same primary key.     *)
THEOREM NoIdTwice == OSpec => []UniqueIds
PROOF
  <1>1. ASSUME IdInv PROVE UniqueIds
    <2> SUFFICES ASSUME NEW s \in Sessions, NEW i \in DOMAIN conn[s].bulk
                 PROVE  /\ conn[s].bulk[i] \notin filerows
                        /\ \A t \in Sessions : \A j \in DOMAIN conn[t].bulk :
                             conn[s].bulk[i] = conn[t].bulk[j] => s = t /\ i = j
      BY DEF UniqueIds
    <2>1. conn[s].bulk[i] \in Nat
      BY <1>1 DEF IdInv, OTypeOK, Connections
    <2>2. Has(conn[s], conn[s].bulk[i])
      BY DEF Has, InBulk
    <2>3. ConnOK(conn[s], autoinc, filerows)
      BY <1>1 DEF IdInv
    <2>4. ASSUME NEW t \in Sessions, NEW j \in DOMAIN conn[t].bulk,
                 conn[s].bulk[i] = conn[t].bulk[j]
          PROVE  s = t /\ i = j
      <3>1. Has(conn[t], conn[s].bulk[i])
        BY <2>4 DEF Has, InBulk
      <3>2. s = t
        BY <3>1, <2>1, <2>2, <1>1 DEF IdInv, Disjoint
      <3> QED
        BY <3>2, <2>3, <2>4 DEF ConnOK
    <2> QED
      BY <2>1, <2>2, <2>3, <2>4 DEF ConnOK
  <1> QED
    BY <1>1, AlwaysIdInv, PTL

(* A call that is about to return has left no older number in the table.   *)
THEOREM SequenceIsCleared == OSpec => []OldIdsAreDeleted
PROOF
  <1>1. OInit => OldIdsAreDeleted
    BY DEF OInit, Connected, OldIdsAreDeleted
  <1>2. ASSUME IdInv, OldIdsAreDeleted, [ONext]_ovars PROVE OldIdsAreDeleted'
    <2>1. CASE UNCHANGED ovars
      BY <1>2, <2>1 DEF ovars, OldIdsAreDeleted
    <2>2. ASSUME NEW s \in Sessions, SessionStep(s) PROVE OldIdsAreDeleted'
      <3>1. conn \in [Sessions -> Connections] /\ autoinc \in Nat
            /\ \A t \in Sessions : conn[t].pc = "deleted" => conn[t].lastId < autoinc
        <4>1. \A t \in Sessions : conn[t].pc = "deleted" => Has(conn[t], conn[t].lastId)
          BY DEF Has, Calling
        <4> QED
          BY <4>1, <1>2 DEF IdInv, OTypeOK, Connections, ConnOK
      <3>2. \A t \in Sessions \ {s} : conn'[t] = conn[t]
        BY <2>2, <3>1 DEF SessionStep, InsertNull, SetVal, DeleteAll, ReturnVal, BulkCreate,
           CommitRows, RollbackRows, LoseConnection
      <3>3. conn'[s].pc = "deleted" => seqtbl' = {}
        BY <2>2, <3>1 DEF SessionStep, InsertNull, SetVal, DeleteAll, ReturnVal, BulkCreate,
           CommitRows, RollbackRows, LoseConnection, Connected, Connections
      <3>4. seqtbl' \subseteq seqtbl \cup {autoinc}
        BY <2>2 DEF SessionStep, InsertNull, SetVal, DeleteAll, ReturnVal, BulkCreate,
           CommitRows, RollbackRows, LoseConnection
      <3> QED
        BY <1>2, <3>1, <3>2, <3>3, <3>4 DEF OldIdsAreDeleted
    <2> QED
      BY <1>2, <2>1, <2>2 DEF ONext
  <1> QED
    BY <1>1, <1>2, AlwaysIdInv, PTL DEF OSpec
-----------------------------------------------------------------------------
Roles == Masks \cup Types \cup {"owner", "group"}
Entries == [sid : Sids, role : Roles]
Rows == UNION {[D -> Answers] : D \in SUBSET DOMAIN Account}
Views == [cache : Rows, names : SUBSET Answers, taken : BOOLEAN]
Perms == [name : {Account[s].name : s \in DOMAIN Account} \cup {"AnonymousUser", "root", NoName},
          class : {"person", "group"}, role : Roles, sid : Sids]

CrawlRecords ==
  [pc : {"scan", "lookup", "resolve", "account", "insert", "again"},
   entries : Seq(Entries), perms : Seq(Perms), view : Views, failed : BOOLEAN]

Anyone == [name |-> "AnonymousUser", class |-> "person"]

(* Rows say what the directory says, and an entry becomes what a lookup of *)
(* its SID may answer.                                                     *)
RowsOK(rows) == \A s \in DOMAIN rows : s \in DOMAIN Account /\ rows[s] = Account[s]

Replies(sid) == {None, Anyone} \cup {Account[s] : s \in DOMAIN Account \cap {sid}}
Outcomes(e) == {Perm(e, answer) : answer \in Replies(e.sid)}

(* The entry a crawl is at.                                                *)
At(r) == r.entries[Len(r.perms) + 1]

CrawlOK(r, all) ==
  /\ r \in CrawlRecords
  /\ Len(r.perms) <= Len(r.entries)
  /\ r.pc = "scan" => r.perms = <<>>
  /\ r.pc \in {"resolve", "account", "insert", "again"} => Len(r.perms) < Len(r.entries)
  /\ RowsOK(r.view.cache)
  /\ r.view.names \subseteq all
  /\ \A k \in DOMAIN r.perms : r.perms[k] \in Outcomes(r.entries[k])
  /\ r.pc \in {"account", "insert"} => At(r).sid \in DOMAIN Account
  /\ r.pc = "insert" => Account[At(r).sid] \in all

(* Where sessions see what is committed: whoever lost the race for a row   *)
(* finds it at the second look, and no account is left out.                *)
Found(e, perm, all) ==
  e.sid \in DOMAIN Account => perm = Perm(e, Account[e.sid]) /\ Account[e.sid] \in all

Sound(r, rows, all) ==
  /\ ~r.view.taken
  /\ ~r.failed =>
       /\ r.pc = "again" => At(r).sid \in DOMAIN rows
       /\ \A k \in DOMAIN r.perms : Found(r.entries[k], r.perms[k], all)

PermsInv ==
  /\ file \in Descriptors
  /\ isolation \in {"committed", "snapshot"}
  /\ cache \in Rows /\ RowsOK(cache)
  /\ \A s \in DOMAIN cache : Account[s] \in names
  /\ names \subseteq {Account[s] : s \in DOMAIN Account}
  /\ crawl \in [Crawls -> CrawlRecords]
  /\ \A c \in Crawls : CrawlOK(crawl[c], names)
  /\ isolation = "committed" => \A c \in Crawls : Sound(crawl[c], cache, names)

LEMMA NoRows == <<>> \in Rows /\ RowsOK(<<>>)
PROOF
  <1>1. DOMAIN <<>> = {}
    OBVIOUS
  <1>2. <<>> = [x \in {} |-> {}]
    OBVIOUS
  <1>3. <<>> \in [{} -> Answers]
    BY <1>2
  <1>4. {} \in SUBSET DOMAIN Account
    OBVIOUS
  <1> QED
    BY <1>1, <1>3, <1>4 DEF Rows, RowsOK

LEMMA NoViewOK == NoView \in Views /\ RowsOK(NoView.cache) /\ NoView.names = {} /\ ~NoView.taken
PROOF
  BY NoRows DEF NoView, Views

LEMMA PermsInit == PInit => PermsInv
PROOF
  <1> SUFFICES ASSUME PInit PROVE PermsInv
    OBVIOUS
  <1>1. file \in Descriptors
    BY CifsAclAssumption DEF PInit, AInit
  <1>2. cache \in Rows /\ RowsOK(cache) /\ DOMAIN cache = {}
    BY NoRows DEF PInit
  <1>3. Begin \in CrawlRecords /\ Begin.view = NoView /\ Begin.entries = <<>>
        /\ Begin.perms = <<>> /\ Begin.pc = "scan"
    BY NoViewOK DEF Begin, CrawlRecords
  <1>4. \A c \in Crawls : crawl[c] = Begin
    BY DEF PInit
  <1> HIDE DEF Begin, NoView
  <1>5. CrawlOK(Begin, {}) /\ Sound(Begin, cache, {})
    BY <1>3, NoViewOK DEF CrawlOK, Sound
  <1>6. crawl \in [Crawls -> CrawlRecords] /\ names = {} /\ isolation \in {"committed", "snapshot"}
    BY <1>3 DEF PInit
  <1> QED
    BY <1>1, <1>2, <1>4, <1>5, <1>6 DEF PermsInv

(* Accounts and rows come and stay.                                        *)
LEMMA MoreAccounts ==
  ASSUME NEW r, NEW all, NEW more, all \subseteq more, CrawlOK(r, all)
  PROVE  CrawlOK(r, more)
PROOF
  BY DEF CrawlOK

LEMMA MoreRows ==
  ASSUME NEW r, NEW rows, NEW moreRows, DOMAIN rows \subseteq DOMAIN moreRows,
         NEW all, NEW more, all \subseteq more, Sound(r, rows, all)
  PROVE  Sound(r, moreRows, more)
PROOF
  BY DEF Sound, Found

(* What the database may become by a step of a crawl.                      *)
Grows ==
  /\ UNCHANGED <<file, isolation>>
  /\ cache' \in Rows /\ RowsOK(cache') /\ DOMAIN cache \subseteq DOMAIN cache'
  /\ names \subseteq names' /\ names' \subseteq {Account[s] : s \in DOMAIN Account}
  /\ \A s \in DOMAIN cache' : Account[s] \in names'

LEMMA OneCrawl ==
  ASSUME PermsInv, Grows, NEW c \in Crawls, NEW r,
         crawl' = [crawl EXCEPT ![c] = r],
         CrawlOK(r, names'),
         isolation = "committed" => Sound(r, cache', names')
  PROVE  PermsInv'
PROOF
  <1>1. r \in CrawlRecords
    BY DEF CrawlOK
  <1>2. /\ crawl' \in [Crawls -> CrawlRecords]
        /\ crawl'[c] = r
        /\ \A d \in Crawls \ {c} : crawl'[d] = crawl[d]
    BY <1>1 DEF PermsInv
  <1>3. ASSUME NEW d \in Crawls PROVE CrawlOK(crawl'[d], names')
    BY <1>2, MoreAccounts DEF PermsInv, Grows
  <1>4. ASSUME NEW d \in Crawls, isolation = "committed" PROVE Sound(crawl'[d], cache', names')
    BY <1>2, <1>4, MoreRows DEF PermsInv, Grows
  <1> QED
    BY <1>2, <1>3, <1>4 DEF PermsInv, Grows

LEMMA SameDatabase ==
  ASSUME PermsInv, UNCHANGED <<avars, isolation, cache, names>>
  PROVE  Grows
PROOF
  BY DEF PermsInv, Grows, avars

(* What a session sees.                                                    *)
LEMMA SeesOK ==
  ASSUME PermsInv, NEW c \in Crawls
  PROVE  /\ Sees(c) \in Views
         /\ RowsOK(Sees(c).cache)
         /\ Sees(c).names \subseteq names
         /\ isolation = "committed" =>
              ~Sees(c).taken /\ Sees(c).cache = cache /\ Sees(c).names = names
PROOF
  <1>1. CrawlOK(crawl[c], names) /\ crawl[c] \in CrawlRecords /\ crawl[c].view \in Views
    BY DEF PermsInv, CrawlRecords
  <1>2. isolation = "committed" => ~crawl[c].view.taken
    BY DEF PermsInv, Sound
  <1>3. names \in SUBSET Answers
    BY FilePermsAssumption DEF PermsInv
  <1>4. CASE crawl[c].view.taken
    BY <1>1, <1>2, <1>4 DEF Sees, CrawlOK
  <1>5. CASE ~crawl[c].view.taken
    <2>1. PICK b \in BOOLEAN : /\ Sees(c) = [cache |-> cache, names |-> names, taken |-> b]
                               /\ isolation = "committed" => ~b
      <3> DEFINE b == isolation = "snapshot"
      <3>1. Sees(c) = [cache |-> cache, names |-> names, taken |-> b]
        BY <1>5 DEF Sees
      <3>2. b \in BOOLEAN /\ (isolation = "committed" => ~b)
        OBVIOUS
      <3> HIDE DEF b
      <3> QED
        BY <3>1, <3>2
    <2>2. cache \in Rows /\ RowsOK(cache)
      BY DEF PermsInv
    <2> QED
      BY <1>3, <2>1, <2>2 DEF Views
  <1> QED
    BY <1>4, <1>5

(* An answer ends the look at an entry.                                    *)
LEMMA Answered ==
  ASSUME PermsInv, Grows, NEW c \in Crawls, Len(crawl[c].perms) < Len(crawl[c].entries),
         NEW answer \in Replies(Entry(c).sid), NEW view \in Views,
         RowsOK(view.cache), view.names \subseteq names',
         isolation = "committed" =>
           /\ ~view.taken
           /\ ~crawl[c].failed /\ Entry(c).sid \in DOMAIN Account =>
                answer = Account[Entry(c).sid] /\ answer \in names',
         Answer(c, answer, view)
  PROVE  PermsInv'
PROOF
  <1> DEFINE e == Entry(c)
             p == Perm(e, answer)
             r == [crawl[c] EXCEPT !.pc = "lookup", !.perms = Append(@, p), !.view = view]
             n == Len(crawl[c].perms)
  <1>1. /\ crawl[c] \in CrawlRecords /\ crawl[c].entries \in Seq(Entries)
        /\ crawl[c].perms \in Seq(Perms) /\ crawl[c].failed \in BOOLEAN
    BY DEF PermsInv, CrawlRecords
  <1>2. crawl' = [crawl EXCEPT ![c] = r]
    BY DEF Answer, PermsInv
  <1>3. n \in Nat /\ n + 1 \in DOMAIN crawl[c].entries
    BY <1>1
  <1>4. e \in Entries /\ e = crawl[c].entries[n + 1]
    BY <1>1, <1>3 DEF Entry
  <1>5. p \in Perms
    <2>1. answer \in [name : {Account[s].name : s \in DOMAIN Account}
                              \cup {"AnonymousUser", "root", NoName},
                      class : {"person", "group"}]
      BY FilePermsAssumption DEF Replies, None, Anyone, Answers
    <2> QED
      BY <1>4, <2>1 DEF Perm, Perms, Entries
  <1>6. p \in Outcomes(e)
    BY DEF Outcomes
  <1> HIDE DEF p, e
  <1>7. /\ r \in CrawlRecords
        /\ r.pc = "lookup" /\ r.entries = crawl[c].entries /\ r.view = view
        /\ r.perms = Append(crawl[c].perms, p) /\ r.failed = crawl[c].failed
    <2> DEFINE longer == Append(crawl[c].perms, p)
               old == crawl[c]
    <2>1. longer \in Seq(Perms) /\ old \in CrawlRecords
      BY <1>1, <1>5
    <2> HIDE DEF longer, old, Perms, Entries, Views
    <2>2. r = [old EXCEPT !.pc = "lookup", !.perms = longer, !.view = view]
      BY DEF longer, old
    <2> HIDE DEF r
    <2>3. r \in CrawlRecords
      BY <2>1, <2>2 DEF CrawlRecords
    <2>4. r.pc = "lookup" /\ r.entries = old.entries /\ r.view = view /\ r.perms = longer
      BY <2>1, <2>2 DEF CrawlRecords
    <2>5. r.failed = old.failed
      BY <2>1, <2>2 DEF CrawlRecords
    <2> QED
      BY <2>3, <2>4, <2>5 DEF longer, old
  <1> HIDE DEF r
  <1>8. /\ Len(r.perms) = n + 1 /\ DOMAIN r.perms = 1 .. n + 1
        /\ DOMAIN crawl[c].perms = 1 .. n
        /\ r.perms[n + 1] = p
        /\ \A k \in 1 .. n : r.perms[k] = crawl[c].perms[k]
    BY <1>1, <1>5, <1>7
  <1>9. \A k \in DOMAIN r.perms : r.perms[k] \in Outcomes(r.entries[k])
    <2>1. \A k \in DOMAIN crawl[c].perms : crawl[c].perms[k] \in Outcomes(crawl[c].entries[k])
      BY DEF PermsInv, CrawlOK
    <2>2. \A k \in 1 .. n + 1 : k \in 1 .. n \/ k = n + 1
      BY <1>3
    <2> QED
      BY <1>4, <1>6, <1>7, <1>8, <2>1, <2>2
  <1>10. CrawlOK(r, names')
    <2>1. Len(r.perms) <= Len(r.entries)
      BY <1>1, <1>3, <1>7, <1>8
    <2> QED
      BY <1>7, <1>9, <2>1 DEF CrawlOK
  <1>11. ASSUME isolation = "committed" PROVE Sound(r, cache', names')
    <2> SUFFICES ASSUME ~crawl[c].failed
                 PROVE  \A k \in DOMAIN r.perms : Found(r.entries[k], r.perms[k], names')
      BY <1>7, <1>11 DEF Sound
    <2>1. \A k \in DOMAIN crawl[c].perms : Found(crawl[c].entries[k], crawl[c].perms[k], names)
      BY <1>11 DEF PermsInv, Sound
    <2>2. \A k \in 1 .. n : Found(r.entries[k], r.perms[k], names')
      BY <1>7, <1>8, <2>1 DEF Found, Grows
    <2>3. Found(e, p, names')
      BY <1>11 DEF Found, p, e
    <2>4. \A k \in 1 .. n + 1 : k \in 1 .. n \/ k = n + 1
      BY <1>3
    <2> QED
      BY <1>4, <1>7, <1>8, <2>2, <2>3, <2>4
  <1> QED
    BY <1>2, <1>10, <1>11, OneCrawl

(* A step to another place of the lookup, at the same entry.               *)
LEMMA PcSet ==
  ASSUME NEW old \in CrawlRecords, NEW to \in {"lookup", "resolve", "account", "insert", "again"}
  PROVE  LET r == [old EXCEPT !.pc = to]
         IN  /\ r \in CrawlRecords
             /\ r.pc = to /\ r.entries = old.entries /\ r.perms = old.perms
             /\ r.view = old.view /\ r.failed = old.failed
PROOF
  <1> DEFINE r == [old EXCEPT !.pc = to]
  <1>1. r \in CrawlRecords
    BY DEF CrawlRecords
  <1>2. r.pc = to /\ r.entries = old.entries /\ r.perms = old.perms /\ r.view = old.view
    BY DEF CrawlRecords
  <1>3. r.failed = old.failed
    BY DEF CrawlRecords
  <1> QED
    BY <1>1, <1>2, <1>3

LEMMA FailureSet ==
  ASSUME NEW old \in CrawlRecords
  PROVE  LET r == [old EXCEPT !.pc = "again", !.failed = TRUE]
         IN  /\ r \in CrawlRecords
             /\ r.pc = "again" /\ r.entries = old.entries /\ r.perms = old.perms
             /\ r.view = old.view /\ r.failed
PROOF
  <1> DEFINE r == [old EXCEPT !.pc = "again", !.failed = TRUE]
  <1>1. r \in CrawlRecords
    BY DEF CrawlRecords
  <1>2. r.pc = "again" /\ r.entries = old.entries /\ r.perms = old.perms /\ r.view = old.view
    BY DEF CrawlRecords
  <1>3. r.failed
    BY DEF CrawlRecords
  <1> QED
    BY <1>1, <1>2, <1>3

LEMMA Moved ==
  ASSUME PermsInv, Grows, NEW c \in Crawls, Len(crawl[c].perms) < Len(crawl[c].entries),
         NEW r \in CrawlRecords, crawl' = [crawl EXCEPT ![c] = r],
         r.pc \in {"resolve", "account", "insert", "again"},
         r.entries = crawl[c].entries, r.perms = crawl[c].perms,
         crawl[c].failed => r.failed,
         RowsOK(r.view.cache), r.view.names \subseteq names',
         r.pc \in {"account", "insert"} => Entry(c).sid \in DOMAIN Account,
         r.pc = "insert" => Account[Entry(c).sid] \in names',
         isolation = "committed" =>
           ~r.view.taken /\ (r.pc = "again" /\ ~r.failed => Entry(c).sid \in DOMAIN cache')
  PROVE  PermsInv'
PROOF
  <1>1. CrawlOK(crawl[c], names)
    BY DEF PermsInv
  <1>2. At(r) = Entry(c)
    BY DEF At, Entry
  <1>3. CrawlOK(r, names')
    BY <1>1, <1>2 DEF CrawlOK
  <1>4. ASSUME isolation = "committed" PROVE Sound(r, cache', names')
    <2>1. Sound(crawl[c], cache, names)
      BY <1>4 DEF PermsInv
    <2> QED
      BY <1>2, <1>4, <2>1 DEF Sound, Found, Grows
  <1> QED
    BY <1>3, <1>4, OneCrawl
-----------------------------------------------------------------------------
LEMMA GetfaclKeeps ==
  ASSUME PermsInv, NEW c \in Crawls, Getfacl(c), UNCHANGED avars
  PROVE  PermsInv'
PROOF
  <1>1. PICK e \in {Parsed(file), <<>>}, v \in {NoView, Sees(c)} :
          crawl' = [crawl EXCEPT ![c].pc = "lookup", ![c].entries = e, ![c].view = v]
    BY DEF Getfacl
  <1> DEFINE old == crawl[c]
             r == [old EXCEPT !.pc = "lookup", !.entries = e, !.view = v]
  <1>2. crawl' = [crawl EXCEPT ![c] = r]
    BY <1>1 DEF PermsInv
  <1>3. e \in Seq(Entries)
    <2>1. file.owner \in Sids /\ file.group \in Sids /\ file.aces \in Seq(Aces)
      BY DEF PermsInv, Descriptors
    <2>2. \A a \in Aces : a.sid \in Sids /\ Role(a) \in Roles
      BY DEF Aces, Role, Roles
    <2> DEFINE l == [i \in DOMAIN file.aces |->
                       [sid |-> file.aces[i].sid, role |-> Role(file.aces[i])]]
    <2>3. l \in Seq(Entries)
      <3>1. \A i \in DOMAIN file.aces : file.aces[i] \in Aces
        BY <2>1
      <3>2. \A i \in DOMAIN file.aces :
              [sid |-> file.aces[i].sid, role |-> Role(file.aces[i])] \in Entries
        BY <2>2, <3>1 DEF Entries
      <3>3. DOMAIN file.aces = 1 .. Len(file.aces) /\ Len(file.aces) \in Nat
        BY <2>1
      <3> QED
        BY <3>2, <3>3
    <2> DEFINE o == [sid |-> file.owner, role |-> "owner"]
               g == [sid |-> file.group, role |-> "group"]
    <2>4. o \in Entries /\ g \in Entries
      BY <2>1 DEF Entries, Roles
    <2>5. Parsed(file) = <<>> \/ Parsed(file) = <<o, g>> \o l
      BY DEF Parsed
    <2> HIDE DEF l, o, g, Entries
    <2>6. <<o, g>> \in Seq(Entries) /\ <<>> \in Seq(Entries)
      BY <2>4
    <2>7. <<o, g>> \o l \in Seq(Entries)
      BY <2>3, <2>6
    <2> QED
      BY <1>1, <2>5, <2>6, <2>7
  <1>4. old \in CrawlRecords /\ CrawlOK(old, names) /\ old.pc = "scan" /\ old.perms = <<>>
    BY DEF PermsInv, CrawlOK, Getfacl
  <1>10. /\ v \in Views /\ RowsOK(v.cache) /\ v.names \subseteq names
         /\ isolation = "committed" => ~v.taken
    BY SeesOK, NoViewOK
  <1> HIDE DEF old, Views, Entries, Perms
  <1>5. /\ r \in CrawlRecords
        /\ r.pc = "lookup" /\ r.entries = e /\ r.perms = <<>> /\ r.view = v
    <2>1. r = [old EXCEPT !.pc = "lookup", !.entries = e, !.view = v]
      OBVIOUS
    <2>2. e \in Seq(Entries) /\ v \in Views
      BY <1>3, <1>10
    <2> HIDE DEF r
    <2>3. r \in CrawlRecords
      BY <1>4, <2>1, <2>2 DEF CrawlRecords
    <2>4. r.pc = "lookup" /\ r.entries = e /\ r.view = v
      BY <1>4, <2>1, <2>2 DEF CrawlRecords
    <2>5. r.perms = old.perms
      BY <1>4, <2>1, <2>2 DEF CrawlRecords
    <2> QED
      BY <1>4, <2>3, <2>4, <2>5
  <1>6. r.failed = old.failed
    BY <1>4 DEF CrawlRecords
  <1> HIDE DEF r
  <1>7. CrawlOK(r, names')
    BY <1>3, <1>4, <1>5, <1>10 DEF CrawlOK, Getfacl
  <1>8. isolation = "committed" => Sound(r, cache', names')
    <2>1. isolation = "committed" => Sound(old, cache, names)
      BY DEF PermsInv, old
    <2>2. isolation = "committed" => ~v.taken
      BY <1>10
    <2>3. r.view = v /\ r.pc # "again" /\ DOMAIN r.perms = {}
      BY <1>5
    <2> QED
      BY <2>2, <2>3 DEF Sound
  <1>9. Grows
    BY SameDatabase DEF Getfacl
  <1> QED
    BY <1>2, <1>7, <1>8, <1>9, OneCrawl

LEMMA LookupKeeps ==
  ASSUME PermsInv, NEW c \in Crawls, Lookup(c), UNCHANGED avars
  PROVE  PermsInv'
PROOF
  <1> DEFINE sid == Entry(c).sid
  <1>1. Grows /\ names' = names /\ cache' = cache
    BY SameDatabase DEF Lookup
  <1>2. crawl[c] \in CrawlRecords /\ CrawlOK(crawl[c], names) /\ crawl[c].view \in Views
        /\ Len(crawl[c].perms) < Len(crawl[c].entries)
        /\ (isolation = "committed" => Sound(crawl[c], cache, names))
    BY DEF PermsInv, CrawlRecords, Lookup
  <1>3. CASE sid = AnyoneSid /\ Answer(c, Anyone, crawl[c].view)
    <2>1. Anyone \in Replies(sid) /\ sid \notin DOMAIN Account
      BY <1>3, FilePermsAssumption DEF Replies
    <2>2. RowsOK(crawl[c].view.cache) /\ crawl[c].view.names \subseteq names'
          /\ (isolation = "committed" => ~crawl[c].view.taken)
      BY <1>1, <1>2 DEF CrawlOK, Sound
    <2> QED
      BY <1>1, <1>2, <1>3, <2>1, <2>2, Answered
  <1>4. CASE sid \in DOMAIN Sees(c).cache /\ Answer(c, Sees(c).cache[sid], Sees(c))
    <2>1. sid \in DOMAIN Account /\ Sees(c).cache[sid] = Account[sid]
      BY <1>4, SeesOK DEF RowsOK
    <2>2. Sees(c).cache[sid] \in Replies(sid)
      BY <2>1 DEF Replies
    <2>3. isolation = "committed" => Account[sid] \in names'
      BY <1>1, <1>4, SeesOK DEF PermsInv
    <2>4. /\ Sees(c) \in Views /\ RowsOK(Sees(c).cache) /\ Sees(c).names \subseteq names'
          /\ isolation = "committed" => ~Sees(c).taken
      BY <1>1, SeesOK
    <2> QED
      BY <1>1, <1>2, <1>4, <2>1, <2>2, <2>3, <2>4, Answered
  <1>5. CASE crawl' = [crawl EXCEPT ![c].pc = "resolve", ![c].view = Sees(c)]
    <2> DEFINE old == crawl[c]
               view == Sees(c)
               r == [old EXCEPT !.pc = "resolve", !.view = view]
    <2>1. crawl' = [crawl EXCEPT ![c] = r]
      BY <1>5 DEF PermsInv
    <2>2. /\ view \in Views /\ RowsOK(view.cache) /\ view.names \subseteq names'
          /\ isolation = "committed" => ~view.taken
      BY <1>1, SeesOK
    <2> HIDE DEF view
    <2>3. /\ r \in CrawlRecords
          /\ r.pc = "resolve" /\ r.entries = crawl[c].entries /\ r.perms = crawl[c].perms
          /\ r.view = view /\ r.failed = crawl[c].failed
      <3>1. old \in CrawlRecords
        BY <1>2
      <3> HIDE DEF old, Views, CrawlRecords
      <3>2. /\ r \in CrawlRecords
            /\ r.pc = "resolve" /\ r.entries = old.entries /\ r.perms = old.perms
            /\ r.view = view /\ r.failed = old.failed
        <4>1. r = [old EXCEPT !.pc = "resolve", !.view = view]
          OBVIOUS
        <4> HIDE DEF r
        <4>2. r \in CrawlRecords
          BY <2>2, <3>1, <4>1 DEF CrawlRecords
        <4>3. /\ r.pc = "resolve" /\ r.entries = old.entries /\ r.perms = old.perms
              /\ r.view = view
          BY <3>1, <4>1 DEF CrawlRecords
        <4>4. r.failed = old.failed
          BY <3>1, <4>1 DEF CrawlRecords
        <4> QED
          BY <4>2, <4>3, <4>4
      <3> QED
        BY <3>2 DEF old
    <2> HIDE DEF r
    <2> QED
      BY <1>1, <1>2, <2>1, <2>2, <2>3, Moved
  <1> QED
    BY <1>3, <1>4, <1>5 DEF Lookup, Anyone

LEMMA ResolveKeeps ==
  ASSUME PermsInv, NEW c \in Crawls, Resolve(c), UNCHANGED avars
  PROVE  PermsInv'
PROOF
  <1> DEFINE sid == Entry(c).sid
             old == crawl[c]
  <1>1. Grows /\ names' = names /\ cache' = cache
    BY SameDatabase DEF Resolve
  <1>2. /\ old \in CrawlRecords /\ CrawlOK(old, names) /\ old.view \in Views
        /\ Len(old.perms) < Len(old.entries)
        /\ (isolation = "committed" => Sound(old, cache, names))
    BY DEF PermsInv, CrawlRecords, Resolve, CrawlOK
  <1>3. RowsOK(old.view.cache) /\ old.view.names \subseteq names'
        /\ (isolation = "committed" => ~old.view.taken)
    BY <1>1, <1>2 DEF CrawlOK, Sound
  <1>4. CASE sid \in DOMAIN Account /\ crawl' = [crawl EXCEPT ![c].pc = "account"]
    <2> DEFINE r == [old EXCEPT !.pc = "account"]
    <2>1. crawl' = [crawl EXCEPT ![c] = r]
      BY <1>4 DEF PermsInv
    <2> HIDE DEF old
    <2>2. /\ r \in CrawlRecords
          /\ r.pc = "account" /\ r.entries = old.entries /\ r.perms = old.perms
          /\ r.view = old.view /\ r.failed = old.failed
      BY <1>2, PcSet
    <2> USE DEF old
    <2> HIDE DEF r
    <2> QED
      BY <1>1, <1>2, <1>3, <1>4, <2>1, <2>2, Moved
  <1>5. CASE sid \notin DOMAIN Account /\ Answer(c, None, old.view)
    BY <1>1, <1>2, <1>3, <1>5, Answered DEF Replies
  <1>6. CASE crawl' = [crawl EXCEPT ![c].pc = "again", ![c].failed = TRUE]
    <2> DEFINE r == [old EXCEPT !.pc = "again", !.failed = TRUE]
    <2>1. crawl' = [crawl EXCEPT ![c] = r]
      BY <1>6 DEF PermsInv
    <2> HIDE DEF old
    <2>2. /\ r \in CrawlRecords
          /\ r.pc = "again" /\ r.entries = old.entries /\ r.perms = old.perms
          /\ r.view = old.view /\ r.failed
      BY <1>2, FailureSet
    <2> USE DEF old
    <2> HIDE DEF r
    <2> QED
      BY <1>1, <1>2, <1>3, <2>1, <2>2, Moved
  <1> QED
    BY <1>4, <1>5, <1>6 DEF Resolve

LEMMA CreateAccountKeeps ==
  ASSUME PermsInv, NEW c \in Crawls, CreateAccount(c), UNCHANGED avars
  PROVE  PermsInv'
PROOF
  <1> DEFINE sid == Entry(c).sid
             old == crawl[c]
             a == Account[sid]
  <1>1. /\ old \in CrawlRecords /\ CrawlOK(old, names) /\ old.pc = "account"
        /\ Len(old.perms) < Len(old.entries)
        /\ sid \in DOMAIN Account /\ a \in {Account[s] : s \in DOMAIN Account}
    BY DEF PermsInv, CreateAccount, CrawlOK, At, Entry
  <1>2. UNCHANGED <<isolation, cache>>
    BY DEF CreateAccount
  <1>3. names' = names \/ names' = names \cup {a}
    BY DEF CreateAccount
  <1>4. Grows
    BY <1>1, <1>2, <1>3 DEF PermsInv, Grows, avars
  <1>5. PICK to \in {"insert", "again"}, view \in {Sees(c), NoView} :
          /\ crawl' = [crawl EXCEPT ![c].pc = to, ![c].view = view]
          /\ to = "insert" => a \in names'
          /\ isolation = "committed" => to = "insert"
    <2>1. CASE a \in Sees(c).names
      BY <1>2, <1>3, <2>1, SeesOK DEF CreateAccount
    <2>2. CASE a \notin Sees(c).names \cup names
      BY <2>2, SeesOK DEF CreateAccount
    <2>3. CASE a \notin Sees(c).names /\ a \in names
      <3>1. isolation # "committed"
        BY <2>3, SeesOK DEF PermsInv
      <3> QED
        BY <1>3, <2>3, <3>1 DEF CreateAccount
    <2> QED
      BY <2>1, <2>2, <2>3
  <1>6. /\ view \in Views /\ RowsOK(view.cache) /\ view.names \subseteq names'
        /\ isolation = "committed" => ~view.taken
    BY <1>4, SeesOK, NoViewOK DEF Grows
  <1> DEFINE r == [old EXCEPT !.pc = to, !.view = view]
  <1>7. crawl' = [crawl EXCEPT ![c] = r]
    BY <1>5 DEF PermsInv
  <1> HIDE DEF old
  <1>8. /\ r \in CrawlRecords
        /\ r.pc = to /\ r.entries = old.entries /\ r.perms = old.perms
        /\ r.view = view /\ r.failed = old.failed
    <2>1. r = [old EXCEPT !.pc = to, !.view = view]
      OBVIOUS
    <2> HIDE DEF r, Views
    <2> QED
      <3>2. r \in CrawlRecords
        BY <1>1, <1>6, <2>1 DEF CrawlRecords
      <3>3. r.pc = to /\ r.entries = old.entries /\ r.perms = old.perms /\ r.view = view
        BY <1>1, <2>1 DEF CrawlRecords
      <3>4. r.failed = old.failed
        BY <1>1, <2>1 DEF CrawlRecords
      <3> QED
        BY <3>2, <3>3, <3>4
  <1> USE DEF old
  <1> HIDE DEF r
  <1> QED
    BY <1>1, <1>4, <1>5, <1>6, <1>7, <1>8, Moved

LEMMA InsertRowKeeps ==
  ASSUME PermsInv, NEW c \in Crawls, InsertRow(c), UNCHANGED avars
  PROVE  PermsInv'
PROOF
  <1> DEFINE sid == Entry(c).sid
             old == crawl[c]
  <1>1. /\ old \in CrawlRecords /\ CrawlOK(old, names) /\ old.view \in Views
        /\ Len(old.perms) < Len(old.entries)
        /\ sid \in DOMAIN Account /\ Account[sid] \in names
        /\ (isolation = "committed" => Sound(old, cache, names))
    BY DEF PermsInv, CrawlRecords, InsertRow, CrawlOK, At, Entry
  <1>2. CASE /\ sid \notin DOMAIN cache
             /\ cache' = [s \in DOMAIN cache \cup {sid} |->
                            IF s = sid THEN Account[sid] ELSE cache[s]]
             /\ Answer(c, Account[sid], NoView)
    <2>1. /\ DOMAIN cache' = DOMAIN cache \cup {sid}
          /\ cache'[sid] = Account[sid]
          /\ \A s \in DOMAIN cache : s # sid => cache'[s] = cache[s]
      BY <1>2
    <2>2. cache' \in Rows
      <3>1. \A s \in DOMAIN cache : s \in DOMAIN Account /\ cache[s] = Account[s]
        BY DEF PermsInv, RowsOK
      <3>2. cache' = [s \in DOMAIN cache \cup {sid} |-> Account[s]]
        BY <1>2, <3>1
      <3>3. [s \in DOMAIN cache \cup {sid} |-> Account[s]] \in [DOMAIN cache \cup {sid} -> Answers]
        BY <1>1, <3>1, FilePermsAssumption
      <3>4. DOMAIN cache \cup {sid} \in SUBSET DOMAIN Account
        BY <1>1, <3>1
      <3> QED
        BY <3>2, <3>3, <3>4 DEF Rows
    <2>3. Grows
      BY <1>1, <2>1, <2>2 DEF PermsInv, Grows, RowsOK, InsertRow, avars
    <2>4. NoView \in Views /\ RowsOK(NoView.cache) /\ NoView.names \subseteq names' /\ ~NoView.taken
      BY NoViewOK
    <2>5. Account[sid] \in Replies(sid) /\ Account[sid] \in names'
      BY <1>1 DEF Replies, InsertRow
    <2> QED
      BY <1>1, <1>2, <2>3, <2>4, <2>5, Answered
  <1>3. CASE sid \in DOMAIN cache /\ crawl' = [crawl EXCEPT ![c].pc = "again"] /\ UNCHANGED cache
    <2> DEFINE r == [old EXCEPT !.pc = "again"]
    <2>1. crawl' = [crawl EXCEPT ![c] = r]
      BY <1>3 DEF PermsInv
    <2>2. Grows /\ names' = names
      BY <1>3, SameDatabase DEF InsertRow
    <2>3. RowsOK(old.view.cache) /\ old.view.names \subseteq names'
          /\ (isolation = "committed" => ~old.view.taken)
      BY <1>1, <2>2 DEF CrawlOK, Sound
    <2> HIDE DEF old
    <2>4. /\ r \in CrawlRecords
          /\ r.pc = "again" /\ r.entries = old.entries /\ r.perms = old.perms
          /\ r.view = old.view /\ r.failed = old.failed
      BY <1>1, PcSet
    <2> USE DEF old
    <2> HIDE DEF r
    <2> QED
      BY <1>1, <1>3, <2>1, <2>2, <2>3, <2>4, Moved
  <1> QED
    BY <1>2, <1>3 DEF InsertRow

(* The second look finds the row that kept this crawl from inserting its.  *)
LEMMA LookAgainKeeps ==
  ASSUME PermsInv, NEW c \in Crawls, LookAgain(c), UNCHANGED avars
  PROVE  PermsInv'
PROOF
  <1> DEFINE sid == Entry(c).sid
             answer == IF sid \in DOMAIN Sees(c).cache THEN Sees(c).cache[sid] ELSE None
  <1>1. Grows /\ names' = names /\ cache' = cache
    BY SameDatabase DEF LookAgain
  <1>2. /\ Len(crawl[c].perms) < Len(crawl[c].entries)
        /\ isolation = "committed" /\ ~crawl[c].failed => sid \in DOMAIN cache
    BY DEF PermsInv, LookAgain, CrawlOK, Sound, At, Entry
  <1>3. /\ Sees(c) \in Views /\ RowsOK(Sees(c).cache) /\ Sees(c).names \subseteq names'
        /\ isolation = "committed" => ~Sees(c).taken /\ Sees(c).cache = cache
    BY <1>1, SeesOK
  <1>4. sid \in DOMAIN Sees(c).cache => sid \in DOMAIN Account /\ answer = Account[sid]
    BY <1>3 DEF RowsOK
  <1>5. answer \in Replies(sid)
    BY <1>4 DEF Replies
  <1>6. isolation = "committed" /\ ~crawl[c].failed => answer = Account[sid] /\ answer \in names'
    BY <1>1, <1>2, <1>3, <1>4 DEF PermsInv
  <1>7. Answer(c, answer, Sees(c))
    BY DEF LookAgain
  <1> HIDE DEF answer
  <1> QED
    BY <1>1, <1>2, <1>3, <1>5, <1>6, <1>7, Answered

LEMMA PermsStep == PermsInv /\ [PNext]_<<avars, pvars>> => PermsInv'
PROOF
  <1> SUFFICES ASSUME PermsInv, [PNext]_<<avars, pvars>> PROVE PermsInv'
    OBVIOUS
  <1>1. CASE ANext /\ UNCHANGED pvars
    <2>1. file' \in Descriptors
      BY <1>1, FileStep DEF PermsInv
    <2>2. UNCHANGED <<isolation, cache, names, crawl>>
      BY <1>1 DEF pvars
    <2> QED
      BY <2>1, <2>2 DEF PermsInv
  <1>2. ASSUME NEW c \in Crawls, PStep(c), UNCHANGED avars PROVE PermsInv'
    BY <1>2, GetfaclKeeps, LookupKeeps, ResolveKeeps, CreateAccountKeeps, InsertRowKeeps,
       LookAgainKeeps DEF PStep
  <1>3. CASE UNCHANGED <<avars, pvars>>
    BY <1>3 DEF PermsInv, avars, pvars
  <1> QED
    BY <1>1, <1>2, <1>3 DEF PNext

-----------------------------------------------------------------------------
(* Which crawl inserted what.  Another crawl than c, by m, inserted the    *)
(* account or the row of a SID.                                            *)
Rival(c, sid, m) == \E d \in Crawls \ {c} : \E w \in {"account", "row"} : <<d, sid, w>> \in m

(* A crawl sees what it inserted itself, so that what is there and it does *)
(* not see is another's; and it leaves out no entry but by a rival.        *)
Traced(c, r, all, m) ==
  /\ \A s \in DOMAIN r.view.cache : Account[s] \in all
  /\ r.view.taken => \A s : /\ <<c, s, "row">> \in m => s \in DOMAIN r.view.cache
                            /\ <<c, s, "account">> \in m => Account[s] \in r.view.names
  /\ r.pc \in {"resolve", "account", "insert"} => <<c, At(r).sid, "row">> \notin m
  /\ ~r.failed =>
       /\ r.pc = "again" => Rival(c, At(r).sid, m)
       /\ \A k \in DOMAIN r.perms :
            Found(r.entries[k], r.perms[k], all) \/ Rival(c, r.entries[k].sid, m)

MadeInv ==
  /\ \A s \in DOMAIN cache : \E d \in Crawls : <<d, s, "row">> \in made
  /\ \A s \in DOMAIN Account : Account[s] \in names => \E d \in Crawls : <<d, s, "account">> \in made
  /\ \A d \in Crawls : \A s :
       /\ <<d, s, "row">> \in made => s \in DOMAIN cache
       /\ <<d, s, "account">> \in made => Account[s] \in names
  /\ \A c \in Crawls : Traced(c, crawl[c], names, made)

LEMMA MadeInit == PInit => MadeInv
PROOF
  <1> SUFFICES ASSUME PInit PROVE MadeInv
    OBVIOUS
  <1>1. cache = <<>> /\ DOMAIN cache = {} /\ names = {} /\ made = {}
    BY DEF PInit
  <1>2. \A c \in Crawls : /\ crawl[c].perms = <<>> /\ crawl[c].pc = "scan"
                          /\ ~crawl[c].view.taken /\ crawl[c].view.cache = <<>>
    BY DEF PInit, Begin, NoView
  <1> QED
    BY <1>1, <1>2 DEF MadeInv, Traced

(* A rival's insertion stays one.                                          *)
LEMMA StillRival ==
  ASSUME NEW c, NEW sid, NEW m, NEW more, m \subseteq more, Rival(c, sid, m)
  PROVE  Rival(c, sid, more)
PROOF
  BY DEF Rival

(* What a crawl c adds to what was made is its own.                        *)
Adds(c) ==
  /\ made \subseteq made' /\ names \subseteq names'
  /\ \A d \in Crawls \ {c} : \A s, w : <<d, s, w>> \in made' => <<d, s, w>> \in made

LEMMA OthersTraced ==
  ASSUME MadeInv, NEW c \in Crawls, Adds(c), NEW d \in Crawls \ {c}, crawl'[d] = crawl[d]
  PROVE  Traced(d, crawl'[d], names', made')
PROOF
  <1>1. Traced(d, crawl[d], names, made)
    BY DEF MadeInv
  <1>2. \A s, w : <<d, s, w>> \in made' <=> <<d, s, w>> \in made
    BY DEF Adds
  <1>3. \A s : Rival(d, s, made) => Rival(d, s, made')
    BY StillRival DEF Adds
  <1> DEFINE r == crawl[d]
             newNames == names'
             newMade == made'
  <1>4. \A k \in DOMAIN r.perms :
          Found(r.entries[k], r.perms[k], names) => Found(r.entries[k], r.perms[k], newNames)
    BY DEF Found, Adds
  <1>5. Traced(d, r, names, made)
    BY <1>1
  <1>6. /\ \A s, w : <<d, s, w>> \in newMade <=> <<d, s, w>> \in made
        /\ \A s : Rival(d, s, made) => Rival(d, s, newMade)
    BY <1>2, <1>3
  <1> HIDE DEF r, newNames, newMade
  <1>7. names \subseteq newNames
    BY DEF Adds, newNames
  <1>8. Traced(d, r, newNames, newMade)
    BY <1>4, <1>5, <1>6, <1>7 DEF Traced
  <1> QED
    BY <1>8 DEF r, newNames, newMade

(* A step of c that inserts nothing.                                       *)
LEMMA NothingMade ==
  ASSUME MadeInv, NEW c \in Crawls, UNCHANGED <<cache, names, made>>,
         \A d \in Crawls \ {c} : crawl'[d] = crawl[d],
         Traced(c, crawl'[c], names', made')
  PROVE  MadeInv'
PROOF
  <1>1. Adds(c)
    BY DEF Adds
  <1>2. \A d \in Crawls : Traced(d, crawl'[d], names', made')
    BY <1>1, OthersTraced
  <1> QED
    BY <1>2 DEF MadeInv

(* A session sees what its crawl inserted.                                 *)
LEMMA SeesOwn ==
  ASSUME MadeInv, NEW c \in Crawls, NEW s
  PROVE  /\ <<c, s, "row">> \in made => s \in DOMAIN Sees(c).cache
         /\ <<c, s, "account">> \in made => Account[s] \in Sees(c).names
PROOF
  BY DEF MadeInv, Traced, Sees

LEMMA SeesNamed ==
  ASSUME PermsInv, MadeInv, NEW c \in Crawls
  PROVE  \A s \in DOMAIN Sees(c).cache : Account[s] \in names
PROOF
  BY DEF PermsInv, MadeInv, Traced, Sees

(* A row, or an account, that a crawl does not see is a rival's.           *)
LEMMA RivalsRow ==
  ASSUME MadeInv, NEW c \in Crawls, NEW s \in DOMAIN cache, <<c, s, "row">> \notin made
  PROVE  Rival(c, s, made)
PROOF
  <1>1. PICK d \in Crawls : <<d, s, "row">> \in made
    BY DEF MadeInv
  <1> QED
    BY <1>1 DEF Rival

LEMMA RivalsAccount ==
  ASSUME MadeInv, NEW c \in Crawls, NEW s \in DOMAIN Account, Account[s] \in names,
         Account[s] \notin Sees(c).names
  PROVE  Rival(c, s, made)
PROOF
  <1>1. PICK d \in Crawls : <<d, s, "account">> \in made
    BY DEF MadeInv
  <1>2. d # c
    BY <1>1, SeesOwn
  <1> QED
    BY <1>1, <1>2 DEF Rival
(* The record of a crawl that has got an answer.                           *)
LEMMA AnswerFields ==
  ASSUME NEW old \in CrawlRecords, NEW p, NEW view
  PROVE  LET r == [old EXCEPT !.pc = "lookup", !.perms = Append(@, p), !.view = view]
         IN  /\ r.pc = "lookup" /\ r.entries = old.entries /\ r.view = view
             /\ r.perms = Append(old.perms, p) /\ r.failed = old.failed
PROOF
  <1> DEFINE longer == Append(old.perms, p)
             r == [old EXCEPT !.pc = "lookup", !.perms = longer, !.view = view]
  <1> HIDE DEF longer, Entries, Perms, Views
  <1>1. r.pc = "lookup" /\ r.entries = old.entries /\ r.perms = longer
    BY DEF CrawlRecords
  <1>2. r.view = view
    BY DEF CrawlRecords
  <1>3. r.failed = old.failed
    BY DEF CrawlRecords
  <1> QED
    BY <1>1, <1>2, <1>3 DEF longer

LEMMA AnswerTraced ==
  ASSUME PermsInv, MadeInv, NEW c \in Crawls, NEW answer, NEW view, Answer(c, answer, view),
         Adds(c),
         \A s \in DOMAIN view.cache : Account[s] \in names',
         view.taken => \A s : /\ <<c, s, "row">> \in made' => s \in DOMAIN view.cache
                              /\ <<c, s, "account">> \in made' => Account[s] \in view.names,
         ~crawl[c].failed => \/ Found(Entry(c), Perm(Entry(c), answer), names')
                             \/ Rival(c, Entry(c).sid, made')
  PROVE  /\ Traced(c, crawl'[c], names', made')
         /\ \A d \in Crawls \ {c} : crawl'[d] = crawl[d]
PROOF
  <1> DEFINE old == crawl[c]
             p == Perm(Entry(c), answer)
             r == crawl'[c]
             n == Len(old.perms)
             newNames == names'
             newMade == made'
  <1>1. old \in CrawlRecords /\ old.perms \in Seq(Perms) /\ n \in Nat
    BY DEF PermsInv, CrawlRecords
  <1>2. /\ r = [old EXCEPT !.pc = "lookup", !.perms = Append(@, p), !.view = view]
        /\ \A d \in Crawls \ {c} : crawl'[d] = crawl[d]
    BY DEF Answer, PermsInv
  <1>3. /\ r.pc = "lookup" /\ r.entries = old.entries /\ r.view = view
        /\ r.perms = Append(old.perms, p) /\ r.failed = old.failed
    <2> HIDE DEF old, p, r
    <2> QED
      BY <1>1, <1>2, AnswerFields
  <1>4. Entry(c) = old.entries[n + 1]
    BY DEF Entry
  <1> DEFINE Told(k) == \/ Found(r.entries[k], r.perms[k], newNames)
                        \/ Rival(c, r.entries[k].sid, newMade)
  <1>5. ~old.failed => \A k \in 1 .. n : Told(k)
    <2>1. ~old.failed => \A k \in DOMAIN old.perms :
            Found(old.entries[k], old.perms[k], names) \/ Rival(c, old.entries[k].sid, made)
      BY DEF MadeInv, Traced
    <2>2. DOMAIN old.perms = 1 .. n /\ \A k \in 1 .. n : r.perms[k] = old.perms[k]
      BY <1>1, <1>3
    <2>3. \A e, q : Found(e, q, names) => Found(e, q, newNames)
      BY DEF Found, Adds
    <2>4. \A sid : Rival(c, sid, made) => Rival(c, sid, newMade)
      BY StillRival DEF Adds
    <2> HIDE DEF old, r, newNames, newMade, n
    <2> QED
      BY <1>3, <2>1, <2>2, <2>3, <2>4
  <1>6. ~old.failed => Told(n + 1)
    <2>1. r.perms[n + 1] = p /\ r.entries[n + 1] = Entry(c)
      BY <1>1, <1>3, <1>4
    <2> QED
      BY <2>1
  <1>7. DOMAIN r.perms = 1 .. n + 1 /\ \A k \in 1 .. n + 1 : k \in 1 .. n \/ k = n + 1
    BY <1>1, <1>3
  <1>8. ~r.failed => \A k \in DOMAIN r.perms : Told(k)
    <2> HIDE DEF Told
    <2> QED
      BY <1>3, <1>5, <1>6, <1>7
  <1>9. view.taken => \A s : /\ <<c, s, "row">> \in newMade => s \in DOMAIN view.cache
                             /\ <<c, s, "account">> \in newMade => Account[s] \in view.names
    OBVIOUS
  <1>11. \A s \in DOMAIN view.cache : Account[s] \in newNames
    OBVIOUS
  <1>10. Traced(c, r, newNames, newMade)
    <2> HIDE DEF r, newNames, newMade, n, old
    <2> QED
      BY <1>3, <1>8, <1>9, <1>11 DEF Traced
  <1> QED
    BY <1>2, <1>10

(* The record of a crawl that stays at its entry.                          *)
LEMMA MoveTraced ==
  ASSUME PermsInv, MadeInv, NEW c \in Crawls, NEW r, crawl' = [crawl EXCEPT ![c] = r],
         Adds(c),
         r.entries = crawl[c].entries, r.perms = crawl[c].perms,
         ~r.failed => ~crawl[c].failed,
         \A s \in DOMAIN r.view.cache : Account[s] \in names',
         r.view.taken => \A s : /\ <<c, s, "row">> \in made' => s \in DOMAIN r.view.cache
                                /\ <<c, s, "account">> \in made' => Account[s] \in r.view.names,
         r.pc \in {"resolve", "account", "insert"} => <<c, Entry(c).sid, "row">> \notin made',
         r.pc = "again" /\ ~r.failed => Rival(c, Entry(c).sid, made')
  PROVE  /\ Traced(c, crawl'[c], names', made')
         /\ \A d \in Crawls \ {c} : crawl'[d] = crawl[d]
PROOF
  <1>1. crawl'[c] = r /\ \A d \in Crawls \ {c} : crawl'[d] = crawl[d]
    BY DEF PermsInv
  <1>2. At(r) = Entry(c)
    BY DEF At, Entry
  <1> DEFINE newNames == names'
             newMade == made'
  <1>3. \A e, q : Found(e, q, names) => Found(e, q, newNames)
    BY DEF Found, Adds
  <1>4. \A sid : Rival(c, sid, made) => Rival(c, sid, newMade)
    BY StillRival DEF Adds
  <1>5. Traced(c, crawl[c], names, made)
    BY DEF MadeInv
  <1>6. ~r.failed => \A k \in DOMAIN r.perms :
          Found(r.entries[k], r.perms[k], newNames) \/ Rival(c, r.entries[k].sid, newMade)
    BY <1>3, <1>4, <1>5 DEF Traced
  <1>7. /\ \A s \in DOMAIN r.view.cache : Account[s] \in newNames
        /\ r.view.taken => \A s : /\ <<c, s, "row">> \in newMade => s \in DOMAIN r.view.cache
                                  /\ <<c, s, "account">> \in newMade => Account[s] \in r.view.names
        /\ r.pc \in {"resolve", "account", "insert"} => <<c, At(r).sid, "row">> \notin newMade
        /\ r.pc = "again" /\ ~r.failed => Rival(c, At(r).sid, newMade)
    BY <1>2
  <1>8. Traced(c, r, newNames, newMade)
    <2> HIDE DEF newNames, newMade
    <2> QED
      BY <1>6, <1>7 DEF Traced
  <1> QED
    BY <1>1, <1>8

LEMMA GetfaclMade ==
  ASSUME PermsInv, MadeInv, NEW c \in Crawls, Getfacl(c)
  PROVE  MadeInv'
PROOF
  <1>1. PICK e \in {Parsed(file), <<>>}, v \in {NoView, Sees(c)} :
          crawl' = [crawl EXCEPT ![c].pc = "lookup", ![c].entries = e, ![c].view = v]
    BY DEF Getfacl
  <1> DEFINE old == crawl[c]
             r == crawl'[c]
  <1>2. old \in CrawlRecords /\ old.perms = <<>>
    BY DEF PermsInv, CrawlOK, Getfacl
  <1>3. /\ r = [old EXCEPT !.pc = "lookup", !.entries = e, !.view = v]
        /\ \A d \in Crawls \ {c} : crawl'[d] = crawl[d]
    BY <1>1 DEF PermsInv
  <1>4. r.pc = "lookup" /\ r.perms = <<>> /\ r.view = v
    <2> HIDE DEF old, r
    <2> QED
      BY <1>2, <1>3 DEF CrawlRecords
  <1>5. UNCHANGED <<cache, names, made>>
    BY DEF Getfacl
  <1>6. /\ \A s \in DOMAIN v.cache : Account[s] \in names
        /\ v.taken => \A s : /\ <<c, s, "row">> \in made => s \in DOMAIN v.cache
                             /\ <<c, s, "account">> \in made => Account[s] \in v.names
    <2>1. CASE v = Sees(c)
      BY <2>1, SeesOwn, SeesNamed
    <2>2. CASE v = NoView
      BY <2>2 DEF NoView
    <2> QED
      BY <2>1, <2>2
  <1>7. Traced(c, r, names, made)
    <2> HIDE DEF r
    <2> QED
      BY <1>4, <1>6 DEF Traced
  <1>8. Traced(c, crawl'[c], names', made')
    BY <1>5, <1>7
  <1> QED
    BY <1>3, <1>5, <1>8, NothingMade

LEMMA LookupMade ==
  ASSUME PermsInv, MadeInv, NEW c \in Crawls, Lookup(c)
  PROVE  MadeInv'
PROOF
  <1> DEFINE sid == Entry(c).sid
             old == crawl[c]
  <1>1. UNCHANGED <<cache, names, made>> /\ Adds(c)
    BY DEF Lookup, Adds
  <1>2. old \in CrawlRecords /\ Traced(c, old, names, made)
    BY DEF PermsInv, MadeInv
  <1>3. CASE sid = AnyoneSid /\ Answer(c, Anyone, old.view)
    <2>1. Found(Entry(c), Perm(Entry(c), Anyone), names')
      BY <1>3, FilePermsAssumption DEF Found
    <2>2. /\ \A s \in DOMAIN old.view.cache : Account[s] \in names'
          /\ old.view.taken =>
               \A s : /\ <<c, s, "row">> \in made' => s \in DOMAIN old.view.cache
                      /\ <<c, s, "account">> \in made' => Account[s] \in old.view.names
      BY <1>1, <1>2 DEF Traced
    <2>3. Traced(c, crawl'[c], names', made') /\ \A d \in Crawls \ {c} : crawl'[d] = crawl[d]
      BY <1>1, <1>3, <2>1, <2>2, AnswerTraced
    <2> QED
      BY <1>1, <2>3, NothingMade
  <1>4. CASE sid \in DOMAIN Sees(c).cache /\ Answer(c, Sees(c).cache[sid], Sees(c))
    <2>1. Sees(c).cache[sid] = Account[sid] /\ Account[sid] \in names'
      BY <1>1, <1>4, SeesOK, SeesNamed DEF RowsOK
    <2>2. Found(Entry(c), Perm(Entry(c), Sees(c).cache[sid]), names')
      BY <2>1 DEF Found
    <2>3. Traced(c, crawl'[c], names', made') /\ \A d \in Crawls \ {c} : crawl'[d] = crawl[d]
      BY <1>1, <1>4, <2>2, SeesOwn, SeesNamed, AnswerTraced
    <2> QED
      BY <1>1, <2>3, NothingMade
  <1>5. CASE /\ sid \notin DOMAIN Sees(c).cache
             /\ crawl' = [crawl EXCEPT ![c].pc = "resolve", ![c].view = Sees(c)]
    <2> DEFINE view == Sees(c)
               r == [old EXCEPT !.pc = "resolve", !.view = view]
    <2>1. crawl' = [crawl EXCEPT ![c] = r]
      BY <1>5 DEF PermsInv
    <2>2. /\ \A s \in DOMAIN view.cache : Account[s] \in names'
          /\ \A s : /\ <<c, s, "row">> \in made' => s \in DOMAIN view.cache
                    /\ <<c, s, "account">> \in made' => Account[s] \in view.names
          /\ <<c, sid, "row">> \notin made'
      BY <1>1, <1>5, SeesOwn, SeesNamed
    <2> HIDE DEF view, old
    <2>3. /\ r.pc = "resolve" /\ r.entries = old.entries /\ r.perms = old.perms
          /\ r.view = view
      BY <1>2 DEF CrawlRecords
    <2>4. r.failed = old.failed
      BY <1>2 DEF CrawlRecords
    <2> USE DEF old
    <2> HIDE DEF r
    <2>5. Traced(c, crawl'[c], names', made') /\ \A d \in Crawls \ {c} : crawl'[d] = crawl[d]
      BY <1>1, <2>1, <2>2, <2>3, <2>4, MoveTraced
    <2> QED
      BY <1>1, <2>5, NothingMade
  <1> QED
    BY <1>3, <1>4, <1>5 DEF Lookup, Anyone

LEMMA ResolveMade ==
  ASSUME PermsInv, MadeInv, NEW c \in Crawls, Resolve(c)
  PROVE  MadeInv'
PROOF
  <1> DEFINE sid == Entry(c).sid
             old == crawl[c]
  <1>1. UNCHANGED <<cache, names, made>> /\ Adds(c)
    BY DEF Resolve, Adds
  <1>2. old \in CrawlRecords /\ Traced(c, old, names, made) /\ old.pc = "resolve"
    BY DEF PermsInv, MadeInv, Resolve
  <1>3. /\ \A s \in DOMAIN old.view.cache : Account[s] \in names'
        /\ old.view.taken =>
             \A s : /\ <<c, s, "row">> \in made' => s \in DOMAIN old.view.cache
                    /\ <<c, s, "account">> \in made' => Account[s] \in old.view.names
        /\ <<c, sid, "row">> \notin made'
    BY <1>1, <1>2 DEF Traced, At, Entry
  <1>4. CASE crawl' = [crawl EXCEPT ![c].pc = "account"]
    <2> DEFINE r == [old EXCEPT !.pc = "account"]
    <2>1. crawl' = [crawl EXCEPT ![c] = r]
      BY <1>4 DEF PermsInv
    <2> HIDE DEF old
    <2>2. /\ r.pc = "account" /\ r.entries = old.entries /\ r.perms = old.perms
          /\ r.view = old.view /\ r.failed = old.failed
      BY <1>2, PcSet
    <2> USE DEF old
    <2> HIDE DEF r
    <2>3. Traced(c, crawl'[c], names', made') /\ \A d \in Crawls \ {c} : crawl'[d] = crawl[d]
      BY <1>1, <1>3, <2>1, <2>2, MoveTraced
    <2> QED
      BY <1>1, <2>3, NothingMade
  <1>5. CASE sid \notin DOMAIN Account /\ Answer(c, None, old.view)
    <2>1. Found(Entry(c), Perm(Entry(c), None), names')
      BY <1>5 DEF Found
    <2>2. Traced(c, crawl'[c], names', made') /\ \A d \in Crawls \ {c} : crawl'[d] = crawl[d]
      BY <1>1, <1>3, <1>5, <2>1, AnswerTraced
    <2> QED
      BY <1>1, <2>2, NothingMade
  <1>6. CASE crawl' = [crawl EXCEPT ![c].pc = "again", ![c].failed = TRUE]
    <2> DEFINE r == [old EXCEPT !.pc = "again", !.failed = TRUE]
    <2>1. crawl' = [crawl EXCEPT ![c] = r]
      BY <1>6 DEF PermsInv
    <2> HIDE DEF old
    <2>2. /\ r.pc = "again" /\ r.entries = old.entries /\ r.perms = old.perms
          /\ r.view = old.view /\ r.failed
      BY <1>2, FailureSet
    <2> USE DEF old
    <2> HIDE DEF r
    <2>3. Traced(c, crawl'[c], names', made') /\ \A d \in Crawls \ {c} : crawl'[d] = crawl[d]
      BY <1>1, <1>3, <2>1, <2>2, MoveTraced
    <2> QED
      BY <1>1, <2>3, NothingMade
  <1> QED
    BY <1>4, <1>5, <1>6 DEF Resolve

LEMMA CreateAccountMade ==
  ASSUME PermsInv, MadeInv, NEW c \in Crawls, CreateAccount(c)
  PROVE  MadeInv'
PROOF
  <1> DEFINE sid == Entry(c).sid
             old == crawl[c]
             a == Account[sid]
             see == Sees(c)
  <1>1. /\ old \in CrawlRecords /\ Traced(c, old, names, made) /\ old.pc = "account"
        /\ sid \in DOMAIN Account /\ cache' = cache
        /\ <<c, sid, "row">> \notin made
    BY DEF PermsInv, MadeInv, CreateAccount, CrawlOK, Traced, At, Entry
  <1>2. /\ \A s \in DOMAIN see.cache : Account[s] \in names
        /\ \A s : /\ <<c, s, "row">> \in made => s \in DOMAIN see.cache
                  /\ <<c, s, "account">> \in made => Account[s] \in see.names
    BY SeesOwn, SeesNamed
  <1>3. /\ \A s \in DOMAIN NoView.cache : Account[s] \in names'
        /\ ~NoView.taken
    BY DEF NoView
  <1>4. ASSUME NEW to \in {"insert", "again"}, NEW view, Adds(c),
               crawl' = [crawl EXCEPT ![c].pc = to, ![c].view = view],
               \A s \in DOMAIN view.cache : Account[s] \in names',
               view.taken => \A s : /\ <<c, s, "row">> \in made' => s \in DOMAIN view.cache
                                    /\ <<c, s, "account">> \in made' => Account[s] \in view.names,
               <<c, sid, "row">> \notin made',
               to = "again" => Rival(c, sid, made')
        PROVE  Traced(c, crawl'[c], names', made') /\ \A d \in Crawls \ {c} : crawl'[d] = crawl[d]
    <2> DEFINE r == [old EXCEPT !.pc = to, !.view = view]
    <2>1. crawl' = [crawl EXCEPT ![c] = r]
      BY <1>4 DEF PermsInv
    <2> HIDE DEF old
    <2>2. r.pc = to /\ r.entries = old.entries /\ r.perms = old.perms /\ r.view = view
      BY <1>1 DEF CrawlRecords
    <2>3. r.failed = old.failed
      BY <1>1 DEF CrawlRecords
    <2> USE DEF old
    <2> HIDE DEF r
    <2>4. /\ \A s \in DOMAIN r.view.cache : Account[s] \in names'
          /\ r.view.taken =>
               \A s : /\ <<c, s, "row">> \in made' => s \in DOMAIN r.view.cache
                      /\ <<c, s, "account">> \in made' => Account[s] \in r.view.names
      BY <1>4, <2>2
    <2>5. /\ r.pc \in {"resolve", "account", "insert"} => <<c, Entry(c).sid, "row">> \notin made'
          /\ r.pc = "again" /\ ~r.failed => Rival(c, Entry(c).sid, made')
      BY <1>4, <2>2
    <2>6. /\ Adds(c)
          /\ r.entries = crawl[c].entries /\ r.perms = crawl[c].perms
          /\ ~r.failed => ~crawl[c].failed
      BY <1>4, <2>2, <2>3
    <2> HIDE DEF sid, a, see, old
    <2> QED
      BY <2>1, <2>4, <2>5, <2>6, MoveTraced
  <1>5. CASE /\ UNCHANGED <<names, made>>
             /\ \E to \in {"insert", "again"} :
                  /\ crawl' = [crawl EXCEPT ![c].pc = to, ![c].view = see]
                  /\ to = "again" => a \notin see.names /\ a \in names
    <2> PICK to \in {"insert", "again"} :
               /\ crawl' = [crawl EXCEPT ![c].pc = to, ![c].view = see]
               /\ to = "again" => a \notin see.names /\ a \in names
      BY <1>5
    <2>1. to = "again" => Rival(c, sid, made')
      BY <1>1, <1>5, RivalsAccount
    <2>2. Adds(c)
      BY <1>5 DEF Adds
    <2>3. Traced(c, crawl'[c], names', made') /\ \A d \in Crawls \ {c} : crawl'[d] = crawl[d]
      BY <1>1, <1>2, <1>4, <1>5, <2>1, <2>2
    <2> QED
      BY <1>1, <1>5, <2>3, NothingMade
  <1>6. CASE /\ names' = names \cup {a} /\ made' = made \cup {<<c, sid, "account">>}
             /\ crawl' = [crawl EXCEPT ![c].pc = "insert", ![c].view = NoView]
    <2>1. Adds(c)
      BY <1>6 DEF Adds
    <2>2. <<c, sid, "row">> \notin made'
      BY <1>1, <1>6
    <2>3. Traced(c, crawl'[c], names', made') /\ \A d \in Crawls \ {c} : crawl'[d] = crawl[d]
      BY <1>3, <1>4, <1>6, <2>1, <2>2
    <2>4. \A d \in Crawls : Traced(d, crawl'[d], names', made')
      BY <2>1, <2>3, OthersTraced
    <2>5. \A s \in DOMAIN cache' : \E d \in Crawls : <<d, s, "row">> \in made'
      BY <1>1, <1>6 DEF MadeInv
    <2>6. ASSUME NEW s \in DOMAIN Account, Account[s] \in names'
          PROVE  \E d \in Crawls : <<d, s, "account">> \in made'
      <3>1. CASE Account[s] \in names
        BY <1>6, <3>1 DEF MadeInv
      <3>2. CASE Account[s] = a
        <4>1. s = sid
          BY <1>1, <3>2, FilePermsAssumption
        <4> QED
          BY <1>6, <4>1
      <3> QED
        BY <1>6, <2>6, <3>1, <3>2
    <2>7. \A d \in Crawls : \A s : /\ <<d, s, "row">> \in made' => s \in DOMAIN cache'
                                   /\ <<d, s, "account">> \in made' => Account[s] \in names'
      BY <1>1, <1>6 DEF MadeInv
    <2> QED
      BY <2>4, <2>5, <2>6, <2>7 DEF MadeInv
  <1>7. \/ /\ UNCHANGED <<names, made>>
           /\ \E to \in {"insert", "again"} :
                /\ crawl' = [crawl EXCEPT ![c].pc = to, ![c].view = see]
                /\ to = "again" => a \notin see.names /\ a \in names
        \/ /\ names' = names \cup {a} /\ made' = made \cup {<<c, sid, "account">>}
           /\ crawl' = [crawl EXCEPT ![c].pc = "insert", ![c].view = NoView]
    <2> HIDE DEF see
    <2>1. CASE a \in see.names
      BY <2>1 DEF CreateAccount, see
    <2>2. CASE a \notin see.names \cup names
      BY <2>2 DEF CreateAccount, see
    <2>3. CASE a \notin see.names /\ a \in names
      BY <2>3 DEF CreateAccount, see
    <2> QED
      BY <2>1, <2>2, <2>3
  <1> QED
    BY <1>5, <1>6, <1>7

LEMMA InsertRowMade ==
  ASSUME PermsInv, MadeInv, NEW c \in Crawls, InsertRow(c)
  PROVE  MadeInv'
PROOF
  <1> DEFINE sid == Entry(c).sid
             old == crawl[c]
  <1>1. /\ old \in CrawlRecords /\ Traced(c, old, names, made) /\ old.pc = "insert"
        /\ names' = names /\ Account[sid] \in names /\ <<c, sid, "row">> \notin made
    BY DEF PermsInv, MadeInv, InsertRow, CrawlOK, Traced, At, Entry
  <1>2. CASE /\ cache' = [s \in DOMAIN cache \cup {sid} |->
                            IF s = sid THEN Account[sid] ELSE cache[s]]
             /\ Answer(c, Account[sid], NoView)
             /\ made' = made \cup {<<c, sid, "row">>}
    <2>1. Adds(c) /\ DOMAIN cache' = DOMAIN cache \cup {sid}
      BY <1>1, <1>2 DEF Adds
    <2>2. Found(Entry(c), Perm(Entry(c), Account[sid]), names')
      BY <1>1 DEF Found
    <2>3. DOMAIN NoView.cache = {} /\ ~NoView.taken
      BY DEF NoView
    <2>4. Traced(c, crawl'[c], names', made') /\ \A d \in Crawls \ {c} : crawl'[d] = crawl[d]
      BY <1>2, <2>1, <2>2, <2>3, AnswerTraced
    <2>5. \A d \in Crawls : Traced(d, crawl'[d], names', made')
      BY <2>1, <2>4, OthersTraced
    <2>6. \A s \in DOMAIN cache' : \E d \in Crawls : <<d, s, "row">> \in made'
      BY <1>2, <2>1 DEF MadeInv
    <2>7. \A s \in DOMAIN Account :
            Account[s] \in names' => \E d \in Crawls : <<d, s, "account">> \in made'
      BY <1>1, <1>2 DEF MadeInv
    <2>8. \A d \in Crawls : \A s : /\ <<d, s, "row">> \in made' => s \in DOMAIN cache'
                                   /\ <<d, s, "account">> \in made' => Account[s] \in names'
      BY <1>1, <1>2, <2>1 DEF MadeInv
    <2> QED
      BY <2>5, <2>6, <2>7, <2>8 DEF MadeInv
  <1>3. CASE /\ sid \in DOMAIN cache /\ crawl' = [crawl EXCEPT ![c].pc = "again"]
             /\ UNCHANGED <<cache, made>>
    <2> DEFINE r == [old EXCEPT !.pc = "again"]
    <2>1. crawl' = [crawl EXCEPT ![c] = r]
      BY <1>3 DEF PermsInv
    <2>2. Adds(c) /\ Rival(c, sid, made')
      BY <1>1, <1>3, RivalsRow DEF Adds
    <2>3. /\ \A s \in DOMAIN old.view.cache : Account[s] \in names'
          /\ old.view.taken =>
               \A s : /\ <<c, s, "row">> \in made' => s \in DOMAIN old.view.cache
                      /\ <<c, s, "account">> \in made' => Account[s] \in old.view.names
      BY <1>1, <1>3 DEF Traced
    <2> HIDE DEF old
    <2>4. /\ r.pc = "again" /\ r.entries = old.entries /\ r.perms = old.perms
          /\ r.view = old.view /\ r.failed = old.failed
      BY <1>1, PcSet
    <2> USE DEF old
    <2> HIDE DEF r
    <2>5. Traced(c, crawl'[c], names', made') /\ \A d \in Crawls \ {c} : crawl'[d] = crawl[d]
      BY <2>1, <2>2, <2>3, <2>4, MoveTraced
    <2> QED
      BY <1>1, <1>3, <2>5, NothingMade
  <1> QED
    BY <1>2, <1>3 DEF InsertRow

LEMMA LookAgainMade ==
  ASSUME PermsInv, MadeInv, NEW c \in Crawls, LookAgain(c)
  PROVE  MadeInv'
PROOF
  <1> DEFINE sid == Entry(c).sid
             answer == IF sid \in DOMAIN Sees(c).cache THEN Sees(c).cache[sid] ELSE None
  <1>1. UNCHANGED <<cache, names, made>> /\ Adds(c) /\ Answer(c, answer, Sees(c))
    BY DEF LookAgain, Adds
  <1>2. sid \in DOMAIN Sees(c).cache => answer = Account[sid] /\ Account[sid] \in names'
    BY <1>1, SeesOK, SeesNamed DEF RowsOK
  <1>3. ~crawl[c].failed => Rival(c, sid, made')
    BY <1>1 DEF MadeInv, Traced, At, Entry, LookAgain
  <1>4. /\ \A s \in DOMAIN Sees(c).cache : Account[s] \in names'
        /\ \A s : /\ <<c, s, "row">> \in made' => s \in DOMAIN Sees(c).cache
                  /\ <<c, s, "account">> \in made' => Account[s] \in Sees(c).names
    BY <1>1, SeesOwn, SeesNamed
  <1> HIDE DEF answer
  <1>5. Traced(c, crawl'[c], names', made') /\ \A d \in Crawls \ {c} : crawl'[d] = crawl[d]
    BY <1>1, <1>3, <1>4, AnswerTraced
  <1> QED
    BY <1>1, <1>5, NothingMade

LEMMA MadeStep == PermsInv /\ MadeInv /\ [PNext]_<<avars, pvars>> => MadeInv'
PROOF
  <1> SUFFICES ASSUME PermsInv, MadeInv, [PNext]_<<avars, pvars>> PROVE MadeInv'
    OBVIOUS
  <1>1. CASE UNCHANGED pvars
    BY <1>1 DEF MadeInv, pvars
  <1>2. ASSUME NEW c \in Crawls, PStep(c) PROVE MadeInv'
    BY <1>2, GetfaclMade, LookupMade, ResolveMade, CreateAccountMade, InsertRowMade,
       LookAgainMade DEF PStep
  <1> QED
    BY <1>1, <1>2 DEF PNext

(* What the invariant says of the rights that addPerms gives.              *)
LEMMA RightsFollow == PermsInv /\ MadeInv => RightsArrive
PROOF
  <1> SUFFICES ASSUME PermsInv, MadeInv, NEW c \in Crawls
               PROVE  /\ Done(c) /\ ~crawl[c].failed =>
                           \A e \in ToSet(crawl[c].entries) :
                             /\ e.sid \in DOMAIN Account /\ e.role \in DOMAIN RightOf
                             /\ e.role = "owner" => Account[e.sid].class = "person"
                             /\ e.role = "group" => Account[e.sid].class = "group"
                             => \/ [name |-> Account[e.sid].name, class |-> Account[e.sid].class,
                                    right |-> RightOf[e.role]] \in Granted(crawl[c].perms)
                                \/ isolation = "snapshot" /\ Beaten(c, e.sid)
                      /\ \A g \in Granted(crawl[c].perms) : \E e \in ToSet(crawl[c].entries) :
                           /\ e.sid \in DOMAIN Account
                           /\ g.name = Account[e.sid].name
                           /\ e.role \in DOMAIN RightOf /\ g.right = RightOf[e.role]
    BY DEF RightsArrive
  <1> DEFINE entries == crawl[c].entries
             perms == crawl[c].perms
  <1>1. /\ entries \in Seq(Entries) /\ perms \in Seq(Perms) /\ Len(perms) <= Len(entries)
        /\ \A k \in DOMAIN perms : perms[k] \in Outcomes(entries[k])
    BY DEF PermsInv, CrawlOK, CrawlRecords
  <1>2. ASSUME NEW s \in DOMAIN Account
        PROVE  /\ Account[s] = [name |-> Account[s].name, class |-> Account[s].class]
               /\ Account[s].name \notin {NoName, "root", "AnonymousUser"}
    BY FilePermsAssumption DEF Answers
  <1>3. ASSUME NEW e, e.sid \in DOMAIN Account
        PROVE  LET p == Perm(e, Account[e.sid])
               IN  /\ p.name = Account[e.sid].name /\ p.class = Account[e.sid].class
                   /\ p.role = e.role
    BY <1>2, <1>3 DEF Perm
  <1>4. ASSUME Done(c), ~crawl[c].failed,
               NEW e \in ToSet(entries),
               e.sid \in DOMAIN Account, e.role \in DOMAIN RightOf,
               e.role = "owner" => Account[e.sid].class = "person",
               e.role = "group" => Account[e.sid].class = "group",
               ~(isolation = "snapshot" /\ Beaten(c, e.sid))
        PROVE  [name |-> Account[e.sid].name, class |-> Account[e.sid].class,
                right |-> RightOf[e.role]] \in Granted(perms)
    <2>1. PICK k \in DOMAIN entries : e = entries[k]
      BY <1>4 DEF ToSet
    <2>2. k \in DOMAIN perms
      BY <1>1, <1>4 DEF Done
    <2>3. perms[k] = Perm(e, Account[e.sid]) /\ Account[e.sid] \in names
      <3>1. CASE isolation = "committed"
        BY <1>4, <2>1, <2>2, <3>1 DEF PermsInv, Sound, Found
      <3>2. CASE isolation = "snapshot"
        <4>1. ~Rival(c, e.sid, made)
          BY <1>4, <3>2 DEF Beaten, Rival
        <4>2. Found(e, perms[k], names)
          BY <1>4, <2>1, <2>2, <4>1 DEF MadeInv, Traced
        <4> QED
          BY <1>4, <4>2 DEF Found
      <3> QED
        BY <3>1, <3>2 DEF PermsInv
    <2> DEFINE p == perms[k]
               a == Account[e.sid]
    <2>4. p \in ToSet(perms)
      BY <2>2 DEF ToSet
    <2>5. p.name = a.name /\ p.class = a.class /\ p.role = e.role
      BY <1>3, <1>4, <2>3
    <2>6. a = [name |-> a.name, class |-> a.class] /\ a.name # NoName
      BY <1>2, <1>4
    <2>7. (CASE p.role = "owner" -> "person" [] p.role = "group" -> "group" [] OTHER -> p.class)
            = a.class
      BY <1>4, <2>5
    <2> HIDE DEF p
    <2>8. [name |-> a.name, right |-> RightOf[e.role], class |-> a.class] \in Assigned(perms)
      BY <1>4, <2>4, <2>5, <2>6, <2>7 DEF Assigned
    <2> DEFINE g == [name |-> a.name, right |-> RightOf[e.role], class |-> a.class]
    <2>9. [name |-> g.name, class |-> g.class] \in names
      BY <2>3, <2>6
    <2> QED
      BY <2>8, <2>9 DEF Granted
  <1>5. ASSUME NEW g \in Granted(perms)
        PROVE  \E e \in ToSet(entries) :
                 /\ e.sid \in DOMAIN Account
                 /\ g.name = Account[e.sid].name
                 /\ e.role \in DOMAIN RightOf /\ g.right = RightOf[e.role]
    <2>1. PICK p \in ToSet(perms) : /\ p.role \in DOMAIN RightOf /\ p.name # NoName
                                    /\ g.name = p.name /\ g.right = RightOf[p.role]
      BY DEF Granted, Assigned
    <2>2. PICK k \in DOMAIN perms : p = perms[k]
      BY DEF ToSet
    <2>3. k \in DOMAIN entries /\ entries[k] \in ToSet(entries)
      BY <1>1 DEF ToSet
    <2> DEFINE e == entries[k]
    <2>4. PICK answer \in Replies(e.sid) : p = Perm(e, answer)
      BY <1>1, <2>2 DEF Outcomes
    <2>5. [name |-> g.name, class |-> g.class] \in names
      BY DEF Granted
    <2>6. PICK s \in DOMAIN Account : [name |-> g.name, class |-> g.class] = Account[s]
      BY <2>5 DEF PermsInv
    <2>7. g.name \notin {NoName, "root", "AnonymousUser"}
      BY <1>2, <2>6
    <2> HIDE DEF e
    <2>8. answer # None /\ answer # Anyone
      BY <2>1, <2>4, <2>7 DEF Perm, None, Anyone
    <2>9. e.sid \in DOMAIN Account /\ answer = Account[e.sid]
      BY <2>8 DEF Replies
    <2>10. p.name = Account[e.sid].name /\ p.role = e.role
      BY <1>3, <2>4, <2>9
    <2> QED
      BY <2>1, <2>3, <2>9, <2>10 DEF e
  <1> QED
    BY <1>4, <1>5

(* Every entry of a file's ACL with a right gives it to its account, and   *)
(* nobody gets another account's; where a session sees a snapshot, as with *)
(* the MySQL of settings.py, an entry may be left out, but only when       *)
(* another crawl inserted its account or row: lookupSID, buildPerms and    *)
(* addPerms, for any number of crawls, any directory and any files.        *)
THEOREM RightsReachTheirAccounts == PSpec => []RightsArrive
PROOF
  <1>1. PInit => PermsInv /\ MadeInv
    BY PermsInit, MadeInit
  <1>2. PermsInv /\ MadeInv /\ [PNext]_<<avars, pvars>> => PermsInv' /\ MadeInv'
    BY PermsStep, MadeStep
  <1>3. PermsInv /\ MadeInv => RightsArrive
    BY RightsFollow
  <1> QED
    BY <1>1, <1>2, <1>3, PTL DEF PSpec

(* What setcifsacl sends is what it was asked for, or nothing a server     *)
(* takes: copy_ace and copy_sec_desc, for any number of setcifsacl and of  *)
(* ACEs, any SIDs, and both orders in which a server lays a descriptor out.*)
THEOREM SendsTheAclAsked == PSpec => []SendsWhatWasAsked
PROOF
  <1>1. PInit => ToolsInv
    BY ToolsInit DEF PInit
  <1>2. ToolsInv /\ [PNext]_<<avars, pvars>> => ToolsInv'
    <2>1. [PNext]_<<avars, pvars>> => [ANext]_avars
      BY DEF PNext
    <2> QED
      BY <2>1, ToolsStep
  <1>3. ToolsInv => SendsWhatWasAsked
    BY SendsFollows
  <1> QED
    BY <1>1, <1>2, <1>3, PTL DEF PSpec
=============================================================================
