--------------------------- MODULE MtabLockProofs ---------------------------
(***************************************************************************)
(* Proofs about MtabLock, for any number of helpers and any set of faults, *)
(* and that it implements MountTable.                                      *)
(***************************************************************************)
EXTENDS MtabLock, SequenceTheorems, TLAPS

PCs == {"start", "link", "open", "claim", "wait", "blocked", "retry", "table",
        "append", "cut", "sync", "unlock", "unlink", "unmask", "done", "killed"}

Records == [pc : PCs, created : BOOLEAN, fd : Procs \cup {NoProc}, late : BOOLEAN,
            size : Nat, rc : {0, EX_USER, EX_FILEIO}]

Lines == [of : Procs, kind : {"whole", "part", "unwanted"}]

(* Whoever made the link is the one mtab~ is linked to, ...                *)
LockInv == \A p \in Procs : proc[p].created <=> lockfile = p

(* ... and whoever works on mtab, or is about to remove mtab~, made it.    *)
HeldInv ==
  \A p \in Procs :
    /\ proc[p].pc \in {"claim", "table", "append", "cut", "sync", "unlink"} => proc[p].created
    /\ proc[p].pc \in {"unmask", "done"} => ~proc[p].created

(* The file of an attempt exists from the attempt's first step to its end. *)
Clean == {"start", "table", "append", "cut", "sync", "unlock", "unlink", "unmask", "done"}

TargetInv ==
  \A p \in Procs :
    proc[p].pc \in Clean => p \notin targets

FdInv ==
  \A p \in Procs :
    proc[p].pc \in {"claim", "wait", "blocked", "retry"} => proc[p].fd \in Procs

(* What fstat said stays the size of the whole entries while one is added. *)
SizeInv ==
  \A p \in Procs :
    /\ proc[p].pc = "append" => proc[p].size = Len(mtab)
    /\ proc[p].pc \in {"cut", "sync"} => proc[p].size <= Len(mtab)

MtabInv == MtabTypeOK /\ LockInv /\ HeldInv /\ TargetInv /\ FdInv /\ SizeInv

LEMMA InitInv == MtabInit => MtabInv
  <1> SUFFICES ASSUME MtabInit PROVE MtabInv
    OBVIOUS
  <1>1. \A p \in Procs : proc[p] = Fresh
    BY DEF MtabInit
  <1>2. Fresh \in Records
    BY DEF Fresh, Records, PCs
  <1>3. proc \in [Procs -> Records]
    BY <1>1, <1>2 DEF MtabInit
  <1>4. mtab \in Seq(Lines)
    BY DEF MtabInit
  <1>5. MtabTypeOK
    BY <1>3, <1>4 DEF MtabTypeOK, MtabInit, Lines, Records, PCs
  <1> QED
    BY <1>1, <1>5, MtabAssumption
    DEF MtabInv, LockInv, HeldInv, TargetInv, Clean, FdInv, SizeInv, Fresh, MtabInit

LEMMA ClosedType ==
  ASSUME NEW p \in Procs, NEW i \in Procs \cup {NoProc},
         holder \in [Procs -> Procs \cup {NoProc}]
  PROVE  Closed(p, i) \in [Procs -> Procs \cup {NoProc}]
  BY DEF Closed

(* A step of p that leaves a record r for p, the files of the others and   *)
(* the link as they are but for p's own, and the parts of the invariant    *)
(* true of p, leaves them true of everyone.                                *)
PartsOf(p, r) ==
  /\ r.created <=> lockfile' = p
  /\ r.pc \in {"claim", "table", "append", "cut", "sync", "unlink"} => r.created
  /\ r.pc \in {"unmask", "done"} => ~r.created
  /\ r.pc \in Clean
       => p \notin targets'
  /\ r.pc \in {"claim", "wait", "blocked", "retry"} => r.fd \in Procs
  /\ r.pc = "append" => r.size = Len(mtab')
  /\ r.pc \in {"cut", "sync"} => r.size <= Len(mtab')

LEMMA Preserve ==
  ASSUME MtabInv, NEW p \in Procs, NEW r \in Records,
         proc' = [proc EXCEPT ![p] = r], PartsOf(p, r),
         lockfile' = lockfile \/ {lockfile, lockfile'} \subseteq {p, NoProc},
         targets' \in {targets, targets \cup {p}, targets \ {p}},
         holder' \in [Procs -> Procs \cup {NoProc}], mtab' \in Seq(Lines),
         mtab' = mtab \/ proc[p].created
  PROVE  MtabInv'
  <1>1. proc \in [Procs -> Records]
    BY DEF MtabInv, MtabTypeOK, Lines, Records, PCs
  <1>2. /\ proc' \in [Procs -> Records]
        /\ proc'[p] = r
        /\ \A q \in Procs : q # p => proc'[q] = proc[q]
    BY <1>1
  <1>3. lockfile' \in Procs \cup {NoProc} /\ targets' \subseteq Procs
    BY DEF MtabInv, MtabTypeOK, Lines
  <1>4. MtabTypeOK'
    BY <1>2, <1>3 DEF MtabTypeOK, Lines, Records, PCs
  <1>5. LockInv'
    BY <1>2, MtabAssumption DEF LockInv, MtabInv, PartsOf
  <1>6. HeldInv'
    BY <1>2 DEF HeldInv, MtabInv, PartsOf
  <1>7. TargetInv'
    <2> SUFFICES ASSUME NEW q \in Procs,
                        proc'[q].pc \in Clean
                 PROVE  q \notin targets'
      BY DEF TargetInv, Clean
    <2>1. CASE q = p
      BY <2>1, <1>2 DEF PartsOf
    <2>2. CASE q # p
      BY <2>2, <1>2 DEF TargetInv, Clean, MtabInv
    <2> QED BY <2>1, <2>2
  <1>8. FdInv'
    BY <1>2 DEF FdInv, MtabInv, PartsOf
  <1>9. SizeInv'
    <2> SUFFICES ASSUME NEW q \in Procs, proc'[q].pc \in {"append", "cut", "sync"}
                 PROVE  /\ proc'[q].pc = "append" => proc'[q].size = Len(mtab')
                        /\ proc'[q].pc \in {"cut", "sync"} => proc'[q].size <= Len(mtab')
      BY DEF SizeInv
    <2>1. CASE q = p
      BY <2>1, <1>2 DEF PartsOf
    <2>2. CASE q # p
      <3>1. proc[q] = proc'[q]
        BY <2>2, <1>2
      <3>2. proc[q].created /\ ~proc[p].created
        BY <2>2, <3>1 DEF MtabInv, LockInv, HeldInv
      <3> QED BY <3>1, <3>2 DEF MtabInv, SizeInv
    <2> QED BY <2>1, <2>2
  <1> QED
    BY <1>4, <1>5, <1>6, <1>7, <1>8, <1>9 DEF MtabInv

(* The records the actions leave.                                          *)
LEMMA Updated ==
  ASSUME NEW o \in Records, NEW a \in PCs, NEW b \in BOOLEAN,
         NEW f \in Procs \cup {NoProc}, NEW n \in Nat, NEW c \in {0, EX_USER, EX_FILEIO}
  PROVE  /\ [o EXCEPT !.pc = a] \in Records
         /\ [o EXCEPT !.pc = a, !.created = b] \in Records
         /\ [o EXCEPT !.pc = a, !.fd = f] \in Records
         /\ [o EXCEPT !.pc = a, !.size = n] \in Records
         /\ [o EXCEPT !.pc = a, !.rc = c] \in Records
  BY DEF Records

LEMMA UpdatedLeave ==
  ASSUME NEW o \in Records
  PROVE  /\ [o EXCEPT !.pc = "table", !.late = FALSE] \in Records
         /\ [o EXCEPT !.pc = "unlock", !.rc = EX_FILEIO, !.late = FALSE, !.size = 0]
              \in Records
  BY DEF Records, PCs

LEMMA StepOpenTarget ==
  ASSUME MtabInv, NEW p \in Procs, OpenTarget(p)
  PROVE  MtabInv'
  <1> DEFINE o == proc[p]
             r == [o EXCEPT !.pc = "link"]
             e == [o EXCEPT !.pc = "unlock", !.rc = EX_FILEIO, !.late = FALSE, !.size = 0]
  <1>1. o \in Records /\ o.pc = "start"
    BY DEF MtabInv, MtabTypeOK, Lines, Records, PCs, OpenTarget, At
  <1>2. r \in Records /\ e \in Records
    BY <1>1, Updated, UpdatedLeave DEF PCs
  <1>3. /\ r.pc = "link" /\ r.created = o.created
        /\ e.pc = "unlock" /\ e.created = o.created
    BY <1>1 DEF Records
  <1>4. CASE targets' = targets \cup {p} /\ proc' = [proc EXCEPT ![p] = r]
    <2>1. PartsOf(p, r)
      BY <1>1, <1>3, <1>4 DEF PartsOf, Clean, OpenTarget, MtabInv, LockInv
    <2> QED BY <2>1, <1>2, <1>4, Preserve DEF OpenTarget, MtabInv, MtabTypeOK, Lines
  <1>5. CASE targets' = targets /\ proc' = [proc EXCEPT ![p] = e]
    <2>1. PartsOf(p, e)
      BY <1>1, <1>3, <1>5 DEF PartsOf, Clean, OpenTarget, MtabInv, LockInv, TargetInv
    <2> QED BY <2>1, <1>2, <1>5, Preserve DEF OpenTarget, MtabInv, MtabTypeOK, Lines
  <1> QED BY <1>4, <1>5 DEF OpenTarget, Goto, Leave

LEMMA SequencesOf ==
  /\ mtab \in Seq(Lines) => Len(mtab) \in Nat
  /\ \A e \in Lines : mtab \in Seq(Lines) => Append(mtab, e) \in Seq(Lines)
  /\ \A n \in 0 .. Len(mtab) : mtab \in Seq(Lines) => /\ SubSeq(mtab, 1, n) \in Seq(Lines)
                                                       /\ Len(SubSeq(mtab, 1, n)) = n
  /\ \A e \in Lines : mtab \in Seq(Lines) => Len(Append(mtab, e)) = Len(mtab) + 1
  OBVIOUS

LEMMA StepLink ==
  ASSUME MtabInv, NEW p \in Procs, Link(p)
  PROVE  MtabInv'
  <1> DEFINE o == proc[p]
             r == [o EXCEPT !.pc = "open", !.created = TRUE]
             s == [o EXCEPT !.pc = "open"]
             e == [o EXCEPT !.pc = "unlock", !.rc = EX_FILEIO, !.late = FALSE, !.size = 0]
  <1>1. o \in Records /\ o.pc = "link" /\ (o.created <=> lockfile = p)
    BY DEF MtabInv, MtabTypeOK, LockInv, Records, PCs, Link, At
  <1>2. r \in Records /\ s \in Records /\ e \in Records
    BY <1>1, Updated, UpdatedLeave, SequencesOf DEF PCs, MtabInv, MtabTypeOK, Lines
  <1>3. /\ r.pc = "open" /\ r.created = TRUE /\ r.fd = o.fd
        /\ s.pc = "open" /\ s.created = o.created /\ s.fd = o.fd
        /\ e.pc = "unlock" /\ e.created = o.created /\ e.fd = o.fd
    BY <1>1 DEF Records
  <1>4. CASE /\ proc' = [proc EXCEPT ![p] = r]
            /\ lockfile = NoProc /\ lockfile' = p /\ targets' = targets
    <2>1. PartsOf(p, r)
      BY <1>1, <1>3, <1>4, MtabAssumption, SequencesOf DEF PartsOf, Link, MtabInv, MtabTypeOK, Lines, HeldInv, TargetInv, Clean, FdInv, SizeInv, Records
    <2>2. holder' \in [Procs -> Procs \cup {NoProc}] /\ mtab' \in Seq(Lines)
      BY <1>1, <1>4, ClosedType, SequencesOf DEF Link, MtabInv, MtabTypeOK, Lines, FdInv, Records
    <2>3. lockfile' = lockfile \/ {lockfile, lockfile'} \subseteq {p, NoProc}
      BY <1>1, <1>4 DEF Link, MtabInv, MtabTypeOK, Lines, HeldInv
    <2> QED BY <2>1, <2>2, <2>3, <1>2, <1>4, Preserve DEF Link
  <1>5. CASE /\ proc' = [proc EXCEPT ![p] = s]
            /\ lockfile' = lockfile /\ targets' = targets
    <2>1. PartsOf(p, s)
      BY <1>1, <1>3, <1>5, MtabAssumption, SequencesOf DEF PartsOf, Link, MtabInv, MtabTypeOK, Lines, HeldInv, TargetInv, Clean, FdInv, SizeInv, Records
    <2>2. holder' \in [Procs -> Procs \cup {NoProc}] /\ mtab' \in Seq(Lines)
      BY <1>1, <1>5, ClosedType, SequencesOf DEF Link, MtabInv, MtabTypeOK, Lines, FdInv, Records
    <2>3. lockfile' = lockfile \/ {lockfile, lockfile'} \subseteq {p, NoProc}
      BY <1>1, <1>5 DEF Link, MtabInv, MtabTypeOK, Lines, HeldInv
    <2> QED BY <2>1, <2>2, <2>3, <1>2, <1>5, Preserve DEF Link
  <1>6. CASE /\ proc' = [proc EXCEPT ![p] = e]
            /\ lockfile' = lockfile /\ targets' = targets \ {p}
    <2>1. PartsOf(p, e)
      BY <1>1, <1>3, <1>6, MtabAssumption, SequencesOf DEF PartsOf, Link, MtabInv, MtabTypeOK, Lines, HeldInv, TargetInv, Clean, FdInv, SizeInv, Records
    <2>2. holder' \in [Procs -> Procs \cup {NoProc}] /\ mtab' \in Seq(Lines)
      BY <1>1, <1>6, ClosedType, SequencesOf DEF Link, MtabInv, MtabTypeOK, Lines, FdInv, Records
    <2>3. lockfile' = lockfile \/ {lockfile, lockfile'} \subseteq {p, NoProc}
      BY <1>1, <1>6 DEF Link, MtabInv, MtabTypeOK, Lines, HeldInv
    <2> QED BY <2>1, <2>2, <2>3, <1>2, <1>6, Preserve DEF Link
  <1> QED BY <1>4, <1>5, <1>6 DEF Link, Goto, Leave

LEMMA StepOpenLock ==
  ASSUME MtabInv, NEW p \in Procs, OpenLock(p)
  PROVE  MtabInv'
  <1> DEFINE o == proc[p]
             r == [o EXCEPT !.pc = IF o.created THEN "claim" ELSE "wait", !.fd = lockfile]
             s == [o EXCEPT !.pc = "link", !.created = FALSE]
             e == [o EXCEPT !.pc = "unlock", !.rc = EX_FILEIO, !.late = FALSE, !.size = 0]
  <1>1. o \in Records /\ o.pc = "open" /\ (o.created <=> lockfile = p)
    BY DEF MtabInv, MtabTypeOK, LockInv, Records, PCs, OpenLock, At
  <1>2. r \in Records /\ s \in Records /\ e \in Records
    BY <1>1, Updated, UpdatedLeave, SequencesOf, ZenonT(40) DEF PCs, MtabInv, MtabTypeOK
  <1>3. /\ r.pc = (IF o.created THEN "claim" ELSE "wait") /\ r.created = o.created /\ r.fd = lockfile
        /\ s.pc = "link" /\ s.created = FALSE /\ s.fd = o.fd
        /\ e.pc = "unlock" /\ e.created = o.created /\ e.fd = o.fd
    BY <1>1 DEF Records
  <1>4. CASE /\ proc' = [proc EXCEPT ![p] = r]
            /\ lockfile # NoProc /\ targets' = targets
    <2>1. PartsOf(p, r)
      BY <1>1, <1>3, <1>4, MtabAssumption, SequencesOf DEF PartsOf, OpenLock, MtabInv, MtabTypeOK, Lines, HeldInv, TargetInv, Clean, FdInv, SizeInv, Records
    <2>2. holder' \in [Procs -> Procs \cup {NoProc}] /\ mtab' \in Seq(Lines)
      BY <1>1, <1>4, ClosedType, SequencesOf DEF OpenLock, MtabInv, MtabTypeOK, Lines, FdInv, Records
    <2>3. lockfile' = lockfile \/ {lockfile, lockfile'} \subseteq {p, NoProc}
      BY <1>1, <1>4 DEF OpenLock, MtabInv, MtabTypeOK, Lines, HeldInv
    <2> QED BY <2>1, <2>2, <2>3, <1>2, <1>4, Preserve DEF OpenLock
  <1>5. CASE /\ proc' = [proc EXCEPT ![p] = s]
            /\ lockfile = NoProc /\ targets' = targets
    <2>1. PartsOf(p, s)
      BY <1>1, <1>3, <1>5, MtabAssumption, SequencesOf DEF PartsOf, OpenLock, MtabInv, MtabTypeOK, Lines, HeldInv, TargetInv, Clean, FdInv, SizeInv, Records
    <2>2. holder' \in [Procs -> Procs \cup {NoProc}] /\ mtab' \in Seq(Lines)
      BY <1>1, <1>5, ClosedType, SequencesOf DEF OpenLock, MtabInv, MtabTypeOK, Lines, FdInv, Records
    <2>3. lockfile' = lockfile \/ {lockfile, lockfile'} \subseteq {p, NoProc}
      BY <1>1, <1>5 DEF OpenLock, MtabInv, MtabTypeOK, Lines, HeldInv
    <2> QED BY <2>1, <2>2, <2>3, <1>2, <1>5, Preserve DEF OpenLock
  <1>6. CASE /\ proc' = [proc EXCEPT ![p] = e]
            /\ targets' = targets \ {p}
    <2>1. PartsOf(p, e)
      BY <1>1, <1>3, <1>6, MtabAssumption, SequencesOf DEF PartsOf, OpenLock, MtabInv, MtabTypeOK, Lines, HeldInv, TargetInv, Clean, FdInv, SizeInv, Records
    <2>2. holder' \in [Procs -> Procs \cup {NoProc}] /\ mtab' \in Seq(Lines)
      BY <1>1, <1>6, ClosedType, SequencesOf DEF OpenLock, MtabInv, MtabTypeOK, Lines, FdInv, Records
    <2>3. lockfile' = lockfile \/ {lockfile, lockfile'} \subseteq {p, NoProc}
      BY <1>1, <1>6 DEF OpenLock, MtabInv, MtabTypeOK, Lines, HeldInv
    <2> QED BY <2>1, <2>2, <2>3, <1>2, <1>6, Preserve DEF OpenLock
  <1> QED BY <1>4, <1>5, <1>6 DEF OpenLock, Goto, Leave

LEMMA StepClaim ==
  ASSUME MtabInv, NEW p \in Procs, Claim(p)
  PROVE  MtabInv'
  <1> DEFINE o == proc[p]
             r == [o EXCEPT !.pc = "table", !.late = FALSE]
  <1>1. o \in Records /\ o.pc = "claim" /\ (o.created <=> lockfile = p)
    BY DEF MtabInv, MtabTypeOK, LockInv, Records, PCs, Claim, At
  <1>2. r \in Records
    BY <1>1, Updated, UpdatedLeave, SequencesOf DEF PCs, MtabInv, MtabTypeOK, Lines
  <1>3. /\ r.pc = "table" /\ r.created = o.created /\ r.fd = o.fd
    BY <1>1 DEF Records
  <1>4. CASE /\ proc' = [proc EXCEPT ![p] = r]
            /\ targets' = targets \ {p}
    <2>1. PartsOf(p, r)
      BY <1>1, <1>3, <1>4, MtabAssumption, SequencesOf DEF PartsOf, Claim, MtabInv, MtabTypeOK, Lines, HeldInv, TargetInv, Clean, FdInv, SizeInv, Records
    <2>2. holder' \in [Procs -> Procs \cup {NoProc}] /\ mtab' \in Seq(Lines)
      BY <1>1, <1>4, ClosedType, SequencesOf DEF Claim, MtabInv, MtabTypeOK, Lines, FdInv, Records
    <2>3. lockfile' = lockfile \/ {lockfile, lockfile'} \subseteq {p, NoProc}
      BY <1>1, <1>4 DEF Claim, MtabInv, MtabTypeOK, Lines, HeldInv
    <2> QED BY <2>1, <2>2, <2>3, <1>2, <1>4, Preserve DEF Claim
  <1> QED BY <1>4 DEF Claim, Goto, Leave

LEMMA StepWait ==
  ASSUME MtabInv, NEW p \in Procs, Wait(p)
  PROVE  MtabInv'
  <1> DEFINE o == proc[p]
             r == [o EXCEPT !.pc = "blocked"]
             e == [o EXCEPT !.pc = "unlock", !.rc = EX_FILEIO, !.late = FALSE, !.size = 0]
  <1>1. o \in Records /\ o.pc = "wait" /\ (o.created <=> lockfile = p)
    BY DEF MtabInv, MtabTypeOK, LockInv, Records, PCs, Wait, At
  <1>2. r \in Records /\ e \in Records
    BY <1>1, Updated, UpdatedLeave, SequencesOf DEF PCs, MtabInv, MtabTypeOK, Lines
  <1>3. /\ r.pc = "blocked" /\ r.created = o.created /\ r.fd = o.fd
        /\ e.pc = "unlock" /\ e.created = o.created /\ e.fd = o.fd
    BY <1>1 DEF Records
  <1>4. CASE /\ proc' = [proc EXCEPT ![p] = r]
            /\ targets' = targets
    <2>1. PartsOf(p, r)
      BY <1>1, <1>3, <1>4, MtabAssumption, SequencesOf DEF PartsOf, Wait, MtabInv, MtabTypeOK, Lines, HeldInv, TargetInv, Clean, FdInv, SizeInv, Records
    <2>2. holder' \in [Procs -> Procs \cup {NoProc}] /\ mtab' \in Seq(Lines)
      BY <1>1, <1>4, ClosedType, SequencesOf DEF Wait, MtabInv, MtabTypeOK, Lines, FdInv, Records
    <2>3. lockfile' = lockfile \/ {lockfile, lockfile'} \subseteq {p, NoProc}
      BY <1>1, <1>4 DEF Wait, MtabInv, MtabTypeOK, Lines, HeldInv
    <2> QED BY <2>1, <2>2, <2>3, <1>2, <1>4, Preserve DEF Wait
  <1>5. CASE /\ proc' = [proc EXCEPT ![p] = e]
            /\ targets' = targets \ {p}
    <2>1. PartsOf(p, e)
      BY <1>1, <1>3, <1>5, MtabAssumption, SequencesOf DEF PartsOf, Wait, MtabInv, MtabTypeOK, Lines, HeldInv, TargetInv, Clean, FdInv, SizeInv, Records
    <2>2. holder' \in [Procs -> Procs \cup {NoProc}] /\ mtab' \in Seq(Lines)
      BY <1>1, <1>5, ClosedType, SequencesOf DEF Wait, MtabInv, MtabTypeOK, Lines, FdInv, Records
    <2>3. lockfile' = lockfile \/ {lockfile, lockfile'} \subseteq {p, NoProc}
      BY <1>1, <1>5 DEF Wait, MtabInv, MtabTypeOK, Lines, HeldInv
    <2> QED BY <2>1, <2>2, <2>3, <1>2, <1>5, Preserve DEF Wait
  <1> QED BY <1>4, <1>5 DEF Wait, Goto, Leave

LEMMA StepBlocked ==
  ASSUME MtabInv, NEW p \in Procs, Blocked(p)
  PROVE  MtabInv'
  <1> DEFINE o == proc[p]
             r == [o EXCEPT !.pc = "retry"]
  <1>1. o \in Records /\ o.pc = "blocked" /\ (o.created <=> lockfile = p)
    BY DEF MtabInv, MtabTypeOK, LockInv, Records, PCs, Blocked, At
  <1>2. r \in Records
    BY <1>1, Updated, SequencesOf DEF PCs, MtabInv, MtabTypeOK, Lines
  <1>3. /\ r.pc = "retry" /\ r.created = o.created /\ r.fd = o.fd
    BY <1>1 DEF Records
  <1>4. CASE /\ proc' = [proc EXCEPT ![p] = r]
            /\ targets' = targets /\ holder' = [holder EXCEPT ![o.fd] = p]
    <2>1. PartsOf(p, r)
      BY <1>1, <1>3, <1>4, MtabAssumption, SequencesOf DEF PartsOf, Blocked, MtabInv, MtabTypeOK, Lines, HeldInv, TargetInv, Clean, FdInv, SizeInv, Records
    <2>2. holder' \in [Procs -> Procs \cup {NoProc}] /\ mtab' \in Seq(Lines)
      BY <1>1, <1>4, ClosedType, SequencesOf DEF Blocked, MtabInv, MtabTypeOK, Lines, FdInv, Records
    <2>3. lockfile' = lockfile \/ {lockfile, lockfile'} \subseteq {p, NoProc}
      BY <1>1, <1>4 DEF Blocked, MtabInv, MtabTypeOK, Lines, HeldInv
    <2> QED BY <2>1, <2>2, <2>3, <1>2, <1>4, Preserve DEF Blocked
  <1> QED BY <1>4 DEF Blocked, Goto

LEMMA StepLockFails ==
  ASSUME MtabInv, NEW p \in Procs, LockFails(p)
  PROVE  MtabInv'
  <1> DEFINE o == proc[p]
             e == [o EXCEPT !.pc = "unlock", !.rc = EX_FILEIO, !.late = FALSE, !.size = 0]
  <1>1. o \in Records /\ o.pc = "blocked" /\ (o.created <=> lockfile = p)
    BY DEF MtabInv, MtabTypeOK, LockInv, Records, PCs, LockFails, At
  <1>2. e \in Records
    BY <1>1, Updated, UpdatedLeave, SequencesOf DEF PCs, MtabInv, MtabTypeOK, Lines
  <1>3. /\ e.pc = "unlock" /\ e.created = o.created /\ e.fd = o.fd
    BY <1>1 DEF Records
  <1>4. CASE /\ proc' = [proc EXCEPT ![p] = e]
            /\ targets' = targets \ {p} /\ holder' = holder
    <2>1. PartsOf(p, e)
      BY <1>1, <1>3, <1>4, MtabAssumption, SequencesOf DEF PartsOf, LockFails, MtabInv, MtabTypeOK, Lines, HeldInv, TargetInv, Clean, FdInv, SizeInv, Records
    <2>2. holder' \in [Procs -> Procs \cup {NoProc}] /\ mtab' \in Seq(Lines)
      BY <1>1, <1>4, ClosedType, SequencesOf DEF LockFails, MtabInv, MtabTypeOK, Lines, FdInv, Records
    <2>3. lockfile' = lockfile \/ {lockfile, lockfile'} \subseteq {p, NoProc}
      BY <1>1, <1>4 DEF LockFails, MtabInv, MtabTypeOK, Lines, HeldInv
    <2> QED BY <2>1, <2>2, <2>3, <1>2, <1>4, Preserve DEF LockFails
  <1> QED BY <1>4 DEF LockFails, Leave

LEMMA StepRetry ==
  ASSUME MtabInv, NEW p \in Procs, Retry(p)
  PROVE  MtabInv'
  <1> DEFINE o == proc[p]
             r == [o EXCEPT !.pc = "link", !.fd = NoProc]
  <1>1. o \in Records /\ o.pc = "retry" /\ (o.created <=> lockfile = p)
    BY DEF MtabInv, MtabTypeOK, LockInv, Records, PCs, Retry, At
  <1>2. r \in Records
    BY <1>1, Updated, SequencesOf DEF PCs, MtabInv, MtabTypeOK, Lines
  <1>3. /\ r.pc = "link" /\ r.created = o.created /\ r.fd = NoProc
    BY <1>1 DEF Records
  <1>4. CASE /\ proc' = [proc EXCEPT ![p] = r]
            /\ targets' = targets
    <2>1. PartsOf(p, r)
      BY <1>1, <1>3, <1>4, MtabAssumption, SequencesOf DEF PartsOf, Retry, MtabInv, MtabTypeOK, Lines, HeldInv, TargetInv, Clean, FdInv, SizeInv, Records
    <2>2. holder' \in [Procs -> Procs \cup {NoProc}] /\ mtab' \in Seq(Lines)
      BY <1>1, <1>4, ClosedType, SequencesOf DEF Retry, MtabInv, MtabTypeOK, Lines, FdInv, Records
    <2>3. lockfile' = lockfile \/ {lockfile, lockfile'} \subseteq {p, NoProc}
      BY <1>1, <1>4 DEF Retry, MtabInv, MtabTypeOK, Lines, HeldInv
    <2> QED BY <2>1, <2>2, <2>3, <1>2, <1>4, Preserve DEF Retry
  <1> QED BY <1>4 DEF Retry, Goto, Leave

LEMMA StepOpenTable ==
  ASSUME MtabInv, NEW p \in Procs, OpenTable(p)
  PROVE  MtabInv'
  <1> DEFINE o == proc[p]
             r == [o EXCEPT !.pc = "append", !.size = Len(mtab)]
             e == [o EXCEPT !.pc = "unlock", !.rc = EX_FILEIO, !.late = FALSE, !.size = 0]
  <1>1. o \in Records /\ o.pc = "table" /\ (o.created <=> lockfile = p)
    BY DEF MtabInv, MtabTypeOK, LockInv, Records, PCs, OpenTable, At
  <1>2. r \in Records /\ e \in Records
    BY <1>1, Updated, UpdatedLeave, SequencesOf DEF PCs, MtabInv, MtabTypeOK, Lines
  <1>3. /\ r.pc = "append" /\ r.created = o.created /\ r.fd = o.fd /\ r.size = Len(mtab)
        /\ e.pc = "unlock" /\ e.created = o.created /\ e.fd = o.fd /\ e.size = 0
    BY <1>1 DEF Records
  <1>4. CASE /\ proc' = [proc EXCEPT ![p] = r]
            /\ targets' = targets
    <2>1. PartsOf(p, r)
      BY <1>1, <1>3, <1>4, MtabAssumption, SequencesOf DEF PartsOf, OpenTable, MtabInv, MtabTypeOK, Lines, HeldInv, TargetInv, Clean, FdInv, SizeInv, Records
    <2>2. holder' \in [Procs -> Procs \cup {NoProc}] /\ mtab' \in Seq(Lines)
      BY <1>1, <1>4, ClosedType, SequencesOf DEF OpenTable, MtabInv, MtabTypeOK, Lines, FdInv, Records
    <2>3. lockfile' = lockfile \/ {lockfile, lockfile'} \subseteq {p, NoProc}
      BY <1>1, <1>4 DEF OpenTable, MtabInv, MtabTypeOK, Lines, HeldInv
    <2> QED BY <2>1, <2>2, <2>3, <1>2, <1>4, Preserve DEF OpenTable
  <1>5. CASE /\ proc' = [proc EXCEPT ![p] = e]
            /\ targets' = targets
    <2>1. PartsOf(p, e)
      BY <1>1, <1>3, <1>5, MtabAssumption, SequencesOf DEF PartsOf, OpenTable, MtabInv, MtabTypeOK, Lines, HeldInv, TargetInv, Clean, FdInv, SizeInv, Records
    <2>2. holder' \in [Procs -> Procs \cup {NoProc}] /\ mtab' \in Seq(Lines)
      BY <1>1, <1>5, ClosedType, SequencesOf DEF OpenTable, MtabInv, MtabTypeOK, Lines, FdInv, Records
    <2>3. lockfile' = lockfile \/ {lockfile, lockfile'} \subseteq {p, NoProc}
      BY <1>1, <1>5 DEF OpenTable, MtabInv, MtabTypeOK, Lines, HeldInv
    <2> QED BY <2>1, <2>2, <2>3, <1>2, <1>5, Preserve DEF OpenTable
  <1> QED BY <1>4, <1>5 DEF OpenTable, Goto, Leave

LEMMA EntryTypes ==
  ASSUME NEW p \in Procs
  PROVE  \A kind \in {"whole", "part", "unwanted"} : Entry(p, kind) \in Lines
  BY DEF Entry, Lines

LEMMA DisownedType ==
  ASSUME mtab \in Seq(Lines), NEW p \in Procs
  PROVE  Disowned(p) \in Seq(Lines) /\ Len(Disowned(p)) = Len(mtab)
  <1>1. Len(mtab) \in Nat /\ DOMAIN mtab = 1..Len(mtab)
        /\ \A i \in DOMAIN mtab : mtab[i] \in Lines
    OBVIOUS
  <1>2. Disowned(p) \in [1..Len(mtab) -> Lines]
    BY <1>1, EntryTypes DEF Disowned
  <1> QED BY <1>1, <1>2

(* A step on mtab itself leaves it a sequence of lines, and no shorter     *)
(* than the size p has measured.                                           *)
LEMMA StepWriting ==
  ASSUME MtabInv, NEW p \in Procs, AddEntry(p) \/ CutBack(p) \/ EndTable(p)
  PROVE  MtabInv'
  <1> DEFINE o == proc[p]
  <1>1. /\ o \in Records /\ o.pc \in {"append", "cut", "sync"}
        /\ o.created /\ lockfile = p /\ p \notin targets
        /\ mtab \in Seq(Lines) /\ o.size \in 0 .. Len(mtab)
    BY DEF MtabInv, MtabTypeOK, Lines, LockInv, HeldInv, TargetInv, Clean, SizeInv, Records,
       PCs, AddEntry, CutBack, EndTable, At
  <1>2. PICK r \in Records :
          /\ proc' = [proc EXCEPT ![p] = r]
          /\ r.created = o.created /\ r.fd = o.fd
          /\ (r.pc \in {"cut", "sync"} /\ r.size = o.size) \/ r.pc = "unlock"
    <2> DEFINE x(a, c) == [o EXCEPT !.pc = a, !.rc = c]
               y(c) == [o EXCEPT !.pc = "unlock", !.rc = c, !.late = FALSE, !.size = 0]
    <2>1. \A a \in {"cut", "sync"}, c \in {0, EX_USER, EX_FILEIO} :
            /\ x(a, c) \in Records /\ x(a, c).created = o.created /\ x(a, c).fd = o.fd
            /\ x(a, c).pc = a /\ x(a, c).size = o.size
      BY <1>1 DEF Records, PCs
    <2>2. \A c \in {0, EX_USER, EX_FILEIO} :
            /\ y(c) \in Records /\ y(c).created = o.created /\ y(c).fd = o.fd
            /\ y(c).pc = "unlock"
      BY <1>1 DEF Records, PCs
    <2>3. o.rc \in {0, EX_USER, EX_FILEIO} /\ [o EXCEPT !.pc = "sync"] = x("sync", o.rc)
      BY <1>1 DEF Records
    <2>4. CASE AddEntry(p) \/ CutBack(p)
      <3>1. \/ proc' = [proc EXCEPT ![p] = x("cut", EX_FILEIO)]
            \/ proc' = [proc EXCEPT ![p] = x("sync", o.rc)]
        BY <2>3, <2>4 DEF AddEntry, CutBack, Goto
      <3> HIDE DEF x, y
      <3> QED BY <2>1, <2>3, <3>1
    <2>5. CASE EndTable(p)
      <3>1. \/ proc' = [proc EXCEPT ![p] = y(o.rc)]
            \/ proc' = [proc EXCEPT ![p] = y(EX_FILEIO)]
        BY <2>5 DEF EndTable, Leave
      <3> HIDE DEF x, y
      <3> QED BY <2>2, <2>3, <3>1
    <2> QED BY <2>4, <2>5
  <1>5. mtab' \in Seq(Lines) /\ o.size <= Len(mtab')
    <2>1. CASE mtab' = mtab
      BY <1>1, <2>1, SequencesOf
    <2>2. ASSUME NEW kind \in {"whole", "part", "unwanted"}, mtab' = Append(mtab, Entry(p, kind))
          PROVE  mtab' \in Seq(Lines) /\ o.size <= Len(mtab')
      <3>1. Len(mtab') = Len(mtab) + 1 /\ mtab' \in Seq(Lines)
        BY <1>1, <2>2, EntryTypes, SequencesOf
      <3> QED BY <1>1, <3>1
    <2>3. CASE mtab' = SubSeq(mtab, 1, o.size)
      BY <1>1, <2>3, SequencesOf
    <2>4. CASE mtab' = Disowned(p)
      BY <1>1, <2>4, DisownedType
    <2> QED BY <2>1, <2>2, <2>3, <2>4 DEF AddEntry, CutBack, EndTable
  <1>6. UNCHANGED <<lockfile, targets, holder>>
    BY DEF AddEntry, CutBack, EndTable
  <1>7. PartsOf(p, r)
    BY <1>1, <1>2, <1>5, <1>6 DEF PartsOf, Clean
  <1>8. holder \in [Procs -> Procs \cup {NoProc}]
    BY DEF MtabInv, MtabTypeOK
  <1> QED BY <1>1, <1>2, <1>5, <1>6, <1>7, <1>8, Preserve

LEMMA StepCloseLock ==
  ASSUME MtabInv, NEW p \in Procs, CloseLock(p)
  PROVE  MtabInv'
  <1> DEFINE o == proc[p]
             r == [o EXCEPT !.pc = IF o.created THEN "unlink" ELSE "unmask", !.fd = NoProc]
  <1>1. o \in Records /\ o.pc = "unlock" /\ (o.created <=> lockfile = p)
    BY DEF MtabInv, MtabTypeOK, LockInv, Records, PCs, CloseLock, At
  <1>2. r \in Records
    BY <1>1, Updated, SequencesOf, ZenonT(40) DEF PCs, MtabInv, MtabTypeOK
  <1>3. /\ r.pc = (IF o.created THEN "unlink" ELSE "unmask") /\ r.created = o.created /\ r.fd = NoProc
    BY <1>1 DEF Records
  <1>4. CASE /\ proc' = [proc EXCEPT ![p] = r]
            /\ targets' = targets
    <2>1. PartsOf(p, r)
      BY <1>1, <1>3, <1>4, MtabAssumption, SequencesOf DEF PartsOf, CloseLock, MtabInv, MtabTypeOK, Lines, HeldInv, TargetInv, Clean, FdInv, SizeInv, Records
    <2>2. holder' \in [Procs -> Procs \cup {NoProc}] /\ mtab' \in Seq(Lines)
      BY <1>1, <1>4, ClosedType, SequencesOf DEF CloseLock, MtabInv, MtabTypeOK, Lines, FdInv, Records
    <2>3. lockfile' = lockfile \/ {lockfile, lockfile'} \subseteq {p, NoProc}
      BY <1>1, <1>4 DEF CloseLock, MtabInv, MtabTypeOK, Lines, HeldInv
    <2> QED BY <2>1, <2>2, <2>3, <1>2, <1>4, Preserve DEF CloseLock
  <1> QED BY <1>4 DEF CloseLock, Goto, Leave

LEMMA StepUnlinkLock ==
  ASSUME MtabInv, NEW p \in Procs, UnlinkLock(p)
  PROVE  MtabInv'
  <1> DEFINE o == proc[p]
             r == [o EXCEPT !.pc = "unmask", !.created = FALSE]
  <1>1. o \in Records /\ o.pc = "unlink" /\ (o.created <=> lockfile = p)
    BY DEF MtabInv, MtabTypeOK, LockInv, Records, PCs, UnlinkLock, At
  <1>2. r \in Records
    BY <1>1, Updated, SequencesOf DEF PCs, MtabInv, MtabTypeOK, Lines
  <1>3. /\ r.pc = "unmask" /\ r.created = FALSE /\ r.fd = o.fd
    BY <1>1 DEF Records
  <1>4. CASE /\ proc' = [proc EXCEPT ![p] = r]
            /\ lockfile' = NoProc
    <2>1. PartsOf(p, r)
      BY <1>1, <1>3, <1>4, MtabAssumption, SequencesOf DEF PartsOf, UnlinkLock, MtabInv, MtabTypeOK, Lines, HeldInv, TargetInv, Clean, FdInv, SizeInv, Records
    <2>2. holder' \in [Procs -> Procs \cup {NoProc}] /\ mtab' \in Seq(Lines)
      BY <1>1, <1>4, ClosedType, SequencesOf DEF UnlinkLock, MtabInv, MtabTypeOK, Lines, FdInv, Records
    <2>3. lockfile' = lockfile \/ {lockfile, lockfile'} \subseteq {p, NoProc}
      BY <1>1, <1>4 DEF UnlinkLock, MtabInv, MtabTypeOK, Lines, HeldInv
    <2> QED BY <2>1, <2>2, <2>3, <1>2, <1>4, Preserve DEF UnlinkLock
  <1> QED BY <1>4 DEF UnlinkLock, Goto, Leave

LEMMA StepUnmask ==
  ASSUME MtabInv, NEW p \in Procs, Unmask(p)
  PROVE  MtabInv'
  <1> DEFINE o == proc[p]
             r == [Fresh EXCEPT !.pc = "done", !.created = o.created, !.rc = o.rc]
             e == [Fresh EXCEPT !.pc = "done", !.created = o.created, !.rc = EX_USER]
  <1>1. /\ o \in Records /\ o.pc = "unmask" /\ (o.created <=> lockfile = p)
        /\ ~o.created /\ p \notin targets
    BY DEF MtabInv, MtabTypeOK, Lines, LockInv, HeldInv, TargetInv, Clean, Records, PCs,
       Unmask, At
  <1>2. r \in Records /\ e \in Records
    BY <1>1 DEF Records, PCs, Fresh
  <1>3. /\ r.pc = "done" /\ r.created = o.created
        /\ e.pc = "done" /\ e.created = o.created
    BY <1>1 DEF Records, Fresh
  <1>4. PartsOf(p, r) /\ PartsOf(p, e)
    BY <1>1, <1>3 DEF PartsOf, Clean, Unmask
  <1>5. holder' \in [Procs -> Procs \cup {NoProc}] /\ mtab' \in Seq(Lines)
    BY DEF Unmask, MtabInv, MtabTypeOK, Lines
  <1>6. \/ proc' = [proc EXCEPT ![p] = r]
        \/ proc' = [proc EXCEPT ![p] = e]
    BY DEF Unmask, Gone
  <1> QED BY <1>2, <1>4, <1>5, <1>6, Preserve DEF Unmask

LEMMA StepKill ==
  ASSUME MtabInv, NEW p \in Procs, Kill(p)
  PROVE  MtabInv'
  <1> DEFINE o == proc[p]
             r == [Fresh EXCEPT !.pc = "killed", !.created = o.created, !.rc = 0]
  <1>1. o \in Records /\ (o.created <=> lockfile = p)
    BY DEF MtabInv, MtabTypeOK, LockInv, Records, PCs
  <1>2. r \in Records
    BY <1>1 DEF Records, PCs, Fresh
  <1>3. r.pc = "killed" /\ r.created = o.created
    BY <1>1 DEF Records, Fresh
  <1>4. PartsOf(p, r)
    BY <1>1, <1>3 DEF PartsOf, Clean, Kill
  <1>5. holder' \in [Procs -> Procs \cup {NoProc}] /\ mtab' \in Seq(Lines)
    BY <1>1, ClosedType DEF Kill, MtabInv, MtabTypeOK, Records, Lines
  <1> QED BY <1>2, <1>4, <1>5, Preserve DEF Kill, Gone

LEMMA StepTimeOut ==
  ASSUME MtabInv, NEW p \in Procs, TimeOut(p)
  PROVE  MtabInv'
  <1> DEFINE o == proc[p]
             r == [o EXCEPT !.late = TRUE]
  <1>1. o \in Records /\ (o.created <=> lockfile = p)
    BY DEF MtabInv, MtabTypeOK, LockInv, Records, PCs
  <1>2. r \in Records
    BY <1>1 DEF Records
  <1>3. r.pc = o.pc /\ r.created = o.created /\ r.fd = o.fd
    BY <1>1 DEF Records
  <1>4. PartsOf(p, r)
    <2>1. o.pc \notin {"append", "cut", "sync"}
      BY DEF TimeOut
    <2> QED
      BY <2>1, <1>1, <1>3 DEF PartsOf, TimeOut, MtabInv, HeldInv, TargetInv, Clean, FdInv
  <1>5. holder' \in [Procs -> Procs \cup {NoProc}] /\ mtab' \in Seq(Lines)
    BY DEF TimeOut, MtabInv, MtabTypeOK, Lines
  <1> QED BY <1>2, <1>4, <1>5, Preserve DEF TimeOut

LEMMA StepInv == MtabInv /\ [MtabNext]_mvars => MtabInv'
  <1> SUFFICES ASSUME MtabInv, [MtabNext]_mvars PROVE MtabInv'
    OBVIOUS
  <1>1. CASE UNCHANGED mvars
    BY <1>1 DEF mvars, MtabInv, MtabTypeOK, LockInv, HeldInv, TargetInv, Clean, FdInv, SizeInv
  <1>2. ASSUME NEW p \in Procs, LockStep(p) PROVE MtabInv'
    BY <1>2, StepOpenTarget, StepLink, StepOpenLock, StepClaim, StepWait, StepBlocked, StepRetry
    DEF LockStep
  <1>3. ASSUME NEW p \in Procs, TableStep(p) PROVE MtabInv'
    BY <1>3, StepOpenTable, StepWriting, StepCloseLock, StepUnlinkLock, StepUnmask
    DEF TableStep
  <1> QED
    BY <1>1, <1>2, <1>3, StepLockFails, StepKill, StepTimeOut DEF MtabNext

LEMMA AlwaysInv == MtabSpec => []MtabInv
  <1> QED BY InitInv, StepInv, PTL DEF MtabSpec

(* The variables keep their types; size, created and the file open are the *)
(* ones of the attempt that is under way.                                  *)
THEOREM MtabTypeCorrect == MtabSpec => []MtabTypeOK
  <1>1. MtabInv => MtabTypeOK
    BY DEF MtabInv
  <1> QED BY <1>1, AlwaysInv, PTL

(* lock_mtab: of any number of helpers one at most writes mtab.            *)
THEOREM OneWriterHolds == MtabSpec => []OneWriter
  <1>1. MtabInv => OneWriter
    BY DEF MtabInv, HeldInv, LockInv, OneWriter, Updating
  <1> QED BY <1>1, AlwaysInv, PTL

(* unlock_mtab and lock_mtab's returns: who has ended has removed mtab~ if *)
(* it was its own, and mtab~.<pid>.                                        *)
THEOREM NothingLeft == MtabSpec => []NothingLeftBehind
  <1>1. MtabInv => NothingLeftBehind
    BY DEF MtabInv, HeldInv, LockInv, TargetInv, Clean, NothingLeftBehind, At
  <1> QED BY <1>1, AlwaysInv, PTL
-----------------------------------------------------------------------------
(* The refinement of MountTable.                                           *)
Early == {"start", "link", "open", "claim", "wait", "blocked", "retry", "table", "append"}
Late == {"unlock", "unlink", "unmask", "done"}

(* A helper has no entry until it is done with writing; afterwards its     *)
(* exit status says whether it has.  While it writes, the file is the      *)
(* table with what it has written of its entry, or the table alone.        *)
EntryOf(p) ==
  /\ proc[p].pc \in Early => p \notin Table!Owners /\ proc[p].rc = 0
  /\ proc[p].pc \in {"cut", "sync"} =>
       /\ p \notin Table!Owners
       /\ \/ proc[p].rc = 0 /\ proc[p].pc = "sync" /\ mtab = Append(Committed, Entry(p, "whole"))
          \/ /\ proc[p].rc = EX_FILEIO
             /\ mtab = Committed \/ mtab = Append(Committed, Entry(p, "part"))
  /\ proc[p].pc \in Late =>
       /\ proc[p].rc = 0 => Table!Whole(p) \in Table!Entries
       /\ proc[p].rc = EX_FILEIO => Table!Whole(p) \notin Table!Entries

EntryInv == \A p \in Procs : EntryOf(p)

Writing(p) == At(p, "cut") \/ At(p, "sync")

LEMMA CommittedAt ==
  ASSUME MtabInv, NEW p \in Procs, Writing(p)
  PROVE  Committed = SubSeq(mtab, 1, proc[p].size)
  <1>1. \A q \in Procs : Writing(q) => q = p
    BY DEF MtabInv, HeldInv, LockInv, Writing, At
  <1>2. {q \in Procs : Writing(q)} = {p}
    BY <1>1
  <1> QED BY <1>2 DEF Committed, Writing

LEMMA CommittedElse ==
  ASSUME \A p \in Procs : ~Writing(p)
  PROVE  Committed = mtab
  BY DEF Committed, Writing

LEMMA CommittedAtNext ==
  ASSUME MtabInv', NEW p \in Procs, Writing(p)'
  PROVE  Committed' = SubSeq(mtab', 1, proc'[p].size)
  <1>1. \A q \in Procs : Writing(q)' => q = p
    BY DEF MtabInv, HeldInv, LockInv, Writing, At
  <1>2. {q \in Procs : Writing(q)'} = {p}
    BY <1>1
  <1>3. Committed' = LET open == {q \in Procs : Writing(q)'}
                     IN  IF open = {} THEN mtab'
                         ELSE SubSeq(mtab', 1, proc'[CHOOSE q \in open : TRUE].size)
    BY DEF Committed, Writing, At
  <1> QED BY <1>2, <1>3

LEMMA CommittedElseNext ==
  ASSUME \A p \in Procs : ~Writing(p)'
  PROVE  Committed' = mtab'
  BY DEF Committed, Writing, At

LEMMA CommittedType ==
  ASSUME MtabInv
  PROVE  Committed \in Seq(Lines)
  <1>1. CASE \A p \in Procs : ~Writing(p)
    BY <1>1, CommittedElse DEF MtabInv, MtabTypeOK, Lines
  <1>2. ASSUME NEW p \in Procs, Writing(p) PROVE Committed \in Seq(Lines)
    <2>1. proc[p].size \in 0 .. Len(mtab)
      BY <1>2 DEF Writing, At, MtabInv, MtabTypeOK, SizeInv
    <2> QED BY <1>2, <2>1, CommittedAt, SequencesOf DEF MtabInv, MtabTypeOK, Lines
  <1> QED BY <1>1, <1>2

(* A step of p that changes neither the file nor who is writing leaves the *)
(* table as it is.                                                         *)
Others(p) == \A q \in Procs : q # p => proc'[q] = proc[q]

LEMMA CommittedStays ==
  ASSUME MtabInv, MtabInv', NEW p \in Procs, Others(p), mtab' = mtab,
         proc[p].pc \notin {"cut", "sync"}, proc'[p].pc \notin {"cut", "sync"}
  PROVE  Committed' = Committed
  <1>1. CASE \A q \in Procs : ~Writing(q)
    <2>1. \A q \in Procs : ~Writing(q)'
      BY <1>1 DEF Others, Writing, At
    <2> QED BY <1>1, <2>1, CommittedElse, CommittedElseNext
  <1>2. ASSUME NEW q \in Procs, Writing(q) PROVE Committed' = Committed
    <2>1. q # p /\ proc'[q] = proc[q] /\ Writing(q)'
      BY <1>2 DEF Others, Writing, At
    <2>2. Committed = SubSeq(mtab, 1, proc[q].size)
      BY <1>2, CommittedAt
    <2>3. Committed' = SubSeq(mtab', 1, proc'[q].size)
      BY <2>1, CommittedAtNext
    <2> QED BY <2>1, <2>2, <2>3
  <1> QED BY <1>1, <1>2

(* What the table's readers see of the ends of helpers, and its steps.     *)
Ok == {p \in Procs : At(p, "done") /\ proc[p].rc = 0}
Failed == {p \in Procs : At(p, "done") /\ proc[p].rc = EX_FILEIO}

TableMoves ==
  \/ \E p \in Procs : Table!Add(p) \/ Table!Succeed(p) \/ Table!Fail(p)
  \/ UNCHANGED <<Committed, Ok, Failed>>

LEMMA SameEntries ==
  ASSUME Committed' = Committed
  PROVE  Table!Entries' = Table!Entries /\ Table!Owners' = Table!Owners
  BY DEF Table!Entries, Table!Owners

(* A step of p that leaves the table alone leaves EntryInv true of the     *)
(* others, and is a step of the table only when p ends.                    *)
LEMMA KeepsTable ==
  ASSUME MtabInv, EntryInv, NEW p \in Procs, Others(p), Committed' = Committed,
         mtab' = mtab \/ proc[p].created, proc[p].pc # "done", EntryOf(p)'
  PROVE  EntryInv' /\ TableMoves
  <1>1. Table!Entries' = Table!Entries /\ Table!Owners' = Table!Owners
    BY SameEntries
  <1>2. ASSUME NEW q \in Procs, q # p PROVE EntryOf(q)'
    <2>1. proc'[q] = proc[q] /\ EntryOf(q)
      BY <1>2 DEF Others, EntryInv
    <2>2. CASE proc[q].pc \in {"cut", "sync"}
      <3>1. ~proc[p].created
        BY <1>2, <2>2 DEF MtabInv, LockInv, HeldInv
      <3>2. mtab' = mtab
        BY <3>1
      <3> QED BY <1>1, <2>1, <3>2 DEF EntryOf, Table!Whole
    <2>3. CASE proc[q].pc \notin {"cut", "sync"}
      BY <1>1, <2>1, <2>3 DEF EntryOf, Table!Whole
    <2> QED BY <2>2, <2>3
  <1>3. EntryInv'
    BY <1>2 DEF EntryInv
  <1>4. CASE proc'[p].pc # "done" \/ proc'[p].rc \notin {0, EX_FILEIO}
    <2>1. \A q \in Procs : q # p => /\ At(q, "done")' <=> At(q, "done")
                                    /\ proc'[q].rc = proc[q].rc
      BY DEF At, Others
    <2>2. Ok' = Ok /\ Failed' = Failed
      BY <1>4, <2>1 DEF Ok, Failed, At
    <2> QED BY <1>3, <2>2 DEF TableMoves
  <1>5. CASE proc'[p].pc = "done" /\ proc'[p].rc \in {0, EX_FILEIO}
    <2>1. \A q \in Procs : q # p => /\ At(q, "done")' <=> At(q, "done")
                                    /\ proc'[q].rc = proc[q].rc
      BY DEF At, Others
    <2>2. p \notin Ok \cup Failed
      BY DEF Ok, Failed, At
    <2>3. CASE proc'[p].rc = 0
      <3>1. Ok' = Ok \cup {p} /\ Failed' = Failed
        BY <1>5, <2>1, <2>2, <2>3 DEF Ok, Failed, At, EX_FILEIO
      <3>2. Table!Whole(p) \in Table!Entries
        BY <1>1, <1>5, <2>3 DEF EntryOf, Late, Table!Whole
      <3>3. Table!Succeed(p)
        BY <3>1, <3>2 DEF Table!Succeed, Ok, Failed
      <3> QED BY <1>3, <3>3 DEF TableMoves
    <2>4. CASE proc'[p].rc = EX_FILEIO
      <3>1. Failed' = Failed \cup {p} /\ Ok' = Ok
        BY <1>5, <2>1, <2>2, <2>4 DEF Ok, Failed, At, EX_FILEIO
      <3>2. Table!Whole(p) \notin Table!Entries
        BY <1>1, <1>5, <2>4 DEF EntryOf, Late, Table!Whole
      <3>3. Table!Fail(p)
        BY <3>1, <3>2 DEF Table!Fail, Ok, Failed
      <3> QED BY <1>3, <3>3 DEF TableMoves
    <2> QED BY <1>5, <2>3, <2>4
  <1> QED BY <1>3, <1>4, <1>5

(* What p leaves behind as it stops writing becomes a line of the table:   *)
(* its entry, or what it could not cut back.                               *)
LEMMA AddsLine ==
  ASSUME MtabInv, MtabInv', EntryInv, NEW p \in Procs, Others(p),
         NEW kind \in {"whole", "part", "unwanted"},
         mtab' = Append(Committed, Entry(p, kind)),
         Writing(p), proc'[p].pc \in {"unlock", "killed"},
         proc'[p].pc = "unlock" =>
           (proc'[p].rc = 0 /\ kind = "whole") \/ (proc'[p].rc = EX_FILEIO /\ kind # "whole")
  PROVE  EntryInv' /\ TableMoves
  <1>1. \A q \in Procs : q # p => ~Writing(q)
    BY DEF MtabInv, LockInv, HeldInv, Writing, At
  <1>2. \A q \in Procs : ~Writing(q)'
    BY <1>1 DEF Writing, At, Others
  <1>3. Committed' = Append(Committed, Entry(p, kind))
    BY <1>2, CommittedElseNext
  <1>4. Committed \in Seq(Lines) /\ Entry(p, kind) \in Lines /\ Entry(p, kind).of = p
    BY CommittedType, EntryTypes DEF Entry
  <1>5. Table!Entries' = Table!Entries \cup {Entry(p, kind)}
    BY <1>3, <1>4, AppendProperties DEF Table!Entries
  <1>6. Table!Owners' = Table!Owners \cup {p}
    BY <1>4, <1>5 DEF Table!Owners
  <1>7. p \notin Table!Owners
    BY DEF EntryInv, EntryOf, Writing, At
  <1>8. \A e \in Table!Entries : e.of # p
    BY <1>7 DEF Table!Owners
  <1>9. Ok' = Ok /\ Failed' = Failed
    <2>1. \A q \in Procs : /\ At(q, "done")' <=> At(q, "done")
                           /\ At(q, "done") => proc'[q].rc = proc[q].rc
      BY DEF At, Others, Writing
    <2> QED BY <2>1 DEF Ok, Failed, At
  <1>10. Table!Add(p)
    BY <1>3, <1>7, <1>9 DEF Table!Add, Ok, Failed, At, Entry, Writing
  <1>11. ASSUME NEW q \in Procs PROVE EntryOf(q)'
    <2>1. CASE q = p
      <3>1. Table!Whole(p) \in Table!Entries' <=> kind = "whole"
        <4>1. Table!Whole(p) \notin Table!Entries
          BY <1>8 DEF Table!Whole
        <4> QED BY <1>5, <4>1 DEF Table!Whole, Entry
      <3> QED BY <2>1, <3>1 DEF EntryOf, Early, Late, EX_FILEIO, Table!Whole
    <2>2. CASE q # p
      <3>1. proc'[q] = proc[q] /\ EntryOf(q) /\ proc[q].pc \notin {"cut", "sync"}
        BY <2>2, <1>1 DEF Others, EntryInv, Writing, At
      <3>2. q \in Table!Owners' <=> q \in Table!Owners
        BY <2>2, <1>6
      <3>3. Table!Whole(q) \in Table!Entries' <=> Table!Whole(q) \in Table!Entries
        BY <2>2, <1>5 DEF Table!Whole, Entry
      <3> QED BY <3>1, <3>2, <3>3 DEF EntryOf, Table!Whole
    <2> QED BY <2>1, <2>2
  <1>12. EntryInv'
    BY <1>11 DEF EntryInv
  <1> QED BY <1>10, <1>12 DEF TableMoves

(* A step outside the writing: p goes on, gives up, is killed or ends.     *)
Goes(p) ==
  \/ proc'[p].pc = "killed"
  \/ proc[p].pc \in Early /\ proc'[p].pc \in Early /\ proc'[p].rc = proc[p].rc
  \/ proc[p].pc \in Early /\ proc'[p].pc = "unlock" /\ proc'[p].rc = EX_FILEIO
  \/ /\ proc[p].pc \in Late /\ proc'[p].pc \in Late
     /\ proc'[p].rc = proc[p].rc \/ proc'[p].rc = EX_USER

Quiet(p) ==
  Others(p) /\ mtab' = mtab /\ proc[p].pc \notin {"cut", "sync", "done"} /\ Goes(p)

LEMMA QuietKeeps ==
  ASSUME MtabInv, MtabInv', EntryInv, NEW p \in Procs, Quiet(p)
  PROVE  EntryInv' /\ TableMoves
  <1>1. proc'[p].pc \notin {"cut", "sync"}
    BY DEF Quiet, Goes, Early, Late
  <1>2. Committed' = Committed
    BY <1>1, CommittedStays DEF Quiet
  <1>3. Table!Entries' = Table!Entries /\ Table!Owners' = Table!Owners
    BY <1>2, SameEntries
  <1>4. EntryOf(p)
    BY DEF EntryInv
  <1>5. EntryOf(p)'
    <2>1. CASE proc'[p].pc = "killed"
      BY <2>1 DEF EntryOf, Early, Late
    <2>2. CASE proc[p].pc \in Early /\ proc'[p].pc \in Early /\ proc'[p].rc = proc[p].rc
      BY <2>2, <1>3, <1>4 DEF EntryOf, Early, Late
    <2>3. CASE proc[p].pc \in Early /\ proc'[p].pc = "unlock" /\ proc'[p].rc = EX_FILEIO
      <3>1. p \notin Table!Owners'
        BY <2>3, <1>3, <1>4 DEF EntryOf
      <3>2. Table!Whole(p) \notin Table!Entries'
        BY <3>1 DEF Table!Owners, Table!Whole
      <3> QED BY <2>3, <3>2 DEF EntryOf, Early, Late, EX_FILEIO, Table!Whole
    <2>4. CASE /\ proc[p].pc \in Late /\ proc'[p].pc \in Late
               /\ proc'[p].rc = proc[p].rc \/ proc'[p].rc = EX_USER
      BY <2>4, <1>3, <1>4 DEF EntryOf, Early, Late, EX_USER, EX_FILEIO, Table!Whole
    <2> QED BY <2>1, <2>2, <2>3, <2>4 DEF Quiet, Goes
  <1> QED BY <1>2, <1>5, KeepsTable DEF Quiet

LEMMA ProcType == MtabInv => proc \in [Procs -> Records]
  BY DEF MtabInv, MtabTypeOK, Records, PCs

LEMMA LockQuiet ==
  ASSUME MtabInv, NEW p \in Procs, LockStep(p) \/ LockFails(p)
  PROVE  Quiet(p)
  <1> USE ProcType DEF Quiet, Others, Goes, Early, Late, At, Goto, Leave, Records, EX_FILEIO
  <1>1. CASE OpenTarget(p)
    BY <1>1 DEF OpenTarget
  <1>2. CASE Link(p)
    BY <1>2 DEF Link
  <1>3. CASE OpenLock(p)
    BY <1>3 DEF OpenLock
  <1>4. CASE Claim(p)
    BY <1>4 DEF Claim
  <1>5. CASE Wait(p)
    BY <1>5 DEF Wait
  <1>6. CASE Blocked(p)
    BY <1>6 DEF Blocked
  <1>7. CASE Retry(p)
    BY <1>7 DEF Retry
  <1>8. CASE LockFails(p)
    BY <1>8 DEF LockFails
  <1> QED BY <1>1, <1>2, <1>3, <1>4, <1>5, <1>6, <1>7, <1>8 DEF LockStep

LEMMA RestQuiet ==
  ASSUME MtabInv, NEW p \in Procs,
         \/ OpenTable(p) \/ CloseLock(p) \/ UnlinkLock(p) \/ Unmask(p) \/ TimeOut(p)
         \/ Kill(p) /\ ~Writing(p)
  PROVE  Quiet(p)
  <1> USE ProcType DEF Quiet, Others, Goes, Early, Late, At, Goto, Leave, Gone, Fresh, Records, EX_FILEIO
  <1>1. CASE OpenTable(p)
    BY <1>1 DEF OpenTable
  <1>2. CASE CloseLock(p)
    BY <1>2 DEF CloseLock
  <1>3. CASE UnlinkLock(p)
    BY <1>3 DEF UnlinkLock
  <1>4. CASE Unmask(p)
    BY <1>4 DEF Unmask
  <1>5. CASE TimeOut(p)
    BY <1>5 DEF TimeOut
  <1>6. CASE Kill(p) /\ ~Writing(p)
    BY <1>6 DEF Kill, Writing
  <1> QED BY <1>1, <1>2, <1>3, <1>4, <1>5, <1>6

(* addmntent: the entry is written, or a part of it, but is not yet one of *)
(* the table.                                                              *)
LEMMA AddEntryKeeps ==
  ASSUME MtabInv, MtabInv', EntryInv, NEW p \in Procs, AddEntry(p)
  PROVE  EntryInv' /\ TableMoves
  <1>1. /\ proc \in [Procs -> Records] /\ mtab \in Seq(Lines)
        /\ proc[p].pc = "append" /\ proc[p].created
        /\ proc[p].size = Len(mtab) /\ proc[p].rc = 0 /\ p \notin Table!Owners
    BY ProcType DEF AddEntry, At, MtabInv, MtabTypeOK, Lines, HeldInv, SizeInv, EntryInv,
       EntryOf, Early
  <1>2. \A q \in Procs : ~Writing(q)
    BY <1>1 DEF MtabInv, HeldInv, LockInv, Writing, At
  <1>3. Committed = mtab
    BY <1>2, CommittedElse
  <1>4. /\ Others(p) /\ proc'[p].size = proc[p].size
        /\ \/ /\ mtab' = Append(mtab, Entry(p, "whole"))
              /\ proc'[p].pc = "sync" /\ proc'[p].rc = 0
           \/ /\ mtab' = mtab \/ mtab' = Append(mtab, Entry(p, "part"))
              /\ proc'[p].pc = "cut" /\ proc'[p].rc = EX_FILEIO
    BY <1>1, SMTT(30) DEF AddEntry, Goto, Others, Records
  <1>5. Committed' = SubSeq(mtab', 1, Len(mtab))
    <2>1. Writing(p)'
      BY <1>4 DEF Writing, At
    <2> QED BY <2>1, <1>1, <1>4, CommittedAtNext
  <1>6. /\ SubSeq(mtab, 1, Len(mtab)) = mtab
        /\ \A kind \in {"whole", "part", "unwanted"} :
             SubSeq(Append(mtab, Entry(p, kind)), 1, Len(mtab)) = mtab
    <2>1. ASSUME NEW e \in Lines PROVE SubSeq(Append(mtab, e), 1, Len(mtab)) = mtab
      BY <1>1
    <2> QED BY <1>1, <2>1, EntryTypes
  <1>7. Committed' = Committed
    BY <1>3, <1>4, <1>5, <1>6
  <1>8. Table!Owners' = Table!Owners
    BY <1>7, SameEntries
  <1>9. EntryOf(p)'
    BY <1>1, <1>3, <1>4, <1>7, <1>8 DEF EntryOf, Early, Late, EX_FILEIO
  <1> QED BY <1>1, <1>4, <1>7, <1>9, KeepsTable

(* What the file is for a helper that writes.                              *)
LEMMA WhileWriting ==
  ASSUME MtabInv, EntryInv, NEW p \in Procs, Writing(p)
  PROVE  /\ proc \in [Procs -> Records] /\ mtab \in Seq(Lines)
         /\ proc[p].created /\ p \notin Table!Owners
         /\ proc[p].size \in 0..Len(mtab)
         /\ Committed = SubSeq(mtab, 1, proc[p].size)
         /\ \/ proc[p].rc = 0 /\ proc[p].pc = "sync" /\ mtab = Append(Committed, Entry(p, "whole"))
            \/ /\ proc[p].rc = EX_FILEIO
               /\ mtab = Committed \/ mtab = Append(Committed, Entry(p, "part"))
  <1>1. Committed = SubSeq(mtab, 1, proc[p].size)
    BY CommittedAt
  <1>2. proc \in [Procs -> Records] /\ mtab \in Seq(Lines)
    BY ProcType DEF MtabInv, MtabTypeOK, Lines
  <1>3. proc[p].created /\ proc[p].size \in 0..Len(mtab)
    BY <1>2 DEF Writing, At, MtabInv, HeldInv, SizeInv, Records
  <1>4. /\ p \notin Table!Owners
        /\ \/ proc[p].rc = 0 /\ proc[p].pc = "sync" /\ mtab = Append(Committed, Entry(p, "whole"))
           \/ /\ proc[p].rc = EX_FILEIO
              /\ mtab = Committed \/ mtab = Append(Committed, Entry(p, "part"))
    BY DEF Writing, At, EntryInv, EntryOf
  <1> QED BY <1>1, <1>2, <1>3, <1>4

(* ftruncate after addmntent has failed: the table stays.                  *)
LEMMA CutBackKeeps ==
  ASSUME MtabInv, MtabInv', EntryInv, NEW p \in Procs, CutBack(p)
  PROVE  EntryInv' /\ TableMoves
  <1>1. Writing(p) /\ proc[p].pc = "cut"
    BY DEF CutBack, Writing, At
  <1>2. /\ proc \in [Procs -> Records] /\ mtab \in Seq(Lines) /\ proc[p].created
        /\ proc[p].size \in 0..Len(mtab) /\ Committed = SubSeq(mtab, 1, proc[p].size)
        /\ p \notin Table!Owners /\ proc[p].rc = EX_FILEIO
        /\ mtab = Committed \/ mtab = Append(Committed, Entry(p, "part"))
    BY <1>1, WhileWriting
  <1>3. /\ Others(p) /\ proc'[p].pc = "sync" /\ proc'[p].size = proc[p].size
        /\ proc'[p].rc = EX_FILEIO
        /\ mtab' = mtab \/ mtab' = SubSeq(mtab, 1, proc[p].size)
    BY <1>2 DEF CutBack, Goto, Others, Records
  <1>4. Committed' = SubSeq(mtab', 1, proc[p].size)
    <2>1. Writing(p)'
      BY <1>3 DEF Writing, At
    <2> QED BY <2>1, <1>3, CommittedAtNext
  <1>5. SubSeq(SubSeq(mtab, 1, proc[p].size), 1, proc[p].size) = SubSeq(mtab, 1, proc[p].size)
    BY <1>2
  <1>6. Committed' = Committed
    BY <1>2, <1>3, <1>4, <1>5
  <1>7. mtab' = Committed \/ mtab' = Append(Committed, Entry(p, "part"))
    BY <1>2, <1>3
  <1>8. Table!Owners' = Table!Owners
    BY <1>6, SameEntries
  <1>9. EntryOf(p)'
    BY <1>2, <1>3, <1>6, <1>7, <1>8 DEF EntryOf, Early, Late
  <1> QED BY <1>1, <1>2, <1>3, <1>6, <1>9, KeepsTable

LEMMA AppendIs ==
  ASSUME NEW s \in Seq(Lines), NEW d \in Seq(Lines), NEW e \in Lines,
         Len(d) = Len(s) + 1, d[Len(s) + 1] = e, \A i \in 1..Len(s) : d[i] = s[i]
  PROVE  d = Append(s, e)
  OBVIOUS

(* Of the whole entry at the end of mtab nothing else has p's name.        *)
LEMMA DisownedLine ==
  ASSUME MtabInv, EntryInv, NEW p \in Procs, Writing(p)
  PROVE  \/ Disowned(p) = Committed
         \/ \E kind \in {"part", "unwanted"} : Disowned(p) = Append(Committed, Entry(p, kind))
  <1>1. Committed \in Seq(Lines) /\ p \notin Table!Owners
    BY CommittedType, WhileWriting
  <1>2. \A i \in DOMAIN Committed : Committed[i] # Entry(p, "whole")
    BY <1>1 DEF Table!Owners, Table!Entries, Entry
  <1>3. Entry(p, "part") # Entry(p, "whole")
    BY DEF Entry
  <1>4. CASE mtab = Committed
    <2>1. Disowned(p) = [i \in DOMAIN Committed |-> Committed[i]]
      BY <1>2, <1>4 DEF Disowned
    <2> QED BY <1>1, <2>1
  <1>5. ASSUME NEW kind \in {"whole", "part"}, mtab = Append(Committed, Entry(p, kind))
        PROVE  \E k \in {"part", "unwanted"} : Disowned(p) = Append(Committed, Entry(p, k))
    <2> DEFINE k == IF kind = "whole" THEN "unwanted" ELSE "part"
               n == Len(Committed) + 1
    <2>1. /\ DOMAIN mtab = 1..n /\ mtab[n] = Entry(p, kind)
          /\ \A i \in 1..n : i # n => i \in DOMAIN Committed /\ mtab[i] = Committed[i]
          /\ Len(Committed) \in Nat /\ DOMAIN Committed = 1..Len(Committed)
      BY <1>1, <1>5, EntryTypes
    <2>2. Disowned(p)[n] = Entry(p, k)
      BY <1>3, <2>1 DEF Disowned
    <2>3. \A i \in 1..n : i # n => Disowned(p)[i] = Committed[i]
      BY <1>2, <2>1 DEF Disowned
    <2>4. Disowned(p) \in Seq(Lines) /\ Len(Disowned(p)) = n
      <3>1. mtab \in Seq(Lines)
        BY WhileWriting
      <3>2. Len(mtab) = n
        BY <2>1, <3>1, LenProperties
      <3> QED BY <3>1, <3>2, DisownedType
    <2>5. Disowned(p) = Append(Committed, Entry(p, k))
      <3> DEFINE d == Disowned(p)
                 e == Entry(p, k)
      <3>1. d \in Seq(Lines) /\ Len(d) = Len(Committed) + 1 /\ d[Len(Committed) + 1] = e
            /\ \A i \in 1..Len(Committed) : d[i] = Committed[i]
        <4>1. Len(Committed) \in Nat
          BY <2>1
        <4>2. \A i \in 1..Len(Committed) : i \in 1..n /\ i # n
          BY <4>1
        <4> HIDE DEF k
        <4> QED BY <2>2, <2>3, <2>4, <4>2
      <3>2. e \in Lines
        BY EntryTypes
      <3>3. d = Append(Committed, e)
        <4> HIDE DEF d, e, k, n
        <4> QED BY <1>1, <3>1, <3>2, AppendIs
      <3> QED BY <3>3
    <2> QED BY <2>5
  <1> QED BY <1>4, <1>5, WhileWriting

(* my_endmntent, or SIGKILL before it: what is written counts from now on, *)
(* as what it is.                                                          *)
LEMMA SyncMoves ==
  ASSUME MtabInv, MtabInv', EntryInv, NEW p \in Procs,
         EndTable(p) \/ (Kill(p) /\ Writing(p))
  PROVE  EntryInv' /\ TableMoves
  <1>1. Writing(p)
    BY DEF EndTable, Writing
  <1>2. /\ proc \in [Procs -> Records] /\ mtab \in Seq(Lines) /\ proc[p].created
        /\ Committed = SubSeq(mtab, 1, proc[p].size) /\ p \notin Table!Owners
        /\ \/ proc[p].rc = 0 /\ mtab = Append(Committed, Entry(p, "whole"))
           \/ /\ proc[p].rc = EX_FILEIO
              /\ mtab = Committed \/ mtab = Append(Committed, Entry(p, "part"))
    BY <1>1, WhileWriting
  <1>3. /\ Others(p)
        /\ \/ mtab' = mtab /\ proc'[p].pc = "killed"
           \/ mtab' = mtab /\ proc'[p].pc = "unlock" /\ proc'[p].rc = proc[p].rc
           \/ /\ mtab' = SubSeq(mtab, 1, proc[p].size) \/ mtab' = Disowned(p)
              /\ proc'[p].pc = "unlock" /\ proc'[p].rc = EX_FILEIO
    <2>1. CASE EndTable(p)
      <3>1. PICK rc \in {proc[p].rc, EX_FILEIO} :
              /\ Leave(p, rc)
              /\ \/ rc = proc[p].rc /\ mtab' = mtab
                 \/ /\ rc = EX_FILEIO
                    /\ mtab' = SubSeq(mtab, 1, proc[p].size) \/ mtab' = Disowned(p)
        BY <2>1 DEF EndTable
      <3>2. Others(p) /\ proc'[p].pc = "unlock" /\ proc'[p].rc = rc
        BY <1>2, <3>1 DEF Others, Records, Leave
      <3> QED BY <3>1, <3>2
    <2>2. CASE Kill(p)
      BY <1>2, <2>2 DEF Others, Records, Kill, Gone, Fresh
    <2> QED BY <2>1, <2>2
  <1>4. Committed' = mtab'
    <2>1. \A q \in Procs : ~Writing(q)'
      BY <1>1, <1>2, <1>3 DEF MtabInv, HeldInv, LockInv, Writing, At, Others
    <2> QED BY <2>1, CommittedElseNext
  <1>5. CASE mtab' = Committed /\ (proc'[p].pc = "unlock" => proc'[p].rc = EX_FILEIO)
    <2>1. Committed' = Committed /\ p \notin Table!Owners'
      BY <1>2, <1>4, <1>5, SameEntries
    <2>2. Table!Whole(p) \notin Table!Entries'
      BY <2>1 DEF Table!Owners, Table!Whole
    <2>3. proc'[p].pc \in {"unlock", "killed"}
      BY <1>3
    <2>4. EntryOf(p)'
      BY <1>5, <2>2, <2>3 DEF EntryOf, Early, Late, EX_FILEIO, Table!Whole
    <2>5. proc[p].pc # "done"
      BY <1>1 DEF Writing, At
    <2> QED BY <1>2, <1>3, <2>1, <2>4, <2>5, KeepsTable
  <1>6. ASSUME NEW kind \in {"whole", "part", "unwanted"},
               mtab' = Append(Committed, Entry(p, kind)),
               proc'[p].pc = "unlock" =>
                 (proc'[p].rc = 0 /\ kind = "whole") \/ (proc'[p].rc = EX_FILEIO /\ kind # "whole")
        PROVE  EntryInv' /\ TableMoves
    <2>1. proc'[p].pc \in {"unlock", "killed"}
      BY <1>3
    <2> QED BY <1>1, <1>3, <1>6, <2>1, AddsLine
  <1>7. CASE mtab' = mtab /\ (proc'[p].pc = "unlock" => proc'[p].rc = proc[p].rc)
    <2>1. CASE proc[p].rc = 0 /\ mtab = Append(Committed, Entry(p, "whole"))
      BY <1>6, <1>7, <2>1
    <2>2. CASE proc[p].rc = EX_FILEIO /\ mtab = Committed
      BY <1>5, <1>7, <2>2
    <2>3. CASE proc[p].rc = EX_FILEIO /\ mtab = Append(Committed, Entry(p, "part"))
      BY <1>6, <1>7, <2>3
    <2> QED BY <1>2, <2>1, <2>2, <2>3
  <1>8. CASE /\ mtab' = SubSeq(mtab, 1, proc[p].size)
             /\ proc'[p].pc = "unlock" /\ proc'[p].rc = EX_FILEIO
    BY <1>2, <1>5, <1>8
  <1>9. CASE mtab' = Disowned(p) /\ proc'[p].pc = "unlock" /\ proc'[p].rc = EX_FILEIO
    <2>1. CASE Disowned(p) = Committed
      BY <1>5, <1>9, <2>1
    <2>2. CASE \E kind \in {"part", "unwanted"} : Disowned(p) = Append(Committed, Entry(p, kind))
      BY <1>6, <1>9, <2>2
    <2> QED BY <1>1, <2>1, <2>2, DisownedLine
  <1> QED BY <1>3, <1>7, <1>8, <1>9

LEMMA TableInit == MtabInit => EntryInv /\ Table!Init
  <1> SUFFICES ASSUME MtabInit PROVE EntryInv /\ Table!Init
    OBVIOUS
  <1>1. \A p \in Procs : proc[p].pc = "start" /\ proc[p].rc = 0
    BY DEF MtabInit, Fresh
  <1>2. Committed = <<>>
    BY <1>1, CommittedElse DEF MtabInit, Writing, At
  <1>3. Table!Owners = {}
    BY <1>2 DEF Table!Entries, Table!Owners
  <1>4. Table!Init
    BY <1>1, <1>2 DEF Table!Init, At
  <1>5. EntryInv
    BY <1>1, <1>3 DEF EntryInv, EntryOf, Late
  <1> QED BY <1>4, <1>5

LEMMA TableStays ==
  ASSUME EntryInv, UNCHANGED mvars
  PROVE  EntryInv' /\ TableMoves
  <1>1. Committed' = Committed
    BY DEF mvars, Committed, At
  <1>2. Ok' = Ok /\ Failed' = Failed
    BY DEF mvars, Ok, Failed, At
  <1>3. Table!Entries' = Table!Entries /\ Table!Owners' = Table!Owners
    BY <1>1, SameEntries
  <1>4. EntryInv'
    BY <1>1, <1>3 DEF mvars, EntryInv, EntryOf, Table!Whole
  <1> QED BY <1>1, <1>2, <1>4 DEF TableMoves

LEMMA StepTable == MtabInv /\ MtabInv' /\ EntryInv /\ [MtabNext]_mvars => EntryInv' /\ TableMoves
  <1> SUFFICES ASSUME MtabInv, MtabInv', EntryInv, [MtabNext]_mvars
               PROVE  EntryInv' /\ TableMoves
    OBVIOUS
  <1>1. ASSUME NEW p \in Procs, LockStep(p) \/ LockFails(p) PROVE EntryInv' /\ TableMoves
    BY <1>1, LockQuiet, QuietKeeps
  <1>2. ASSUME NEW p \in Procs, TableStep(p) PROVE EntryInv' /\ TableMoves
    BY <1>2, RestQuiet, QuietKeeps, AddEntryKeeps, CutBackKeeps, SyncMoves DEF TableStep
  <1>3. ASSUME NEW p \in Procs, Kill(p) \/ TimeOut(p) PROVE EntryInv' /\ TableMoves
    BY <1>3, RestQuiet, QuietKeeps, SyncMoves
  <1> QED BY <1>1, <1>2, <1>3, TableStays DEF MtabNext

(* add_mtab under lock_mtab does to mtab what MountTable promises, in      *)
(* every interleaving and with every fault: nothing lost, no helper twice  *)
(* in it, 0 only with the whole entry there, EX_FILEIO only without it.    *)
THEOREM ImplementsTable == MtabSpec => ImplementsMountTable
  <1>1. TableMoves => [\E p \in Procs : Table!Add(p) \/ Table!Succeed(p) \/ Table!Fail(p)]_
                        <<Committed, Ok, Failed>>
    BY DEF TableMoves
  <1>2. MtabInv /\ MtabInv' /\ EntryInv /\ [MtabNext]_mvars =>
          EntryInv' /\ [\E p \in Procs : Table!Add(p) \/ Table!Succeed(p) \/ Table!Fail(p)]_
                          <<Committed, Ok, Failed>>
    BY <1>1, StepTable
  <1> QED BY <1>2, TableInit, AlwaysInv, PTL
          DEF MtabSpec, ImplementsMountTable, Table!Spec, Ok, Failed
=============================================================================
