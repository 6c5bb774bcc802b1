----------------------------- MODULE MtabLock -----------------------------
(***************************************************************************)
(* Mount helpers that add their entry to /etc/mtab at the same time:       *)
(* lock_mtab, add_mtab and unlock_mtab of cifsacl/mtab.c and mount.cifs.c. *)
(* Whoever makes the hard link mtab~ to its own file mtab~.<pid> has the   *)
(* lock; the others wait for the fcntl lock on that file, so as not to     *)
(* sleep for an arbitrary time, and try the link again.                    *)
(*                                                                         *)
(* A file is named after the process that made it: lockfile is the process *)
(* whose file mtab~ is linked to, fd the one a process has open.           *)
(***************************************************************************)
EXTENDS Integers, Sequences, FiniteSets

CONSTANTS
  Procs,    (* the helpers, each mounting one share                        *)
  NoProc,   (* no file                                                     *)
  Faults    (* the failures a run lets happen                              *)

FaultKinds ==
  {"open", "link", "lock", "table", "append", "sync", "truncate", "signal", "kill"}

ASSUME MtabAssumption == NoProc \notin Procs /\ Faults \subseteq FaultKinds

VARIABLES
  lockfile,  (* mtab~                                                      *)
  targets,   (* the processes whose mtab~.<pid> exists                     *)
  holder,    (* the fcntl lock on each process's file                      *)
  mtab,      (* its entries, in order                                      *)
  proc       (* the processes                                              *)

mvars == <<lockfile, targets, holder, mtab, proc>>

(* created: we_created_lockfile; late: MOUNTLOCK_MAXTIME is over; size:    *)
(* what fstat said; rc: the exit status.  What nobody looks at any more is *)
(* forgotten: late and size when the lock or the table is done with, all   *)
(* but created and rc when the process ends.                               *)
Fresh == [pc |-> "start", created |-> FALSE, fd |-> NoProc, late |-> FALSE,
          size |-> 0, rc |-> 0]

EX_USER == 8
EX_FILEIO == 16

(* What is written to mtab for p: a whole entry; a part of one, which has  *)
(* no newline; or a whole one that is not on disk and not to be there.     *)
Entry(p, kind) == [of |-> p, kind |-> kind]

At(p, pc) == proc[p].pc = pc
Goto(p, pc) == proc' = [proc EXCEPT ![p].pc = pc]
Leave(p, rc) == proc' = [proc EXCEPT ![p].pc = "unlock", ![p].rc = rc,
                                    ![p].late = FALSE, ![p].size = 0]
Gone(p, pc, rc) ==
  proc' = [proc EXCEPT ![p] = [Fresh EXCEPT !.pc = pc, !.created = proc[p].created, !.rc = rc]]

(* All locks p has on a file go when p closes it.                          *)
Closed(p, i) == IF i # NoProc /\ holder[i] = p THEN [holder EXCEPT ![i] = NoProc] ELSE holder

MtabInit ==
  /\ lockfile = NoProc
  /\ targets = {}
  /\ holder = [p \in Procs |-> NoProc]
  /\ mtab = <<>>
  /\ proc = [p \in Procs |-> Fresh]
-----------------------------------------------------------------------------
(* add_mtab blocks every signal, SIGALRM too; lock_mtab makes the target.  *)
OpenTarget(p) ==
  /\ At(p, "start")
  /\ \/ targets' = targets \cup {p} /\ Goto(p, "link")
     \/ "open" \in Faults /\ Leave(p, EX_FILEIO) /\ UNCHANGED targets
  /\ UNCHANGED <<lockfile, holder, mtab>>

Link(p) ==
  /\ At(p, "link")
  /\ \/ /\ lockfile = NoProc
        /\ lockfile' = p
        /\ proc' = [proc EXCEPT ![p].pc = "open", ![p].created = TRUE]
        /\ UNCHANGED targets
     \/ /\ lockfile # NoProc
        /\ Goto(p, "open")
        /\ UNCHANGED <<lockfile, targets>>
     \/ /\ "link" \in Faults
        /\ targets' = targets \ {p}
        /\ Leave(p, EX_FILEIO)
        /\ UNCHANGED lockfile
  /\ UNCHANGED <<holder, mtab>>

(* Strange... Maybe the file was just deleted?  Then the link is tried     *)
(* again while there is time.  Any other error gives up; a link made just  *)
(* before is left to unlock_mtab at exit.                                  *)
OpenLock(p) ==
  /\ At(p, "open")
  /\ \/ /\ lockfile # NoProc
        /\ proc' = [proc EXCEPT ![p].pc = IF proc[p].created THEN "claim" ELSE "wait",
                                ![p].fd = lockfile]
        /\ UNCHANGED targets
     \/ /\ lockfile = NoProc /\ ~proc[p].late
        /\ proc' = [proc EXCEPT ![p].pc = "link", ![p].created = FALSE]
        /\ UNCHANGED targets
     \/ /\ (lockfile = NoProc /\ proc[p].late) \/ "open" \in Faults
        /\ targets' = targets \ {p}
        /\ Leave(p, EX_FILEIO)
  /\ UNCHANGED <<lockfile, holder, mtab>>

(* We made the link.  Now claim the lock; if a waiter has it, continue     *)
(* anyway.                                                                 *)
Claim(p) ==
  /\ At(p, "claim")
  /\ LET i == proc[p].fd
     IN  holder' = IF holder[i] = NoProc THEN [holder EXCEPT ![i] = p] ELSE holder
  /\ targets' = targets \ {p}
  /\ proc' = [proc EXCEPT ![p].pc = "table", ![p].late = FALSE]
  /\ UNCHANGED <<lockfile, mtab>>

(* A slip: no limit on the attempts.                                       *)
WaitForEver(p) ==
  /\ At(p, "wait")
  /\ Goto(p, "blocked")
  /\ UNCHANGED <<lockfile, targets, holder, mtab>>

(* Someone else made the link: wait for it, unless the time is over.       *)
Wait(p) ==
  /\ At(p, "wait")
  /\ \/ ~proc[p].late /\ Goto(p, "blocked") /\ UNCHANGED targets
     \/ proc[p].late /\ targets' = targets \ {p} /\ Leave(p, EX_FILEIO)
  /\ UNCHANGED <<lockfile, holder, mtab>>

(* fcntl(F_SETLKW) ends when the file is unlocked; the alarm set for the   *)
(* rest of the time is blocked like every signal.                          *)
Blocked(p) ==
  /\ At(p, "blocked")
  /\ holder[proc[p].fd] = NoProc
  /\ holder' = [holder EXCEPT ![proc[p].fd] = p]
  /\ Goto(p, "retry")
  /\ UNCHANGED <<lockfile, targets, mtab>>

(* A slip: the file of the attempt is forgotten.                           *)
LockFailsLeaves(p) ==
  /\ "lock" \in Faults
  /\ At(p, "blocked")
  /\ Leave(p, EX_FILEIO)
  /\ UNCHANGED <<lockfile, targets, holder, mtab>>

(* Or it fails: no lock left in the system, say.                           *)
LockFails(p) ==
  /\ "lock" \in Faults
  /\ At(p, "blocked")
  /\ targets' = targets \ {p}
  /\ Leave(p, EX_FILEIO)
  /\ UNCHANGED <<lockfile, holder, mtab>>

(* A slip: what the comment calls the old code, where the fcntl lock was   *)
(* all that counted.                                                       *)
RetryProceeds(p) ==
  /\ At(p, "retry")
  /\ targets' = targets \ {p}
  /\ proc' = [proc EXCEPT ![p].pc = "table", ![p].created = TRUE]
  /\ UNCHANGED <<lockfile, holder, mtab>>

(* After the sleep: close, and once more.                                  *)
Retry(p) ==
  /\ At(p, "retry")
  /\ holder' = Closed(p, proc[p].fd)
  /\ proc' = [proc EXCEPT ![p].pc = "link", ![p].fd = NoProc]
  /\ UNCHANGED <<lockfile, targets, mtab>>
-----------------------------------------------------------------------------
(* setmntent, fileno and fstat.                                            *)
OpenTable(p) ==
  /\ At(p, "table")
  /\ \/ proc' = [proc EXCEPT ![p].pc = "append", ![p].size = Len(mtab)]
     \/ "table" \in Faults /\ Leave(p, EX_FILEIO)
  /\ UNCHANGED <<lockfile, targets, holder, mtab>>

(* addmntent, which may write a part of the entry before it fails.         *)
AddEntry(p) ==
  /\ At(p, "append")
  /\ \/ mtab' = Append(mtab, Entry(p, "whole")) /\ Goto(p, "sync")
     \/ /\ "append" \in Faults
        /\ mtab' \in {mtab, Append(mtab, Entry(p, "part"))}
        /\ proc' = [proc EXCEPT ![p].pc = "cut", ![p].rc = EX_FILEIO]
  /\ UNCHANGED <<lockfile, targets, holder>>

(* Then ftruncate, whose result nobody looks at.                           *)
CutBack(p) ==
  /\ At(p, "cut")
  /\ \/ mtab' = SubSeq(mtab, 1, proc[p].size)
     \/ "truncate" \in Faults /\ UNCHANGED mtab
  /\ Goto(p, "sync")
  /\ UNCHANGED <<lockfile, targets, holder>>

(* A slip: what my_endmntent returns is not looked at.                     *)
EndTableSilent(p) ==
  /\ At(p, "sync")
  /\ Leave(p, proc[p].rc)
  /\ \/ UNCHANGED mtab
     \/ "sync" \in Faults /\ mtab' = SubSeq(mtab, 1, proc[p].size)
  /\ UNCHANGED <<lockfile, targets, holder>>

Disowned(p) ==
  [i \in DOMAIN mtab |->
     IF mtab[i] = Entry(p, "whole") THEN Entry(p, "unwanted") ELSE mtab[i]]

(* my_endmntent: fflush and fsync, or truncation, "best effort here".      *)
EndTable(p) ==
  /\ At(p, "sync")
  /\ \/ Leave(p, proc[p].rc) /\ UNCHANGED mtab
     \/ /\ "sync" \in Faults
        /\ \/ mtab' = SubSeq(mtab, 1, proc[p].size)
           \/ "truncate" \in Faults /\ mtab' = Disowned(p)
        /\ Leave(p, EX_FILEIO)
  /\ UNCHANGED <<lockfile, targets, holder>>

(* unlock_mtab, called by add_mtab and again at exit, closes ...           *)
CloseLock(p) ==
  /\ At(p, "unlock")
  /\ holder' = Closed(p, proc[p].fd)
  /\ proc' = [proc EXCEPT ![p].pc = IF proc[p].created THEN "unlink" ELSE "unmask",
                          ![p].fd = NoProc]
  /\ UNCHANGED <<lockfile, targets, mtab>>

(* ... and removes mtab~.                                                  *)
UnlinkLock(p) ==
  /\ At(p, "unlink")
  /\ lockfile' = NoProc
  /\ proc' = [proc EXCEPT ![p].pc = "unmask", ![p].created = FALSE]
  /\ UNCHANGED <<targets, holder, mtab>>

(* The signals are let through again, to lock_mtab's handlers, which stay  *)
(* installed: one that came meanwhile, or comes now, ends the helper with  *)
(* EX_USER, whether or not its entry is in mtab.                           *)
Unmask(p) ==
  /\ At(p, "unmask")
  /\ \/ Gone(p, "done", proc[p].rc)
     \/ "signal" \in Faults /\ Gone(p, "done", EX_USER)
  /\ UNCHANGED <<lockfile, targets, holder, mtab>>

(* SIGKILL, the one signal that is not blocked, or a crash.                *)
Kill(p) ==
  /\ "kill" \in Faults
  /\ proc[p].pc \notin {"done", "killed"}
  /\ holder' = Closed(p, proc[p].fd)
  /\ Gone(p, "killed", 0)
  /\ UNCHANGED <<lockfile, targets, mtab>>

(* The time a process allows itself is over.                               *)
TimeOut(p) ==
  /\ proc[p].pc \in {"link", "open", "wait", "blocked", "retry"}
  /\ ~proc[p].late
  /\ proc' = [proc EXCEPT ![p].late = TRUE]
  /\ UNCHANGED <<lockfile, targets, holder, mtab>>

LockStep(p) ==
  \/ OpenTarget(p) \/ Link(p) \/ OpenLock(p) \/ Claim(p)
  \/ Wait(p) \/ Blocked(p) \/ Retry(p)

TableStep(p) ==
  \/ OpenTable(p) \/ AddEntry(p) \/ CutBack(p) \/ EndTable(p)
  \/ CloseLock(p) \/ UnlinkLock(p) \/ Unmask(p)

MtabNext ==
  \E p \in Procs : LockStep(p) \/ LockFails(p) \/ TableStep(p) \/ Kill(p) \/ TimeOut(p)

(* The processes run and time passes.                                      *)
MtabFairness ==
  \A p \in Procs : WF_mvars(LockStep(p) \/ TableStep(p)) /\ WF_mvars(TimeOut(p))

MtabSpec == MtabInit /\ [][MtabNext]_mvars /\ MtabFairness

(* The same, when fsync may hang with the disk and keep a helper at it.    *)
StandstillFairness ==
  \A p \in Procs :
    /\ WF_mvars(LockStep(p) \/ (TableStep(p) /\ ~At(p, "sync")))
    /\ WF_mvars(TimeOut(p))

StandstillSpec == MtabInit /\ [][MtabNext]_mvars /\ StandstillFairness
-----------------------------------------------------------------------------
Updating == {"table", "append", "cut", "sync"}

MtabTypeOK ==
  /\ lockfile \in Procs \cup {NoProc}
  /\ targets \subseteq Procs
  /\ holder \in [Procs -> Procs \cup {NoProc}]
  /\ mtab \in Seq([of : Procs, kind : {"whole", "part", "unwanted"}])
  /\ proc \in [Procs ->
       [pc : {"start", "link", "open", "claim", "wait", "blocked", "retry", "table", "append",
              "cut", "sync", "unlock", "unlink", "unmask", "done", "killed"},
        created : BOOLEAN, fd : Procs \cup {NoProc}, late : BOOLEAN, size : Nat,
        rc : {0, EX_USER, EX_FILEIO}]]

(* mtab.c: with the link "we proceed only if it was us that created the    *)
(* lock": two helpers never write mtab at the same time, however links,    *)
(* waits, time limits and deaths interleave.                               *)
OneWriter ==
  \A p, q \in Procs : proc[p].pc \in Updating /\ proc[q].pc \in Updating => p = q

(* "and hence we always have to delete the lock afterwards": a helper that *)
(* has ended, in whatever way but by SIGKILL, leaves neither file.         *)
NothingLeftBehind ==
  \A p \in Procs : At(p, "done") => lockfile # p /\ p \notin targets

(* What is written but may still be cut back does not count.               *)
Committed ==
  LET open == {p \in Procs : At(p, "cut") \/ At(p, "sync")}
  IN  IF open = {} THEN mtab ELSE SubSeq(mtab, 1, proc[CHOOSE p \in open : TRUE].size)

(* mtab as its readers understand it: nothing in it is lost, no helper     *)
(* adds to it twice, 0 says that the whole entry is there and EX_FILEIO    *)
(* that it is not.  EX_USER and a killed helper say neither.               *)
Table == INSTANCE MountTable WITH
  table <- Committed,
  ok <- {p \in Procs : At(p, "done") /\ proc[p].rc = 0},
  failed <- {p \in Procs : At(p, "done") /\ proc[p].rc = EX_FILEIO}

ImplementsMountTable == Table!Spec

(* Every helper comes to an end, also behind the lock of a dead one, which *)
(* nobody removes: a record lock goes with its process, whoever has it     *)
(* goes on or dies, and the attempts are limited.                          *)
AddEnds == \A p \in Procs : <>(proc[p].pc \in {"done", "killed"})

(* mtab.c: "we have global time limit (30s) [...] this method also counts  *)
(* time which we spend in fcntl(F_SETLKW)", for which lock_mtab sets an    *)
(* alarm: a wait ends, whatever the one who is waited for does.  But       *)
(* add_mtab has blocked every signal, SIGALRM with them.                   *)
WaitIsLimited == \A p \in Procs : At(p, "blocked") ~> ~At(p, "blocked")
=============================================================================
