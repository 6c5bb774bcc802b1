----------------------------- MODULE CifsCreds -----------------------------
(***************************************************************************)
(* cifscreds: "add", "update", "clear" and "clearall" on the credentials   *)
(* of the user keyring (cifsacl/cifscreds.c).  Every tool is a process;    *)
(* all of them, and other programs, share the keyring.  A key of ours is   *)
(* described by address, user and domain; the payload is the password.     *)
(* The kernel keeps one key per description: add_key on a description that *)
(* is there replaces the payload and keeps the key and its permissions.    *)
(***************************************************************************)
EXTENDS Integers, Sequences, SequencesExt

CONSTANTS
  Procs,       \* the tools that run; the password a tool asks for is its own
  Requests,    \* command lines: records [word, host, user, domain]
  Addresses,   \* host -> the addresses resolve_host finds, or "fails"
  Lower,       \* domain -> the same domain in lower case
  BadNames,    \* users and domains with characters that are not allowed
  Others,      \* descriptions of the keys of other programs
  Stashed,     \* descriptions an earlier add may have stashed
  MaxFailures  \* bound: how many system calls fail on their own

VARIABLES keyring,   \* set of keys [serial, desc, pass, perm]
          serial,    \* the serial number of the next key
          failures,  \* how many system calls have failed
          proc       \* the tools

cvars == <<keyring, serial, failures, proc>>

(* The words a command line may use, with the commands each is a prefix of.*)
Candidates ==
  [add |-> {"add"}, u |-> {"update"}, update |-> {"update"}, a |-> {"add"},
   cl |-> {"clear", "clearall"}, clear |-> {"clear", "clearall"},
   cleara |-> {"clearall"}, clearall |-> {"clearall"}, list |-> {}]

(* Every host has an address, and no other program describes its keys the  *)
(* way cifscreds does.                                                     *)
ASSUME CredsAssumption ==
  /\ MaxFailures \in Nat
  /\ IsFiniteSet(Others) /\ IsFiniteSet(Stashed)
  /\ \A q \in Requests :
       /\ q.word \in DOMAIN Candidates
       /\ \/ Addresses[q.host] = "fails"
          \/ /\ Addresses[q.host] \in Seq(Range(Addresses[q.host])) \ {<<>>}
             /\ \A a \in Range(Addresses[q.host]) :
                  <<a, q.user, Lower[q.domain]>> \notin Others

(* An exact match wins; of several commands that begin alike none does.    *)
Meant(word) ==
  IF word \in Candidates[word] THEN {word}
  ELSE {c \in Candidates[word] : Candidates[word] = {c}}

Desc(p, a) == <<a, proc[p].req.user, Lower[proc[p].req.domain]>>

(* The addresses whose descriptions the tool looks for, in order.          *)
Wanted(p) == Addresses[proc[p].req.host]

IsOurs(k) == k.desc \notin Others

Idle == [pc |-> "main", req |-> [word |-> "list"], cmd |-> "none", at |-> 1,
         list |-> {}, key |-> 0, found |-> <<>>, removed |-> FALSE,
         errors |-> FALSE, blind |-> FALSE, code |-> 0, since |-> 0]

Key(i, d, by, perm) == [serial |-> i, desc |-> d, pass |-> by, perm |-> perm]

CredsInit ==
  /\ \E old \in SUBSET Stashed :
       LET ds == SetToSeq(Others) \o SetToSeq(old) IN
         /\ keyring = {IF ds[i] \in Others THEN Key(i, ds[i], "other", "default")
                       ELSE Key(i, ds[i], "earlier", "restricted") : i \in DOMAIN ds}
         /\ serial = Len(ds) + 1
  /\ failures = 0
  /\ proc = [p \in Procs |-> Idle]

(* A system call that fails although nothing is wrong with its arguments.  *)
Fails == failures < MaxFailures /\ failures' = failures + 1

Works == UNCHANGED failures

Exit(p, r, code) == proc' = [proc EXCEPT ![p] =
                               [r EXCEPT !.pc = "exit", !.code = code]]

Goto(p, r, pc) == proc' = [proc EXCEPT ![p] = [r EXCEPT !.pc = pc]]

(***************************************************************************)
(* main and the head of the command: which command is meant, the address   *)
(* list, the characters of user and domain.                                *)
(***************************************************************************)
Main(p, req) ==
  /\ proc[p].pc = "main"
  /\ \/ /\ Meant(req.word) = {}
        /\ Exit(p, [proc[p] EXCEPT !.req = req], 1)
     \/ \E cmd \in Meant(req.word) :
          LET r == [proc[p] EXCEPT !.req = req, !.cmd = cmd, !.since = serial]
          IN IF cmd # "clearall" /\ \/ Addresses[req.host] = "fails"
                                    \/ {req.user, req.domain} \cap BadNames # {}
             THEN Exit(p, r, 1)
             ELSE Goto(p, r, "read")
  /\ UNCHANGED <<keyring, serial, failures>>

(* key_search and key_search_all, first half: the list of the keys.  When  *)
(* it cannot be read the answer is "no such key".                          *)
ReadKeyring(p) ==
  /\ proc[p].pc = "read"
  /\ \/ Works /\ Goto(p, [proc[p] EXCEPT !.list = {k.serial : k \in keyring}], "describe")
     \/ Fails /\ Goto(p, [proc[p] EXCEPT !.list = {}, !.blind = TRUE], "describe")
  /\ UNCHANGED <<keyring, serial>>

(* The keys the search asks for; a key that has gone since is passed over. *)
Matching(p) ==
  {k \in keyring : /\ k.serial \in proc[p].list
                   /\ IF proc[p].cmd = "clearall" THEN IsOurs(k)
                      ELSE k.desc = Desc(p, Wanted(p)[proc[p].at])}

(* What the command does with the answer, and at the end of its addresses. *)
AfterLast(p, r) ==
  CASE r.cmd = "add" -> Goto(p, [r EXCEPT !.at = 1, !.found = Wanted(p)], "store")
    [] r.cmd = "update" /\ r.found # <<>> -> Goto(p, [r EXCEPT !.at = 1], "store")
    [] OTHER -> Exit(p, r, IF r.removed \/ r.errors THEN 0 ELSE 1)

(* A slip: cifscreds_add searches the first address only.                  *)
NextAddressFirstOnly(p, r) ==
  IF r.cmd # "add" /\ r.at < Len(Wanted(p))
  THEN Goto(p, [r EXCEPT !.at = @ + 1], "read")
  ELSE AfterLast(p, r)

NextAddress(p, r) ==
  IF r.at < Len(Wanted(p)) THEN Goto(p, [r EXCEPT !.at = @ + 1], "read")
  ELSE AfterLast(p, r)

Found(p, k) ==
  CASE proc[p].cmd = "add" -> Exit(p, proc[p], 1)
    [] proc[p].cmd = "update" ->
         NextAddress(p, [proc[p] EXCEPT !.found = Append(@, Wanted(p)[proc[p].at])])
    [] OTHER -> Goto(p, [proc[p] EXCEPT !.key = k.serial], "unlink")

Describe(p) ==
  /\ proc[p].pc = "describe"
  /\ \/ \E k \in Matching(p) : Found(p, k)
     \/ /\ Matching(p) = {}
        /\ IF proc[p].cmd = "clearall" THEN AfterLast(p, proc[p])
           ELSE NextAddress(p, proc[p])
  /\ UNCHANGED <<keyring, serial, failures>>

(* Slips: clear stops at the first address it has removed a key for;       *)
(* clearall tries the same key again instead of searching.                 *)
AfterUnlinkStops(p, r) ==
  IF r.cmd = "clearall" THEN Goto(p, r, "read") ELSE AfterLast(p, r)

AfterUnlinkAgain(p, r) ==
  IF r.cmd = "clearall" THEN Goto(p, r, IF r.errors THEN "unlink" ELSE "read")
  ELSE NextAddress(p, r)

(* KEYCTL_UNLINK in clear and clearall; it fails on a key that has gone.   *)
AfterUnlink(p, r) ==
  IF r.cmd = "clearall" THEN Goto(p, r, "read") ELSE NextAddress(p, r)

Unlink(p) ==
  /\ proc[p].pc = "unlink"
  /\ \/ \E k \in keyring :
          /\ k.serial = proc[p].key
          /\ keyring' = keyring \ {k}
          /\ Works
          /\ AfterUnlink(p, [proc[p] EXCEPT !.removed = TRUE])
     \/ /\ IF \E k \in keyring : k.serial = proc[p].key THEN Fails ELSE Works
        /\ AfterUnlink(p, [proc[p] EXCEPT !.errors = TRUE])
        /\ UNCHANGED keyring
  /\ UNCHANGED serial

(* key_add for one address of "found", then the next.                      *)
NextStore(p, r) ==
  IF r.at < Len(r.found) THEN Goto(p, [r EXCEPT !.at = @ + 1], "store")
  ELSE Exit(p, r, 0)

AfterKeyAdd(p, s) ==
  IF proc[p].cmd = "add" THEN Goto(p, [proc[p] EXCEPT !.key = s], "setperm")
  ELSE NextStore(p, proc[p])

KeyAdd(p) ==
  LET d == Desc(p, proc[p].found[proc[p].at])
      old == {k \in keyring : k.desc = d} IN
  /\ proc[p].pc = "store"
  /\ \/ /\ old = {}
        /\ keyring' = keyring \cup {Key(serial, d, p, "default")}
        /\ serial' = serial + 1
        /\ Works
        /\ AfterKeyAdd(p, serial)
     \/ \E k \in old :
          /\ keyring' = (keyring \ old) \cup {[k EXCEPT !.pass = p]}
          /\ Works
          /\ AfterKeyAdd(p, k.serial)
          /\ UNCHANGED serial
     \/ Fails /\ NextStore(p, proc[p]) /\ UNCHANGED <<keyring, serial>>

(* A slip: a key whose permissions cannot be set is left in the keyring.   *)
SetPermOnly(p) ==
  /\ proc[p].pc = "setperm"
  /\ \/ \E k \in keyring :
          /\ k.serial = proc[p].key
          /\ keyring' = (keyring \ {k}) \cup {[k EXCEPT !.perm = "restricted"]}
          /\ Works
     \/ Fails /\ UNCHANGED keyring
  /\ NextStore(p, proc[p])
  /\ UNCHANGED serial

(* KEYCTL_SETPERM takes the right to set attributes away with the others:  *)
(* it works once in the life of a key.                                     *)
SetPerm(p) ==
  LET mine == {k \in keyring : k.serial = proc[p].key} IN
  /\ proc[p].pc = "setperm"
  /\ \/ \E k \in mine :
          /\ k.perm = "default"
          /\ keyring' = (keyring \ mine) \cup {[k EXCEPT !.perm = "restricted"]}
          /\ Works
          /\ NextStore(p, proc[p])
     \/ /\ IF \E k \in mine : k.perm = "default" THEN Fails ELSE Works
        /\ Goto(p, proc[p], "drop")
        /\ UNCHANGED keyring
  /\ UNCHANGED serial

(* The attempt to delete the key again; a failure is only reported.        *)
Drop(p) ==
  /\ proc[p].pc = "drop"
  /\ \/ \E k \in keyring : /\ k.serial = proc[p].key
                           /\ keyring' = keyring \ {k}
                           /\ Works
     \/ /\ IF \E k \in keyring : k.serial = proc[p].key THEN Fails ELSE Works
        /\ UNCHANGED keyring
  /\ NextStore(p, proc[p])
  /\ UNCHANGED serial

Tool(p) == \/ \E req \in Requests : Main(p, req)
           \/ ReadKeyring(p)
           \/ Describe(p)
           \/ Unlink(p)
           \/ KeyAdd(p)
           \/ SetPerm(p)
           \/ Drop(p)

CredsNext == \E p \in Procs : Tool(p)

CredsSpec == CredsInit /\ [][CredsNext]_cvars /\ \A p \in Procs : WF_cvars(Tool(p))

-----------------------------------------------------------------------------
(***************************************************************************)
(* Properties.                                                             *)
(***************************************************************************)
Descs(p) == {Desc(p, a) : a \in Range(Wanted(p))}

(* What a tool may change or take away.  An add only touches a key that    *)
(* did not exist when it began, or that it could not see.                  *)
MayTouch(p, k) ==
  /\ IsOurs(k)
  /\ \/ proc[p].cmd = "clearall"
     \/ /\ proc[p].cmd \in {"clear", "update", "add"}
        /\ k.desc \in Descs(p)
        /\ proc[p].cmd = "add" => k.serial >= proc[p].since \/ proc[p].blind

(* No step changes or removes a key unless a tool that was asked for it    *)
(* makes the step: keys of other programs stay for ever, and an add keeps  *)
(* every password that was stashed before it started, for any address of   *)
(* the host (cifscreds_add searches all of them first).                    *)
StashedIsKept ==
  [][\A k \in keyring :
       k \in keyring' \/ \E p \in Procs : proc'[p] # proc[p] /\ MayTouch(p, k)]_cvars

(* Apart from the keys an add is still working on and those an update has  *)
(* made again, a key of ours with the kernel's default permissions is what *)
(* two failures leave: SETPERM and then UNLINK (cifscreds_add).            *)
KeysAreRestricted ==
  \A k \in keyring :
    k.perm = "default" /\ IsOurs(k) =>
      \/ failures > 1
      \/ proc[k.pass].cmd = "update"
      \/ \E p \in Procs : proc[p].pc \in {"setperm", "drop"} /\ proc[p].key = k.serial

(* A clear or clearall that ended without an error it reported leaves none *)
(* of the keys it was asked for that existed when it began.                *)
ClearedIsGone ==
  \A p \in Procs, k \in keyring :
    /\ proc[p].pc = "exit"
    /\ ~proc[p].errors
    /\ ~proc[p].blind
    /\ \/ proc[p].cmd = "clearall" /\ IsOurs(k)
       \/ /\ proc[p].cmd = "clear"
          /\ Addresses[proc[p].req.host] # "fails"
          /\ {proc[p].req.user, proc[p].req.domain} \cap BadNames = {}
          /\ k.desc \in Descs(p)
    => k.serial >= proc[p].since

(* Every tool ends, clearall's loop included, when system calls do not     *)
(* fail for ever.                                                          *)
CommandsEnd == \A p \in Procs : <>(proc[p].pc = "exit")
=============================================================================
