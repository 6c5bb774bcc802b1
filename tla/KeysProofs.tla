----------------------------- MODULE KeysProofs -----------------------------
(***************************************************************************)
(* Proofs about the two users of the key service: about CifsCreds, for any *)
(* number of tools, any command lines and any number of system calls that  *)
(* fail; and about Upcall, for any description, caches, KDC and names.     *)
(***************************************************************************)
EXTENDS CifsCreds, Upcall, FiniteSetTheorems, SequenceTheorems, TLAPS

PCs == {"main", "read", "describe", "unlink", "store", "setperm", "drop", "exit"}
Cmds == {"none", "add", "update", "clear", "clearall"}
Resolved == {q \in Requests : Addresses[q.host] # "fails"}
Targets == UNION {Range(Addresses[q.host]) : q \in Resolved}

Records ==
  [pc : PCs, req : Requests \cup {Idle.req}, cmd : Cmds, at : Nat, list : SUBSET Nat,
   key : Nat, found : Seq(Targets), removed : BOOLEAN, errors : BOOLEAN,
   blind : BOOLEAN, code : {0, 1}, since : Nat]

WantedBy(r) == Addresses[r.req.host]
DescFor(r, a) == <<a, r.req.user, Lower[r.req.domain]>>
DescsOf(r) == {DescFor(r, a) : a \in Range(WantedBy(r))}

(* The keys K of the keyring, n the next serial number.                    *)
KeysOK(K, n) ==
  /\ n \in Nat
  /\ \A k \in K : /\ k = Key(k.serial, k.desc, k.pass, k.perm)
                  /\ k.serial \in Nat /\ k.serial < n
                  /\ k.perm \in {"default", "restricted"}
  /\ \A k, l \in K : k.serial = l.serial => k = l

(* A command other than clearall works on a host that has been resolved.   *)
CommandOK(r, n) ==
  /\ r.pc = "main" => r.cmd = "none"
  /\ r.pc \notin {"main", "exit"} =>
       /\ r.cmd # "none"
       /\ r.since <= n
       /\ r.cmd # "clearall" => r.req \in Resolved
  /\ r.pc \in {"store", "setperm", "drop"} => r.cmd \in {"add", "update"}
  /\ r.pc \in {"setperm", "drop"} => r.cmd = "add"
  /\ r.pc = "unlink" => r.cmd \in {"clear", "clearall"}

PlaceOK(r) ==
  /\ r.pc = "main" => r.at = 1 /\ r.found = <<>>
  /\ r.pc \in {"read", "describe", "unlink"} /\ r.cmd # "clearall" =>
       /\ r.at \in DOMAIN WantedBy(r)
       /\ \A i \in DOMAIN r.found : r.found[i] \in Range(WantedBy(r))
  /\ r.pc \in {"store", "setperm", "drop"} =>
       /\ r.at \in DOMAIN r.found
       /\ \A i \in DOMAIN r.found : r.found[i] \in Range(WantedBy(r))

(* What a search has read, it has read of every key there was before it.   *)
ListOK(r, K) ==
  r.pc = "describe" /\ ~r.blind => \A k \in K : k.serial < r.since => k.serial \in r.list

(* An add that could see has found none of its keys at the addresses it    *)
(* has searched; what is there now has come since.                         *)
Searched(r) == IF r.pc \in {"read", "describe"} THEN {i \in DOMAIN WantedBy(r) : i < r.at}
               ELSE DOMAIN WantedBy(r)
SearchOK(r, K) ==
  r.cmd = "add" /\ ~r.blind /\ r.pc \notin {"main", "exit"} =>
    \A i \in Searched(r), k \in K : k.desc = DescFor(r, WantedBy(r)[i]) => k.serial >= r.since

(* The key a tool is about to unlink or to restrict is one it may touch.   *)
KeyOK(r, K, n, f) ==
  /\ r.pc \in {"unlink", "setperm", "drop"} =>
       /\ r.key < n
       /\ \A k \in K : k.serial = r.key =>
            /\ IsOurs(k)
            /\ r.cmd # "clearall" => k.desc \in DescsOf(r)
            /\ r.cmd = "add" => r.blind \/ k.serial >= r.since
  /\ r.pc = "drop" => \A k \in K : k.serial = r.key /\ k.perm = "default" => f >= 1

ToolOK(r, K, n, f) ==
  /\ r \in Records
  /\ CommandOK(r, n) /\ PlaceOK(r) /\ ListOK(r, K) /\ SearchOK(r, K) /\ KeyOK(r, K, n, f)

KnownKeys ==
  \A k \in keyring : k.perm = "default" /\ IsOurs(k) => k.pass \in Procs

CredsInv ==
  /\ failures \in Nat
  /\ proc \in [Procs -> Records]
  /\ KeysOK(keyring, serial)
  /\ \A p \in Procs : ToolOK(proc[p], keyring, serial, failures)
  /\ KnownKeys /\ KeysAreRestricted

(* A key keeps its serial number and its description, and permissions that *)
(* are restricted stay so; a new one has the next number.                  *)
Evolves(K, n, K2, n2) ==
  /\ n2 \in Nat /\ n <= n2
  /\ \A k \in K2 :
       \/ k.serial = n /\ n < n2
       \/ \E l \in K : /\ l.serial = k.serial /\ l.desc = k.desc
                       /\ k.perm = "default" => l.perm = "default"

LEMMA OthersKeep ==
  ASSUME NEW r, NEW K, NEW n, NEW f, NEW K2, NEW n2, NEW f2,
         f \in Nat, f2 \in Nat, f <= f2,
         KeysOK(K, n), ToolOK(r, K, n, f), Evolves(K, n, K2, n2)
  PROVE  ToolOK(r, K2, n2, f2)
  <1>0. /\ r \in Records /\ r.since \in Nat /\ r.key \in Nat
        /\ n \in Nat /\ n2 \in Nat /\ n <= n2
    BY DEF ToolOK, Records, KeysOK, Evolves
  <1>1. CommandOK(r, n2)
    BY <1>0 DEF ToolOK, CommandOK
  <1>2. ListOK(r, K2)
    BY <1>0 DEF ToolOK, ListOK, CommandOK, Evolves
  <1>3. SearchOK(r, K2)
    <2> SUFFICES ASSUME r.cmd = "add", ~r.blind, r.pc \notin {"main", "exit"},
                        NEW i \in Searched(r), NEW k \in K2, k.desc = DescFor(r, WantedBy(r)[i])
                 PROVE  k.serial >= r.since
      BY DEF SearchOK
    <2>1. CASE k.serial = n
      BY <2>1, <1>0 DEF ToolOK, CommandOK
    <2>2. CASE \E l \in K : l.serial = k.serial /\ l.desc = k.desc
      BY <2>2 DEF ToolOK, SearchOK
    <2> QED BY <2>1, <2>2 DEF Evolves
  <1>4. KeyOK(r, K2, n2, f2)
    <2>1. ASSUME r.pc \in {"unlink", "setperm", "drop"}
          PROVE  r.key < n2
      BY <2>1, <1>0 DEF ToolOK, KeyOK
    <2>2. ASSUME r.pc \in {"unlink", "setperm", "drop"}, NEW k \in K2, k.serial = r.key
          PROVE  \E l \in K : /\ l.serial = k.serial /\ l.desc = k.desc
                              /\ k.perm = "default" => l.perm = "default"
      BY <2>2, <1>0 DEF ToolOK, KeyOK, Evolves
    <2> QED
      BY <2>1, <2>2, <1>0 DEF ToolOK, KeyOK, IsOurs
  <1> QED
    BY <1>0, <1>1, <1>2, <1>3, <1>4 DEF ToolOK

(* What a step of one tool has to show.                                    *)
LEMMA Moves ==
  ASSUME CredsInv, NEW p \in Procs, NEW r,
         proc' = [proc EXCEPT ![p] = r],
         KeysOK(keyring', serial'), Evolves(keyring, serial, keyring', serial'),
         failures' \in Nat, failures <= failures',
         ToolOK(r, keyring', serial', failures'), KnownKeys', KeysAreRestricted'
  PROVE  CredsInv'
  <1>1. /\ proc' \in [Procs -> Records] /\ proc'[p] = r
        /\ \A q \in Procs : q # p => proc'[q] = proc[q]
    BY DEF CredsInv, ToolOK
  <1>2. \A q \in Procs : ToolOK(proc'[q], keyring', serial', failures')
    <2> SUFFICES ASSUME NEW q \in Procs
                 PROVE  ToolOK(proc'[q], keyring', serial', failures')
      OBVIOUS
    <2>1. CASE q = p
      BY <2>1, <1>1
    <2>2. CASE q # p
      <3>1. ToolOK(proc[q], keyring, serial, failures) /\ failures \in Nat
            /\ KeysOK(keyring, serial)
        BY DEF CredsInv
      <3>2. ToolOK(proc[q], keyring', serial', failures')
        BY <3>1, OthersKeep
      <3> QED BY <3>2, <2>2, <1>1
    <2> QED BY <2>1, <2>2
  <1> QED BY <1>1, <1>2 DEF CredsInv

(* A step that adds no key, and is neither SETPERM nor what follows it.    *)
LEMMA KeysStay ==
  ASSUME CredsInv, NEW p \in Procs, NEW r,
         proc' = [proc EXCEPT ![p] = r],
         proc[p].pc \notin {"setperm", "drop"}, proc[p].cmd \in {"none", r.cmd},
         keyring' \subseteq keyring, UNCHANGED serial,
         failures' \in Nat, failures <= failures'
  PROVE  /\ KeysOK(keyring', serial') /\ Evolves(keyring, serial, keyring', serial')
         /\ KnownKeys' /\ KeysAreRestricted'
  <1>1. /\ proc'[p] = r
        /\ \A q \in Procs : q # p => proc'[q] = proc[q]
    BY DEF CredsInv
  <1>2. KeysOK(keyring', serial') /\ Evolves(keyring, serial, keyring', serial')
    BY DEF CredsInv, KeysOK, Evolves
  <1>3. KnownKeys'
    BY DEF CredsInv, KnownKeys, IsOurs
  <1>4. KeysAreRestricted'
    <2> SUFFICES ASSUME NEW k \in keyring', k.perm = "default", IsOurs(k),
                        ~(failures' > 1), ~(proc'[k.pass].cmd = "update")
                 PROVE  \E q \in Procs : /\ proc'[q].pc \in {"setperm", "drop"}
                                         /\ proc'[q].key = k.serial
      BY DEF KeysAreRestricted, IsOurs
    <2>1. k \in keyring /\ k.pass \in Procs /\ ~(failures > 1)
      BY DEF CredsInv, KnownKeys
    <2>2. proc[k.pass].cmd # "update"
      BY <2>1, <1>1
    <2>3. PICK q \in Procs : proc[q].pc \in {"setperm", "drop"} /\ proc[q].key = k.serial
      BY <2>1, <2>2 DEF CredsInv, KeysAreRestricted
    <2> QED BY <2>3, <1>1
  <1> QED BY <1>2, <1>3, <1>4

(* The records the actions leave.                                          *)
LEMMA Updated ==
  ASSUME NEW r \in Records
  PROVE  /\ \A place \in PCs : [r EXCEPT !.pc = place] \in Records
         /\ \A place \in PCs, c \in {0, 1} : [r EXCEPT !.pc = place, !.code = c] \in Records
         /\ \A i \in Nat : /\ [r EXCEPT !.at = i] \in Records
                          /\ [r EXCEPT !.key = i] \in Records
         /\ \A l \in SUBSET Nat, b \in BOOLEAN :
              /\ [r EXCEPT !.list = l] \in Records
              /\ [r EXCEPT !.list = l, !.blind = b] \in Records
         /\ \A b \in BOOLEAN : /\ [r EXCEPT !.removed = b] \in Records
                              /\ [r EXCEPT !.errors = b] \in Records
         /\ \A s \in Seq(Targets) : /\ [r EXCEPT !.found = s] \in Records
                                   /\ [r EXCEPT !.at = 1, !.found = s] \in Records
  BY DEF Records

LEMMA Fields ==
  ASSUME NEW r \in Records
  PROVE  /\ r.pc \in PCs /\ r.cmd \in Cmds /\ r.at \in Nat /\ r.list \subseteq Nat
         /\ r.key \in Nat /\ r.found \in Seq(Targets) /\ r.blind \in BOOLEAN
         /\ r.since \in Nat
  BY DEF Records

(* Where a tool goes from here.                                            *)
LEMMA NextStoreOK ==
  ASSUME NEW p \in Procs, NEW r \in Records, NEW K, NEW n \in Nat,
         r.pc \in {"store", "setperm", "drop"}, CommandOK(r, n), PlaceOK(r),
         SearchOK(r, K), NextStore(p, r)
  PROVE  \E r2 : /\ proc' = [proc EXCEPT ![p] = r2]
                 /\ \A f : ToolOK(r2, K, n, f)
                 /\ r2.cmd = r.cmd /\ r2 # r
  <1> DEFINE next == [[r EXCEPT !.at = @ + 1] EXCEPT !.pc = "store"]
             end == [r EXCEPT !.pc = "exit", !.code = 0]
  <1>1. CASE r.at < Len(r.found)
    <2>1. next \in Records /\ r.at \in Nat /\ r.found \in Seq(Targets)
      <3>1. r.at \in Nat /\ r.at + 1 \in Nat /\ r.found \in Seq(Targets)
        BY Fields
      <3>2. [r EXCEPT !.at = r.at + 1] \in Records
        BY <3>1, Updated DEF PCs
      <3> QED BY <3>1, <3>2, Updated DEF PCs
    <2>2. /\ next.pc = "store" /\ next.at = r.at + 1 /\ next.cmd = r.cmd
          /\ next.found = r.found /\ next.req = r.req /\ next.since = r.since
          /\ next.blind = r.blind
      BY DEF Records
    <2>3. proc' = [proc EXCEPT ![p] = next]
      BY <1>1 DEF NextStore, Goto, Records
    <2>4. CommandOK(next, n)
      BY <2>2 DEF CommandOK
    <2>5. PlaceOK(next)
      BY <2>1, <2>2, <1>1 DEF PlaceOK, WantedBy
    <2>6. SearchOK(next, K)
      BY <2>2 DEF SearchOK, Searched, WantedBy, DescFor
    <2>7. ListOK(next, K) /\ \A f : KeyOK(next, K, n, f)
      BY <2>2 DEF ListOK, KeyOK
    <2> HIDE DEF next
    <2>8. next # r
      BY <2>1, <2>2
    <2> QED BY <2>1, <2>2, <2>3, <2>4, <2>5, <2>6, <2>7, <2>8 DEF ToolOK
  <1>2. CASE ~(r.at < Len(r.found))
    <2>1. end \in Records /\ end.pc = "exit" /\ end.cmd = r.cmd
      BY DEF Records, PCs
    <2>2. proc' = [proc EXCEPT ![p] = end]
      BY <1>2 DEF NextStore, Exit, Records
    <2> HIDE DEF end
    <2>3. \A f : ToolOK(end, K, n, f)
      BY <2>1 DEF ToolOK, CommandOK, PlaceOK, ListOK, SearchOK, KeyOK
    <2> QED BY <2>1, <2>2, <2>3
  <1> QED BY <1>1, <1>2

LEMMA SeqMono ==
  ASSUME NEW S, NEW T, S \subseteq T, NEW s \in Seq(S)
  PROVE  s \in Seq(T)
  <1>1. s \in [1 .. Len(s) -> S] /\ Len(s) \in Nat
    OBVIOUS
  <1>2. s \in [1 .. Len(s) -> T]
    BY <1>1
  <1> QED BY <1>1, <1>2, SeqDef

LEMMA WantedType ==
  ASSUME NEW r \in Records, r.req \in Resolved
  PROVE  WantedBy(r) \in Seq(Targets) /\ Len(WantedBy(r)) \in Nat \ {0}
         /\ WantedBy(r) = [i \in DOMAIN WantedBy(r) |-> WantedBy(r)[i]]
         /\ DOMAIN WantedBy(r) = 1 .. Len(WantedBy(r))
         /\ Range(WantedBy(r)) = {WantedBy(r)[i] : i \in DOMAIN WantedBy(r)}
  <1>1. WantedBy(r) \in Seq(Range(WantedBy(r))) /\ WantedBy(r) # <<>>
    BY CredsAssumption DEF Resolved, WantedBy
  <1>2. Range(WantedBy(r)) \subseteq Targets
    BY DEF Targets, WantedBy
  <1>3. WantedBy(r) \in Seq(Targets)
    BY <1>1, <1>2, SeqMono
  <1> HIDE DEF WantedBy
  <1> QED BY <1>1, <1>3 DEF Range

(* A search by an add that has come to its address i or past the last.     *)
SearchedTo(r, K, i) ==
  r.cmd = "add" /\ ~r.blind =>
    \A j \in DOMAIN WantedBy(r), k \in K :
      j <= i /\ k.desc = DescFor(r, WantedBy(r)[j]) => k.serial >= r.since

FoundOK(r) ==
  r.cmd # "clearall" => \A i \in DOMAIN r.found : r.found[i] \in Range(WantedBy(r))

LEMMA AfterLastOK ==
  ASSUME NEW p \in Procs, NEW r \in Records, NEW K, NEW n \in Nat,
         r.pc \in {"describe", "unlink"}, r.req = proc[p].req,
         CommandOK(r, n), FoundOK(r),
         r.req \in Resolved => SearchedTo(r, K, Len(WantedBy(r))), AfterLast(p, r)
  PROVE  \E r2 : /\ proc' = [proc EXCEPT ![p] = r2]
                 /\ \A f : ToolOK(r2, K, n, f)
                 /\ r2.cmd = r.cmd /\ r2.pc \in {"store", "exit"}
  <1> DEFINE over(c) == [r EXCEPT !.pc = "exit", !.code = c]
             addAll == [[r EXCEPT !.at = 1, !.found = WantedBy(r)] EXCEPT !.pc = "store"]
             update == [[r EXCEPT !.at = 1] EXCEPT !.pc = "store"]
  <1>0. /\ Wanted(p) = WantedBy(r) /\ r.cmd # "none"
        /\ r.cmd # "clearall" => r.req \in Resolved
    BY DEF Wanted, WantedBy, CommandOK
  <1>1. CASE r.cmd = "add"
    <2>1. /\ WantedBy(r) \in Seq(Targets) /\ 1 \in DOMAIN WantedBy(r)
          /\ \A i \in DOMAIN WantedBy(r) : WantedBy(r)[i] \in Range(WantedBy(r))
          /\ \A i \in DOMAIN WantedBy(r) : i <= Len(WantedBy(r))
      BY <1>0, <1>1, WantedType
    <2>2. addAll \in Records
      <3>1. [r EXCEPT !.at = 1, !.found = WantedBy(r)] \in Records
        BY <2>1, Updated
      <3> QED BY <3>1, Updated DEF PCs
    <2>3. proc' = [proc EXCEPT ![p] = addAll]
      BY <1>0, <1>1 DEF AfterLast, Goto
    <2>4. /\ addAll.pc = "store" /\ addAll.at = 1 /\ addAll.cmd = r.cmd
          /\ addAll.found = WantedBy(r) /\ addAll.req = r.req /\ addAll.since = r.since
          /\ addAll.blind = r.blind
      BY DEF Records
    <2> HIDE DEF addAll
    <2>5. CommandOK(addAll, n)
      BY <2>4, <1>1 DEF CommandOK
    <2>6. PlaceOK(addAll)
      BY <2>1, <2>4 DEF PlaceOK, WantedBy
    <2>7. SearchOK(addAll, K)
      BY <2>1, <2>4, <1>0, <1>1 DEF SearchOK, Searched, SearchedTo, WantedBy, DescFor
    <2>8. ListOK(addAll, K) /\ \A f : KeyOK(addAll, K, n, f)
      BY <2>4 DEF ListOK, KeyOK
    <2> QED BY <2>2, <2>3, <2>4, <2>5, <2>6, <2>7, <2>8 DEF ToolOK
  <1>2. CASE r.cmd = "update" /\ r.found # <<>>
    <2>1. 1 \in DOMAIN r.found
      BY <1>2, Fields
    <2>2. update \in Records
      <3>1. [r EXCEPT !.at = 1] \in Records
        BY Updated
      <3> QED BY <3>1, Updated DEF PCs
    <2>3. proc' = [proc EXCEPT ![p] = update]
      BY <1>2 DEF AfterLast, Goto
    <2>4. /\ update.pc = "store" /\ update.at = 1 /\ update.cmd = r.cmd
          /\ update.found = r.found /\ update.req = r.req /\ update.since = r.since
          /\ update.blind = r.blind
      BY DEF Records
    <2> HIDE DEF update
    <2>5. CommandOK(update, n)
      BY <2>4, <1>2 DEF CommandOK
    <2>6. PlaceOK(update)
      BY <2>1, <2>4, <1>2 DEF PlaceOK, FoundOK, WantedBy
    <2>7. SearchOK(update, K) /\ ListOK(update, K) /\ \A f : KeyOK(update, K, n, f)
      BY <2>4, <1>2 DEF SearchOK, ListOK, KeyOK
    <2> QED BY <2>2, <2>3, <2>4, <2>5, <2>6, <2>7 DEF ToolOK
  <1>3. CASE ~(r.cmd = "add") /\ ~(r.cmd = "update" /\ r.found # <<>>)
    <2>1. PICK c \in {0, 1} : proc' = [proc EXCEPT ![p] = over(c)]
      BY <1>3 DEF AfterLast, Exit
    <2>2. over(c) \in Records /\ over(c).pc = "exit" /\ over(c).cmd = r.cmd
      <3>1. over(c) \in Records
        BY Updated DEF PCs
      <3> QED BY <3>1 DEF Records
    <2> HIDE DEF over
    <2>3. \A f : ToolOK(over(c), K, n, f)
      BY <2>2 DEF ToolOK, CommandOK, PlaceOK, ListOK, SearchOK, KeyOK
    <2> QED BY <2>1, <2>2, <2>3
  <1> QED BY <1>1, <1>2, <1>3

LEMMA NextAddressOK ==
  ASSUME NEW p \in Procs, NEW r \in Records, NEW K, NEW n \in Nat,
         r.pc \in {"describe", "unlink"}, r.cmd # "clearall", r.req = proc[p].req,
         CommandOK(r, n), FoundOK(r), r.at \in DOMAIN WantedBy(r),
         SearchedTo(r, K, r.at), NextAddress(p, r)
  PROVE  \E r2 : /\ proc' = [proc EXCEPT ![p] = r2]
                 /\ \A f : ToolOK(r2, K, n, f)
                 /\ r2.cmd = r.cmd /\ r2.pc \in {"read", "store", "exit"}
  <1> DEFINE next == [[r EXCEPT !.at = @ + 1] EXCEPT !.pc = "read"]
  <1>0. /\ Wanted(p) = WantedBy(r) /\ r.req \in Resolved /\ r.at \in Nat
        /\ DOMAIN WantedBy(r) = 1 .. Len(WantedBy(r)) /\ Len(WantedBy(r)) \in Nat
    <2>1. Wanted(p) = WantedBy(r) /\ r.req \in Resolved
      BY DEF Wanted, WantedBy, CommandOK
    <2> QED BY <2>1, WantedType, Fields
  <1>1. CASE r.at < Len(WantedBy(r))
    <2>1. next \in Records
      <3> DEFINE i == r.at + 1
      <3>0. i \in Nat
        BY <1>0
      <3> HIDE DEF i
      <3>1. [r EXCEPT !.at = i] \in Records
        BY <3>0, Updated
      <3> QED BY <3>1, Updated DEF PCs, i
    <2>2. proc' = [proc EXCEPT ![p] = next]
      BY <1>0, <1>1 DEF NextAddress, Goto
    <2>3. /\ next.pc = "read" /\ next.at = r.at + 1 /\ next.cmd = r.cmd
          /\ next.found = r.found /\ next.req = r.req /\ next.since = r.since
          /\ next.blind = r.blind
      BY DEF Records
    <2> HIDE DEF next
    <2>4. CommandOK(next, n)
      BY <2>3, <1>0 DEF CommandOK
    <2>5. PlaceOK(next)
      BY <2>3, <1>0, <1>1 DEF PlaceOK, FoundOK, WantedBy
    <2>6. SearchOK(next, K)
      BY <2>3, <1>0 DEF SearchOK, Searched, SearchedTo, WantedBy, DescFor
    <2>7. ListOK(next, K) /\ \A f : KeyOK(next, K, n, f)
      BY <2>3 DEF ListOK, KeyOK
    <2> QED BY <2>1, <2>2, <2>3, <2>4, <2>5, <2>6, <2>7 DEF ToolOK
  <1>2. CASE ~(r.at < Len(WantedBy(r)))
    <2>1. AfterLast(p, r) /\ SearchedTo(r, K, Len(WantedBy(r)))
      BY <1>0, <1>2 DEF NextAddress, SearchedTo
    <2> QED BY <2>1, AfterLastOK
  <1> QED BY <1>1, <1>2

LEMMA Now ==
  ASSUME CredsInv, NEW p \in Procs
  PROVE  /\ proc[p] \in Records /\ failures \in Nat /\ serial \in Nat
         /\ CommandOK(proc[p], serial) /\ PlaceOK(proc[p]) /\ ListOK(proc[p], keyring)
         /\ SearchOK(proc[p], keyring) /\ KeyOK(proc[p], keyring, serial, failures)
         /\ KeysOK(keyring, serial)
  BY DEF CredsInv, ToolOK, KeysOK

LEMMA StepMain ==
  ASSUME CredsInv, NEW p \in Procs, NEW req \in Requests, Main(p, req)
  PROVE  CredsInv'
  <1> DEFINE o == proc[p]
             none == [[o EXCEPT !.req = req] EXCEPT !.pc = "exit", !.code = 1]
             start(c) == [o EXCEPT !.req = req, !.cmd = c, !.since = serial]
             refused(c) == [start(c) EXCEPT !.pc = "exit", !.code = 1]
             reading(c) == [start(c) EXCEPT !.pc = "read"]
  <1>0. /\ o \in Records /\ serial \in Nat /\ o.pc = "main" /\ o.cmd = "none"
        /\ o.at = 1 /\ o.found = <<>>
    BY Now DEF Main, CommandOK, PlaceOK
  <1>1. Meant(req.word) \subseteq Cmds \ {"none"}
    <2>1. req.word \in DOMAIN Candidates
      BY CredsAssumption
    <2> QED BY <2>1 DEF Meant, Candidates, Cmds
  <1>2. \E r : /\ proc' = [proc EXCEPT ![p] = r]
               /\ ToolOK(r, keyring, serial, failures)
    <2>1. CASE Exit(p, [o EXCEPT !.req = req], 1)
      <3>1. none \in Records /\ none.pc = "exit"
        BY <1>0 DEF Records, PCs
      <3>2. proc' = [proc EXCEPT ![p] = none]
        BY <2>1 DEF Exit
      <3> HIDE DEF none
      <3>3. ToolOK(none, keyring, serial, failures)
        BY <3>1 DEF ToolOK, CommandOK, PlaceOK, ListOK, SearchOK, KeyOK
      <3> QED BY <3>2, <3>3
    <2>2. ASSUME NEW c \in Meant(req.word), Exit(p, start(c), 1)
          PROVE  \E r : /\ proc' = [proc EXCEPT ![p] = r]
                        /\ ToolOK(r, keyring, serial, failures)
      <3>1. refused(c) \in Records /\ refused(c).pc = "exit"
        BY <1>0, <1>1 DEF Records, PCs
      <3>2. proc' = [proc EXCEPT ![p] = refused(c)]
        BY <2>2 DEF Exit
      <3> HIDE DEF refused
      <3>3. ToolOK(refused(c), keyring, serial, failures)
        BY <3>1 DEF ToolOK, CommandOK, PlaceOK, ListOK, SearchOK, KeyOK
      <3> QED BY <3>2, <3>3
    <2>3. ASSUME NEW c \in Meant(req.word), Goto(p, start(c), "read"),
                 c # "clearall" => Addresses[req.host] # "fails"
          PROVE  \E r : /\ proc' = [proc EXCEPT ![p] = r]
                        /\ ToolOK(r, keyring, serial, failures)
      <3>1. reading(c) \in Records
        BY <1>0, <1>1 DEF Records, PCs
      <3>2. /\ reading(c).pc = "read" /\ reading(c).cmd = c /\ reading(c).req = req
            /\ reading(c).since = serial /\ reading(c).at = 1 /\ reading(c).found = <<>>
        BY <1>0 DEF Records
      <3>3. proc' = [proc EXCEPT ![p] = reading(c)]
        BY <2>3 DEF Goto
      <3> HIDE DEF reading
      <3>4. CommandOK(reading(c), serial)
        BY <3>2, <2>3, <1>0, <1>1 DEF CommandOK, Resolved
      <3>5. PlaceOK(reading(c))
        <4>1. c # "clearall" => 1 \in DOMAIN WantedBy(reading(c))
          BY <3>1, <3>2, <2>3, WantedType DEF Resolved
        <4> QED BY <4>1, <3>2 DEF PlaceOK
      <3>6. SearchOK(reading(c), keyring)
        <4>1. c # "clearall" => DOMAIN WantedBy(reading(c)) \subseteq {i \in Nat : i >= 1}
          BY <3>1, <3>2, <2>3, WantedType DEF Resolved
        <4> QED BY <4>1, <3>2 DEF SearchOK, Searched
      <3>7. ListOK(reading(c), keyring) /\ KeyOK(reading(c), keyring, serial, failures)
        BY <3>2 DEF ListOK, KeyOK
      <3> QED BY <3>1, <3>3, <3>4, <3>5, <3>6, <3>7 DEF ToolOK
    <2> QED BY <2>1, <2>2, <2>3 DEF Main
  <1>3. PICK r : /\ proc' = [proc EXCEPT ![p] = r]
                 /\ ToolOK(r, keyring, serial, failures)
    BY <1>2
  <1>4. UNCHANGED <<keyring, serial, failures>> /\ failures' \in Nat /\ failures <= failures'
    <2>1. UNCHANGED <<keyring, serial, failures>>
      BY DEF Main
    <2> QED BY <2>1, Now
  <1>5. /\ KeysOK(keyring', serial') /\ Evolves(keyring, serial, keyring', serial')
        /\ KnownKeys' /\ KeysAreRestricted'
    BY <1>0, <1>3, <1>4, KeysStay
  <1> QED BY <1>3, <1>4, <1>5, Moves

LEMMA StepReadKeyring ==
  ASSUME CredsInv, NEW p \in Procs, ReadKeyring(p)
  PROVE  CredsInv'
  <1> DEFINE o == proc[p]
             all == {k.serial : k \in keyring}
             read == [[o EXCEPT !.list = all] EXCEPT !.pc = "describe"]
             blind == [[o EXCEPT !.list = {}, !.blind = TRUE] EXCEPT !.pc = "describe"]
  <1>0. /\ o \in Records /\ o.pc = "read" /\ all \subseteq Nat
        /\ CommandOK(o, serial) /\ PlaceOK(o) /\ SearchOK(o, keyring)
    BY Now DEF ReadKeyring, KeysOK
  <1>1. UNCHANGED <<keyring, serial>> /\ failures' \in Nat /\ failures <= failures'
    BY Now DEF ReadKeyring, Works, Fails
  <1>2. \E r : /\ proc' = [proc EXCEPT ![p] = r] /\ r.cmd = o.cmd
               /\ ToolOK(r, keyring, serial, failures')
    <2>1. CASE Goto(p, [o EXCEPT !.list = all], "describe")
      <3>1. read \in Records
        BY <1>0, Updated DEF PCs
      <3>2. /\ read.pc = "describe" /\ read.cmd = o.cmd /\ read.req = o.req
            /\ read.since = o.since /\ read.at = o.at /\ read.found = o.found
            /\ read.blind = o.blind /\ read.list = all
        BY <1>0 DEF Records
      <3>3. proc' = [proc EXCEPT ![p] = read]
        BY <2>1 DEF Goto
      <3> HIDE DEF read
      <3>4. ToolOK(read, keyring, serial, failures')
        BY <1>0, <3>1, <3>2 DEF ToolOK, CommandOK, PlaceOK, ListOK, SearchOK, KeyOK,
                                Searched, WantedBy, DescFor
      <3> QED BY <3>2, <3>3, <3>4
    <2>2. CASE Goto(p, [o EXCEPT !.list = {}, !.blind = TRUE], "describe")
      <3>1. blind \in Records
        BY <1>0, Updated DEF PCs
      <3>2. /\ blind.pc = "describe" /\ blind.cmd = o.cmd /\ blind.req = o.req
            /\ blind.since = o.since /\ blind.at = o.at /\ blind.found = o.found
            /\ blind.blind
        BY <1>0 DEF Records
      <3>3. proc' = [proc EXCEPT ![p] = blind]
        BY <2>2 DEF Goto
      <3> HIDE DEF blind
      <3>4. ToolOK(blind, keyring, serial, failures')
        BY <1>0, <3>1, <3>2 DEF ToolOK, CommandOK, PlaceOK, ListOK, SearchOK, KeyOK, WantedBy
      <3> QED BY <3>2, <3>3, <3>4
    <2> QED BY <2>1, <2>2 DEF ReadKeyring
  <1>3. PICK r : /\ proc' = [proc EXCEPT ![p] = r] /\ r.cmd = o.cmd
                 /\ ToolOK(r, keyring, serial, failures')
    BY <1>2
  <1>4. /\ KeysOK(keyring', serial') /\ Evolves(keyring, serial, keyring', serial')
        /\ KnownKeys' /\ KeysAreRestricted'
    BY <1>0, <1>1, <1>3, KeysStay
  <1> QED BY <1>1, <1>3, <1>4, Moves

LEMMA Ended ==
  ASSUME NEW r \in Records, NEW c \in {0, 1}, NEW K, NEW n \in Nat, NEW f
  PROVE  /\ ToolOK([r EXCEPT !.pc = "exit", !.code = c], K, n, f)
         /\ [r EXCEPT !.pc = "exit", !.code = c].cmd = r.cmd
  <1> DEFINE end == [r EXCEPT !.pc = "exit", !.code = c]
  <1>1. end \in Records
    BY Updated DEF PCs
  <1>2. end.pc = "exit" /\ end.cmd = r.cmd
    BY DEF Records
  <1> HIDE DEF end
  <1>3. ToolOK(end, K, n, f)
    BY <1>1, <1>2 DEF ToolOK, CommandOK, PlaceOK, ListOK, SearchOK, KeyOK
  <1> QED BY <1>2, <1>3 DEF end

LEMMA OursAt ==
  ASSUME NEW r \in Records, r.req \in Resolved, NEW a \in Range(WantedBy(r))
  PROVE  DescFor(r, a) \notin Others /\ DescFor(r, a) \in DescsOf(r)
  BY CredsAssumption DEF Resolved, WantedBy, DescFor, DescsOf

LEMMA StepDescribe ==
  ASSUME CredsInv, NEW p \in Procs, Describe(p)
  PROVE  CredsInv'
  <1> DEFINE o == proc[p]
  <1>0. /\ o \in Records /\ o.pc = "describe" /\ o.cmd # "none" /\ serial \in Nat
        /\ CommandOK(o, serial) /\ PlaceOK(o) /\ ListOK(o, keyring) /\ SearchOK(o, keyring)
        /\ KeysOK(keyring, serial) /\ failures \in Nat
        /\ o.cmd # "clearall" => o.req \in Resolved /\ o.at \in DOMAIN WantedBy(o)
        /\ FoundOK(o)
    BY Now DEF Describe, CommandOK, PlaceOK, FoundOK
  <1>w. Wanted(p) = WantedBy(o) /\ \A a : Desc(p, a) = DescFor(o, a)
    BY DEF Wanted, WantedBy, Desc, DescFor
  <1>1. UNCHANGED <<keyring, serial, failures>> /\ failures' \in Nat /\ failures <= failures'
    BY <1>0 DEF Describe
  <1>2. \E r : /\ proc' = [proc EXCEPT ![p] = r] /\ r.cmd = o.cmd
               /\ ToolOK(r, keyring, serial, failures)
    <2>1. ASSUME NEW k \in Matching(p), Found(p, k)
          PROVE  \E r : /\ proc' = [proc EXCEPT ![p] = r] /\ r.cmd = o.cmd
                        /\ ToolOK(r, keyring, serial, failures)
      <3>1. CASE o.cmd = "add"
        <4>1. proc' = [proc EXCEPT ![p] = [o EXCEPT !.pc = "exit", !.code = 1]]
          BY <2>1, <3>1 DEF Found, Exit
        <4> QED BY <4>1, <1>0, Ended
      <3>2. CASE o.cmd = "update"
        <4> DEFINE r0 == [o EXCEPT !.found = Append(@, WantedBy(o)[o.at])]
        <4>1. /\ WantedBy(o)[o.at] \in Targets /\ WantedBy(o)[o.at] \in Range(WantedBy(o))
              /\ o.found \in Seq(Targets)
          BY <1>0, <3>2, WantedType, Fields
        <4>2. /\ Append(o.found, WantedBy(o)[o.at]) \in Seq(Targets)
              /\ \A i \in DOMAIN Append(o.found, WantedBy(o)[o.at]) :
                   Append(o.found, WantedBy(o)[o.at])[i] \in Range(WantedBy(o))
          BY <4>1, <1>0, <3>2 DEF FoundOK
        <4>3. r0 \in Records
          BY <1>0, <4>2, Updated
        <4>4. /\ r0.pc = "describe" /\ r0.cmd = o.cmd /\ r0.req = o.req /\ r0.at = o.at
              /\ r0.since = o.since /\ r0.found = Append(o.found, WantedBy(o)[o.at])
          BY <1>0 DEF Records
        <4>5. NextAddress(p, r0)
          BY <2>1, <3>2, <1>w DEF Found
        <4> HIDE DEF r0
        <4>6. CommandOK(r0, serial) /\ FoundOK(r0) /\ r0.at \in DOMAIN WantedBy(r0)
          BY <1>0, <4>2, <4>4, <3>2 DEF CommandOK, FoundOK, WantedBy
        <4>7. SearchedTo(r0, keyring, r0.at)
          BY <4>4, <3>2 DEF SearchedTo
        <4>8. PICK r : /\ proc' = [proc EXCEPT ![p] = r] /\ r.cmd = r0.cmd
                       /\ \A f : ToolOK(r, keyring, serial, f)
          BY <1>0, <4>3, <4>4, <4>5, <4>6, <4>7, <3>2, NextAddressOK
        <4> QED BY <4>8, <4>4
      <3>3. CASE o.cmd \notin {"add", "update"}
        <4> DEFINE r == [[o EXCEPT !.key = k.serial] EXCEPT !.pc = "unlink"]
        <4>1. k \in keyring /\ k.serial \in Nat /\ k.serial < serial
          BY <1>0 DEF Matching, KeysOK
        <4>2. r \in Records
          <5>1. [o EXCEPT !.key = k.serial] \in Records
            BY <4>1, <1>0, Updated
          <5> QED BY <5>1, Updated DEF PCs
        <4>3. proc' = [proc EXCEPT ![p] = r]
          BY <2>1, <3>3 DEF Found, Goto
        <4>4. /\ r.pc = "unlink" /\ r.cmd = o.cmd /\ r.req = o.req /\ r.at = o.at
              /\ r.since = o.since /\ r.found = o.found /\ r.key = k.serial
          BY <1>0 DEF Records
        <4> HIDE DEF r
        <4>5. o.cmd \in {"clear", "clearall"}
          BY <1>0, <3>3, Fields DEF Cmds
        <4>6. IsOurs(k) /\ (o.cmd = "clear" => k.desc \in DescsOf(o))
          <5>1. CASE o.cmd = "clear"
            <6>1. k.desc = DescFor(o, WantedBy(o)[o.at]) /\ WantedBy(o)[o.at] \in Range(WantedBy(o))
              BY <1>0, <1>w, <5>1, WantedType DEF Matching
            <6> QED BY <6>1, <5>1, <1>0, OursAt DEF IsOurs
          <5>2. CASE o.cmd = "clearall"
            BY <5>2 DEF Matching
          <5> QED BY <5>1, <5>2, <4>5
        <4>7. KeyOK(r, keyring, serial, failures)
          BY <4>1, <4>4, <4>5, <4>6, <1>0 DEF KeyOK, KeysOK, DescsOf, DescFor, WantedBy
        <4>8. CommandOK(r, serial) /\ PlaceOK(r)
          BY <1>0, <4>4, <4>5 DEF CommandOK, PlaceOK, WantedBy
        <4>9. ListOK(r, keyring) /\ SearchOK(r, keyring)
          BY <4>4, <4>5 DEF ListOK, SearchOK
        <4> QED BY <4>2, <4>3, <4>4, <4>7, <4>8, <4>9 DEF ToolOK
      <3> QED BY <3>1, <3>2, <3>3
    <2>2. CASE Matching(p) = {} /\ o.cmd = "clearall" /\ AfterLast(p, o)
      <3>1. o.req \in Resolved => SearchedTo(o, keyring, Len(WantedBy(o)))
        BY <2>2 DEF SearchedTo
      <3> QED BY <3>1, <2>2, <1>0, AfterLastOK
    <2>3. CASE Matching(p) = {} /\ o.cmd # "clearall" /\ NextAddress(p, o)
      <3>1. SearchedTo(o, keyring, o.at)
        <4> SUFFICES ASSUME o.cmd = "add", ~o.blind, NEW j \in DOMAIN WantedBy(o),
                            NEW k \in keyring, j <= o.at, k.desc = DescFor(o, WantedBy(o)[j])
                     PROVE  k.serial >= o.since
          BY DEF SearchedTo
        <4>1. o.at \in Nat /\ j \in Nat /\ k.serial \in Nat /\ o.since \in Nat
          BY <1>0, <2>3, WantedType, Fields DEF KeysOK
        <4>2. CASE j < o.at
          BY <4>2, <1>0 DEF SearchOK, Searched
        <4>3. CASE j = o.at
          <5>1. k.serial \notin o.list
            BY <2>3, <4>3, <1>w DEF Matching
          <5> QED BY <5>1, <4>1, <1>0 DEF ListOK
        <4> QED BY <4>1, <4>2, <4>3
      <3> QED BY <3>1, <2>3, <1>0, NextAddressOK
    <2> QED BY <2>1, <2>2, <2>3 DEF Describe
  <1>3. PICK r : /\ proc' = [proc EXCEPT ![p] = r] /\ r.cmd = o.cmd
                 /\ ToolOK(r, keyring, serial, failures)
    BY <1>2
  <1>4. /\ KeysOK(keyring', serial') /\ Evolves(keyring, serial, keyring', serial')
        /\ KnownKeys' /\ KeysAreRestricted'
    BY <1>0, <1>1, <1>3, KeysStay
  <1> QED BY <1>1, <1>3, <1>4, Moves

LEMMA StepUnlink ==
  ASSUME CredsInv, NEW p \in Procs, Unlink(p)
  PROVE  CredsInv'
  <1> DEFINE o == proc[p]
             removed == [o EXCEPT !.removed = TRUE]
             failed == [o EXCEPT !.errors = TRUE]
  <1>0. /\ o \in Records /\ o.pc = "unlink" /\ o.cmd \in {"clear", "clearall"}
        /\ serial \in Nat /\ KeysOK(keyring, serial) /\ failures \in Nat
    BY Now DEF Unlink, CommandOK
  <1>1. /\ UNCHANGED serial /\ keyring' \subseteq keyring
        /\ failures' \in Nat /\ failures <= failures'
    BY <1>0 DEF Unlink, Works, Fails
  <1>2. CommandOK(o, serial) /\ PlaceOK(o)
    BY Now
  <1>3. \/ AfterUnlink(p, removed)
        \/ AfterUnlink(p, failed)
    BY DEF Unlink
  <1>4. ASSUME NEW r0, r0 \in {removed, failed}, AfterUnlink(p, r0)
        PROVE  \E r : /\ proc' = [proc EXCEPT ![p] = r] /\ r.cmd = o.cmd
                      /\ ToolOK(r, keyring', serial, failures')
    <2>1. r0 \in Records
      BY <1>4, <1>0, Updated
    <2>2. /\ r0.pc = "unlink" /\ r0.cmd = o.cmd /\ r0.req = o.req /\ r0.at = o.at
          /\ r0.since = o.since /\ r0.found = o.found
      BY <1>4, <1>0 DEF Records
    <2>3. CommandOK(r0, serial) /\ PlaceOK(r0) /\ FoundOK(r0)
      BY <1>0, <1>2, <2>2 DEF CommandOK, PlaceOK, FoundOK, WantedBy
    <2> HIDE DEF removed, failed
    <2>4. CASE r0.cmd = "clearall"
      <3> DEFINE r == [r0 EXCEPT !.pc = "read"]
      <3>1. r \in Records
        BY <2>1, Updated DEF PCs
      <3>2. /\ r.pc = "read" /\ r.cmd = o.cmd /\ r.req = o.req /\ r.since = o.since
        BY <2>1, <2>2 DEF Records
      <3>3. proc' = [proc EXCEPT ![p] = r]
        BY <1>4, <2>4 DEF AfterUnlink, Goto
      <3> HIDE DEF r
      <3>4. ToolOK(r, keyring', serial, failures')
        BY <3>1, <3>2, <2>2, <2>3, <2>4
        DEF ToolOK, CommandOK, PlaceOK, ListOK, SearchOK, KeyOK
      <3> QED BY <3>2, <3>3, <3>4
    <2>5. CASE r0.cmd # "clearall"
      <3>1. NextAddress(p, r0) /\ SearchedTo(r0, keyring', r0.at) /\ r0.at \in DOMAIN WantedBy(r0)
        BY <1>4, <2>5, <2>2, <2>3, <1>0 DEF AfterUnlink, SearchedTo, PlaceOK
      <3>2. r0.pc \in {"describe", "unlink"} /\ r0.req = proc[p].req
        BY <2>2
      <3>3. PICK r : /\ proc' = [proc EXCEPT ![p] = r] /\ r.cmd = r0.cmd
                     /\ \A f : ToolOK(r, keyring', serial, f)
        BY <3>1, <3>2, <2>1, <2>3, <2>5, <1>0, NextAddressOK
      <3> QED BY <3>3, <2>2
    <2> QED BY <2>4, <2>5
  <1>5. PICK r : /\ proc' = [proc EXCEPT ![p] = r] /\ r.cmd = o.cmd
                 /\ ToolOK(r, keyring', serial, failures')
    BY <1>3, <1>4
  <1>6. /\ KeysOK(keyring', serial') /\ Evolves(keyring, serial, keyring', serial')
        /\ KnownKeys' /\ KeysAreRestricted'
    BY <1>0, <1>1, <1>5, KeysStay
  <1> QED BY <1>1, <1>5, <1>6, Moves

(* Keys a step leaves alone stay as restricted as they were.               *)
LEMMA RestrictedStays ==
  ASSUME CredsInv, NEW p \in Procs, NEW r,
         proc' = [proc EXCEPT ![p] = r], r.cmd = proc[p].cmd,
         failures' \in Nat, failures <= failures',
         NEW k \in keyring, k.perm = "default", IsOurs(k),
         proc[p].pc \in {"setperm", "drop"} => proc[p].key # k.serial
  PROVE  \/ failures' > 1
         \/ proc'[k.pass].cmd = "update"
         \/ \E q \in Procs : proc'[q].pc \in {"setperm", "drop"} /\ proc'[q].key = k.serial
  <1>1. /\ proc'[p] = r
        /\ \A q \in Procs : q # p => proc'[q] = proc[q]
    BY DEF CredsInv
  <1>2. k.pass \in Procs /\ failures \in Nat
    BY DEF CredsInv, KnownKeys
  <1>3. CASE failures > 1
    BY <1>3, <1>2
  <1>4. CASE proc[k.pass].cmd = "update"
    BY <1>4, <1>1, <1>2
  <1>5. CASE \E q \in Procs : proc[q].pc \in {"setperm", "drop"} /\ proc[q].key = k.serial
    BY <1>5, <1>1
  <1> QED BY <1>3, <1>4, <1>5 DEF CredsInv, KeysAreRestricted

LEMMA StepDrop ==
  ASSUME CredsInv, NEW p \in Procs, Drop(p)
  PROVE  CredsInv'
  <1> DEFINE o == proc[p]
  <1>0. /\ o \in Records /\ o.pc = "drop" /\ serial \in Nat /\ KeysOK(keyring, serial)
        /\ failures \in Nat /\ KeyOK(o, keyring, serial, failures)
        /\ ToolOK(o, keyring, serial, failures)
    BY Now DEF Drop, CredsInv
  <1>1. /\ UNCHANGED serial /\ keyring' \subseteq keyring /\ NextStore(p, o)
        /\ failures' \in Nat /\ failures <= failures'
    BY <1>0 DEF Drop, Works, Fails
  <1>2. KeysOK(keyring', serial') /\ Evolves(keyring, serial, keyring', serial')
    BY <1>0, <1>1 DEF KeysOK, Evolves
  <1>3. ToolOK(o, keyring', serial, failures')
    BY <1>0, <1>1, <1>2, OthersKeep
  <1>4. PICK r : /\ proc' = [proc EXCEPT ![p] = r] /\ r.cmd = o.cmd
                 /\ \A f : ToolOK(r, keyring', serial, f)
    BY <1>0, <1>1, <1>3, NextStoreOK DEF ToolOK
  <1>5. KnownKeys' /\ ToolOK(r, keyring', serial', failures')
    BY <1>1, <1>4 DEF CredsInv, KnownKeys, IsOurs
  <1>6. KeysAreRestricted'
    <2> SUFFICES ASSUME NEW k \in keyring', k.perm = "default", IsOurs(k)
                 PROVE  \/ failures' > 1
                        \/ proc'[k.pass].cmd = "update"
                        \/ \E q \in Procs : /\ proc'[q].pc \in {"setperm", "drop"}
                                            /\ proc'[q].key = k.serial
      BY DEF KeysAreRestricted, IsOurs
    <2>1. CASE k.serial = o.key
      <3>1. failures >= 1 /\ k \in keyring
        BY <2>1, <1>0, <1>1 DEF KeyOK
      <3>2. Fails
        BY <3>1, <2>1, <1>0 DEF Drop, KeysOK
      <3> QED BY <3>1, <3>2, <1>0 DEF Fails
    <2>2. CASE k.serial # o.key
      BY <2>2, <1>1, <1>4, RestrictedStays
    <2> QED BY <2>1, <2>2
  <1> QED BY <1>1, <1>2, <1>4, <1>5, <1>6, Moves

LEMMA StepSetPerm ==
  ASSUME CredsInv, NEW p \in Procs, SetPerm(p)
  PROVE  CredsInv'
  <1> DEFINE o == proc[p]
             mine == {k \in keyring : k.serial = o.key}
  <1>0. /\ o \in Records /\ o.pc = "setperm" /\ o.cmd = "add" /\ serial \in Nat
        /\ KeysOK(keyring, serial) /\ failures \in Nat
        /\ CommandOK(o, serial) /\ PlaceOK(o) /\ KeyOK(o, keyring, serial, failures)
        /\ SearchOK(o, keyring) /\ ToolOK(o, keyring, serial, failures)
    BY Now DEF SetPerm, CommandOK, CredsInv
  <1>1. UNCHANGED serial /\ failures' \in Nat /\ failures <= failures'
    BY <1>0 DEF SetPerm, Works, Fails
  <1>2. ASSUME NEW k \in mine, k.perm = "default", NextStore(p, o),
               keyring' = (keyring \ mine) \cup {[k EXCEPT !.perm = "restricted"]}
        PROVE  CredsInv'
    <2> DEFINE k2 == [k EXCEPT !.perm = "restricted"]
    <2>1. /\ k2 = Key(k2.serial, k2.desc, k2.pass, k2.perm)
          /\ k2.serial = k.serial /\ k2.desc = k.desc /\ k2.perm = "restricted"
          /\ k \in keyring /\ k.serial = o.key
          /\ \A l \in keyring \ mine : l \in keyring /\ l.serial # k.serial
      BY <1>0 DEF KeysOK, Key
    <2>k. keyring' = (keyring \ mine) \cup {k2}
      BY <1>2
    <2> HIDE DEF k2, mine
    <2>2. KeysOK(keyring', serial') /\ Evolves(keyring, serial, keyring', serial')
      <3>1. KeysOK(keyring', serial)
        BY <2>1, <2>k, <1>0 DEF KeysOK
      <3>2. Evolves(keyring, serial, keyring', serial)
        BY <2>1, <2>k, <1>0 DEF Evolves
      <3> QED BY <3>1, <3>2, <1>1
    <2>3. ToolOK(o, keyring', serial, failures')
      BY <1>0, <1>1, <2>2, OthersKeep
    <2>4. PICK r : /\ proc' = [proc EXCEPT ![p] = r] /\ r.cmd = o.cmd
                   /\ \A f : ToolOK(r, keyring', serial, f)
      BY <1>0, <1>2, <2>3, NextStoreOK DEF ToolOK
    <2>5. \A l \in keyring' : l.perm = "default" => l \in keyring /\ l.serial # o.key
      BY <2>k, <2>1
    <2>6. KnownKeys' /\ ToolOK(r, keyring', serial', failures')
      BY <1>1, <2>4, <2>5 DEF CredsInv, KnownKeys, IsOurs
    <2>7. KeysAreRestricted'
      <3> SUFFICES ASSUME NEW l \in keyring', l.perm = "default", IsOurs(l)
                   PROVE  \/ failures' > 1
                          \/ proc'[l.pass].cmd = "update"
                          \/ \E q \in Procs : /\ proc'[q].pc \in {"setperm", "drop"}
                                              /\ proc'[q].key = l.serial
        BY DEF KeysAreRestricted, IsOurs
      <3> QED BY <2>4, <2>5, <1>1, RestrictedStays
    <2> QED BY <1>1, <2>2, <2>4, <2>6, <2>7, Moves
  <1>3. ASSUME Goto(p, o, "drop"), UNCHANGED keyring,
               IF \E k \in mine : k.perm = "default" THEN Fails ELSE Works
        PROVE  CredsInv'
    <2> DEFINE r == [o EXCEPT !.pc = "drop"]
    <2>1. r \in Records
      BY <1>0, Updated DEF PCs
    <2>2. /\ r.pc = "drop" /\ r.cmd = o.cmd /\ r.req = o.req /\ r.at = o.at
          /\ r.since = o.since /\ r.found = o.found /\ r.key = o.key /\ r.blind = o.blind
      BY <1>0 DEF Records
    <2>3. proc' = [proc EXCEPT ![p] = r]
      BY <1>3 DEF Goto
    <2> HIDE DEF r
    <2>4. CommandOK(r, serial) /\ PlaceOK(r)
      BY <1>0, <2>2 DEF CommandOK, PlaceOK, WantedBy
    <2>5. ListOK(r, keyring) /\ SearchOK(r, keyring)
      BY <1>0, <2>2 DEF ListOK, SearchOK, Searched, WantedBy, DescFor
    <2>6. KeyOK(r, keyring, serial, failures')
      <3>1. \A k \in keyring : k.serial = r.key /\ k.perm = "default" => failures' >= 1
        BY <1>0, <1>3, <2>2 DEF Fails
      <3> QED BY <3>1, <1>0, <2>2 DEF KeyOK, DescsOf, DescFor, WantedBy
    <2>7. /\ KeysOK(keyring', serial') /\ Evolves(keyring, serial, keyring', serial')
          /\ KnownKeys' /\ ToolOK(r, keyring', serial', failures')
      <3>1. KeysOK(keyring', serial') /\ Evolves(keyring, serial, keyring', serial')
        BY <1>0, <1>1, <1>3 DEF KeysOK, Evolves
      <3>2. KnownKeys'
        BY <1>3 DEF CredsInv, KnownKeys, IsOurs
      <3>3. ToolOK(r, keyring', serial', failures')
        BY <1>1, <1>3, <2>1, <2>4, <2>5, <2>6 DEF ToolOK
      <3> QED BY <3>1, <3>2, <3>3
    <2>8. KeysAreRestricted'
      <3> SUFFICES ASSUME NEW l \in keyring', l.perm = "default", IsOurs(l)
                   PROVE  \/ failures' > 1
                          \/ proc'[l.pass].cmd = "update"
                          \/ \E q \in Procs : /\ proc'[q].pc \in {"setperm", "drop"}
                                              /\ proc'[q].key = l.serial
        BY DEF KeysAreRestricted, IsOurs
      <3>1. CASE l.serial = o.key
        <4>1. proc'[p] = r
          BY <2>3 DEF CredsInv
        <4> QED BY <4>1, <3>1, <2>2
      <3>2. CASE l.serial # o.key
        BY <3>2, <2>2, <2>3, <1>1, <1>3, RestrictedStays
      <3> QED BY <3>1, <3>2
    <2> QED BY <1>1, <2>3, <2>7, <2>8, Moves
  <1> QED BY <1>2, <1>3 DEF SetPerm

LEMMA StepKeyAdd ==
  ASSUME CredsInv, NEW p \in Procs, KeyAdd(p)
  PROVE  CredsInv'
  <1> DEFINE o == proc[p]
             d == DescFor(o, o.found[o.at])
             old == {k \in keyring : k.desc = d}
  <1>0. /\ o \in Records /\ o.pc = "store" /\ o.cmd \in {"add", "update"} /\ serial \in Nat
        /\ KeysOK(keyring, serial) /\ failures \in Nat
        /\ CommandOK(o, serial) /\ PlaceOK(o)
        /\ SearchOK(o, keyring) /\ ToolOK(o, keyring, serial, failures)
    BY Now DEF KeyAdd, CommandOK, CredsInv
  <1>1. d \in DescsOf(o) /\ d \notin Others
        /\ \E i \in DOMAIN WantedBy(o) : o.found[o.at] = WantedBy(o)[i]
    <2>1. o.found[o.at] \in Range(WantedBy(o)) /\ o.req \in Resolved
      BY <1>0 DEF PlaceOK, CommandOK
    <2> QED BY <2>1, <1>0, OursAt, WantedType
  <1>2. Desc(p, o.found[o.at]) = d
    BY DEF Desc, DescFor
  <1>3. failures' \in Nat /\ failures <= failures'
    BY <1>0 DEF KeyAdd, Works, Fails
  <1> HIDE DEF d
  (* A key k is in the keyring with the password of p.                     *)
  <1>4. ASSUME NEW k, k.desc = d, k.pass = p, k \in keyring',
               AfterKeyAdd(p, k.serial), serial' \in Nat, serial <= serial',
               k.serial \in Nat, k.serial < serial',
               o.cmd = "add" => o.blind \/ k.serial >= o.since,
               KeysOK(keyring', serial'), Evolves(keyring, serial, keyring', serial'),
               \A l \in keyring' : l = k \/ l \in keyring
        PROVE  CredsInv'
    <2>1. ToolOK(o, keyring', serial', failures')
      BY <1>0, <1>3, <1>4, OthersKeep
    <2>2. \E r : /\ proc' = [proc EXCEPT ![p] = r] /\ r.cmd = o.cmd
                 /\ ToolOK(r, keyring', serial', failures')
                 /\ o.cmd = "add" => r.pc = "setperm" /\ r.key = k.serial
      <3>1. CASE o.cmd = "add"
        <4> DEFINE r == [[o EXCEPT !.key = k.serial] EXCEPT !.pc = "setperm"]
        <4>1. r \in Records
          <5>1. [o EXCEPT !.key = k.serial] \in Records
            BY <1>0, <1>4, Updated
          <5> QED BY <5>1, Updated DEF PCs
        <4>2. /\ r.pc = "setperm" /\ r.cmd = o.cmd /\ r.req = o.req /\ r.at = o.at
              /\ r.since = o.since /\ r.found = o.found /\ r.key = k.serial
              /\ r.blind = o.blind
          BY <1>0 DEF Records
        <4>3. proc' = [proc EXCEPT ![p] = r]
          BY <1>4, <3>1 DEF AfterKeyAdd, Goto
        <4> HIDE DEF r
        <4>4. CommandOK(r, serial') /\ PlaceOK(r)
          BY <2>1, <1>0, <3>1, <4>2 DEF ToolOK, CommandOK, PlaceOK, WantedBy
        <4>5. ListOK(r, keyring') /\ SearchOK(r, keyring')
          BY <2>1, <1>0, <4>2 DEF ToolOK, ListOK, SearchOK, Searched, WantedBy, DescFor
        <4>6. KeyOK(r, keyring', serial', failures')
          <5>1. \A l \in keyring' : l.serial = k.serial => l = k
            BY <1>4 DEF KeysOK
          <5>2. IsOurs(k) /\ k.desc \in DescsOf(r)
            BY <1>1, <1>4, <4>2 DEF IsOurs, DescsOf, DescFor, WantedBy
          <5> QED BY <5>1, <5>2, <4>2, <3>1, <1>4 DEF KeyOK
        <4> QED BY <3>1, <4>1, <4>2, <4>3, <4>4, <4>5, <4>6 DEF ToolOK
      <3>2. CASE o.cmd # "add"
        <4>1. NextStore(p, o)
          BY <1>4, <3>2 DEF AfterKeyAdd
        <4>2. PICK r : /\ proc' = [proc EXCEPT ![p] = r] /\ r.cmd = o.cmd
                       /\ \A f : ToolOK(r, keyring', serial', f)
          BY <4>1, <2>1, <1>0, <1>4, NextStoreOK DEF ToolOK
        <4> QED BY <4>2, <3>2
      <3> QED BY <3>1, <3>2
    <2>3. PICK r : /\ proc' = [proc EXCEPT ![p] = r] /\ r.cmd = o.cmd
                   /\ ToolOK(r, keyring', serial', failures')
                   /\ o.cmd = "add" => r.pc = "setperm" /\ r.key = k.serial
      BY <2>2
    <2>4. KnownKeys'
      BY <1>4 DEF CredsInv, KnownKeys, IsOurs
    <2>5. KeysAreRestricted'
      <3> SUFFICES ASSUME NEW l \in keyring', l.perm = "default", IsOurs(l)
                   PROVE  \/ failures' > 1
                          \/ proc'[l.pass].cmd = "update"
                          \/ \E q \in Procs : /\ proc'[q].pc \in {"setperm", "drop"}
                                              /\ proc'[q].key = l.serial
        BY DEF KeysAreRestricted, IsOurs
      <3>1. CASE l = k
        <4>1. proc'[p] = r
          BY <2>3 DEF CredsInv
        <4> QED BY <4>1, <3>1, <2>3, <1>0, <1>4
      <3>2. CASE l \in keyring
        BY <3>2, <2>3, <1>0, <1>3, RestrictedStays
      <3> QED BY <3>1, <3>2, <1>4
    <2> QED BY <1>3, <1>4, <2>3, <2>4, <2>5, Moves
  <1>5. ASSUME old = {}, keyring' = keyring \cup {Key(serial, d, p, "default")},
               serial' = serial + 1, AfterKeyAdd(p, serial)
        PROVE  CredsInv'
    <2> DEFINE k == Key(serial, d, p, "default")
    <2>1. /\ k.serial = serial /\ k.desc = d /\ k.pass = p /\ k.perm = "default"
          /\ k = Key(k.serial, k.desc, k.pass, k.perm)
      BY DEF Key
    <2>k. keyring' = keyring \cup {k}
      BY <1>5
    <2> HIDE DEF k
    <2>2. KeysOK(keyring', serial')
      BY <2>1, <2>k, <1>0, <1>5 DEF KeysOK
    <2>3. Evolves(keyring, serial, keyring', serial')
      BY <2>1, <2>k, <1>0, <1>5 DEF Evolves
    <2>4. o.since <= serial /\ o.since \in Nat
      BY <1>0, Fields DEF CommandOK
    <2> QED BY <2>1, <2>k, <2>2, <2>3, <2>4, <1>0, <1>5, <1>4
  <1>6. ASSUME NEW k0 \in old, keyring' = (keyring \ old) \cup {[k0 EXCEPT !.pass = p]},
               serial' = serial, AfterKeyAdd(p, k0.serial)
        PROVE  CredsInv'
    <2> DEFINE k == [k0 EXCEPT !.pass = p]
    <2>1. /\ k.serial = k0.serial /\ k.desc = d /\ k.pass = p /\ k.perm = k0.perm
          /\ k = Key(k.serial, k.desc, k.pass, k.perm)
          /\ k0 \in keyring /\ k0.desc = d /\ k0.perm \in {"default", "restricted"}
          /\ k0.serial \in Nat /\ k0.serial < serial
          /\ \A l \in keyring \ old : l \in keyring /\ l.serial # k0.serial
      BY <1>0 DEF KeysOK, Key
    <2>k. keyring' = (keyring \ old) \cup {k}
      BY <1>6
    <2> HIDE DEF k, old
    <2>2. KeysOK(keyring', serial')
      BY <2>1, <2>k, <1>0, <1>6 DEF KeysOK
    <2>3. Evolves(keyring, serial, keyring', serial')
      BY <2>1, <2>k, <1>0, <1>6 DEF Evolves
    <2>4. o.cmd = "add" => o.blind \/ k.serial >= o.since
      BY <2>1, <1>0, <1>1 DEF SearchOK, Searched, d
    <2>5. /\ AfterKeyAdd(p, k.serial) /\ serial' \in Nat /\ serial <= serial'
          /\ k.serial \in Nat /\ k.serial < serial' /\ k \in keyring'
          /\ \A l \in keyring' : l = k \/ l \in keyring
      BY <2>1, <2>k, <1>0, <1>6
    <2> QED BY <2>1, <2>2, <2>3, <2>4, <2>5, <1>4
  <1>7. ASSUME NextStore(p, o), UNCHANGED <<keyring, serial>>
        PROVE  CredsInv'
    <2>1. PICK r : /\ proc' = [proc EXCEPT ![p] = r] /\ r.cmd = o.cmd
                   /\ \A f : ToolOK(r, keyring, serial, f)
      BY <1>7, <1>0, NextStoreOK
    <2>2. /\ KeysOK(keyring', serial') /\ Evolves(keyring, serial, keyring', serial')
          /\ KnownKeys' /\ KeysAreRestricted'
      BY <2>1, <1>0, <1>3, <1>7, KeysStay
    <2>3. ToolOK(r, keyring', serial', failures')
      BY <2>1, <1>7
    <2> QED BY <1>3, <2>1, <2>2, <2>3, Moves
  <1> QED BY <1>2, <1>5, <1>6, <1>7 DEF KeyAdd

LEMMA StepInv == CredsInv /\ [CredsNext]_cvars => CredsInv'
  <1> SUFFICES ASSUME CredsInv, [CredsNext]_cvars PROVE CredsInv'
    OBVIOUS
  <1>1. ASSUME NEW p \in Procs, Tool(p) PROVE CredsInv'
    BY <1>1, StepMain, StepReadKeyring, StepDescribe, StepUnlink, StepKeyAdd, StepSetPerm, StepDrop
    DEF Tool
  <1>2. CASE UNCHANGED cvars
    BY <1>2 DEF cvars, CredsInv, KnownKeys, KeysAreRestricted, IsOurs
  <1> QED BY <1>1, <1>2 DEF CredsNext

LEMMA SetToSeqType ==
  ASSUME NEW S, IsFiniteSet(S)
  PROVE  SetToSeq(S) \in Seq(S)
  <1>1. Cardinality(S) \in Nat /\ ExistsBijection(1 .. Cardinality(S), S)
    BY FS_CardinalityType
  <1>2. \E f \in [1 .. Cardinality(S) -> S] : IsInjective(f)
    BY <1>1 DEF ExistsBijection, Bijection, Injection
  <1>3. SetToSeq(S) \in [1 .. Cardinality(S) -> S]
    BY <1>2 DEF SetToSeq
  <1> QED BY <1>1, <1>3

LEMMA InitInv == CredsInit => CredsInv
  <1> SUFFICES ASSUME CredsInit PROVE CredsInv
    OBVIOUS
  <1>1. PICK old \in SUBSET Stashed :
          LET ds == SetToSeq(Others) \o SetToSeq(old) IN
            /\ keyring = {IF ds[i] \in Others THEN Key(i, ds[i], "other", "default")
                          ELSE Key(i, ds[i], "earlier", "restricted") : i \in DOMAIN ds}
            /\ serial = Len(ds) + 1
    BY DEF CredsInit
  <1> DEFINE ds == SetToSeq(Others) \o SetToSeq(old)
             of(i) == IF ds[i] \in Others THEN Key(i, ds[i], "other", "default")
                      ELSE Key(i, ds[i], "earlier", "restricted")
  <1>2. Len(ds) \in Nat /\ DOMAIN ds = 1 .. Len(ds)
    <2>1. IsFiniteSet(Others) /\ IsFiniteSet(old)
      BY CredsAssumption, FS_Subset
    <2>2. SetToSeq(Others) \in Seq(Others) /\ SetToSeq(old) \in Seq(old)
      BY <2>1, SetToSeqType
    <2>3. SetToSeq(Others) \in Seq(Others \cup old) /\ SetToSeq(old) \in Seq(Others \cup old)
      BY <2>2, SeqMono
    <2>4. ds \in Seq(Others \cup old)
      BY <2>3
    <2> HIDE DEF ds
    <2> QED BY <2>4
  <1>3. keyring = {of(i) : i \in DOMAIN ds} /\ serial = Len(ds) + 1
    BY <1>1
  <1>4. \A i \in DOMAIN ds :
          /\ of(i).serial = i
          /\ of(i) = Key(of(i).serial, of(i).desc, of(i).pass, of(i).perm)
          /\ of(i).perm \in {"default", "restricted"}
          /\ of(i).perm = "default" => of(i).desc \in Others
    BY DEF Key
  <1> HIDE DEF ds, of
  <1>5. KeysOK(keyring, serial)
    BY <1>2, <1>3, <1>4 DEF KeysOK
  <1>6. KnownKeys /\ KeysAreRestricted
    BY <1>3, <1>4 DEF KnownKeys, KeysAreRestricted, IsOurs
  <1>7. /\ Idle \in Records /\ Idle.pc = "main" /\ Idle.cmd = "none"
        /\ Idle.at = 1 /\ Idle.found = <<>>
    <2>1. <<>> \in Seq(Targets)
      OBVIOUS
    <2> QED BY <2>1 DEF Idle, Records, PCs, Cmds
  <1>8. ToolOK(Idle, keyring, serial, failures)
    BY <1>7 DEF ToolOK, CommandOK, PlaceOK, ListOK, SearchOK, KeyOK
  <1>9. proc = [p \in Procs |-> Idle] /\ failures \in Nat
    BY DEF CredsInit
  <1> QED BY <1>5, <1>6, <1>7, <1>8, <1>9 DEF CredsInv

LEMMA AlwaysInv == CredsSpec => []CredsInv
  <1> QED BY InitInv, StepInv, PTL DEF CredsSpec

(* cifscreds_add: of any number of tools, commands and failures, a key     *)
(* whose permissions were not restricted is in the hands of an add, was    *)
(* made again by an update, or is left by two failures.                    *)
THEOREM StashedKeysAreRestricted == CredsSpec => []KeysAreRestricted
  <1>1. CredsInv => KeysAreRestricted
    BY DEF CredsInv
  <1> QED BY <1>1, AlwaysInv, PTL

LEMMA MayTouchIts ==
  ASSUME CredsInv, NEW p \in Procs, NEW k \in keyring, k.serial = proc[p].key,
         proc[p].pc \in {"unlink", "setperm", "drop"}
  PROVE  MayTouch(p, k)
  <1>1. /\ IsOurs(k)
        /\ proc[p].cmd # "clearall" => k.desc \in DescsOf(proc[p])
        /\ proc[p].cmd = "add" => proc[p].blind \/ k.serial >= proc[p].since
    BY Now DEF KeyOK
  <1>2. proc[p].cmd \in {"add", "clear", "clearall"}
    BY Now DEF CommandOK
  <1>3. DescsOf(proc[p]) = Descs(p)
    BY DEF Descs, DescsOf, Desc, DescFor, Wanted, WantedBy
  <1> QED BY <1>1, <1>2, <1>3 DEF MayTouch

LEMMA StepKeeps ==
  ASSUME CredsInv, NEW p \in Procs, Tool(p), NEW k \in keyring, k \notin keyring'
  PROVE  proc'[p] # proc[p] /\ MayTouch(p, k)
  <1> DEFINE o == proc[p]
  <1>0. /\ o \in Records /\ serial \in Nat /\ CommandOK(o, serial) /\ PlaceOK(o)
        /\ SearchOK(o, keyring) /\ KeysOK(keyring, serial)
    BY Now
  <1>1. CASE Unlink(p)
    <2>1. o.pc = "unlink" /\ k.serial = o.key
      BY <1>1 DEF Unlink
    <2>2. MayTouch(p, k)
      BY <2>1, MayTouchIts
    <2>3. proc'[p] # o
      <3> DEFINE r0 == [o EXCEPT !.removed = TRUE]
      <3>1. AfterUnlink(p, r0)
        BY <1>1 DEF Unlink
      <3>2. r0 \in Records
        BY <1>0, Updated
      <3>3. proc \in [Procs -> Records]
        BY DEF CredsInv
      <3> HIDE DEF r0
      <3>4. \E r \in Records, place \in {"read", "store", "exit"}, c \in {0, 1} :
              \/ proc' = [proc EXCEPT ![p] = [r EXCEPT !.pc = place]]
              \/ proc' = [proc EXCEPT ![p] = [r EXCEPT !.pc = place, !.code = c]]
        <4>1. CASE r0.cmd = "clearall"
          BY <4>1, <3>1, <3>2 DEF AfterUnlink, Goto
        <4>2. CASE r0.cmd # "clearall"
          <5>1. o.cmd = "clear" /\ r0.cmd = "clear" /\ o.at \in Nat /\ r0.at = o.at
            BY <4>2, <2>1, <1>0, Fields DEF CommandOK, r0, Records
          <5>2. NextAddress(p, r0)
            BY <3>1, <4>2 DEF AfterUnlink
          <5>3. CASE Goto(p, [r0 EXCEPT !.at = r0.at + 1], "read")
            <6> DEFINE i == r0.at + 1
            <6>1. i \in Nat
              BY <5>1
            <6> HIDE DEF i
            <6>2. [r0 EXCEPT !.at = i] \in Records
              BY <6>1, <3>2, Updated
            <6> QED BY <6>2, <5>3 DEF Goto, i
          <5>4. CASE AfterLast(p, r0)
            BY <5>4, <5>1, <3>2 DEF AfterLast, Exit
          <5> QED BY <5>2, <5>3, <5>4 DEF NextAddress
        <4> QED BY <4>1, <4>2
      <3>5. PICK r \in Records, place \in {"read", "store", "exit"}, c \in {0, 1} :
              \/ proc' = [proc EXCEPT ![p] = [r EXCEPT !.pc = place]]
              \/ proc' = [proc EXCEPT ![p] = [r EXCEPT !.pc = place, !.code = c]]
        BY <3>4
      <3>6. proc'[p].pc = place
        BY <3>3, <3>5 DEF Records
      <3> QED BY <3>6, <2>1
    <2> QED BY <2>2, <2>3
  <1>2. CASE KeyAdd(p)
    <2>1. /\ o.pc = "store" /\ o.cmd \in {"add", "update"} /\ o.req \in Resolved
          /\ o.found[o.at] \in Range(WantedBy(o))
      BY <1>2, <1>0 DEF KeyAdd, CommandOK, PlaceOK
    <2>2. k.desc = DescFor(o, o.found[o.at])
      BY <1>2 DEF KeyAdd, Desc, DescFor
    <2>3. MayTouch(p, k)
      <3>1. k.desc \in DescsOf(o) /\ IsOurs(k)
        BY <2>1, <2>2, <1>0, OursAt DEF IsOurs
      <3>2. DescsOf(o) = Descs(p)
        BY DEF Descs, DescsOf, Desc, DescFor, Wanted, WantedBy
      <3>3. o.cmd = "add" /\ ~o.blind => k.serial >= o.since
        <4>1. \E i \in DOMAIN WantedBy(o) : o.found[o.at] = WantedBy(o)[i]
          BY <2>1, <1>0, WantedType
        <4> QED BY <4>1, <2>1, <2>2, <1>0 DEF SearchOK, Searched
      <3> QED BY <2>1, <3>1, <3>2, <3>3 DEF MayTouch
    <2>4. proc'[p] # o
      <3>0. proc \in [Procs -> Records]
        BY DEF CredsInv
      <3>1. CASE NextStore(p, o)
        <4>1. PICK r : proc' = [proc EXCEPT ![p] = r] /\ r # o
          BY <3>1, <2>1, <1>0, NextStoreOK
        <4> QED BY <4>1, <3>0
      <3>2. ASSUME NEW i, Goto(p, [o EXCEPT !.key = i], "setperm")
            PROVE  proc'[p] # o
        <4>1. proc'[p].pc = "setperm"
          BY <3>0, <3>2, <1>0 DEF Goto, Records
        <4> QED BY <4>1, <2>1
      <3> QED BY <1>2, <3>1, <3>2 DEF KeyAdd, AfterKeyAdd
    <2> QED BY <2>3, <2>4
  <1>3. CASE SetPerm(p) \/ Drop(p)
    <2>1. o.pc \in {"setperm", "drop"} /\ k.serial = o.key /\ NextStore(p, o)
      BY <1>3 DEF SetPerm, Drop
    <2>2. PICK r : proc' = [proc EXCEPT ![p] = r] /\ r # o
      BY <2>1, <1>0, NextStoreOK
    <2>3. proc \in [Procs -> Records]
      BY DEF CredsInv
    <2> QED BY <2>1, <2>2, <2>3, MayTouchIts
  <1> QED
    BY <1>1, <1>2, <1>3 DEF Tool, Main, ReadKeyring, Describe

(* key_search and cifscreds_add: no step changes or removes a key unless a *)
(* tool makes it that was asked for that key, whatever the others do.      *)
THEOREM NoKeyIsLost == CredsSpec => StashedIsKept
  <1>1. CredsInv /\ [CredsNext]_cvars =>
          [\A k \in keyring :
             k \in keyring' \/ \E p \in Procs : proc'[p] # proc[p] /\ MayTouch(p, k)]_cvars
    <2> SUFFICES ASSUME CredsInv, CredsNext, NEW k \in keyring, k \notin keyring'
                 PROVE  \E p \in Procs : proc'[p] # proc[p] /\ MayTouch(p, k)
      OBVIOUS
    <2> QED BY StepKeeps DEF CredsNext
  <1> QED BY <1>1, AlwaysInv, PTL DEF CredsSpec, StashedIsKept
-----------------------------------------------------------------------------
(* clear and clearall.  A clear that could see and has had no error leaves *)
(* no old key at the addresses it has done with; what it is about to       *)
(* unlink is the key of its address, and there is only one.                *)
UniqueDescs == \A k, l \in keyring : IsOurs(k) /\ k.desc = l.desc => k = l

Named(r) ==
  Addresses[r.req.host] # "fails" /\ {r.req.user, r.req.domain} \cap BadNames = {}

NoneOld(r, K, a) == \A k \in K : k.desc = DescFor(r, a) => k.serial >= r.since

ClearOK(r, K, n) ==
  /\ r.since <= n
  /\ r.cmd = "clear" /\ r.pc = "unlink" =>
       \A k \in K : k.serial = r.key => k.desc = DescFor(r, WantedBy(r)[r.at])
  /\ ~r.errors /\ ~r.blind =>
       /\ r.cmd = "clear" /\ r.pc \in {"read", "describe", "unlink"} =>
            \A i \in DOMAIN WantedBy(r) : i < r.at => NoneOld(r, K, WantedBy(r)[i])
       /\ r.cmd = "clear" /\ r.pc = "exit" /\ Named(r) =>
            \A a \in Range(WantedBy(r)) : NoneOld(r, K, a)
       /\ r.cmd = "clearall" /\ r.pc = "exit" =>
            \A k \in K : IsOurs(k) => k.serial >= r.since

ClearInv == UniqueDescs /\ \A p \in Procs : ClearOK(proc[p], keyring, serial)

(* A step of another tool.                                                 *)
LEMMA OthersStayClear ==
  ASSUME NEW r, NEW K, NEW n, NEW f, NEW K2, NEW n2,
         KeysOK(K, n), ToolOK(r, K, n, f), ClearOK(r, K, n), Evolves(K, n, K2, n2)
  PROVE  ClearOK(r, K2, n2)
  <1>0. /\ r.since \in Nat /\ r.key \in Nat /\ n \in Nat /\ n2 \in Nat /\ n <= n2
        /\ r.since <= n /\ r.since <= n2
    BY DEF ToolOK, Records, KeysOK, Evolves, ClearOK
  <1>1. ASSUME NEW a, NoneOld(r, K, a)
        PROVE  NoneOld(r, K2, a)
    BY <1>0, <1>1 DEF NoneOld, Evolves
  <1>2. r.pc = "unlink" => \A k \in K2 : k.serial = r.key =>
          \E l \in K : l.serial = k.serial /\ l.desc = k.desc
    BY <1>0 DEF ToolOK, KeyOK, Evolves
  <1>3. (\A k \in K : IsOurs(k) => k.serial >= r.since)
          => \A k \in K2 : IsOurs(k) => k.serial >= r.since
    BY <1>0 DEF Evolves, IsOurs
  <1> QED BY <1>0, <1>1, <1>2, <1>3 DEF ClearOK

LEMMA ClearMoves ==
  ASSUME CredsInv, ClearInv, NEW p \in Procs, NEW r,
         proc' = [proc EXCEPT ![p] = r],
         Evolves(keyring, serial, keyring', serial'), UniqueDescs',
         ClearOK(r, keyring', serial')
  PROVE  ClearInv'
  <1>1. proc'[p] = r /\ \A q \in Procs : q # p => proc'[q] = proc[q]
    BY DEF CredsInv
  <1>2. ASSUME NEW q \in Procs
        PROVE  ClearOK(proc[q], keyring', serial')
    BY OthersStayClear DEF CredsInv, ClearInv
  <1> QED BY <1>1, <1>2 DEF ClearInv

(* What a step that only goes on keeps.                                    *)
Same(r, s) ==
  s.cmd = r.cmd /\ s.req = r.req /\ s.since = r.since /\ s.errors = r.errors /\ s.blind = r.blind

LEMMA WentTo ==
  ASSUME NEW p \in Procs, NEW r \in Records, NEW place, Goto(p, r, place)
  PROVE  \E s : /\ proc' = [proc EXCEPT ![p] = s] /\ Same(r, s)
                /\ s.pc = place /\ s.at = r.at /\ s.key = r.key
  <1> DEFINE s == [r EXCEPT !.pc = place]
  <1>1. Same(r, s) /\ s.pc = place /\ s.at = r.at /\ s.key = r.key
    BY DEF Records, Same
  <1>2. proc' = [proc EXCEPT ![p] = s]
    BY DEF Goto
  <1> HIDE DEF s
  <1> QED BY <1>1, <1>2

LEMMA WentOut ==
  ASSUME NEW p \in Procs, NEW r \in Records, NEW c, Exit(p, r, c)
  PROVE  \E s : proc' = [proc EXCEPT ![p] = s] /\ Same(r, s) /\ s.pc = "exit"
  <1> DEFINE s == [r EXCEPT !.pc = "exit", !.code = c]
  <1>1. Same(r, s) /\ s.pc = "exit"
    BY DEF Records, Same
  <1>2. proc' = [proc EXCEPT ![p] = s]
    BY DEF Exit
  <1> HIDE DEF s
  <1> QED BY <1>1, <1>2

LEMMA WentPast ==
  ASSUME NEW p \in Procs, NEW r \in Records, AfterLast(p, r),
         Wanted(p) \in Seq(Targets)
  PROVE  \E s : /\ proc' = [proc EXCEPT ![p] = s] /\ Same(r, s)
                /\ r.cmd \in {"clear", "clearall"} => s.pc = "exit"
  <1>1. CASE r.cmd = "add"
    <2> DEFINE r0 == [r EXCEPT !.at = 1, !.found = Wanted(p)]
    <2>1. r0 \in Records
      BY Updated
    <2>2. Same(r, r0) /\ Goto(p, r0, "store")
      BY <1>1 DEF AfterLast, Same, Records
    <2> HIDE DEF r0
    <2> QED BY <1>1, <2>1, <2>2, WentTo DEF Same
  <1>2. CASE r.cmd = "update" /\ r.found # <<>>
    <2> DEFINE r0 == [r EXCEPT !.at = 1]
    <2>1. r0 \in Records
      BY Updated
    <2>2. Same(r, r0) /\ Goto(p, r0, "store")
      BY <1>2 DEF AfterLast, Same, Records
    <2> HIDE DEF r0
    <2> QED BY <1>2, <2>1, <2>2, WentTo DEF Same
  <1>3. CASE ~(r.cmd = "add") /\ ~(r.cmd = "update" /\ r.found # <<>>)
    <2>1. \E c : Exit(p, r, c)
      BY <1>3 DEF AfterLast
    <2> QED BY <2>1, WentOut
  <1> QED BY <1>1, <1>2, <1>3

(* Past an address of a clear: the next one is read, or it was the last.   *)
LEMMA WentOn ==
  ASSUME NEW p \in Procs, NEW r \in Records, NextAddress(p, r),
         Wanted(p) \in Seq(Targets)
  PROVE  \E s : /\ proc' = [proc EXCEPT ![p] = s] /\ Same(r, s)
                /\ r.cmd = "clear" =>
                     \/ s.pc = "read" /\ s.at = r.at + 1
                     \/ s.pc = "exit" /\ r.at >= Len(Wanted(p))
  <1>1. CASE r.at < Len(Wanted(p))
    <2> DEFINE i == r.at + 1
               r0 == [r EXCEPT !.at = i]
    <2>0. i \in Nat
      BY Fields
    <2>1. r0 \in Records
      BY <2>0, Updated
    <2>2. Same(r, r0) /\ Goto(p, r0, "read") /\ r0.at = r.at + 1
      BY <1>1 DEF NextAddress, Same, Records
    <2> HIDE DEF r0
    <2> QED BY <2>1, <2>2, WentTo DEF Same
  <1>2. CASE ~(r.at < Len(Wanted(p)))
    <2>1. AfterLast(p, r) /\ r.at >= Len(Wanted(p))
      BY <1>2, Fields DEF NextAddress
    <2> QED BY <2>1, WentPast
  <1> QED BY <1>1, <1>2

(* A clear has no old key left at its address, and goes on.                *)
LEMMA ClearedAddress ==
  ASSUME NEW p \in Procs, NEW r \in Records, NEW K, NEW n,
         r.req = proc[p].req, r.cmd = "clear", r.req \in Resolved, r.since <= n,
         r.at \in DOMAIN WantedBy(r),
         ~r.errors /\ ~r.blind =>
           \A i \in DOMAIN WantedBy(r) : i <= r.at => NoneOld(r, K, WantedBy(r)[i]),
         NextAddress(p, r)
  PROVE  \E s : proc' = [proc EXCEPT ![p] = s] /\ ClearOK(s, K, n)
  <1>1. /\ Wanted(p) = WantedBy(r) /\ WantedBy(r) \in Seq(Targets) /\ r.at \in Nat
        /\ Len(WantedBy(r)) \in Nat
        /\ DOMAIN WantedBy(r) = 1 .. Len(WantedBy(r))
        /\ Range(WantedBy(r)) = {WantedBy(r)[i] : i \in DOMAIN WantedBy(r)}
    <2>1. Wanted(p) = WantedBy(r)
      BY DEF Wanted, WantedBy
    <2> QED BY <2>1, WantedType, Fields
  <1>2. PICK s : /\ proc' = [proc EXCEPT ![p] = s] /\ Same(r, s)
                 /\ \/ s.pc = "read" /\ s.at = r.at + 1
                    \/ s.pc = "exit" /\ r.at >= Len(WantedBy(r))
    BY <1>1, WentOn
  <1>3. WantedBy(s) = WantedBy(r) /\ \A a : NoneOld(r, K, a) <=> NoneOld(s, K, a)
    BY <1>2 DEF Same, WantedBy, NoneOld, DescFor
  <1>4. s.cmd = "clear" /\ s.since <= n /\ s.pc # "unlink"
    BY <1>2 DEF Same
  <1>5. ASSUME ~s.errors, ~s.blind, s.pc = "read", NEW i \in DOMAIN WantedBy(s), i < s.at
        PROVE  NoneOld(s, K, WantedBy(s)[i])
    <2>1. i <= r.at /\ ~r.errors /\ ~r.blind
      BY <1>1, <1>2, <1>3, <1>5 DEF Same
    <2> QED BY <2>1, <1>3, <1>5
  <1>6. ASSUME ~s.errors, ~s.blind, s.pc = "exit", NEW a \in Range(WantedBy(s))
        PROVE  NoneOld(s, K, a)
    <2>1. PICK i \in DOMAIN WantedBy(r) : a = WantedBy(r)[i]
      BY <1>1, <1>3, <1>6
    <2>2. i <= r.at /\ ~r.errors /\ ~r.blind
      BY <1>1, <1>2, <1>6 DEF Same
    <2> QED BY <2>1, <2>2, <1>3
  <1> QED BY <1>2, <1>4, <1>5, <1>6 DEF ClearOK

LEMMA NotClearing ==
  ASSUME NEW s, s.cmd \notin {"clear", "clearall"}, NEW n, s.since <= n, NEW K
  PROVE  ClearOK(s, K, n)
  BY DEF ClearOK

(* Keys that only disappear.                                               *)
LEMMA Fewer ==
  ASSUME CredsInv, UniqueDescs, keyring' \subseteq keyring, UNCHANGED serial
  PROVE  Evolves(keyring, serial, keyring', serial') /\ UniqueDescs'
  BY DEF CredsInv, KeysOK, Evolves, UniqueDescs, IsOurs

LEMMA ClearMain ==
  ASSUME CredsInv, ClearInv, NEW p \in Procs, NEW req \in Requests, Main(p, req)
  PROVE  ClearInv'
  <1> DEFINE o == proc[p]
             start(c) == [o EXCEPT !.req = req, !.cmd = c, !.since = serial]
  <1>0. /\ o \in Records /\ serial \in Nat /\ o.cmd = "none" /\ o.at = 1
        /\ UNCHANGED <<keyring, serial>>
    BY Now DEF Main, CommandOK, PlaceOK
  <1>1. Evolves(keyring, serial, keyring', serial') /\ UniqueDescs' /\ ClearOK(o, keyring, serial)
    BY <1>0, Fewer DEF ClearInv
  <1>2. req.word \in DOMAIN Candidates
    BY CredsAssumption
  <1>3. Meant(req.word) \subseteq Cmds
    BY <1>2 DEF Meant, Candidates, Cmds
  <1>4. ASSUME NEW c \in Meant(req.word)
        PROVE  /\ start(c) \in Records /\ start(c).cmd = c /\ start(c).req = req
               /\ start(c).since = serial /\ start(c).at = 1
    BY <1>0, <1>3 DEF Records
  <1> HIDE DEF start
  <1>5. \E s : proc' = [proc EXCEPT ![p] = s] /\ ClearOK(s, keyring, serial)
    <2>1. CASE Exit(p, [o EXCEPT !.req = req], 1)
      <3> DEFINE r == [o EXCEPT !.req = req]
      <3>1. r \in Records /\ r.cmd = "none" /\ r.since = o.since
        BY <1>0 DEF Records
      <3> HIDE DEF r
      <3>2. PICK s : proc' = [proc EXCEPT ![p] = s] /\ Same(r, s)
        BY <2>1, <3>1, WentOut DEF r
      <3> QED BY <3>1, <3>2, <1>1 DEF Same, ClearOK
    <2>2. ASSUME NEW c \in Meant(req.word), Exit(p, start(c), 1), c # "clearall",
                 Addresses[req.host] = "fails" \/ {req.user, req.domain} \cap BadNames # {}
          PROVE  \E s : proc' = [proc EXCEPT ![p] = s] /\ ClearOK(s, keyring, serial)
      <3>1. PICK s : /\ proc' = [proc EXCEPT ![p] = s] /\ Same(start(c), s)
                     /\ s.pc = "exit"
        BY <2>2, <1>4, WentOut
      <3>2. s.cmd = c /\ s.req = req /\ s.since = serial
        BY <3>1, <1>4 DEF Same
      <3>3. s.since <= serial /\ ~(s.cmd = "clear" /\ Named(s)) /\ s.cmd # "clearall"
        BY <3>2, <2>2, <1>0 DEF Named
      <3>4. ClearOK(s, keyring, serial)
        BY <3>1, <3>3 DEF ClearOK
      <3> QED BY <3>1, <3>4
    <2>3. ASSUME NEW c \in Meant(req.word), Goto(p, start(c), "read"),
                 c # "clearall" => Addresses[req.host] # "fails"
          PROVE  \E s : proc' = [proc EXCEPT ![p] = s] /\ ClearOK(s, keyring, serial)
      <3>1. PICK s : /\ proc' = [proc EXCEPT ![p] = s] /\ Same(start(c), s)
                     /\ s.pc = "read" /\ s.at = start(c).at
        BY <2>3, <1>4, WentTo
      <3>2. s.cmd = c /\ s.req = req /\ s.since = serial /\ s.at = 1
        BY <3>1, <1>4 DEF Same
      <3>3. c # "clearall" => DOMAIN WantedBy(s) = 1 .. Len(WantedBy(s))
        <4>1. c # "clearall" =>
                start(c).req \in Resolved /\ WantedBy(s) = WantedBy(start(c))
          BY <2>3, <1>4, <3>2 DEF Resolved, WantedBy
        <4> QED BY <4>1, <1>4, WantedType
      <3>4. \A i \in DOMAIN WantedBy(s) : c # "clearall" => ~(i < s.at)
        BY <3>2, <3>3
      <3>5. s.since <= serial
        BY <3>2, <1>0
      <3>6. ClearOK(s, keyring, serial)
        BY <3>1, <3>2, <3>4, <3>5 DEF ClearOK
      <3> QED BY <3>1, <3>6
    <2> QED BY <2>1, <2>2, <2>3 DEF Main, start
  <1> QED BY <1>0, <1>1, <1>5, ClearMoves

LEMMA ClearReadKeyring ==
  ASSUME CredsInv, ClearInv, NEW p \in Procs, ReadKeyring(p)
  PROVE  ClearInv'
  <1> DEFINE o == proc[p]
             read == [o EXCEPT !.list = {k.serial : k \in keyring}]
             blind == [o EXCEPT !.list = {}, !.blind = TRUE]
  <1>0. /\ o \in Records /\ o.pc = "read" /\ UNCHANGED <<keyring, serial>>
        /\ ClearOK(o, keyring, serial) /\ {k.serial : k \in keyring} \subseteq Nat
    BY Now DEF ReadKeyring, ClearInv, KeysOK
  <1>1. Evolves(keyring, serial, keyring', serial') /\ UniqueDescs'
    BY <1>0, Fewer DEF ClearInv
  <1>2. /\ read \in Records /\ Same(o, read) /\ read.at = o.at
        /\ blind \in Records /\ blind.cmd = o.cmd /\ blind.blind /\ blind.since = o.since
    <2>1. read \in Records /\ blind \in Records
      BY <1>0, Updated
    <2> QED BY <2>1, <1>0 DEF Records, Same
  <1>3. Goto(p, read, "describe") \/ Goto(p, blind, "describe")
    BY DEF ReadKeyring
  <1> HIDE DEF read, blind
  <1>4. \E s : proc' = [proc EXCEPT ![p] = s] /\ ClearOK(s, keyring, serial)
    <2>1. CASE Goto(p, read, "describe")
      <3>1. PICK s : /\ proc' = [proc EXCEPT ![p] = s] /\ Same(read, s)
                     /\ s.pc = "describe" /\ s.at = o.at
        BY <2>1, <1>2, WentTo
      <3>2. Same(o, s)
        BY <3>1, <1>2 DEF Same
      <3>3. WantedBy(s) = WantedBy(o) /\ \A a : NoneOld(o, keyring, a) <=> NoneOld(s, keyring, a)
        BY <3>2 DEF Same, WantedBy, NoneOld, DescFor
      <3>4. ~s.errors /\ ~s.blind /\ s.cmd = "clear" =>
              \A i \in DOMAIN WantedBy(s) : i < s.at => NoneOld(s, keyring, WantedBy(s)[i])
        BY <3>1, <3>2, <3>3, <1>0 DEF Same, ClearOK
      <3> QED BY <3>1, <3>2, <3>4, <1>0 DEF Same, ClearOK
    <2>2. CASE Goto(p, blind, "describe")
      <3>1. PICK s : /\ proc' = [proc EXCEPT ![p] = s] /\ Same(blind, s) /\ s.pc = "describe"
        BY <2>2, <1>2, WentTo
      <3> QED BY <3>1, <1>2, <1>0 DEF Same, ClearOK
    <2> QED BY <2>1, <2>2, <1>3
  <1> QED BY <1>0, <1>1, <1>4, ClearMoves

LEMMA ClearDescribe ==
  ASSUME CredsInv, ClearInv, NEW p \in Procs, Describe(p)
  PROVE  ClearInv'
  <1> DEFINE o == proc[p]
  <1>0. /\ o \in Records /\ o.pc = "describe" /\ serial \in Nat /\ UNCHANGED <<keyring, serial>>
        /\ ClearOK(o, keyring, serial) /\ ListOK(o, keyring) /\ KeysOK(keyring, serial)
        /\ o.cmd \in {"add", "update", "clear", "clearall"} /\ o.since <= serial
        /\ o.cmd # "clearall" => /\ o.req \in Resolved /\ o.at \in DOMAIN WantedBy(o)
                                 /\ WantedBy(o) \in Seq(Targets)
                                 /\ WantedBy(o)[o.at] \in Targets
        /\ o.found \in Seq(Targets)
    <2>1. /\ o \in Records /\ o.pc = "describe" /\ serial \in Nat
          /\ UNCHANGED <<keyring, serial>> /\ CommandOK(o, serial) /\ PlaceOK(o)
          /\ ListOK(o, keyring) /\ KeysOK(keyring, serial)
      BY Now DEF Describe
    <2>2. o.cmd # "clearall" => o.req \in Resolved /\ o.at \in DOMAIN WantedBy(o)
      BY <2>1 DEF CommandOK, PlaceOK
    <2> QED BY <2>1, <2>2, WantedType, Fields DEF CommandOK, ClearInv, ClearOK, Cmds
  <1>w. /\ Wanted(p) = WantedBy(o) /\ \A a : Desc(p, a) = DescFor(o, a)
    BY DEF Wanted, WantedBy, Desc, DescFor
  <1>1. Evolves(keyring, serial, keyring', serial') /\ UniqueDescs'
    BY <1>0, Fewer DEF ClearInv
  <1>2. ASSUME NEW k \in Matching(p), Found(p, k)
        PROVE  \E s : proc' = [proc EXCEPT ![p] = s] /\ ClearOK(s, keyring, serial)
    <2>1. CASE o.cmd = "add"
      <3>1. Exit(p, o, 1)
        BY <1>2, <2>1 DEF Found
      <3>2. PICK s : proc' = [proc EXCEPT ![p] = s] /\ Same(o, s)
        BY <3>1, <1>0, WentOut
      <3> QED BY <3>2, <2>1, <1>0, NotClearing DEF Same
    <2>2. CASE o.cmd = "update"
      <3> DEFINE r0 == [o EXCEPT !.found = Append(@, WantedBy(o)[o.at])]
      <3>1. Append(o.found, WantedBy(o)[o.at]) \in Seq(Targets)
        BY <1>0, <2>2
      <3>2. r0 \in Records /\ Same(o, r0) /\ NextAddress(p, r0)
        <4>1. r0 \in Records
          BY <3>1, <1>0, Updated
        <4> QED BY <4>1, <1>0, <1>w, <1>2, <2>2 DEF Found, Same, Records
      <3> HIDE DEF r0
      <3>3. PICK s : proc' = [proc EXCEPT ![p] = s] /\ Same(r0, s)
        BY <3>2, <2>2, <1>0, <1>w, WentOn
      <3> QED BY <3>2, <3>3, <2>2, <1>0, NotClearing DEF Same
    <2>3. CASE o.cmd \in {"clear", "clearall"}
      <3> DEFINE r0 == [o EXCEPT !.key = k.serial]
      <3>1. k \in keyring /\ k.serial \in Nat
        BY <1>0 DEF Matching, KeysOK
      <3>2. r0 \in Records /\ Same(o, r0) /\ Goto(p, r0, "unlink")
            /\ r0.key = k.serial /\ r0.at = o.at
        <4>1. r0 \in Records
          BY <3>1, <1>0, Updated
        <4> QED BY <4>1, <1>0, <1>2, <2>3 DEF Found, Same, Records
      <3> HIDE DEF r0
      <3>3. PICK s : /\ proc' = [proc EXCEPT ![p] = s] /\ Same(r0, s)
                     /\ s.pc = "unlink" /\ s.at = o.at /\ s.key = k.serial
        BY <3>2, WentTo
      <3>4. /\ Same(o, s) /\ WantedBy(s) = WantedBy(o)
            /\ \A a : DescFor(s, a) = DescFor(o, a)
            /\ \A a : NoneOld(o, keyring, a) <=> NoneOld(s, keyring, a)
        BY <3>2, <3>3 DEF Same, WantedBy, NoneOld, DescFor
      <3>5. ASSUME s.cmd = "clear", NEW l \in keyring, l.serial = s.key
            PROVE  l.desc = DescFor(s, WantedBy(s)[s.at])
        <4>1. l = k
          BY <3>1, <3>3, <3>5, <1>0 DEF KeysOK
        <4>2. k.desc = DescFor(o, WantedBy(o)[o.at])
          BY <3>5, <3>4, <1>w DEF Matching, Same
        <4> QED BY <4>1, <4>2, <3>3, <3>4
      <3>6. ~s.errors /\ ~s.blind /\ s.cmd = "clear" =>
              \A i \in DOMAIN WantedBy(s) : i < s.at => NoneOld(s, keyring, WantedBy(s)[i])
        BY <3>3, <3>4, <1>0 DEF Same, ClearOK
      <3> QED BY <3>3, <3>4, <3>5, <3>6, <1>0 DEF Same, ClearOK
    <2> QED BY <2>1, <2>2, <2>3, <1>0
  <1>3. ASSUME Matching(p) = {}, o.cmd = "clearall", AfterLast(p, o)
        PROVE  \E s : proc' = [proc EXCEPT ![p] = s] /\ ClearOK(s, keyring, serial)
    <2>1. \E c : Exit(p, o, c)
      BY <1>3 DEF AfterLast
    <2>2. PICK s : proc' = [proc EXCEPT ![p] = s] /\ Same(o, s) /\ s.pc = "exit"
      BY <2>1, <1>0, WentOut
    <2>3. ASSUME ~o.blind, NEW k \in keyring, IsOurs(k)
          PROVE  k.serial >= o.since
      <3>1. k.serial \notin o.list /\ k.serial \in Nat /\ o.since \in Nat
        BY <2>3, <1>3, <1>0, Fields DEF Matching, KeysOK
      <3> QED BY <3>1, <2>3, <1>0 DEF ListOK
    <2> QED BY <2>2, <2>3, <1>0, <1>3 DEF Same, ClearOK
  <1>4. ASSUME Matching(p) = {}, o.cmd = "clear", NextAddress(p, o)
        PROVE  \E s : proc' = [proc EXCEPT ![p] = s] /\ ClearOK(s, keyring, serial)
    <2>1. ASSUME ~o.errors, ~o.blind, NEW i \in DOMAIN WantedBy(o), i <= o.at
          PROVE  NoneOld(o, keyring, WantedBy(o)[i])
      <3>1. i \in Nat /\ o.at \in Nat
        BY <1>0, <1>4, WantedType, Fields
      <3>2. CASE i < o.at
        BY <3>2, <2>1, <1>0, <1>4 DEF ClearOK
      <3>3. CASE i = o.at
        <4> SUFFICES ASSUME NEW k \in keyring, k.desc = DescFor(o, WantedBy(o)[o.at])
                     PROVE  k.serial >= o.since
          BY <3>3 DEF NoneOld
        <4>1. k.serial \notin o.list /\ k.serial \in Nat /\ o.since \in Nat
          BY <1>4, <1>0, <1>w, Fields DEF Matching, KeysOK
        <4> QED BY <4>1, <2>1, <1>0 DEF ListOK
      <3> QED BY <3>1, <3>2, <3>3, <2>1
    <2> QED BY <2>1, <1>0, <1>4, ClearedAddress
  <1>5. ASSUME o.cmd \in {"add", "update"}, NextAddress(p, o)
        PROVE  \E s : proc' = [proc EXCEPT ![p] = s] /\ ClearOK(s, keyring, serial)
    <2>1. PICK s : proc' = [proc EXCEPT ![p] = s] /\ Same(o, s)
      BY <1>5, <1>0, <1>w, WentOn
    <2> QED BY <2>1, <1>5, <1>0, NotClearing DEF Same
  <1>6. \E s : proc' = [proc EXCEPT ![p] = s] /\ ClearOK(s, keyring, serial)
    BY <1>2, <1>3, <1>4, <1>5, <1>0 DEF Describe
  <1> QED BY <1>0, <1>1, <1>6, ClearMoves

LEMMA ClearUnlink ==
  ASSUME CredsInv, ClearInv, NEW p \in Procs, Unlink(p)
  PROVE  ClearInv'
  <1> DEFINE o == proc[p]
             removed == [o EXCEPT !.removed = TRUE]
             failed == [o EXCEPT !.errors = TRUE]
  <1>0. /\ o \in Records /\ o.pc = "unlink" /\ serial \in Nat
        /\ UNCHANGED serial /\ keyring' \subseteq keyring
        /\ ClearOK(o, keyring, serial) /\ o.since <= serial
        /\ o.cmd \in {"clear", "clearall"}
        /\ o.cmd = "clear" => o.req \in Resolved /\ o.at \in DOMAIN WantedBy(o)
        /\ KeyOK(o, keyring, serial, failures)
    <2>1. /\ o \in Records /\ o.pc = "unlink" /\ serial \in Nat
          /\ UNCHANGED serial /\ keyring' \subseteq keyring
          /\ CommandOK(o, serial) /\ PlaceOK(o) /\ KeyOK(o, keyring, serial, failures)
      BY Now DEF Unlink
    <2> QED BY <2>1 DEF CommandOK, PlaceOK, ClearInv, ClearOK
  <1>1. Evolves(keyring, serial, keyring', serial') /\ UniqueDescs' /\ UniqueDescs
    BY <1>0, Fewer DEF ClearInv
  <1>2. ASSUME NEW r \in {removed, failed}
        PROVE  /\ r \in Records /\ r.cmd = o.cmd /\ r.req = o.req /\ r.since = o.since
               /\ r.at = o.at /\ r.blind = o.blind
               /\ r = removed => r.errors = o.errors
               /\ r = failed => r.errors
    <2>1. removed \in Records /\ failed \in Records
      BY <1>0, Updated
    <2> QED BY <2>1, <1>0 DEF Records
  <1>3. \/ /\ AfterUnlink(p, removed)
           /\ \E k \in keyring : k.serial = o.key /\ keyring' = keyring \ {k}
        \/ AfterUnlink(p, failed)
    BY DEF Unlink
  <1> HIDE DEF removed, failed
  <1>4. ASSUME NEW r \in {removed, failed}, AfterUnlink(p, r),
               r = failed \/ \E k \in keyring : k.serial = o.key /\ keyring' = keyring \ {k}
        PROVE  \E s : proc' = [proc EXCEPT ![p] = s] /\ ClearOK(s, keyring', serial)
    <2>1. CASE o.cmd = "clearall"
      <3>1. Goto(p, r, "read") /\ r \in Records
        BY <2>1, <1>2, <1>4 DEF AfterUnlink
      <3>2. PICK s : proc' = [proc EXCEPT ![p] = s] /\ Same(r, s) /\ s.pc = "read"
        BY <3>1, WentTo
      <3>3. s.cmd = "clearall" /\ s.since <= serial
        BY <3>2, <2>1, <1>0, <1>2 DEF Same
      <3> QED BY <3>2, <3>3 DEF ClearOK
    <2>2. CASE o.cmd = "clear"
      <3>1. NextAddress(p, r) /\ r \in Records /\ r.cmd = "clear" /\ r.req = o.req
            /\ r.since = o.since /\ r.at = o.at /\ WantedBy(r) = WantedBy(o)
            /\ \A a : DescFor(r, a) = DescFor(o, a)
        BY <2>2, <1>2, <1>4 DEF AfterUnlink, WantedBy, DescFor
      <3>2. ASSUME ~r.errors, ~r.blind, NEW i \in DOMAIN WantedBy(o), i <= o.at,
                   NEW k \in keyring', k.desc = DescFor(o, WantedBy(o)[i])
            PROVE  k.serial >= o.since
        <4>1. /\ ~o.errors /\ ~o.blind /\ r # failed /\ k \in keyring
              /\ i \in Nat /\ o.at \in Nat
          BY <3>2, <1>0, <1>2, <2>2, WantedType, Fields
        <4>2. CASE i < o.at
          BY <4>1, <4>2, <3>2, <2>2, <1>0 DEF ClearOK, NoneOld
        <4>3. CASE i = o.at
          <5>1. PICK l \in keyring : l.serial = o.key /\ keyring' = keyring \ {l}
            BY <4>1, <1>4
          <5>2. l.desc = k.desc /\ IsOurs(l)
            BY <5>1, <4>3, <3>2, <2>2, <1>0 DEF ClearOK, KeyOK
          <5>3. l = k
            BY <5>2, <4>1, <1>1 DEF UniqueDescs
          <5> QED BY <5>1, <5>3
        <4> QED BY <4>1, <4>2, <4>3, <3>2
      <3>3. ~r.errors /\ ~r.blind =>
              \A i \in DOMAIN WantedBy(r) : i <= r.at => NoneOld(r, keyring', WantedBy(r)[i])
        BY <3>1, <3>2 DEF NoneOld
      <3> QED BY <3>1, <3>3, <2>2, <1>0, ClearedAddress
    <2> QED BY <2>1, <2>2, <1>0
  <1>5. PICK s : proc' = [proc EXCEPT ![p] = s] /\ ClearOK(s, keyring', serial)
    BY <1>3, <1>4
  <1> QED BY <1>0, <1>1, <1>5, ClearMoves

(* The steps of add and update: a key keeps its description.               *)
LEMMA StoreKeepsDescs ==
  ASSUME CredsInv, UniqueDescs, NEW p \in Procs, KeyAdd(p) \/ SetPerm(p) \/ Drop(p)
  PROVE  Evolves(keyring, serial, keyring', serial') /\ UniqueDescs'
  <1> DEFINE o == proc[p]
  <1>0. serial \in Nat /\ KeysOK(keyring, serial)
    BY Now
  <1>1. CASE keyring' \subseteq keyring /\ UNCHANGED serial
    BY <1>1, Fewer
  <1>2. ASSUME NEW d, {k \in keyring : k.desc = d} = {},
               keyring' = keyring \cup {Key(serial, d, p, "default")}, serial' = serial + 1
        PROVE  Evolves(keyring, serial, keyring', serial') /\ UniqueDescs'
    <2> DEFINE k == Key(serial, d, p, "default")
    <2>1. k.serial = serial /\ k.desc = d /\ keyring' = keyring \cup {k}
      BY <1>2 DEF Key
    <2> HIDE DEF k
    <2>2. Evolves(keyring, serial, keyring', serial')
      BY <2>1, <1>0, <1>2 DEF Evolves
    <2>3. UniqueDescs'
      BY <2>1, <1>2 DEF UniqueDescs, IsOurs
    <2> QED BY <2>2, <2>3
  <1>3. ASSUME NEW k0 \in keyring, NEW k, NEW S, k0 \in S, k.serial = k0.serial,
               k.desc = k0.desc, k.perm \in {k0.perm, "restricted"},
               \A l \in keyring : IsOurs(l) /\ l.desc = k0.desc => l \in S,
               keyring' = (keyring \ S) \cup {k}, UNCHANGED serial
        PROVE  Evolves(keyring, serial, keyring', serial') /\ UniqueDescs'
    <2>1. Evolves(keyring, serial, keyring', serial')
      BY <1>0, <1>3 DEF Evolves
    <2>2. UniqueDescs'
      BY <1>3 DEF UniqueDescs, IsOurs
    <2> QED BY <2>1, <2>2
  <1>4. CASE KeyAdd(p)
    <2> DEFINE d == Desc(p, o.found[o.at])
               old == {k \in keyring : k.desc = d}
    <2>1. \/ /\ old = {} /\ serial' = serial + 1
             /\ keyring' = keyring \cup {Key(serial, d, p, "default")}
          \/ /\ \E k \in old : keyring' = (keyring \ old) \cup {[k EXCEPT !.pass = p]}
             /\ UNCHANGED serial
          \/ UNCHANGED <<keyring, serial>>
      BY <1>4 DEF KeyAdd
    <2> HIDE DEF d
    <2>2. ASSUME NEW k0 \in old, keyring' = (keyring \ old) \cup {[k0 EXCEPT !.pass = p]},
                 UNCHANGED serial
          PROVE  Evolves(keyring, serial, keyring', serial') /\ UniqueDescs'
      <3> DEFINE k == [k0 EXCEPT !.pass = p]
      <3>1. k.serial = k0.serial /\ k.desc = k0.desc /\ k.perm = k0.perm
        BY <1>0 DEF KeysOK, Key
      <3>2. keyring' = (keyring \ old) \cup {k}
        BY <2>2
      <3>3. \A l \in keyring : IsOurs(l) /\ l.desc = k0.desc => l \in old
        BY <2>2
      <3> HIDE DEF k, old
      <3>4. k0 \in keyring
        BY <2>2 DEF old
      <3> QED BY <3>1, <3>2, <3>3, <3>4, <2>2, <1>3
    <2> QED BY <2>1, <2>2, <1>1, <1>2
  <1>5. CASE SetPerm(p)
    <2> DEFINE mine == {k \in keyring : k.serial = o.key}
    <2>1. \/ \E k \in mine : keyring' = (keyring \ mine) \cup {[k EXCEPT !.perm = "restricted"]}
          \/ UNCHANGED keyring
      BY <1>5 DEF SetPerm
    <2>2. UNCHANGED serial
      BY <1>5 DEF SetPerm
    <2>3. ASSUME NEW k0 \in mine,
                 keyring' = (keyring \ mine) \cup {[k0 EXCEPT !.perm = "restricted"]}
          PROVE  Evolves(keyring, serial, keyring', serial') /\ UniqueDescs'
      <3> DEFINE k == [k0 EXCEPT !.perm = "restricted"]
      <3>1. k.serial = k0.serial /\ k.desc = k0.desc /\ k.perm = "restricted"
        BY <1>0 DEF KeysOK, Key
      <3>2. keyring' = (keyring \ mine) \cup {k}
        BY <2>3
      <3>3. \A l \in keyring : IsOurs(l) /\ l.desc = k0.desc => l \in mine
        BY <2>3 DEF UniqueDescs
      <3> HIDE DEF k, mine
      <3>4. k0 \in keyring
        BY <2>3 DEF mine
      <3> QED BY <3>1, <3>2, <3>3, <3>4, <2>2, <2>3, <1>3
    <2> QED BY <2>1, <2>2, <2>3, <1>1
  <1>6. CASE Drop(p)
    BY <1>6, <1>1 DEF Drop
  <1> QED BY <1>4, <1>5, <1>6

LEMMA ClearStore ==
  ASSUME CredsInv, ClearInv, NEW p \in Procs, KeyAdd(p) \/ SetPerm(p) \/ Drop(p)
  PROVE  ClearInv'
  <1> DEFINE o == proc[p]
  <1>0. /\ o \in Records /\ o.pc \in {"store", "setperm", "drop"} /\ serial \in Nat
        /\ o.cmd \in {"add", "update"} /\ o.since <= serial /\ o.since \in Nat
        /\ KeysOK(keyring, serial)
    <2>1. /\ o \in Records /\ o.pc \in {"store", "setperm", "drop"} /\ serial \in Nat
          /\ CommandOK(o, serial) /\ KeysOK(keyring, serial)
      BY Now DEF KeyAdd, SetPerm, Drop
    <2> QED BY <2>1, Fields DEF CommandOK
  <1>1. Evolves(keyring, serial, keyring', serial') /\ UniqueDescs'
    BY StoreKeepsDescs DEF ClearInv
  <1>2. \/ NextStore(p, o) \/ Goto(p, o, "drop")
        \/ \E i \in Nat : Goto(p, [o EXCEPT !.key = i], "setperm")
    BY <1>0 DEF KeyAdd, AfterKeyAdd, SetPerm, Drop, KeysOK
  <1>3. \E s : proc' = [proc EXCEPT ![p] = s] /\ Same(o, s)
    <2>1. CASE NextStore(p, o)
      <3>1. CASE Goto(p, [o EXCEPT !.at = @ + 1], "store")
        <4> DEFINE i == o.at + 1
                   r0 == [o EXCEPT !.at = i]
        <4>0. i \in Nat
          BY <1>0, Fields
        <4>1. r0 \in Records
          BY <4>0, <1>0, Updated
        <4>2. Same(o, r0) /\ Goto(p, r0, "store")
          BY <3>1, <1>0 DEF Same, Records
        <4> HIDE DEF r0
        <4> QED BY <4>1, <4>2, WentTo DEF Same
      <3>2. CASE Exit(p, o, 0)
        BY <3>2, <1>0, WentOut
      <3> QED BY <2>1, <3>1, <3>2 DEF NextStore
    <2>2. CASE Goto(p, o, "drop")
      BY <2>2, <1>0, WentTo
    <2>3. ASSUME NEW i \in Nat, Goto(p, [o EXCEPT !.key = i], "setperm")
          PROVE  \E s : proc' = [proc EXCEPT ![p] = s] /\ Same(o, s)
      <3> DEFINE r0 == [o EXCEPT !.key = i]
      <3>1. r0 \in Records
        BY <1>0, Updated
      <3>2. Same(o, r0) /\ Goto(p, r0, "setperm")
        BY <2>3, <1>0 DEF Same, Records
      <3> HIDE DEF r0
      <3> QED BY <3>1, <3>2, WentTo DEF Same
    <2> QED BY <1>2, <2>1, <2>2, <2>3
  <1>4. PICK s : proc' = [proc EXCEPT ![p] = s] /\ Same(o, s)
    BY <1>3
  <1>5. s.cmd \notin {"clear", "clearall"} /\ s.since <= serial'
    BY <1>0, <1>1, <1>4 DEF Same, Evolves
  <1> QED BY <1>1, <1>4, <1>5, NotClearing, ClearMoves

LEMMA ClearStep == CredsInv /\ ClearInv /\ [CredsNext]_cvars => ClearInv'
  <1> SUFFICES ASSUME CredsInv, ClearInv, [CredsNext]_cvars PROVE ClearInv'
    OBVIOUS
  <1>1. ASSUME NEW p \in Procs, Tool(p) PROVE ClearInv'
    BY <1>1, ClearMain, ClearReadKeyring, ClearDescribe, ClearUnlink, ClearStore DEF Tool
  <1>2. CASE UNCHANGED cvars
    BY <1>2 DEF cvars, ClearInv, UniqueDescs, IsOurs
  <1> QED BY <1>1, <1>2 DEF CredsNext

LEMMA InSetOnce ==
  ASSUME NEW S, IsFiniteSet(S)
  PROVE  /\ SetToSeq(S) \in Seq(S)
         /\ \A i, j \in DOMAIN SetToSeq(S) : SetToSeq(S)[i] = SetToSeq(S)[j] => i = j
  <1>1. Cardinality(S) \in Nat /\ ExistsBijection(1 .. Cardinality(S), S)
    BY FS_CardinalityType
  <1>2. \E f \in [1 .. Cardinality(S) -> S] : IsInjective(f)
    BY <1>1 DEF ExistsBijection, Bijection, Injection
  <1>3. IsInjective(SetToSeq(S))
    BY <1>2 DEF SetToSeq
  <1> QED BY <1>3, SetToSeqType DEF IsInjective

LEMMA ClearInit == CredsInit => ClearInv
  <1> SUFFICES ASSUME CredsInit PROVE ClearInv
    OBVIOUS
  <1>1. PICK old \in SUBSET Stashed :
          LET ds == SetToSeq(Others) \o SetToSeq(old) IN
            /\ keyring = {IF ds[i] \in Others THEN Key(i, ds[i], "other", "default")
                          ELSE Key(i, ds[i], "earlier", "restricted") : i \in DOMAIN ds}
            /\ serial = Len(ds) + 1
    BY DEF CredsInit
  <1> DEFINE s == SetToSeq(Others)
             t == SetToSeq(old)
             ds == s \o t
             of(i) == IF ds[i] \in Others THEN Key(i, ds[i], "other", "default")
                      ELSE Key(i, ds[i], "earlier", "restricted")
  <1>2. IsFiniteSet(Others) /\ IsFiniteSet(old)
    BY CredsAssumption, FS_Subset
  <1>3. s \in Seq(Others) /\ t \in Seq(old)
        /\ \A i, j \in DOMAIN t : t[i] = t[j] => i = j
    BY <1>2, InSetOnce
  <1>4. keyring = {of(i) : i \in DOMAIN ds} /\ \A i : of(i).desc = ds[i]
        /\ serial = Len(ds) + 1
    BY <1>1 DEF Key
  <1> HIDE DEF s, t, of
  <1>5. s \in Seq(Others \cup old) /\ t \in Seq(Others \cup old)
    BY <1>3, SeqMono
  <1>6. /\ DOMAIN ds = 1 .. Len(s) + Len(t) /\ Len(s) \in Nat /\ Len(t) \in Nat
        /\ Len(ds) \in Nat
        /\ \A i \in DOMAIN ds : ds[i] \notin Others =>
             i - Len(s) \in DOMAIN t /\ ds[i] = t[i - Len(s)]
    <2>1. /\ ds \in Seq(Others \cup old) /\ Len(ds) = Len(s) + Len(t)
          /\ Len(s) \in Nat /\ Len(t) \in Nat
          /\ \A i \in 1 .. Len(ds) : ds[i] = IF i <= Len(s) THEN s[i] ELSE t[i - Len(s)]
      BY <1>5, ConcatProperties
    <2>2. \A i \in 1 .. Len(s) : s[i] \in Others
      BY <1>3
    <2> HIDE DEF ds
    <2>3. DOMAIN ds = 1 .. Len(s) + Len(t) /\ DOMAIN t = 1 .. Len(t)
      BY <2>1, <1>3
    <2> QED BY <2>1, <2>2, <2>3
  <1> HIDE DEF ds
  <1>7. UniqueDescs
    <2> SUFFICES ASSUME NEW k \in keyring, NEW l \in keyring, IsOurs(k), k.desc = l.desc
                 PROVE  k = l
      BY DEF UniqueDescs
    <2>1. PICK i \in DOMAIN ds : k = of(i)
      BY <1>4
    <2>2. PICK j \in DOMAIN ds : l = of(j)
      BY <1>4
    <2>3. ds[i] = ds[j] /\ ds[i] \notin Others
      BY <2>1, <2>2, <1>4 DEF IsOurs
    <2>4. i - Len(s) = j - Len(s)
      BY <2>3, <1>3, <1>6
    <2>5. i = j
      BY <2>4, <1>6
    <2> QED BY <2>1, <2>2, <2>5
  <1>8. ClearOK(Idle, keyring, serial)
    <2>1. Idle.cmd = "none" /\ Idle.since = 0 /\ serial \in Nat
      BY <1>4, <1>6 DEF Idle
    <2> QED BY <2>1, NotClearing
  <1>9. proc = [p \in Procs |-> Idle]
    BY DEF CredsInit
  <1> QED BY <1>7, <1>8, <1>9 DEF ClearInv

(* cifscreds_clear and cifscreds_clear_all: when a tool has ended without  *)
(* an error, and could always read the keyring, the keys it was asked for  *)
(* that existed when it began are gone, whatever the other tools did.      *)
THEOREM ClearedKeysAreGone == CredsSpec => []ClearedIsGone
  <1>1. CredsInv /\ ClearInv => ClearedIsGone
    <2> SUFFICES ASSUME CredsInv, ClearInv, NEW p \in Procs, NEW k \in keyring,
                        proc[p].pc = "exit", ~proc[p].errors, ~proc[p].blind,
                        \/ proc[p].cmd = "clearall" /\ IsOurs(k)
                        \/ /\ proc[p].cmd = "clear" /\ Named(proc[p])
                           /\ k.desc \in Descs(p)
                 PROVE  k.serial >= proc[p].since
      BY DEF ClearedIsGone, Named
    <2>1. ClearOK(proc[p], keyring, serial)
      BY DEF ClearInv
    <2>2. CASE proc[p].cmd = "clearall" /\ IsOurs(k)
      BY <2>1, <2>2 DEF ClearOK
    <2>3. CASE proc[p].cmd = "clear" /\ Named(proc[p]) /\ k.desc \in Descs(p)
      <3>1. PICK a \in Range(WantedBy(proc[p])) : k.desc = DescFor(proc[p], a)
        BY <2>3 DEF Descs, Desc, DescFor, Wanted, WantedBy
      <3> QED BY <3>1, <2>1, <2>3 DEF ClearOK, NoneOld
    <2> QED BY <2>2, <2>3
  <1> QED BY <1>1, InitInv, StepInv, ClearInit, ClearStep, PTL DEF CredsSpec
-----------------------------------------------------------------------------
(***************************************************************************)
(* The kernel's request: cifs.upcall on its way to a token.                *)
(*                                                                         *)
(* UpcallInv says what each stage has settled: the host is the one of the  *)
(* description or, once the plain principal of that one was asked for, the *)
(* one its address has (HostOK); the best cache is the user's, and as good *)
(* as any that was looked at (BestOK, LongestOK); a principal that is      *)
(* packed is one the scheme allows and the KDC knows (PrincipalOK).        *)
(***************************************************************************)
Plain(h) == [host |-> LowerHost[h], domain |-> NoVal]
Tickets == {"ticket", "guess", "reverse", "pack"}

HostOK ==
  \/ host = Value("host")
  \/ /\ "t" \in Range(request.opts)
     /\ host = NameOf[Address]
     /\ Plain(Value("host")) \in asked

BestOK ==
  /\ best.end \in 0..LastEnd
  /\ \/ best = NoCache
     \/ best.name \in DOMAIN ends /\ CacheOwner[best.name] = Uid
     \/ best.name = "default" /\ Value("user") \in KeytabUsers

LongestOK ==
  renewals = 0 => \A i \in 1..scanned :
    CacheOwner[CacheNames[i]] = Uid => ends[CacheNames[i]] <= best.end

PrincipalOK ==
  /\ pc \in {"guess", "reverse", "pack"} => Plain(host) \in asked
  /\ pc = "guess" => Canonical[host] # "dotted"
  /\ pc = "pack" => princ \in Services /\ princ \in Scheme(host) /\ best # NoCache

UpcallInv ==
  /\ ends \in [Range(CacheNames) -> 0..LastEnd]
  /\ renewals \in Nat
  /\ scanned \in 0..Len(CacheNames)
  /\ pc \in Tickets => scanned = Len(CacheNames)
  /\ tryDns => "t" \in Range(request.opts)
  /\ pc \in {"scan"} \cup Tickets => Value("ver") <= CIFS_SPNEGO_UPCALL_VERSION /\ HostOK
  /\ BestOK /\ LongestOK /\ PrincipalOK
  /\ TicketIsRight

(* What the description says does not change while the helper runs.        *)
LEMMA RequestStays ==
  ASSUME request' = request
  PROVE  /\ \A n : Value(n)' = Value(n) /\ Has(n)' = Has(n)
         /\ Address' = Address /\ Uid' = Uid
  BY DEF Value, Has, Values, Address, Uid, Legacy

(* A key stays right while its request does and more is asked for; a token *)
(* is the only kind of key that has something to be right about.           *)
LEMMA KeyStays ==
  ASSUME UpcallInv, request' = request, asked \subseteq asked', DOMAIN ends' = DOMAIN ends,
         wkey' = wkey \/ wkey'.kind # "spnego"
  PROVE  TicketIsRight'
PROOF
  <1>1. CASE wkey' = wkey
    BY <1>1, RequestStays DEF UpcallInv, TicketIsRight, Scheme
  <1>2. CASE wkey'.kind # "spnego"
    BY <1>2 DEF TicketIsRight
  <1> QED
    BY <1>1, <1>2

(* A step that has nothing to do with hosts, caches and principals.        *)
LEMMA Onward ==
  ASSUME UpcallInv,
         UNCHANGED <<request, best, scanned, host, tryDns, princ, asked, ends, renewals>>,
         pc' = pc \/ pc' \notin {"scan"} \cup Tickets,
         wkey' = wkey \/ wkey'.kind # "spnego"
  PROVE  UpcallInv'
PROOF
  <1>1. BestOK' /\ LongestOK'
    BY RequestStays DEF UpcallInv, BestOK, LongestOK, NoCache
  <1>2. PrincipalOK'
    BY DEF UpcallInv, PrincipalOK, Tickets, Plain, Scheme, NoCache
  <1>3. pc' \in {"scan"} \cup Tickets =>
          (Value("ver") <= CIFS_SPNEGO_UPCALL_VERSION)' /\ HostOK'
    BY RequestStays DEF UpcallInv, HostOK, Plain, CIFS_SPNEGO_UPCALL_VERSION
  <1>4. TicketIsRight'
    BY KeyStays
  <1> QED
    BY <1>1, <1>2, <1>3, <1>4 DEF UpcallInv, Tickets
-----------------------------------------------------------------------------
LEMMA UpcallHeadInv ==
  ASSUME UpcallInv, UpcallMain \/ Resolve \/ Map \/ Out \/ HelperDies \/ Complete
  PROVE  UpcallInv'
PROOF
  <1>1. CASE UpcallMain
    <2>1. /\ UNCHANGED <<request, best, scanned, host, princ, asked, ends, renewals, wkey>>
          /\ tryDns' = ("t" \in Range(request.opts))
          /\ pc' \in {"out", "map", "resolve", "decode"}
      BY <1>1 DEF UpcallMain, Keep
    <2>2. BestOK' /\ LongestOK' /\ PrincipalOK' /\ TicketIsRight'
      BY <2>1, RequestStays, KeyStays DEF UpcallInv, BestOK, LongestOK, PrincipalOK, NoCache
    <2> QED
      BY <2>1, <2>2 DEF UpcallInv, Tickets
  <1>2. CASE Resolve
    BY <1>2, Onward DEF Resolve, Instantiate, GiveUp, Local, Keep, Tickets
  <1>3. CASE Map
    <2>1. wkey' = wkey \/ wkey'.kind # "spnego"
      BY <1>3 DEF Map, Instantiate, GiveUp, Kinds
    <2>2. pc' = "out"
      BY <1>3 DEF Map, Instantiate, GiveUp
    <2> QED
      BY <1>3, <2>1, <2>2, Onward DEF Map, Local, Keep, Tickets
  <1>4. CASE Out
    BY <1>4, Onward DEF Out, NegateOnError, JustReturn, Local, Keep, Tickets
  <1>5. CASE HelperDies
    BY <1>5, Onward DEF HelperDies, Local, Keep, Tickets
  <1>6. CASE Complete
    BY <1>6, Onward DEF Complete, Local, Keep, Negated
  <1> QED
    BY <1>1, <1>2, <1>3, <1>4, <1>5, <1>6

LEMMA DecodeInv ==
  ASSUME UpcallInv, Decode
  PROVE  UpcallInv'
PROOF
  <1>1. CASE pc' = "scan"
    <2>1. /\ UNCHANGED <<request, best, scanned, tryDns, princ, asked, ends, renewals, wkey>>
          /\ host' = Value("host") /\ Value("ver") <= CIFS_SPNEGO_UPCALL_VERSION
      BY <1>1 DEF Decode, GiveUp, Keep
    <2>2. BestOK' /\ LongestOK' /\ PrincipalOK' /\ TicketIsRight'
      BY <1>1, <2>1, RequestStays, KeyStays
         DEF UpcallInv, BestOK, LongestOK, PrincipalOK, NoCache
    <2>3. HostOK' /\ (Value("ver") <= CIFS_SPNEGO_UPCALL_VERSION)'
      BY <2>1, RequestStays DEF HostOK, CIFS_SPNEGO_UPCALL_VERSION
    <2> QED
      BY <1>1, <2>1, <2>2, <2>3 DEF UpcallInv, Tickets
  <1>2. CASE pc' # "scan"
    BY <1>2, Onward DEF Decode, GiveUp, Keep, Tickets
  <1> QED
    BY <1>1, <1>2

LEMMA ScanInv ==
  ASSUME UpcallInv, Scan
  PROVE  UpcallInv'
PROOF
  <1> DEFINE c == CacheNames[scanned + 1]
  <1>1. /\ UNCHANGED <<request, host, tryDns, princ, asked, ends, renewals, wkey, pc>>
        /\ pc = "scan" /\ scanned < Len(CacheNames) /\ scanned' = scanned + 1
        /\ best' = IF Better(c) THEN [name |-> c, end |-> ends[c]] ELSE best
    BY DEF Scan, Keep
  <1>2. /\ scanned \in Nat /\ scanned' \in 0..Len(CacheNames)
        /\ c \in DOMAIN ends /\ ends[c] \in 0..LastEnd /\ best.end \in 0..LastEnd
    <2>1. scanned \in Nat /\ Len(CacheNames) \in Nat /\ scanned + 1 \in 1..Len(CacheNames)
      BY <1>1, UpcallAssumption DEF UpcallInv, UpcallAssumption
    <2>2. c \in Range(CacheNames)
      BY <2>1, UpcallAssumption DEF UpcallAssumption
    <2> QED
      BY <1>1, <2>1, <2>2 DEF UpcallInv, BestOK
  <1>3. best.end <= best'.end /\ best'.end \in 0..LastEnd
        /\ (CacheOwner[c] = Uid => ends[c] <= best'.end)
    BY <1>1, <1>2, UpcallAssumption DEF Better, UpcallAssumption
  <1>4. BestOK'
    BY <1>1, <1>2, <1>3, RequestStays DEF UpcallInv, BestOK, Better, NoCache
  <1>5. LongestOK'
    <2> SUFFICES ASSUME renewals = 0, NEW i \in 1..(scanned + 1),
                        CacheOwner[CacheNames[i]] = Uid
                 PROVE  ends[CacheNames[i]] <= best'.end
      BY <1>1, RequestStays DEF LongestOK
    <2>1. CASE i = scanned + 1
      BY <1>3, <2>1
    <2>2. CASE i # scanned + 1
      <3>1. i \in 1..scanned /\ i \in 1..Len(CacheNames)
        BY <1>1, <1>2, <2>2, UpcallAssumption DEF UpcallAssumption
      <3>2. ends[CacheNames[i]] <= best.end
        BY <3>1 DEF UpcallInv, LongestOK
      <3>3. ends[CacheNames[i]] \in 0..LastEnd
        <4>1. CacheNames[i] \in Range(CacheNames)
          BY <3>1, UpcallAssumption DEF UpcallAssumption
        <4> QED
          BY <4>1 DEF UpcallInv
      <3> QED
        BY <1>2, <1>3, <3>2, <3>3, UpcallAssumption DEF UpcallAssumption
    <2> QED
      BY <2>1, <2>2
  <1>6. PrincipalOK' /\ TicketIsRight'
    BY <1>1, KeyStays DEF PrincipalOK
  <1>7. HostOK' /\ (Value("ver") <= CIFS_SPNEGO_UPCALL_VERSION)'
    BY <1>1, RequestStays DEF UpcallInv, HostOK, Plain, CIFS_SPNEGO_UPCALL_VERSION
  <1> QED
    BY <1>1, <1>2, <1>4, <1>5, <1>6, <1>7 DEF UpcallInv, Tickets

LEMMA KeytabInv ==
  ASSUME UpcallInv, Keytab
  PROVE  UpcallInv'
PROOF
  <1>1. /\ UNCHANGED <<request, scanned, host, tryDns, princ, asked, ends, renewals, wkey>>
        /\ pc = "scan" /\ pc' = "ticket" /\ scanned = Len(CacheNames)
        /\ \/ /\ Value("user") \in KeytabUsers
              /\ best' = [name |-> "default", end |-> LastEnd]
           \/ best' = best
    BY DEF Keytab, Keep
  <1>2. BestOK'
    BY <1>1, RequestStays, UpcallAssumption DEF UpcallInv, BestOK, NoCache, UpcallAssumption
  <1>3. LongestOK'
    <2> SUFFICES ASSUME renewals = 0, NEW i \in 1..scanned,
                        CacheOwner[CacheNames[i]] = Uid
                 PROVE  ends[CacheNames[i]] <= best'.end
      BY <1>1, RequestStays DEF LongestOK
    <2>1. CacheNames[i] \in Range(CacheNames)
      BY <1>1, UpcallAssumption DEF UpcallAssumption
    <2>2. ends[CacheNames[i]] \in 0..LastEnd /\ ends[CacheNames[i]] <= best.end
      BY <2>1 DEF UpcallInv, LongestOK
    <2> QED
      BY <1>1, <2>2
  <1>4. PrincipalOK' /\ TicketIsRight'
    BY <1>1, KeyStays DEF PrincipalOK
  <1>5. HostOK' /\ (Value("ver") <= CIFS_SPNEGO_UPCALL_VERSION)'
    BY <1>1, RequestStays DEF UpcallInv, HostOK, Plain, CIFS_SPNEGO_UPCALL_VERSION
  <1> QED
    BY <1>1, <1>2, <1>3, <1>4, <1>5 DEF UpcallInv, Tickets

(* Tickets for a principal keeps what was settled about host and caches.    *)
LEMMA AskedInv ==
  ASSUME UpcallInv, pc \in Tickets, pc' \in Tickets,
         UNCHANGED <<request, best, scanned, tryDns, ends, renewals, wkey, host>>,
         asked \subseteq asked', PrincipalOK'
  PROVE  UpcallInv'
PROOF
  <1>1. BestOK' /\ LongestOK'
    BY RequestStays DEF UpcallInv, BestOK, LongestOK, NoCache
  <1>2. HostOK' /\ (Value("ver") <= CIFS_SPNEGO_UPCALL_VERSION)'
    BY RequestStays DEF UpcallInv, HostOK, Plain, CIFS_SPNEGO_UPCALL_VERSION
  <1>3. TicketIsRight'
    BY KeyStays
  <1> QED
    BY <1>1, <1>2, <1>3 DEF UpcallInv

LEMMA TicketInv ==
  ASSUME UpcallInv, AskTicket \/ GuessDomain
  PROVE  UpcallInv'
PROOF
  <1>1. CASE AskTicket
    <2> DEFINE p == Principal(NoVal)
    <2>1. /\ UNCHANGED <<request, best, scanned, tryDns, ends, renewals, wkey, host>>
          /\ pc = "ticket" /\ princ' = p /\ asked' = asked \cup {p}
          /\ \/ Granted(p) /\ pc' = "pack"
             \/ pc' = IF Dotted THEN "reverse" ELSE "guess"
      BY <1>1 DEF AskTicket, Ask, Keep
    <2>2. p = Plain(host) /\ p \in Scheme(host)
      BY DEF Principal, Plain, Scheme
    <2>3. Granted(p) => p \in Services /\ best # NoCache
      BY DEF Granted
    <2> HIDE DEF p
    <2>4. pc' \in Tickets /\ (pc' = "guess" => Canonical[host] # "dotted")
          /\ (pc' = "pack" => Granted(p))
      BY <2>1 DEF Tickets, Dotted
    <2>5. PrincipalOK'
      BY <2>1, <2>2, <2>3, <2>4 DEF PrincipalOK, Plain, Scheme, NoCache
    <2> QED
      BY <2>1, <2>4, <2>5, AskedInv DEF Tickets
  <1>2. CASE GuessDomain /\ pc' # "out"
    <2> DEFINE p == Principal(Canonical[host])
    <2>1. /\ UNCHANGED <<request, best, scanned, tryDns, ends, renewals, wkey, host>>
          /\ pc = "guess" /\ princ' = p /\ asked' = asked \cup {p}
          /\ (Granted(p) /\ pc' = "pack") \/ pc' = "reverse"
      BY <1>2 DEF GuessDomain, Ask, GiveUp, Keep
    <2>2. Canonical[host] # "dotted" /\ Plain(host) \in asked
      BY <2>1 DEF UpcallInv, PrincipalOK
    <2>3. p \in Scheme(host)
      BY <2>2 DEF Principal, Scheme
    <2>4. Granted(p) => p \in Services /\ best # NoCache
      BY DEF Granted
    <2> HIDE DEF p
    <2>5. pc' \in Tickets /\ pc' # "guess" /\ (pc' = "pack" => Granted(p))
      BY <2>1 DEF Tickets
    <2>6. PrincipalOK'
      BY <2>1, <2>2, <2>3, <2>4, <2>5 DEF PrincipalOK, Plain, Scheme, NoCache
    <2> QED
      BY <2>1, <2>5, <2>6, AskedInv DEF Tickets
  <1>3. CASE GuessDomain /\ pc' = "out"
    BY <1>3, Onward DEF GuessDomain, Ask, GiveUp, Keep, Tickets
  <1> QED
    BY <1>1, <1>2, <1>3

LEMMA ReverseNameInv ==
  ASSUME UpcallInv, ReverseName
  PROVE  UpcallInv'
PROOF
  <1>1. CASE pc' = "ticket"
    <2>1. /\ UNCHANGED <<request, best, scanned, princ, asked, ends, renewals, wkey>>
          /\ pc = "reverse" /\ tryDns /\ tryDns' = FALSE /\ host' = NameOf[Address]
      BY <1>1 DEF ReverseName, ByName, TryOnce, GiveUp, Keep
    <2>2. Plain(Value("host")) \in asked /\ "t" \in Range(request.opts)
      BY <2>1 DEF UpcallInv, PrincipalOK, HostOK, Tickets
    <2>3. HostOK' /\ (Value("ver") <= CIFS_SPNEGO_UPCALL_VERSION)'
      BY <2>1, <2>2, RequestStays
         DEF UpcallInv, HostOK, Plain, Tickets, CIFS_SPNEGO_UPCALL_VERSION
    <2>4. BestOK' /\ LongestOK' /\ PrincipalOK' /\ TicketIsRight'
      BY <1>1, <2>1, RequestStays, KeyStays
         DEF UpcallInv, BestOK, LongestOK, PrincipalOK, NoCache
    <2> QED
      BY <1>1, <2>1, <2>3, <2>4 DEF UpcallInv, Tickets
  <1>2. CASE pc' # "ticket"
    BY <1>2, Onward DEF ReverseName, ByName, GiveUp, Keep, Tickets
  <1> QED
    BY <1>1, <1>2

(* The only step that makes a token.                                       *)
LEMMA PackInv ==
  ASSUME UpcallInv, Pack
  PROVE  UpcallInv'
PROOF
  <1> DEFINE token == [kind |-> "spnego", ver |-> Value("ver"),
                       oid |-> Last(KnownSec).value, principal |-> princ,
                       cache |-> best]
  <1>1. /\ UNCHANGED <<request, have, best, scanned, host, tryDns, princ, asked, ends, renewals>>
        /\ pc = "pack" /\ pc' = "out" /\ (wkey' = token \/ wkey' = wkey)
    BY DEF Pack, Instantiate, Local, Keep
  <1>2. CASE wkey' = wkey
    BY <1>1, <1>2, Onward DEF Tickets
  <1>3. CASE wkey' = token
    <2>1. /\ wkey'.ver = Value("ver") /\ wkey'.principal = princ /\ wkey'.cache = best
      BY <1>3
    <2>2. /\ Value("ver") <= CIFS_SPNEGO_UPCALL_VERSION
          /\ princ \in Services /\ princ \in Scheme(host) /\ HostOK
          /\ \/ best.name \in DOMAIN ends /\ CacheOwner[best.name] = Uid
             \/ best.name = "default" /\ Value("user") \in KeytabUsers
      BY <1>1 DEF UpcallInv, PrincipalOK, BestOK, Tickets
    <2>3. \/ princ \in Scheme(Value("host"))
          \/ /\ "t" \in Range(request.opts) /\ princ \in Scheme(NameOf[Address])
             /\ [host |-> LowerHost[Value("host")], domain |-> NoVal] \in asked
      BY <2>2 DEF HostOK, Plain
    <2>4. TicketIsRight'
      BY <1>1, <2>1, <2>2, <2>3, RequestStays
         DEF TicketIsRight, Scheme, CIFS_SPNEGO_UPCALL_VERSION
    <2>5. BestOK' /\ LongestOK' /\ PrincipalOK'
      BY <1>1, RequestStays DEF UpcallInv, BestOK, LongestOK, PrincipalOK, NoCache
    <2> QED
      BY <1>1, <2>4, <2>5 DEF UpcallInv, Tickets
  <1> QED
    BY <1>1, <1>2, <1>3

LEMMA RenewInv ==
  ASSUME UpcallInv, NEW c \in DOMAIN ends, Renew(c)
  PROVE  UpcallInv'
PROOF
  <1>1. /\ UNCHANGED <<request, pc, best, scanned, host, tryDns, princ, asked, wkey>>
        /\ renewals' \in Nat /\ renewals' # 0
        /\ ends' \in [Range(CacheNames) -> 0..LastEnd]
        /\ DOMAIN ends' = DOMAIN ends
    BY DEF Renew, Local, UpcallInv
  <1>2. BestOK' /\ LongestOK' /\ PrincipalOK' /\ TicketIsRight'
    BY <1>1, RequestStays, KeyStays
       DEF UpcallInv, BestOK, LongestOK, PrincipalOK, NoCache, Plain, Scheme
  <1>3. pc' \in {"scan"} \cup Tickets =>
          (Value("ver") <= CIFS_SPNEGO_UPCALL_VERSION)' /\ HostOK'
    BY <1>1, RequestStays DEF UpcallInv, HostOK, Plain, CIFS_SPNEGO_UPCALL_VERSION
  <1> QED
    BY <1>1, <1>2, <1>3 DEF UpcallInv, Tickets

LEMMA UpcallStepInv == UpcallInv /\ [UpcallNext]_uvars => UpcallInv'
PROOF
  <1> SUFFICES ASSUME UpcallInv, [UpcallNext]_uvars PROVE UpcallInv'
    OBVIOUS
  <1>1. CASE UNCHANGED uvars
    BY <1>1, Onward DEF uvars
  <1> QED
    BY <1>1, UpcallHeadInv, DecodeInv, ScanInv, KeytabInv, TicketInv, ReverseNameInv,
       PackInv, RenewInv DEF UpcallNext, Helper

LEMMA UpcallInitInv == UpcallInit => UpcallInv
PROOF
  <1> SUFFICES ASSUME UpcallInit PROVE UpcallInv
    OBVIOUS
  <1>1. Len(CacheNames) \in Nat /\ LastEnd \in Nat
    BY UpcallAssumption DEF UpcallAssumption
  <1>2. BestOK /\ LongestOK
    BY <1>1 DEF UpcallInit, BestOK, LongestOK, NoCache
  <1>3. TicketIsRight
    BY DEF UpcallInit, TicketIsRight
  <1> QED
    BY <1>1, <1>2, <1>3 DEF UpcallInit, UpcallInv, PrincipalOK, Tickets

LEMMA UpcallInvHolds == UpcallSpec => []UpcallInv
  BY UpcallInitInv, UpcallStepInv, PTL DEF UpcallSpec

(* For every description, directory of caches, KDC and name service: a     *)
(* token is for the server that was asked for, or the one its address      *)
(* names, and from a cache of the user the description names.              *)
THEOREM TokensAreRight == UpcallSpec => []TicketIsRight
PROOF
  <1>1. UpcallInv => TicketIsRight
    BY DEF UpcallInv
  <1> QED
    BY <1>1, UpcallInvHolds, PTL

(* And however many caches there are, the one that was chosen lasts        *)
(* longest.                                                                *)
THEOREM LongestCacheIsChosen == UpcallSpec => []BestIsLongest
PROOF
  <1>1. UpcallInv => BestIsLongest
    <2> SUFFICES ASSUME UpcallInv, pc = "ticket", renewals = 0,
                        NEW c \in DOMAIN ends, CacheOwner[c] = Uid
                 PROVE  ends[c] <= best.end
      BY DEF BestIsLongest
    <2>1. c \in Range(CacheNames) /\ scanned = Len(CacheNames)
      BY DEF UpcallInv, Tickets
    <2>2. PICK i \in 1..Len(CacheNames) : CacheNames[i] = c
      BY <2>1, UpcallAssumption DEF UpcallAssumption, Range
    <2> QED
      BY <2>1, <2>2 DEF UpcallInv, LongestOK
  <1> QED
    BY <1>1, UpcallInvHolds, PTL
=============================================================================
