---------------------------- MODULE MountHelper ----------------------------
(***************************************************************************)
(* mount.cifs (cifsacl/mount.cifs.c, resolve_host.c): the helper forks, a  *)
(* child without privileges assembles the mount information in memory they *)
(* share, and the parent mounts with it, address after address.  The child *)
(* may be killed at any step.                                              *)
(*                                                                         *)
(* An option is a key and a value; an option string a sequence of such     *)
(* words, of which the last may be cut; a name a short sequence; an        *)
(* address list a sequence.                                                *)
(***************************************************************************)
EXTENDS Integers, Sequences, FiniteSets, SequencesExt

CONSTANTS
  Commands,     (* the command lines with their user, environment, fstab   *)
  CredFile,     (* file names to the values in the credentials file        *)
  AddrInfos,    (* what getaddrinfo may answer: entries [tcp, addr]        *)
  Accounts,     (* the names getpwnam and getgrnam know                    *)
  TooLong,      (* a password longer than the buffer                       *)
  NoVal,
  MAX_OPTIONS   (* MAX_OPTIONS_LEN, in words: an address at least          *)

(* Options are lists; an address list names an address, and getaddrinfo    *)
(* answers with an entry at least.                                         *)
IsList(s) == s \in Seq(ToSet(s))
ASSUME HelperAssumption ==
  /\ MAX_OPTIONS \in Nat \ {0}
  /\ \A c \in Commands :
       \A opts \in {c.opts} \cup (IF c.fstab = NoVal THEN {} ELSE {c.fstab.opts}) :
         /\ IsList(opts)
         /\ \A o \in ToSet(opts) :
              /\ o.key # "part"
              /\ o.key = "ip" /\ o.val # NoVal => IsList(o.val) /\ o.val # <<>>
  /\ \A f \in DOMAIN CredFile : IsList(CredFile[f])
  /\ \A entries \in AddrInfos : IsList(entries) /\ entries # <<>>

EX_USAGE == 1
EX_SYSERR == 2
EX_FILEIO == 16
EX_FAIL == 32

VARIABLES
  cmd,       (* the command line                                           *)
  info,      (* parsed_info, the shared memory                             *)
  child,     (* its place, the options and lines it has yet to parse, ids  *)
  parent,    (* its place, the addresses not yet tried, already_uppercased *)
  requests,  (* the mounts asked of the kernel, with its answers           *)
  mtab       (* the entry is there                                         *)

hvars == <<cmd, info, child, parent, requests, mtab>>

NoInfo == [flags |-> {}, options |-> <<>>, addrlist |-> <<>>, host |-> <<>>, share |-> <<>>,
           prefix |-> <<>>, username |-> NoVal, domain |-> NoVal, password |-> NoVal,
           got_user |-> FALSE, got_password |-> FALSE, nomtab |-> FALSE, fakemnt |-> FALSE]

IdKeys == {"uid", "cruid", "gid", "backupuid", "backupgid"}
NoIds == [k \in IdKeys |-> NoVal]

HInit ==
  /\ cmd \in Commands
  /\ info = NoInfo
  /\ child = [pc |-> "none", data |-> <<>>, cred |-> <<>>, ids |-> NoIds, rc |-> 0]
  /\ parent = [pc |-> "main", rc |-> 0, addrs |-> <<>>, upper |-> FALSE]
  /\ requests = <<>>
  /\ mtab = FALSE

(* strlcat to a buffer leaves out what does not fit, in the middle of a    *)
(* word or not.                                                            *)
Word(k, v) == [key |-> k, val |-> v]
Whole(word) == IF word.key = "part" THEN word.val ELSE word
Part(word) == IF word.key = "part" THEN word ELSE Word("part", word)
Cuts(words) ==
  LET kept == SubSeq(words, 1, MAX_OPTIONS)
  IN  IF Len(words) <= MAX_OPTIONS THEN {words}
      ELSE {kept, Append(kept, Part(words[MAX_OPTIONS + 1]))}
-----------------------------------------------------------------------------
(* mount_exit: the password is cleared and the shared memory unmapped.     *)
MountExit(rc) ==
  /\ parent' = [parent EXCEPT !.pc = "done", !.rc = rc]
  /\ info' = [info EXCEPT !.password = NoVal]

(* The last of -r and -w counts.                                           *)
ReadOnly(switches) ==
  LET rw == SelectSeq(switches, LAMBDA s : s \in {"r", "w"}) IN rw # <<>> /\ Last(rw) = "r"

(* -h, -V and a switch getopt does not know print something, and that is   *)
(* it.                                                                     *)
OnlyPrints == ToSet(cmd.switches) \cap {"h", "V", "?"} # {}

(* main up to fork: the switches, the two arguments, the mountpoint, and   *)
(* the child.                                                              *)
Main ==
  /\ parent.pc = "main"
  /\ \/ /\ ~OnlyPrints
        /\ info' = [info EXCEPT !.nomtab = "n" \in ToSet(cmd.switches),
                                !.fakemnt = "f" \in ToSet(cmd.switches),
                                !.flags = IF ReadOnly(cmd.switches) THEN {"RDONLY"} ELSE {}]
        /\ parent' = [parent EXCEPT !.pc = "wait"]
        /\ child' = [child EXCEPT !.pc = "drop", !.data = cmd.opts]
     \/ \E rc \in {EX_SYSERR, IF OnlyPrints THEN 0 ELSE EX_USAGE} : MountExit(rc) /\ UNCHANGED child
  /\ UNCHANGED <<cmd, requests, mtab>>
-----------------------------------------------------------------------------
ChildAt(pc) == child.pc = pc
ChildGo(pc) == child' = [child EXCEPT !.pc = pc]
ChildExit(rc) == child' = [child EXCEPT !.pc = "exited", !.rc = rc]
ChildOnly == UNCHANGED <<cmd, parent, requests, mtab>>

(* The user the child runs as is the one who called mount.cifs.            *)
DropPrivileges ==
  /\ ChildAt("drop")
  /\ \/ cmd.uid # 0 /\ ChildExit(EX_SYSERR)
     \/ ChildGo(IF cmd.uid # 0 THEN "fstab" ELSE "env")
  /\ UNCHANGED info /\ ChildOnly

Listed == cmd.fstab # NoVal /\ cmd.fstab.dev = cmd.dev

(* A slip: the line must be there, but its options are not taken.          *)
CheckFstabOnly ==
  /\ ChildAt("fstab")
  /\ IF Listed
     THEN /\ ChildGo("env")
          /\ info' = [info EXCEPT !.flags = @ \cup {"NOSUID", "NODEV"}]
     ELSE ChildExit(EX_USAGE) /\ UNCHANGED info
  /\ ChildOnly

(* check_fstab: the first line for the mountpoint must name the device,    *)
(* and its options are taken instead of the user's.                        *)
CheckFstab ==
  /\ ChildAt("fstab")
  /\ \/ /\ Listed
        /\ child' = [child EXCEPT !.pc = "env", !.data = cmd.fstab.opts]
        /\ info' = [info EXCEPT !.flags = @ \cup {"NOSUID", "NODEV"}]
     \/ ~Listed /\ ChildExit(EX_USAGE) /\ UNCHANGED info
     \/ ChildExit(EX_FILEIO) /\ UNCHANGED info
  /\ ChildOnly

SetPassword(i, pw) == [i EXCEPT !.password = pw, !.got_password = TRUE]

(* get_pw_from_env: PASSWD, or else the file that PASSWD_FD or PASSWD_FILE *)
(* names, which may be unreadable.                                         *)
Variable == SelectSeq(<<"PASSWD", "PASSWD_FD", "PASSWD_FILE">>, LAMBDA v : v \in DOMAIN cmd.env)
GetPwFromEnv ==
  /\ ChildAt("env")
  /\ IF Variable = <<>> THEN ChildGo("parse") /\ UNCHANGED info
     ELSE LET pw == cmd.env[Variable[1]]
          IN  \/ pw # TooLong /\ ChildGo("parse") /\ info' = SetPassword(info, pw)
              \/ pw = TooLong /\ ChildExit(EX_USAGE) /\ UNCHANGED info
              \/ Variable[1] # "PASSWD" /\ ChildExit(EX_SYSERR) /\ UNCHANGED info
  /\ ChildOnly
-----------------------------------------------------------------------------
(* parse_options, one option per step.                                     *)
Option == child.data[1]
Parsing(keys) == ChildAt("parse") /\ child.data # <<>> /\ Option.key \in keys
Given == Option.val # NoVal

SetsFlag == [users |-> "USERS", user |-> "USER", nosuid |-> "NOSUID", nodev |-> "NODEV",
             mand |-> "MANDLOCK", noexec |-> "NOEXEC", ro |-> "RDONLY", remount |-> "REMOUNT"]
ClearsFlag == [suid |-> "NOSUID", dev |-> "NODEV", nobrl |-> "MANDLOCK", nomand |-> "MANDLOCK",
               exec |-> "NOEXEC", rw |-> "RDONLY"]
Uncopied == {"users", "user", "mand", "nomand", "ro", "rw", "_netdev"}
Flags == {SetsFlag[k] : k \in DOMAIN SetsFlag}

(* Go on with information i, and with the word if it is to be copied.      *)
Skip(i) == info' = i /\ child' = [child EXCEPT !.pc = "parse", !.data = Tail(@)]
CopyOption(i, word) ==
  \/ /\ Len(i.options) < MAX_OPTIONS
     /\ Skip([i EXCEPT !.options = Append(@, word)])
  \/ Len(i.options) >= MAX_OPTIONS /\ ChildExit(EX_USAGE) /\ UNCHANGED info
Fails(rc) == ChildExit(rc) /\ UNCHANGED info

ParseFlag ==
  /\ Parsing(DOMAIN SetsFlag \cup DOMAIN ClearsFlag \cup {"_netdev"})
  /\ Option.key \in {"users", "user"} => ~Given
  /\ LET k == Option.key
         on == {SetsFlag[j] : j \in DOMAIN SetsFlag \cap {k}}
         off == {ClearsFlag[j] : j \in DOMAIN ClearsFlag \cap {k}}
         i == [info EXCEPT !.flags = (@ \cup on) \ off]
     IN  IF k \in Uncopied THEN Skip(i) ELSE CopyOption(i, Option)
  /\ ChildOnly

(* parse_username: domain\name%password, but for the name optional.        *)
Username(i, u) ==
  LET j == IF u.password = NoVal THEN i ELSE SetPassword(i, u.password)
  IN  [j EXCEPT !.domain = IF u.domain = NoVal THEN @ ELSE u.domain,
                !.username = u.username, !.got_user = TRUE]

ParseUser ==
  /\ Parsing({"user", "username"}) /\ (Given \/ Option.key # "user")
  /\ IF Given /\ Option.val.password # TooLong
     THEN Skip(Username(info, Option.val))
     ELSE Fails(EX_USAGE)
  /\ ChildOnly

(* A password found before, wherever, is kept; pass= alone is an empty one.*)
ParsePass ==
  /\ Parsing({"pass"})
  /\ IF info.got_password THEN Skip(info)
     ELSE IF ~Given THEN Skip([info EXCEPT !.got_password = TRUE])
     ELSE IF Option.val = TooLong THEN Fails(EX_USAGE)
     ELSE Skip(SetPassword(info, Option.val))
  /\ ChildOnly

ParseGuest ==
  /\ Parsing({"guest", "sec"})
  /\ LET i == [info EXCEPT !.got_user = @ \/ Option.key = "guest",
                           !.got_password = @ \/ Option.key = "guest"
                                              \/ Option.val \in {"none", "krb5"}]
     IN  CopyOption(i, Option)
  /\ ChildOnly

ParseCred ==
  /\ Parsing({"cred"})
  /\ \/ ~Given /\ Fails(EX_USAGE)
     \/ Given /\ Option.val \notin DOMAIN CredFile /\ Fails(-1)
     \/ /\ Given /\ Option.val \in DOMAIN CredFile
        /\ child' = [child EXCEPT !.pc = "cred", !.cred = CredFile[Option.val]]
        /\ UNCHANGED info
  /\ ChildOnly

(* open_cred_file: user, password and domain lines in any order.           *)
CredLine(i, line) ==
  CASE line.key = "user" -> Username(i, line.val)
    [] line.key = "pass" -> SetPassword(i, line.val)
    [] line.key = "dom"  -> [i EXCEPT !.domain = line.val]
    [] OTHER -> i

ReadCredLine ==
  /\ ChildAt("cred") /\ child.cred # <<>>
  /\ LET line == child.cred[1]
     IN  IF \/ line.key = "pass" /\ line.val = TooLong
            \/ line.key = "user" /\ line.val.password = TooLong
         THEN Fails(EX_USAGE)
         ELSE info' = CredLine(info, line) /\ child' = [child EXCEPT !.cred = Tail(@)]
  /\ ChildOnly

EndCred == ChildAt("cred") /\ child.cred = <<>> /\ CopyOption(info, Option) /\ ChildOnly

ParseIp ==
  /\ Parsing({"ip"})
  /\ IF Given THEN Skip([info EXCEPT !.addrlist = Option.val]) ELSE CopyOption(info, Option)
  /\ ChildOnly

ParseDomain ==
  /\ Parsing({"dom"})
  /\ IF Given THEN Skip([info EXCEPT !.domain = Option.val]) ELSE Fails(EX_USAGE)
  /\ ChildOnly

(* parse_unc copies host, share and prefix over what is there: of a longer *)
(* name given before the end remains.                                      *)
Over(old, new) == new \o SubSeq(old, Len(new) + 1, Len(old))
WithUnc(i, u) ==
  [i EXCEPT !.host = Over(@, u.host), !.share = Over(@, u.share), !.prefix = Over(@, u.prefix)]

ParseUnc ==
  /\ Parsing({"unc"})
  /\ IF Given /\ Option.val.valid THEN CopyOption(WithUnc(info, Option.val), Option)
     ELSE Fails(EX_USAGE)
  /\ ChildOnly

(* uid=, cruid= and gid= of a name: strtoul leaves errno alone, and so it  *)
(* is 0.  backupuid= and backupgid= look the name up.                      *)
ParseId ==
  /\ Parsing(IdKeys)
  /\ LET k == Option.key
         v == Option.val
         Id(n) == child' = [child EXCEPT !.data = Tail(@), !.ids[k] = n] /\ UNCHANGED info
     IN  IF ~Given THEN Skip(info)
         ELSE IF "number" \in DOMAIN v THEN Id(v.number)
         ELSE IF k \in {"uid", "cruid", "gid"} THEN Id(0)
         ELSE IF v.name \in DOMAIN Accounts THEN Id(Accounts[v.name])
         ELSE Fails(EX_USAGE)
  /\ ChildOnly

(* file_mode, dir_mode and the deprecated fmask and dmask, which lose      *)
(* their value.                                                            *)
Modern == [fmask |-> "file_mode", dmask |-> "dir_mode"]
ParseMode ==
  /\ Parsing({"file_mode", "dir_mode"} \cup DOMAIN Modern)
  /\ IF ~Given THEN Fails(EX_USAGE)
     ELSE CopyOption(info, IF Option.key \in DOMAIN Modern
                           THEN Word(Modern[Option.key], NoVal) ELSE Option)
  /\ ChildOnly

ParseOther ==
  /\ Parsing({"other", "users"}) /\ (Option.key = "users" => Given)
  /\ CopyOption(info, Option)
  /\ ChildOnly

(* The ids come last.  The length is not counted on after gid=, so that    *)
(* what follows is written over it: over all but its g, unless it is the   *)
(* first word of all.                                                      *)
AfterG == [backupuid |-> "gbackupuid", backupgid |-> "gbackupgid"]
WithIds(options, ids) ==
  LET IdWord(k) == IF ids[k] = NoVal THEN <<>> ELSE <<Word(k, ids[k])>>
      before == options \o IdWord("uid") \o IdWord("cruid")
      backup == IdWord("backupuid") \o IdWord("backupgid")
      garbled == <<[backup[1] EXCEPT !.key = AfterG[@]]>> \o Tail(backup)
  IN  IF backup = <<>> THEN before \o IdWord("gid")
      ELSE before \o IF ids["gid"] # NoVal /\ before # <<>> THEN garbled ELSE backup

(* A user who is not root gets his own uid and gid, unless others are      *)
(* given.                                                                  *)
EndOptions ==
  /\ ChildAt("parse") /\ child.data = <<>>
  /\ LET own == [k \in DOMAIN NoIds |-> IF k \in {"uid", "gid"} /\ cmd.uid # 0 THEN cmd.uid ELSE NoVal]
         words == WithIds(info.options, [k \in DOMAIN own |-> IF child.ids[k] # NoVal
                                                               THEN child.ids[k] ELSE own[k]])
     IN  IF Len(words) > MAX_OPTIONS THEN Fails(EX_USAGE)
         ELSE ChildGo("permission") /\ info' = [info EXCEPT !.options = words]
  /\ ChildOnly

ParseOption ==
  \/ ParseFlag \/ ParseUser \/ ParsePass \/ ParseGuest \/ ParseCred \/ ReadCredLine \/ EndCred
  \/ ParseIp \/ ParseDomain \/ ParseUnc \/ ParseId \/ ParseMode \/ ParseOther \/ EndOptions
-----------------------------------------------------------------------------
CheckPermission ==
  /\ ChildAt("permission")
  /\ IF cmd.uid # 0 /\ info.flags \cap {"USERS", "USER"} = {} THEN Fails(EX_USAGE)
     ELSE ChildGo("unc") /\ info' = [info EXCEPT !.flags = @ \ {"USERS", "USER"}]
  /\ ChildOnly

ParseDevice ==
  /\ ChildAt("unc")
  /\ IF cmd.dev.valid THEN ChildGo("resolve") /\ info' = WithUnc(info, cmd.dev)
     ELSE Fails(EX_USAGE)
  /\ ChildOnly

(* resolve_host: the TCP addresses in their order; the comma between them  *)
(* is left out only at the first entry, which so leaves its place empty if *)
(* it is not one of them.                                                  *)
Empty == "empty"
AddressList(entries) ==
  LET places == {n \in DOMAIN entries : n = 1 \/ entries[n].tcp}
      Place(k) == CHOOSE n \in places : Cardinality({m \in places : m <= n}) = k
      Text(e) == IF e.tcp THEN e.addr ELSE Empty
  IN  [k \in 1 .. Cardinality(places) |-> Text(entries[Place(k)])]

ResolveHost ==
  /\ ChildAt("resolve")
  /\ \/ info.addrlist # <<>> /\ ChildGo("user") /\ UNCHANGED info
     \/ /\ info.addrlist = <<>>
        /\ \/ \E entries \in AddrInfos :
                ChildGo("user") /\ info' = [info EXCEPT !.addrlist = AddressList(entries)]
           \/ \E rc \in {EX_USAGE, EX_SYSERR} : Fails(rc)
  /\ ChildOnly

(* USER or the account's name; a uid without one is a null pointer.        *)
GetUser ==
  /\ ChildAt("user")
  /\ \/ info.got_user /\ ChildGo("password") /\ UNCHANGED info
     \/ /\ ~info.got_user
        /\ LET name == IF "USER" \in DOMAIN cmd.env THEN cmd.env.USER ELSE cmd.name
           IN  IF name = NoVal THEN ChildGo("killed") /\ UNCHANGED info
               ELSE ChildGo("password")
                    /\ info' = [info EXCEPT !.username = name, !.got_user = TRUE]
  /\ ChildOnly

GetPassword ==
  /\ ChildAt("password")
  /\ \/ info.got_password /\ ChildGo("finish") /\ UNCHANGED info
     \/ ~info.got_password /\ ChildGo("finish") /\ info' = SetPassword(info, "typed")
     \/ ~info.got_password /\ \E rc \in {EX_USAGE, EX_SYSERR} : Fails(rc)
  /\ ChildOnly

Final(i) ==
  <<Word("ver", NoVal), Word("user", i.username)>>
  \o (IF i.domain = NoVal THEN <<>> ELSE <<Word("domain", i.domain)>>)

Finish ==
  /\ ChildAt("finish")
  /\ ChildExit(0)
  /\ \E options \in Cuts(info.options \o Final(info)) : info' = [info EXCEPT !.options = options]
  /\ ChildOnly

ChildDies ==
  /\ child.pc \notin {"none", "exited", "killed"}
  /\ ChildGo("killed")
  /\ UNCHANGED info /\ ChildOnly

ChildStep ==
  \/ DropPrivileges \/ CheckFstab \/ GetPwFromEnv \/ ParseOption \/ CheckPermission
  \/ ParseDevice \/ ResolveHost \/ GetUser \/ GetPassword \/ Finish
-----------------------------------------------------------------------------
(* Slips: WEXITSTATUS of a child that did not exit; a child that did not   *)
(* exit is waited for again.                                               *)
WaitForStatus ==
  /\ parent.pc = "wait" /\ child.pc \in {"exited", "killed"}
  /\ IF child.rc # 0 THEN MountExit(child.rc)
     ELSE parent' = [parent EXCEPT !.pc = "mount", !.addrs = info.addrlist] /\ UNCHANGED info
  /\ UNCHANGED <<cmd, child, requests, mtab>>

WaitForExit ==
  /\ parent.pc = "wait" /\ child.pc = "exited"
  /\ IF child.rc # 0 THEN MountExit(child.rc)
     ELSE parent' = [parent EXCEPT !.pc = "mount", !.addrs = info.addrlist] /\ UNCHANGED info
  /\ UNCHANGED <<cmd, child, requests, mtab>>

WaitForChild ==
  /\ parent.pc = "wait"
  /\ \/ child.pc = "killed" /\ MountExit(EX_SYSERR)
     \/ child.pc = "exited" /\ child.rc # 0 /\ MountExit(child.rc)
     \/ /\ child.pc = "exited" /\ child.rc = 0
        /\ parent' = [parent EXCEPT !.pc = "mount", !.addrs = info.addrlist]
        /\ UNCHANGED info
  /\ UNCHANGED <<cmd, child, requests, mtab>>

(* The options for mount(2), put together again for every attempt.         *)
MountWords ==
  <<Word("ip", parent.addrs[1]), Word("unc", <<info.host, info.share>>)>> \o info.options
  \o (IF info.prefix = <<>> THEN <<>> ELSE <<Word("prefixpath", info.prefix)>>)
  \o (IF info.got_password THEN <<Word("pass", info.password)>> ELSE <<>>)

Answers == {"mounted", "refused", "nxio", "error"}
Request(answer, options) ==
  [upper |-> parent.upper, answer |-> answer, flags |-> info.flags, options |-> options]
Asks(answer) ==
  \E options \in Cuts(MountWords) : requests' = Append(requests, Request(answer, options))
CanMount == parent.pc = "mount" /\ parent.addrs # <<>> /\ ~cmd.newline

(* check_mtab and -f come before the mount; without an address it is over. *)
NoMount ==
  /\ parent.pc = "mount"
  /\ \/ parent.addrs = <<>> /\ MountExit(EX_SYSERR)
     \/ parent.addrs # <<>> /\ cmd.newline /\ MountExit(EX_USAGE)
     \/ CanMount /\ info.fakemnt /\ parent' = [parent EXCEPT !.pc = "mtab"] /\ UNCHANGED info
  /\ UNCHANGED <<cmd, child, requests, mtab>>

Mount ==
  /\ CanMount /\ ~info.fakemnt
  /\ \/ Asks("mounted") /\ parent' = [parent EXCEPT !.pc = "mtab"] /\ UNCHANGED info
     \/ Asks("error") /\ MountExit(EX_FAIL)
  /\ UNCHANGED <<cmd, child, mtab>>

(* ECONNREFUSED or EHOSTUNREACH: the next address.                         *)
TryNextAddress ==
  /\ CanMount /\ ~info.fakemnt
  /\ Asks("refused")
  /\ parent' = [parent EXCEPT !.addrs = Tail(@)]
  /\ UNCHANGED <<cmd, info, child, mtab>>

(* A slip: upper case anew with each address.                              *)
TryUpperWithNext ==
  /\ CanMount /\ ~info.fakemnt
  /\ Asks("nxio")
  /\ parent' = [parent EXCEPT !.upper = TRUE, !.addrs = Tail(@)]
  /\ UNCHANGED <<cmd, info, child, mtab>>

(* ENXIO: the same address with names in upper case, once, if ASCII.       *)
TryUpper ==
  /\ CanMount /\ ~info.fakemnt
  /\ Asks("nxio")
  /\ \/ ~parent.upper /\ cmd.ascii /\ parent' = [parent EXCEPT !.upper = TRUE] /\ UNCHANGED info
     \/ (parent.upper \/ ~cmd.ascii) /\ MountExit(EX_FAIL)
  /\ UNCHANGED <<cmd, child, mtab>>

(* add_mtab (MtabLock), unless -n was given or mtab cannot be used.        *)
RecordMount ==
  /\ parent.pc = "mtab"
  /\ \/ mtab' = ~info.nomtab /\ MountExit(0)
     \/ ~info.nomtab /\ MountExit(EX_FILEIO) /\ UNCHANGED mtab
     \/ ~info.nomtab /\ MountExit(0) /\ UNCHANGED mtab
  /\ UNCHANGED <<cmd, child, requests>>

ParentStep == Main \/ WaitForChild \/ NoMount \/ Mount \/ TryNextAddress \/ TryUpper \/ RecordMount

HNext == ParentStep \/ ChildStep \/ ChildDies

HSpec == HInit /\ [][HNext]_hvars /\ WF_hvars(ParentStep) /\ WF_hvars(ChildStep)
-----------------------------------------------------------------------------

(* "If it's anything but 0, then the process exits without attempting      *)
(* anything further": whatever the kernel is asked to mount, and whatever  *)
(* is said to be mounted, was assembled to the end, and has a password if  *)
(* the user was to give one.  A user or a domain is missing only where the *)
(* options fill the buffer.                                                *)
MountsOnlyCompleteInfo ==
  \/ parent.pc \in {"mount", "mtab"}
  \/ parent.pc = "done" /\ parent.rc = 0 /\ ~OnlyPrints
  => /\ info.addrlist # <<>> /\ info.got_user /\ info.got_password
     /\ Len(info.options) < MAX_OPTIONS => IsSuffix(Final(info), info.options)
     /\ info.flags \cap {"USERS", "USER"} = {}

(* The words that are not taken from the options given.                    *)
Generated ==
  {"ip", "unc", "ver", "user", "domain", "file_mode", "dir_mode", "prefixpath", "pass"}
  \cup IdKeys \cup {AfterG[k] : k \in DOMAIN AfterG}

(* "We don't want to trust what the user gave us": a user who is not root  *)
(* mounts what an fstab line with user or users says, with its options and *)
(* no others, or a part of the last one that fits, and nosuid and nodev    *)
(* unless the line has suid or dev.                                        *)
UserMountsFollowFstab ==
  cmd.uid # 0 =>
    \A n \in DOMAIN requests :
      LET r == requests[n]
          keys == {o.key : o \in ToSet(cmd.fstab.opts)}
      IN  /\ Listed
          /\ keys \cap {"user", "users"} # {}
          /\ \A o \in ToSet(r.options) :
               Whole(o).key \in Generated \/ Whole(o) \in ToSet(cmd.fstab.opts)
          /\ "NOSUID" \in r.flags \/ "suid" \in keys
          /\ "NODEV" \in r.flags \/ "dev" \in keys

(* The addresses are tried in their order, each after all before it were   *)
(* refused, and only once more for the upper case; none after an answer    *)
(* that ends it; and where there was more to do than print something, 0    *)
(* says that the kernel has mounted.                                       *)
TriesInOrder ==
  /\ \A n \in DOMAIN requests :
       LET before == {m \in 1 .. n - 1 : requests[m].answer = "refused"}
           nxio == {m \in 1 .. n - 1 : requests[m].answer = "nxio"}
       IN  /\ requests[n].options[1] = Word("ip", info.addrlist[Cardinality(before) + 1])
           /\ before \cup nxio = 1 .. n - 1
           /\ Cardinality(nxio) = IF requests[n].upper THEN 1 ELSE 0
  /\ parent.pc = "done" /\ parent.rc = 0 /\ ~info.fakemnt /\ ~OnlyPrints =>
       requests # <<>> /\ Last(requests).answer = "mounted"

(* mount.cifs comes to an end, whatever happens to the child and whatever  *)
(* the kernel answers.                                                     *)
MountEnds == <>(parent.pc = "done")
=============================================================================
