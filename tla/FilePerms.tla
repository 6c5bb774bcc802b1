----------------------------- MODULE FilePerms -----------------------------
(***************************************************************************)
(* From a file's ACL to its rights in the index: the crawl's buildPerms,   *)
(* the SID cache it looks accounts up in (UserCache.lookupSID), and        *)
(* addPerms.  Several crawls share the cache and Django's accounts, while  *)
(* setcifsacl (CifsAcl) may change the file.                               *)
(***************************************************************************)
EXTENDS CifsAcl

CONSTANTS
  Crawls,       (* the crawls that look at the file                        *)
  Account,      (* the directory: SIDs to a name and a class, some SIDs    *)
  AnyoneSid,    (* S-1-1-0                                                 *)
  NoName

Answers == [name : {Account[s].name : s \in DOMAIN Account} \cup {"AnonymousUser"},
            class : {"person", "group"}]

(* The names the code makes up are nobody's, and S-1-1-0 is no account.    *)
ASSUME FilePermsAssumption ==
  /\ AnyoneSid \in Sids /\ DOMAIN Account \subseteq Sids \ {AnyoneSid}
  /\ \A s \in DOMAIN Account :
       Account[s] \in Answers /\ Account[s].name \notin {NoName, "root", "AnonymousUser"}
  /\ \A r, s \in DOMAIN Account : Account[r].name = Account[s].name => r = s

VARIABLES
  isolation,  (* of the database: a session sees all that is committed, or *)
              (* until it commits what was when it first read              *)
  cache,      (* the committed UserCache rows, SID to account              *)
  names,      (* the committed accounts of Django, users and groups        *)
  crawl,      (* the crawls                                                *)
  made        (* history: which crawl has inserted which SID's account or  *)
              (* row                                                       *)

pvars == <<isolation, cache, names, crawl, made>>

(* entries: what getfacl returned; perms: what buildPerms has made of the  *)
(* first of them; view: what the session sees, if it is not everything;    *)
(* failed: the directory did not answer.                                   *)
NoView == [cache |-> <<>>, names |-> {}, taken |-> FALSE]
Begin == [pc |-> "scan", entries |-> <<>>, perms |-> <<>>, view |-> NoView, failed |-> FALSE]

PInit ==
  /\ AInit
  /\ isolation \in {"committed", "snapshot"}
  /\ cache = <<>>
  /\ names = {}
  /\ crawl = [c \in Crawls |-> Begin]
  /\ made = {}

(* get_ace_mask appends nothing for a mask without a name, so that what    *)
(* follows the last "::" is the type.                                      *)
Role(a) == IF a.mask \in {"FULL", "CHANGE", "D", "READ", "hex"} THEN a.mask ELSE a.type

(* cifsacl_getfacl tries one size; if the descriptor is larger, or cannot  *)
(* be read, nothing is parsed and the list is empty.                       *)
Parsed(d) ==
  IF Len(Marshal(d, layout)) > BUFSIZE THEN <<>>
  ELSE <<[sid |-> d.owner, role |-> "owner"], [sid |-> d.group, role |-> "group"]>>
       \o [i \in DOMAIN d.aces |-> [sid |-> d.aces[i].sid, role |-> Role(d.aces[i])]]

Sees(c) == IF crawl[c].view.taken THEN crawl[c].view
           ELSE [cache |-> cache, names |-> names, taken |-> isolation = "snapshot"]

(* The lookups of an earlier file may have left their transaction open.    *)
Getfacl(c) ==
  /\ crawl[c].pc = "scan"
  /\ \E e \in {Parsed(file), <<>>}, v \in {NoView, Sees(c)} :
       crawl' = [crawl EXCEPT ![c].pc = "lookup", ![c].entries = e, ![c].view = v]
  /\ UNCHANGED <<isolation, cache, names, made>>
-----------------------------------------------------------------------------
Entry(c) == crawl[c].entries[Len(crawl[c].perms) + 1]

(* What buildPerms makes of a lookup: the owner and the group get a name   *)
(* in any case, an ACE without one is left out.                            *)
Perm(entry, answer) ==
  [name |-> IF answer.name # NoName THEN answer.name
            ELSE IF entry.role \in {"owner", "group"} THEN "root" ELSE NoName,
   class |-> IF answer.name # NoName THEN answer.class
             ELSE IF entry.role = "group" THEN "group" ELSE "person",
   role |-> entry.role, sid |-> entry.sid]

None == [name |-> NoName, class |-> "person"]
Answer(c, answer, view) ==
  crawl' = [crawl EXCEPT ![c].pc = "lookup", ![c].perms = Append(@, Perm(Entry(c), answer)),
                         ![c].view = view]

(* lookupSID: S-1-1-0, a row of the cache, or on to the directory.         *)
Lookup(c) ==
  /\ crawl[c].pc = "lookup" /\ Len(crawl[c].perms) < Len(crawl[c].entries)
  /\ LET sid == Entry(c).sid
     IN  \/ /\ sid = AnyoneSid
            /\ Answer(c, [name |-> "AnonymousUser", class |-> "person"], crawl[c].view)
         \/ /\ sid # AnyoneSid /\ sid \in DOMAIN Sees(c).cache
            /\ Answer(c, Sees(c).cache[sid], Sees(c))
         \/ /\ sid # AnyoneSid /\ sid \notin DOMAIN Sees(c).cache
            /\ crawl' = [crawl EXCEPT ![c].pc = "resolve", ![c].view = Sees(c)]
  /\ UNCHANGED <<isolation, cache, names, made>>

(* resolveUsernameOrGroup: an account, none, or an LDAP error.             *)
Resolve(c) ==
  /\ crawl[c].pc = "resolve"
  /\ LET sid == Entry(c).sid
     IN  \/ sid \in DOMAIN Account /\ crawl' = [crawl EXCEPT ![c].pc = "account"]
         \/ sid \notin DOMAIN Account /\ Answer(c, None, crawl[c].view)
         \/ crawl' = [crawl EXCEPT ![c].pc = "again", ![c].failed = TRUE]
  /\ UNCHANGED <<isolation, cache, names, made>>

(* The account is created unless it is seen; that a user is there already  *)
(* is an exception, that a group is passes.  Saving commits.               *)
CreateAccount(c) ==
  LET a == Account[Entry(c).sid]
      Go(pc, view) == crawl' = [crawl EXCEPT ![c].pc = pc, ![c].view = view]
  IN  /\ crawl[c].pc = "account"
      /\ \/ a \in Sees(c).names /\ Go("insert", Sees(c)) /\ UNCHANGED <<names, made>>
         \/ /\ a \notin Sees(c).names \cup names
            /\ names' = names \cup {a}
            /\ Go("insert", NoView)
            /\ made' = made \cup {<<c, Entry(c).sid, "account">>}
         \/ /\ a \notin Sees(c).names /\ a \in names
            /\ Go(IF a.class = "person" THEN "again" ELSE "insert", Sees(c))
            /\ UNCHANGED <<names, made>>
      /\ UNCHANGED <<isolation, cache>>

(* uc.save(): user_sid and user_obj are unique.                            *)
InsertRow(c) ==
  LET sid == Entry(c).sid
  IN  /\ crawl[c].pc = "insert"
      /\ \/ /\ sid \notin DOMAIN cache
            /\ cache' = [s \in DOMAIN cache \cup {sid} |-> IF s = sid THEN Account[sid] ELSE cache[s]]
            /\ Answer(c, Account[sid], NoView)
            /\ made' = made \cup {<<c, sid, "row">>}
         \/ /\ sid \in DOMAIN cache
            /\ crawl' = [crawl EXCEPT ![c].pc = "again"]
            /\ UNCHANGED <<cache, made>>
      /\ UNCHANGED <<isolation, names>>

(* A slip: the exception is only logged.                                   *)
GiveUp(c) ==
  /\ crawl[c].pc = "again"
  /\ Answer(c, None, Sees(c))
  /\ UNCHANGED <<isolation, cache, names, made>>

(* The exception handler's second look.                                    *)
LookAgain(c) ==
  /\ crawl[c].pc = "again"
  /\ Answer(c, IF Entry(c).sid \in DOMAIN Sees(c).cache THEN Sees(c).cache[Entry(c).sid] ELSE None,
            Sees(c))
  /\ UNCHANGED <<isolation, cache, names, made>>

PStep(c) ==
  Getfacl(c) \/ Lookup(c) \/ Resolve(c) \/ CreateAccount(c) \/ InsertRow(c) \/ LookAgain(c)

PNext ==
  \/ ANext /\ UNCHANGED pvars
  \/ \E c \in Crawls : PStep(c) /\ UNCHANGED avars

PSpec == PInit /\ [][PNext]_<<avars, pvars>> /\ \A t \in Tools : WF_avars(AStep(t))
-----------------------------------------------------------------------------
(* addPerms: the first entry is the owner, taken for a user, the second    *)
(* the group, taken for a group; of the others the roles READ, CHANGE and  *)
(* FULL count.  Who has no account gets nothing.                           *)
RightOf == [READ |-> "read", CHANGE |-> "write", FULL |-> "own", owner |-> "own", group |-> "own"]
Assigned(perms) ==
  {[name |-> p.name, right |-> RightOf[p.role],
    class |-> CASE p.role = "owner" -> "person" [] p.role = "group" -> "group" [] OTHER -> p.class] :
     p \in {p \in ToSet(perms) : p.role \in DOMAIN RightOf /\ p.name # NoName}}
Granted(perms) ==
  {g \in Assigned(perms) : [name |-> g.name, class |-> g.class] \in names}

Done(c) == crawl[c].pc = "lookup" /\ Len(crawl[c].perms) = Len(crawl[c].entries)

(* Another crawl has inserted the account of a SID, or its row.            *)
Beaten(c, sid) == \E d \in Crawls \ {c} : \E w \in {"account", "row"} : <<d, sid, w>> \in made

(* Where the directory answers, every entry with a right gives it to its   *)
(* account, which exists by then; but for an owner that is a group, or an  *)
(* owning group that is a user.  Where sessions see what is committed this *)
(* is so whichever crawl was first to insert it.  Where they see a         *)
(* snapshot, as in MySQL's default that settings.py leaves, an entry is    *)
(* left out only if another crawl made its account or row.  And nobody     *)
(* gets what is another account's, under either.                           *)
RightsArrive ==
  \A c \in Crawls :
    /\ Done(c) /\ ~crawl[c].failed =>
         \A e \in ToSet(crawl[c].entries) :
           /\ e.sid \in DOMAIN Account /\ e.role \in DOMAIN RightOf
           /\ e.role = "owner" => Account[e.sid].class = "person"
           /\ e.role = "group" => Account[e.sid].class = "group"
           => \/ [name |-> Account[e.sid].name, class |-> Account[e.sid].class,
                  right |-> RightOf[e.role]] \in Granted(crawl[c].perms)
              \/ isolation = "snapshot" /\ Beaten(c, e.sid)
    /\ \A g \in Granted(crawl[c].perms) : \E e \in ToSet(crawl[c].entries) :
         /\ e.sid \in DOMAIN Account
         /\ g.name = Account[e.sid].name
         /\ e.role \in DOMAIN RightOf /\ g.right = RightOf[e.role]
=============================================================================
