------------------------------- MODULE Upcall -------------------------------
(***************************************************************************)
(* The kernel's request for one key and the helper it starts for it:       *)
(* cifs.upcall for SPNEGO tokens and addresses (cifsacl/cifs.upcall.c) and *)
(* cifs.idmap for ids (cifsacl/cifs.idmap.c).  The kernel waits for the    *)
(* helper; a key the helper has not instantiated when it ends is negated.  *)
(* Meanwhile users make, renew and destroy credential caches.              *)
(***************************************************************************)
EXTENDS Integers, Sequences, SequencesExt

CONSTANTS
  KeyRequests,  \* records [opts, serial, type, tokens]: command line and key
  NoVal,        \* nothing
  LowerHost,    \* host name -> the name in lower case
  Canonical,    \* host name -> domain of its canonical name, NoVal, or "fails"
  NameOf,       \* address -> host name, or "fails"
  Services,     \* principals [host, domain] the KDC knows
  KeytabUsers,  \* users the keytab can get a ticket for
  CacheNames,   \* the sequence of names scandir finds, in its order
  CacheOwner,   \* name -> owner, NoVal when it is no regular file
  LastEnd,      \* bound: the ticket granting tickets end at 0..LastEnd
  MaxRenewals,  \* bound: how often caches change during the request
  Winbind       \* kind -> id or SID -> what it is mapped to, or "fails"

ASSUME UpcallAssumption ==
  /\ CacheNames \in Seq(Range(CacheNames))
  /\ LastEnd \in Nat

CIFS_SPNEGO_UPCALL_VERSION == 2

VARIABLES request, pc,   \* the request and the helper's place in its program
          have, best,    \* what was decoded; the best cache and its end
          scanned,       \* how many caches have been looked at
          host, tryDns, rc,
          princ, asked,  \* the principal asked for last; all of them
          ends,          \* cache -> end of its ticket
          renewals, wkey \* changes of the caches; the key

uvars == <<request, pc, have, best, scanned, host, tryDns, rc, princ, asked, ends, renewals, wkey>>

Pending == [kind |-> "pending"]
Negated == [kind |-> "negated"]
NoCache == [name |-> NoVal, end |-> 0]

(* A key's description: tokens [name, value, readable].  The last one of a *)
(* name wins, and a number that cannot be read spoils all of them.         *)
TokensNamed(tokens, names) == SelectSeq(tokens, LAMBDA t : t.name \in names)

Values(name) == TokensNamed(request.tokens, {name})

Has(name) == Values(name) # <<>>

Value(name) == IF Has(name) THEN Last(Values(name)).value ELSE NoVal

Numbers == {"pid", "uid", "creduid", "ver"}

Spoilt == \E name \in Numbers : \E t \in Range(Values(name)) : ~t.readable

Kerberos(tokens) == SelectSeq(tokens, LAMBDA t : t.value \in {"krb5", "mskrb5"})

KnownSec == Kerberos(Values("sec"))

Address == LET ips == TokensNamed(request.tokens, {"ip4", "ip6"})
           IN IF ips = <<>> THEN NoVal ELSE Last(ips).value

MustHave == ~Spoilt /\ Has("host") /\ Has("ver") /\ KnownSec # <<>>

(* Whose credentials: creduid unless "-l" was given, else uid.             *)
Legacy == "l" \in Range(request.opts)

Uid == IF ~Legacy /\ Has("creduid") THEN Value("creduid") ELSE Value("uid")

UpcallInit ==
  /\ request \in KeyRequests
  /\ pc = "main"
  /\ have = FALSE /\ best = NoCache /\ scanned = 0 /\ host = NoVal /\ tryDns = FALSE
  /\ rc = 1 /\ princ = NoVal /\ asked = {}
  /\ ends \in [Range(CacheNames) -> 0..LastEnd]
  /\ renewals = 0
  /\ wkey = Pending

Keep == UNCHANGED <<request, ends, renewals>>

Local == UNCHANGED <<have, best, scanned, host, tryDns, princ, asked>>

(* The head of both programs: options ("v" and unknown ones end it), the   *)
(* serial number, the description; "have" says that a key is known.        *)
UpcallMain ==
  /\ pc = "main"
  /\ \/ /\ \/ Range(request.opts) \cap {"v", "unknown"} # {}
           \/ request.serial = "bad"
        /\ pc' = "out"
        /\ UNCHANGED have
     \/ /\ Range(request.opts) \cap {"v", "unknown"} = {}
        /\ request.serial # "bad"
        /\ have' = TRUE
        /\ \/ pc' = "out"        \* keyctl_describe fails
           \/ pc' = CASE request.type = "cifs.idmap" -> "map"
                      [] request.type \in {"cifs.resolver", "dns_resolver"} -> "resolve"
                      [] OTHER -> "decode"
  /\ rc' = 1
  /\ tryDns' = ("t" \in Range(request.opts))
  /\ UNCHANGED <<best, scanned, host, princ, asked, wkey>>
  /\ Keep

(* keyctl_instantiate; the kernel may have given the key up in between.    *)
Instantiate(payload) ==
  /\ pc' = "out"
  /\ \/ wkey' = payload /\ rc' = 0
     \/ UNCHANGED wkey /\ rc' = 1

GiveUp == pc' = "out" /\ rc' = 1 /\ UNCHANGED wkey

(* cifs_resolver: the address getaddrinfo names first.                     *)
Resolve ==
  /\ pc = "resolve"
  /\ \/ Instantiate([kind |-> "address", of |-> request.tokens])
     \/ GiveUp
  /\ Local /\ Keep

(* cifs_idmap: winbind's answer for the one thing the description names.   *)
(* strget leaves the string it returns without an end, so that what is     *)
(* looked up may have more at its end than the description.                *)
Kinds == {"os", "gs", "oi", "gi"}

ReadId(token) == {token.value, "garbled"}

Map ==
  /\ pc = "map"
  /\ \/ \E t \in Range(request.tokens) : \E id \in ReadId(t) :
          /\ t.name \in Kinds
          /\ id \in DOMAIN Winbind[t.name] /\ Winbind[t.name][id] # "fails"
          /\ Instantiate([kind |-> t.name, of |-> Winbind[t.name][id]])
     \/ GiveUp
  /\ Local /\ Keep

(***************************************************************************)
(* SPNEGO: the description must be complete, of a version that is known,   *)
(* with somebody's uid; the helper becomes that user.                      *)
(***************************************************************************)
Decode ==
  /\ pc = "decode"
  /\ \/ /\ MustHave /\ Value("ver") <= CIFS_SPNEGO_UPCALL_VERSION /\ Uid # NoVal
        /\ pc' = "scan"
        /\ host' = Value("host")
        /\ UNCHANGED <<rc, wkey>>
     \/ GiveUp /\ UNCHANGED host     \* any of it fails, or setuid
  /\ UNCHANGED <<have, best, scanned, tryDns, princ, asked>>
  /\ Keep

(* A slip: best_time is not kept.                                          *)
BetterAny(c) == CacheOwner[c] = Uid /\ ends[c] > 0

(* find_krb5_cc, one name of the directory at a time: a regular file of    *)
(* the user's with a ticket that lasts longer than the best one so far.    *)
Better(c) == CacheOwner[c] = Uid /\ ends[c] > best.end

Scan ==
  /\ pc = "scan"
  /\ scanned < Len(CacheNames)
  /\ scanned' = scanned + 1
  /\ LET c == CacheNames[scanned + 1] IN
       best' = IF Better(c) THEN [name |-> c, end |-> ends[c]] ELSE best
  /\ UNCHANGED <<pc, have, host, tryDns, rc, princ, asked, wkey>>
  /\ Keep

(* init_cc_from_keytab, when there is no cache and a user was given: the   *)
(* default cache, with a ticket for that user if the keytab has him.       *)
Keytab ==
  /\ pc = "scan" /\ scanned = Len(CacheNames)
  /\ \/ /\ best = NoCache /\ Value("user") \in KeytabUsers
        /\ best' = [name |-> "default", end |-> LastEnd]
     \/ UNCHANGED best
  /\ pc' = "ticket"
  /\ UNCHANGED <<have, scanned, host, tryDns, rc, princ, asked, wkey>>
  /\ Keep

(* handle_krb5_mech: the cache is opened again, and may have changed.      *)
Principal(domain) == [host |-> LowerHost[host], domain |-> domain]

Granted(p) ==
  /\ p \in Services
  /\ best # NoCache
  /\ best.name \in DOMAIN ends => ends[best.name] > 0

Ask(p, next) ==
  /\ princ' = p
  /\ asked' = asked \cup {p}
  /\ \/ Granted(p) /\ pc' = "pack"
     \/ pc' = next        \* refused, or the KDC cannot be reached

(* "cifs/host" first.                                                      *)
Dotted == Canonical[host] = "dotted"

AskTicket ==
  /\ pc = "ticket"
  /\ Ask(Principal(NoVal), IF Dotted THEN "reverse" ELSE "guess")
  /\ UNCHANGED <<have, best, scanned, host, tryDns, rc, wkey>>
  /\ Keep

(* Then "cifs/host.domain" with the domain of the canonical name.          *)
GuessDomain ==
  /\ pc = "guess"
  /\ \/ /\ Canonical[host] \notin {"fails", NoVal}
        /\ Ask(Principal(Canonical[host]), "reverse")
        /\ UNCHANGED <<rc, wkey>>
     \/ Canonical[host] \in {"fails", NoVal} /\ GiveUp /\ UNCHANGED <<princ, asked>>
  /\ UNCHANGED <<have, best, scanned, host, tryDns>>
  /\ Keep

(* With "-t" the name the address has, once; then everything again.  A     *)
(* slip: try_dns is not reset.                                             *)
KeepTrying == UNCHANGED tryDns

TryOnce == tryDns' = FALSE

ByName(asked_for) ==
  /\ pc = "reverse"
  /\ \/ /\ asked_for /\ Address # NoVal /\ NameOf[Address] # "fails"
        /\ host' = NameOf[Address]
        /\ TryOnce
        /\ pc' = "ticket"
        /\ UNCHANGED <<rc, wkey>>
     \/ GiveUp /\ UNCHANGED <<host, tryDns>>
  /\ UNCHANGED <<have, best, scanned, princ, asked>>
  /\ Keep

(* A slip: the address is asked for its name without "-t".                 *)
ReverseAlways == ByName(TRUE)

ReverseName == ByName(tryDns)

(* The token and the session key, packed for the kernel.                   *)
Pack ==
  /\ pc = "pack"
  /\ Instantiate([kind |-> "spnego", ver |-> Value("ver"),
                  oid |-> Last(KnownSec).value, principal |-> princ,
                  cache |-> best])
  /\ Local /\ Keep

(* out: of cifs.upcall: what is negated on an error is key 0, which is no  *)
(* key, and only when that is the key, that is, when none is known.  out:  *)
(* of cifs.idmap only returns.                                             *)
Idmap == request.type = "cifs.idmap"

NegateOnError == ~Idmap /\ UNCHANGED wkey

JustReturn == Idmap /\ UNCHANGED wkey

Out ==
  /\ pc = "out"
  /\ NegateOnError \/ JustReturn
  /\ pc' = "exit"
  /\ UNCHANGED rc
  /\ Local /\ Keep

Helper == \/ UpcallMain \/ Resolve \/ Map \/ Decode \/ Scan \/ Keytab
          \/ AskTicket \/ GuessDomain \/ ReverseName \/ Pack \/ Out

(* The helper dies, or is killed, before it is done.                       *)
HelperDies ==
  /\ pc \notin {"exit", "killed"}
  /\ pc' = "killed"
  /\ UNCHANGED <<rc, wkey>>
  /\ Local /\ Keep

(* The kernel takes the end of the helper for its answer.                  *)
Complete ==
  /\ pc \in {"exit", "killed"}
  /\ wkey = Pending
  /\ wkey' = Negated
  /\ UNCHANGED <<pc, rc>>
  /\ Local /\ Keep

(* kinit, a renewal, kdestroy, or a ticket that runs out: 0 is no ticket.  *)
Renew(c) ==
  /\ renewals < MaxRenewals
  /\ pc \notin {"exit", "killed"}
  /\ renewals' = renewals + 1
  /\ \E e \in 0..LastEnd : e # ends[c] /\ ends' = [ends EXCEPT ![c] = e]
  /\ UNCHANGED <<request, pc, rc, wkey>>
  /\ Local

UpcallNext == \/ Helper
              \/ HelperDies
              \/ Complete
              \/ \E c \in DOMAIN ends : Renew(c)

UpcallSpec == /\ UpcallInit
              /\ [][UpcallNext]_uvars
              /\ WF_uvars(Helper) /\ WF_uvars(Complete)

-----------------------------------------------------------------------------
(***************************************************************************)
(* Properties.                                                             *)
(***************************************************************************)
(* The principals the comment at "Andrew Bartlett's suggested scheme" lets *)
(* the helper try for a host.                                              *)
Scheme(h) == {[host |-> LowerHost[h], domain |-> NoVal]} \cup
               {[host |-> LowerHost[h], domain |-> d] : d \in {Canonical[h]} \ {"dotted"}}

(* A token in a key is for the server of the description, or, only when    *)
(* "-t" was given and the server's own name had been refused, for the name *)
(* its address has; it is in the version that was asked for and comes from *)
(* a cache of the user the description names, or from the keytab.          *)
TicketIsRight ==
  wkey \notin {Pending, Negated} /\ wkey.kind = "spnego" =>
    /\ wkey.ver = Value("ver") /\ wkey.ver <= CIFS_SPNEGO_UPCALL_VERSION
    /\ wkey.principal \in Services
    /\ \/ wkey.principal \in Scheme(Value("host"))
       \/ /\ "t" \in Range(request.opts)
          /\ wkey.principal \in Scheme(NameOf[Address])
          /\ [host |-> LowerHost[Value("host")], domain |-> NoVal] \in asked
    /\ \/ wkey.cache.name \in DOMAIN ends /\ CacheOwner[wkey.cache.name] = Uid
       \/ wkey.cache.name = "default" /\ Value("user") \in KeytabUsers

(* Once all caches have been looked at, and nobody has changed one since,  *)
(* none of the user's lasts longer than the one that was chosen.           *)
BestIsLongest ==
  /\ pc = "ticket" /\ renewals = 0
  => \A c \in DOMAIN ends : CacheOwner[c] = Uid => ends[c] <= best.end

(* The kernel's request is answered, by the helper or by its end.          *)
RequestEnds == <>(wkey # Pending)

(* "on error, negatively instantiate the key ourselves" (the comment at    *)
(* "out:" of cifs.upcall, which makes no such claim for cifs.idmap): a     *)
(* helper that knew all of a request, asked for a ticket and ends with an  *)
(* error has negated the key.                                              *)
NegatedOnError ==
  pc = "exit" /\ have /\ asked # {} /\ rc # 0 => wkey = Negated
=============================================================================
