------------------------- MODULE MountHelperProofs -------------------------
(***************************************************************************)
(* Proofs about MountHelper, for any command line, any answers of the      *)
(* kernel and of getaddrinfo, and a child that may die at any step.        *)
(***************************************************************************)
EXTENDS MountHelper, FiniteSetTheorems, SequenceTheorems, TLAPS

InfoFields == {"flags", "options", "addrlist", "host", "share", "prefix", "username", "domain",
               "password", "got_user", "got_password", "nomtab", "fakemnt"}
ChildFields == {"pc", "data", "cred", "ids", "rc"}
ParentFields == {"pc", "rc", "addrs", "upper"}

OptsOf(c) == {c.opts} \cup (IF c.fstab = NoVal THEN {} ELSE {c.fstab.opts})
OptionsOf(c) == UNION {ToSet(opts) : opts \in OptsOf(c)}

(* The child works only while the parent waits for it.                     *)
ShapeInv ==
  /\ cmd \in Commands
  /\ DOMAIN info = InfoFields /\ DOMAIN child = ChildFields /\ DOMAIN parent = ParentFields
  /\ IsList(info.options) /\ IsList(info.addrlist)
  /\ IsList(child.data) /\ ToSet(child.data) \subseteq OptionsOf(cmd)
  /\ IsList(child.cred)
  /\ child.pc = "cred" => child.data # <<>>
  /\ parent.pc \in {"main", "wait", "mount", "mtab", "done"}
  /\ parent.pc # "wait" => child.pc \in {"none", "exited", "killed"}
  /\ parent.pc = "main" => child.pc = "none" /\ info.options = <<>>
  /\ child.pc \in {"exited", "killed"} => parent.pc # "main"

Parsed == {"parse", "cred"}

IdWords == IdKeys \cup {AfterG[k] : k \in DOMAIN AfterG}

(* What any step of parse_options does but the last: it fails, or it       *)
(* copies an option, or takes note of it, and goes on.                     *)
Noted(word) ==
  /\ child.data # <<>>
  /\ word = Option \/ word.key \in {"file_mode", "dir_mode"}

ParseEffect ==
  /\ ChildOnly
  /\ child.pc \in Parsed
  /\ DOMAIN info' = InfoFields /\ DOMAIN child' = ChildFields
  /\ \/ child'.pc = "exited" /\ child'.rc # 0 /\ info' = info /\ child'.data = child.data
        /\ child'.cred = child.cred
     \/ /\ child'.pc \in Parsed
        /\ child'.data \in {child.data, Tail(child.data)}
        /\ child.data # <<>>
        /\ child'.pc = "cred" => child'.data = child.data
        /\ IsList(child'.cred)
        /\ \/ info'.addrlist = info.addrlist
           \/ Option.key = "ip" /\ Option.val # NoVal /\ info'.addrlist = Option.val
        /\ \/ info'.options = info.options
           \/ \E word : Noted(word) /\ info'.options = Append(info.options, word)
        /\ \A f \in info'.flags : f \in {"USERS", "USER"} =>
             f \in info.flags \/ Option.key \in {"users", "user"}
        /\ "NOSUID" \in info.flags => "NOSUID" \in info'.flags \/ Option.key = "suid"
        /\ "NODEV" \in info.flags => "NODEV" \in info'.flags \/ Option.key = "dev"

-----------------------------------------------------------------------------
(* Lists.                                                                  *)
LEMMA ListBase ==
  /\ IsList(<<>>) /\ ToSet(<<>>) = {}
  /\ \A x : IsList(<<x>>) /\ ToSet(<<x>>) = {x}
  /\ \A x, y : IsList(<<x, y>>) /\ ToSet(<<x, y>>) = {x, y}
  BY DEF IsList, ToSet

LEMMA ListOf ==
  ASSUME NEW S, NEW s \in Seq(S)
  PROVE  /\ IsList(s) /\ ToSet(s) \subseteq S /\ Len(s) \in Nat
         /\ DOMAIN s = 1 .. Len(s)
         /\ \A T : ToSet(s) \subseteq T => s \in Seq(T)
  <1>1. s \in [1 .. Len(s) -> S] /\ Len(s) \in Nat
    OBVIOUS
  <1>2. \A T : ToSet(s) \subseteq T => s \in [1 .. Len(s) -> T]
    BY <1>1 DEF ToSet
  <1>3. \A T : ToSet(s) \subseteq T => s \in Seq(T)
    BY <1>1, <1>2, SeqDef
  <1> QED BY <1>1, <1>3 DEF IsList, ToSet

LEMMA ListAppend ==
  ASSUME NEW s, IsList(s), NEW x
  PROVE  IsList(Append(s, x)) /\ ToSet(Append(s, x)) = ToSet(s) \cup {x}
  <1> DEFINE S == ToSet(s) \cup {x}
  <1>1. s \in Seq(S) /\ x \in S
    BY ListOf DEF IsList
  <1>2. Append(s, x) \in Seq(S) /\ Len(Append(s, x)) = Len(s) + 1 /\ Len(s) \in Nat
        /\ Append(s, x)[Len(s) + 1] = x
        /\ \A i \in 1 .. Len(s) : Append(s, x)[i] = s[i]
    BY <1>1
  <1>3. DOMAIN s = 1 .. Len(s) /\ DOMAIN Append(s, x) = 1 .. Len(s) + 1
    BY <1>1, <1>2
  <1>4. ToSet(Append(s, x)) = S
    BY <1>2, <1>3 DEF ToSet
  <1> QED BY <1>2, <1>4 DEF IsList

LEMMA ListConcat ==
  ASSUME NEW s, NEW t, IsList(s), IsList(t)
  PROVE  /\ IsList(s \o t) /\ ToSet(s \o t) = ToSet(s) \cup ToSet(t)
  <1> DEFINE S == ToSet(s) \cup ToSet(t)
  <1>1. s \in Seq(S) /\ t \in Seq(S)
    BY ListOf DEF IsList
  <1>2. /\ s \o t \in Seq(S) /\ Len(s \o t) = Len(s) + Len(t)
        /\ \A i \in 1 .. Len(s) + Len(t) :
             (s \o t)[i] = IF i <= Len(s) THEN s[i] ELSE t[i - Len(s)]
    BY <1>1, ConcatProperties
  <1>3. /\ Len(s) \in Nat /\ Len(t) \in Nat
        /\ DOMAIN s = 1 .. Len(s) /\ DOMAIN t = 1 .. Len(t)
        /\ DOMAIN (s \o t) = 1 .. Len(s) + Len(t)
    BY <1>1, <1>2
  <1> HIDE DEF S
  <1>4. ToSet(s \o t) \subseteq ToSet(s) \cup ToSet(t)
    BY <1>2, <1>3 DEF ToSet
  <1>5. ToSet(s) \subseteq ToSet(s \o t)
    <2> SUFFICES ASSUME NEW i \in 1 .. Len(s) PROVE s[i] \in ToSet(s \o t)
      BY <1>3 DEF ToSet
    <2>1. i \in 1 .. Len(s) + Len(t) /\ (s \o t)[i] = s[i]
      BY <1>2, <1>3
    <2> QED BY <2>1, <1>3 DEF ToSet
  <1>6. ToSet(t) \subseteq ToSet(s \o t)
    <2> SUFFICES ASSUME NEW i \in 1 .. Len(t) PROVE t[i] \in ToSet(s \o t)
      BY <1>3 DEF ToSet
    <2> DEFINE j == Len(s) + i
    <2>1. j \in 1 .. Len(s) + Len(t) /\ ~(j <= Len(s)) /\ j - Len(s) = i
      BY <1>3
    <2> HIDE DEF j
    <2>2. (s \o t)[j] = t[i]
      BY <2>1, <1>2
    <2> QED BY <2>1, <2>2, <1>3 DEF ToSet
  <1>7. ToSet(s \o t) = ToSet(s) \cup ToSet(t)
    BY <1>4, <1>5, <1>6
  <1> QED BY <1>2, <1>7 DEF IsList, S

LEMMA ListTail ==
  ASSUME NEW s, IsList(s), s # <<>>
  PROVE  /\ IsList(Tail(s)) /\ ToSet(Tail(s)) \subseteq ToSet(s)
         /\ s[1] \in ToSet(s)
  <1>1. s \in Seq(ToSet(s))
    BY DEF IsList
  <1>2. Tail(s) \in Seq(ToSet(s)) /\ Len(s) \in Nat \ {0}
    BY <1>1, HeadTailProperties, EmptySeq
  <1>3. 1 \in DOMAIN s
    BY <1>1, <1>2
  <1>4. IsList(Tail(s)) /\ ToSet(Tail(s)) \subseteq ToSet(s)
    BY <1>2, ListOf
  <1> QED BY <1>3, <1>4 DEF ToSet

LEMMA ConcatStart ==
  ASSUME NEW s, NEW t, IsList(s), IsList(t), s # <<>>
  PROVE  s \o t # <<>> /\ (s \o t)[1] = s[1]
  <1> DEFINE S == ToSet(s) \cup ToSet(t)
  <1>1. s \in Seq(S) /\ t \in Seq(S)
    BY ListOf DEF IsList
  <1> HIDE DEF S
  <1>2. Len(s) \in Nat \ {0} /\ Len(t) \in Nat
    BY <1>1, EmptySeq
  <1>3. /\ s \o t \in Seq(S) /\ Len(s \o t) = Len(s) + Len(t)
        /\ \A i \in 1 .. Len(s) + Len(t) :
             (s \o t)[i] = IF i <= Len(s) THEN s[i] ELSE t[i - Len(s)]
    BY <1>1, ConcatProperties
  <1>4. 1 \in 1 .. Len(s) + Len(t) /\ 1 <= Len(s) /\ Len(s \o t) # 0
    BY <1>2, <1>3
  <1>5. s \o t # <<>>
    BY <1>4
  <1> QED BY <1>3, <1>4, <1>5

-----------------------------------------------------------------------------
(* The steps of parse_options.                                             *)
Harmless(i) ==
  /\ DOMAIN i = InfoFields
  /\ i.options = info.options
  /\ \/ i.addrlist = info.addrlist
     \/ Option.key = "ip" /\ Option.val # NoVal /\ i.addrlist = Option.val
  /\ \A f \in i.flags : f \in {"USERS", "USER"} =>
       f \in info.flags \/ Option.key \in {"users", "user"}
  /\ "NOSUID" \in info.flags => "NOSUID" \in i.flags \/ Option.key = "suid"
  /\ "NODEV" \in info.flags => "NODEV" \in i.flags \/ Option.key = "dev"

LEMMA FailEffect ==
  ASSUME ShapeInv, ChildOnly, child.pc \in Parsed, NEW rc, rc # 0, Fails(rc)
  PROVE  ParseEffect
  BY DEF ShapeInv, Fails, ChildExit, ParseEffect, ChildFields

LEMMA UsageEffect ==
  ASSUME ShapeInv, ChildOnly, child.pc \in Parsed, Fails(EX_USAGE)
  PROVE  ParseEffect
  BY FailEffect DEF EX_USAGE

LEMMA SkipEffect ==
  ASSUME ShapeInv, ChildOnly, child.pc \in Parsed, child.data # <<>>,
         NEW i, Harmless(i), Skip(i)
  PROVE  ParseEffect
  <1>1. DOMAIN child' = ChildFields /\ child'.pc = "parse" /\ child'.data = Tail(child.data)
        /\ child'.cred = child.cred
    BY DEF ShapeInv, Skip, ChildFields
  <1>2. info' = i
    BY DEF Skip
  <1> QED BY <1>1, <1>2 DEF ParseEffect, Harmless, Parsed, ShapeInv

LEMMA CopyEffect ==
  ASSUME ShapeInv, ChildOnly, child.pc \in Parsed, child.data # <<>>,
         NEW i, Harmless(i), NEW word, word = Option \/ word.key \in {"file_mode", "dir_mode"},
         CopyOption(i, word)
  PROVE  ParseEffect
  <1>1. CASE Fails(EX_USAGE)
    BY <1>1, UsageEffect
  <1>2. CASE Skip([i EXCEPT !.options = Append(@, word)])
    <2> DEFINE j == [i EXCEPT !.options = Append(@, word)]
    <2>1. /\ DOMAIN j = InfoFields /\ j.options = Append(info.options, word)
          /\ j.addrlist = i.addrlist /\ j.flags = i.flags
      BY DEF Harmless, InfoFields
    <2>2. info' = j
      BY <1>2 DEF Skip
    <2> HIDE DEF j
    <2>3. DOMAIN child' = ChildFields /\ child'.pc = "parse" /\ child'.data = Tail(child.data)
          /\ child'.cred = child.cred
      BY <1>2 DEF ShapeInv, Skip, ChildFields
    <2>4. Noted(word)
      BY DEF Noted
    <2> QED BY <2>1, <2>2, <2>3, <2>4 DEF ParseEffect, Harmless, Parsed, ShapeInv
  <1> QED BY <1>1, <1>2 DEF CopyOption, Fails

(* What takes note of a name, a password or a domain.                      *)
LEMMA HarmlessChanges ==
  ASSUME ShapeInv
  PROVE  /\ Harmless(info)
         /\ \A pw : Harmless(SetPassword(info, pw))
         /\ \A u : Harmless(Username(info, u))
         /\ \A d : Harmless([info EXCEPT !.domain = d])
         /\ Harmless([info EXCEPT !.got_password = TRUE])
         /\ \A a, b : Harmless([info EXCEPT !.got_user = a, !.got_password = b])
         /\ \A u : Harmless(WithUnc(info, u))
  <1> USE DEF ShapeInv, InfoFields, Harmless
  <1>1. Harmless(info)
    OBVIOUS
  <1>2. ASSUME NEW pw PROVE Harmless(SetPassword(info, pw))
    BY DEF SetPassword
  <1>3. ASSUME NEW u PROVE Harmless(Username(info, u))
    <2>1. CASE u.password = NoVal
      BY <2>1 DEF Username
    <2>2. CASE u.password # NoVal
      BY <2>2 DEF Username, SetPassword
    <2> QED BY <2>1, <2>2
  <1>4. ASSUME NEW d PROVE Harmless([info EXCEPT !.domain = d])
    OBVIOUS
  <1>5. Harmless([info EXCEPT !.got_password = TRUE])
    OBVIOUS
  <1>6. ASSUME NEW a, NEW b PROVE Harmless([info EXCEPT !.got_user = a, !.got_password = b])
    OBVIOUS
  <1>7. ASSUME NEW u PROVE Harmless(WithUnc(info, u))
    BY DEF WithUnc
  <1> QED BY <1>1, <1>2, <1>3, <1>4, <1>5, <1>6, <1>7

LEMMA FlagEffect == ShapeInv /\ ParseFlag => ParseEffect
  <1> SUFFICES ASSUME ShapeInv, ParseFlag PROVE ParseEffect
    OBVIOUS
  <1> DEFINE k == Option.key
             on == {SetsFlag[j] : j \in DOMAIN SetsFlag \cap {k}}
             off == {ClearsFlag[j] : j \in DOMAIN ClearsFlag \cap {k}}
             i == [info EXCEPT !.flags = (@ \cup on) \ off]
  <1>1. child.pc \in Parsed /\ child.data # <<>> /\ ChildOnly
    BY DEF ParseFlag, Parsing, ChildAt, Parsed
  <1>2. Skip(i) \/ CopyOption(i, Option)
    BY DEF ParseFlag
  <1>3. DOMAIN i = InfoFields /\ i.options = info.options /\ i.addrlist = info.addrlist
        /\ i.flags = (info.flags \cup on) \ off
    BY DEF ShapeInv, InfoFields
  <1>4. /\ "USERS" \in on => k = "users"
        /\ "USER" \in on => k = "user"
        /\ "NOSUID" \in off => k = "suid"
        /\ "NODEV" \in off => k = "dev"
    BY DEF SetsFlag, ClearsFlag
  <1> HIDE DEF on, off, i
  <1>5. Harmless(i)
    BY <1>3, <1>4 DEF Harmless
  <1> QED BY <1>1, <1>2, <1>5, SkipEffect, CopyEffect

LEMMA UserEffect == ShapeInv /\ ParseUser => ParseEffect
  <1> SUFFICES ASSUME ShapeInv, ParseUser PROVE ParseEffect
    OBVIOUS
  <1>1. child.pc \in Parsed /\ child.data # <<>> /\ ChildOnly
    BY DEF ParseUser, Parsing, ChildAt, Parsed
  <1>2. Skip(Username(info, Option.val)) \/ Fails(EX_USAGE)
    BY DEF ParseUser
  <1> QED BY <1>1, <1>2, SkipEffect, UsageEffect, HarmlessChanges

LEMMA PassEffect == ShapeInv /\ ParsePass => ParseEffect
  <1> SUFFICES ASSUME ShapeInv, ParsePass PROVE ParseEffect
    OBVIOUS
  <1>1. child.pc \in Parsed /\ child.data # <<>> /\ ChildOnly
    BY DEF ParsePass, Parsing, ChildAt, Parsed
  <1>2. \/ Skip(info) \/ Skip([info EXCEPT !.got_password = TRUE]) \/ Fails(EX_USAGE)
        \/ Skip(SetPassword(info, Option.val))
    BY DEF ParsePass
  <1> QED BY <1>1, <1>2, SkipEffect, UsageEffect, HarmlessChanges

LEMMA GuestEffect == ShapeInv /\ ParseGuest => ParseEffect
  <1> SUFFICES ASSUME ShapeInv, ParseGuest PROVE ParseEffect
    OBVIOUS
  <1>1. child.pc \in Parsed /\ child.data # <<>> /\ ChildOnly
    BY DEF ParseGuest, Parsing, ChildAt, Parsed
  <1> DEFINE i == [info EXCEPT !.got_user = @ \/ Option.key = "guest",
                               !.got_password = @ \/ Option.key = "guest"
                                                  \/ Option.val \in {"none", "krb5"}]
  <1>2. CopyOption(i, Option)
    BY DEF ParseGuest
  <1>3. Harmless(i)
    BY DEF Harmless, ShapeInv, InfoFields
  <1> HIDE DEF i
  <1> QED BY <1>1, <1>2, <1>3, CopyEffect

LEMMA CredEffect == ShapeInv /\ (ParseCred \/ ReadCredLine \/ EndCred) => ParseEffect
  <1> SUFFICES ASSUME ShapeInv, ParseCred \/ ReadCredLine \/ EndCred PROVE ParseEffect
    OBVIOUS
  <1>0. child.pc \in Parsed /\ child.data # <<>> /\ ChildOnly
    BY DEF ParseCred, ReadCredLine, EndCred, Parsing, ChildAt, Parsed, ShapeInv
  <1>1. CASE ParseCred
    <2>1. CASE Fails(EX_USAGE) \/ Fails(-1)
      BY <2>1, <1>0, FailEffect DEF EX_USAGE
    <2>2. CASE /\ Option.val \in DOMAIN CredFile
               /\ child' = [child EXCEPT !.pc = "cred", !.cred = CredFile[Option.val]]
               /\ UNCHANGED info
      <3>1. IsList(CredFile[Option.val])
        BY <2>2, HelperAssumption DEF HelperAssumption
      <3>2. DOMAIN child' = ChildFields /\ child'.pc = "cred" /\ child'.data = child.data
            /\ child'.cred = CredFile[Option.val]
        BY <2>2 DEF ShapeInv, ChildFields
      <3> QED BY <3>1, <3>2, <2>2, <1>0 DEF ParseEffect, ShapeInv, Parsed
    <2> QED BY <1>1, <2>1, <2>2 DEF ParseCred
  <1>2. CASE ReadCredLine
    <2> DEFINE line == child.cred[1]
    <2>1. CASE Fails(EX_USAGE)
      BY <2>1, <1>0, UsageEffect
    <2>2. CASE info' = CredLine(info, line) /\ child' = [child EXCEPT !.cred = Tail(@)]
      <3>1. Harmless(info')
        BY <2>2, HarmlessChanges DEF CredLine
      <3>2. DOMAIN child' = ChildFields /\ child'.pc = "cred" /\ child'.data = child.data
            /\ child'.cred = Tail(child.cred)
        BY <2>2, <1>2 DEF ShapeInv, ChildFields, ReadCredLine, ChildAt
      <3>3. IsList(Tail(child.cred))
        BY <1>2, ListTail DEF ReadCredLine, ShapeInv
      <3> QED BY <3>1, <3>2, <3>3, <1>0 DEF ParseEffect, Harmless, Parsed
    <2> QED BY <1>2, <2>1, <2>2 DEF ReadCredLine
  <1>3. CASE EndCred
    BY <1>3, <1>0, CopyEffect, HarmlessChanges DEF EndCred
  <1> QED BY <1>1, <1>2, <1>3

LEMMA IpEffect == ShapeInv /\ ParseIp => ParseEffect
  <1> SUFFICES ASSUME ShapeInv, ParseIp PROVE ParseEffect
    OBVIOUS
  <1>1. child.pc \in Parsed /\ child.data # <<>> /\ ChildOnly /\ Option.key = "ip"
    BY DEF ParseIp, Parsing, ChildAt, Parsed
  <1>2. \/ Given /\ Skip([info EXCEPT !.addrlist = Option.val])
        \/ CopyOption(info, Option)
    BY DEF ParseIp
  <1>3. Given => Harmless([info EXCEPT !.addrlist = Option.val])
    BY <1>1 DEF Harmless, Given, ShapeInv, InfoFields
  <1> QED BY <1>1, <1>2, <1>3, SkipEffect, CopyEffect, HarmlessChanges

LEMMA RestEffect == ShapeInv /\ (ParseDomain \/ ParseUnc \/ ParseMode \/ ParseOther) => ParseEffect
  <1> SUFFICES ASSUME ShapeInv, ParseDomain \/ ParseUnc \/ ParseMode \/ ParseOther
               PROVE  ParseEffect
    OBVIOUS
  <1>0. child.pc \in Parsed /\ child.data # <<>> /\ ChildOnly
    BY DEF ParseDomain, ParseUnc, ParseMode, ParseOther, Parsing, ChildAt, Parsed
  <1>1. CASE ParseDomain
    <2>1. Skip([info EXCEPT !.domain = Option.val]) \/ Fails(EX_USAGE)
      BY <1>1 DEF ParseDomain
    <2> QED BY <1>0, <2>1, SkipEffect, UsageEffect, HarmlessChanges
  <1>2. CASE ParseUnc
    <2>1. CopyOption(WithUnc(info, Option.val), Option) \/ Fails(EX_USAGE)
      BY <1>2 DEF ParseUnc
    <2> QED BY <1>0, <2>1, CopyEffect, UsageEffect, HarmlessChanges
  <1>3. CASE ParseMode
    <2> DEFINE new == Word(Modern[Option.key], NoVal)
    <2>1. \/ Fails(EX_USAGE) \/ CopyOption(info, Option)
          \/ Option.key \in DOMAIN Modern /\ CopyOption(info, new)
      BY <1>3 DEF ParseMode
    <2>2. Option.key \in DOMAIN Modern => new.key \in {"file_mode", "dir_mode"}
      BY DEF Modern, Word
    <2> HIDE DEF new
    <2> QED BY <1>0, <2>1, <2>2, CopyEffect, UsageEffect, HarmlessChanges
  <1>4. CASE ParseOther
    BY <1>4, <1>0, CopyEffect, HarmlessChanges DEF ParseOther
  <1> QED BY <1>1, <1>2, <1>3, <1>4

LEMMA IdEffect == ShapeInv /\ ParseId => ParseEffect
  <1> SUFFICES ASSUME ShapeInv, ParseId PROVE ParseEffect
    OBVIOUS
  <1>1. child.pc \in Parsed /\ child.data # <<>> /\ ChildOnly
    BY DEF ParseId, Parsing, ChildAt, Parsed
  <1>2. CASE Skip(info) \/ Fails(EX_USAGE)
    BY <1>1, <1>2, SkipEffect, UsageEffect, HarmlessChanges
  <1>3. CASE \E k, n : child' = [child EXCEPT !.data = Tail(@), !.ids[k] = n] /\ UNCHANGED info
    <2>1. DOMAIN child' = ChildFields /\ child'.pc = child.pc /\ child'.data = Tail(child.data)
          /\ child'.cred = child.cred
      BY <1>3 DEF ShapeInv, ChildFields
    <2>2. child.pc = "parse" /\ info' = info
      BY <1>3 DEF ParseId, Parsing, ChildAt
    <2> QED BY <2>1, <2>2, <1>1 DEF ParseEffect, ShapeInv, Parsed
  <1> QED BY <1>2, <1>3 DEF ParseId

LEMMA Parses == ShapeInv /\ ParseOption => ParseEffect \/ EndOptions
  BY FlagEffect, UserEffect, PassEffect, GuestEffect, CredEffect, IpEffect, RestEffect, IdEffect
     DEF ParseOption

-----------------------------------------------------------------------------
(* ShapeInv is inductive.                                                  *)
LEMMA OptsAreLists ==
  ASSUME NEW c \in Commands, NEW opts \in OptsOf(c)
  PROVE  /\ IsList(opts) /\ ToSet(opts) \subseteq OptionsOf(c)
         /\ \A o \in ToSet(opts) :
              /\ o.key # "part"
              /\ o.key = "ip" /\ o.val # NoVal => IsList(o.val) /\ o.val # <<>>
  BY HelperAssumption DEF HelperAssumption, OptsOf, OptionsOf

LEMMA OptionIsKnown ==
  ASSUME ShapeInv, child.data # <<>>
  PROVE  /\ Option \in ToSet(child.data) /\ Option.key # "part"
         /\ Option.key = "ip" /\ Option.val # NoVal => IsList(Option.val) /\ Option.val # <<>>
  <1>1. Option \in ToSet(child.data) /\ Option \in OptionsOf(cmd)
    BY ListTail DEF ShapeInv, Option
  <1>2. PICK opts \in OptsOf(cmd) : Option \in ToSet(opts)
    BY <1>1 DEF OptionsOf
  <1> QED BY <1>1, <1>2, OptsAreLists DEF ShapeInv

LEMMA ShapeInit == HInit => ShapeInv
  <1> SUFFICES ASSUME HInit PROVE ShapeInv
    OBVIOUS
  <1>1. /\ info.options = <<>> /\ info.addrlist = <<>> /\ child.data = <<>> /\ child.cred = <<>>
        /\ DOMAIN info = InfoFields /\ DOMAIN child = ChildFields /\ DOMAIN parent = ParentFields
    BY DEF HInit, NoInfo, InfoFields, ChildFields, ParentFields
  <1> QED BY <1>1, ListBase DEF HInit, ShapeInv

LEMMA ParseShape ==
  ASSUME ShapeInv, ParseEffect
  PROVE  ShapeInv'
  <1>1. UNCHANGED <<cmd, parent, requests, mtab>> /\ parent.pc = "wait"
    BY DEF ParseEffect, ChildOnly, ShapeInv, Parsed
  <1>2. CASE child'.pc = "exited" /\ info' = info /\ child'.data = child.data
             /\ child'.cred = child.cred
    BY <1>1, <1>2 DEF ShapeInv, ParseEffect
  <1>3. CASE child.data # <<>> /\ child'.pc \in Parsed
    <2>1. IsList(info.addrlist')
      BY <1>3, OptionIsKnown DEF ParseEffect, ShapeInv
    <2>2. IsList(info.options')
      BY <1>3, ListAppend, ZenonT(40) DEF ParseEffect, ShapeInv
    <2>3. IsList(child.data') /\ ToSet(child.data') \subseteq ToSet(child.data)
      BY <1>3, ListTail DEF ParseEffect, ShapeInv
    <2>4. IsList(child.cred')
      BY <1>3 DEF ParseEffect, ShapeInv
    <2>5. child'.pc = "cred" => child'.data # <<>>
      BY <1>3 DEF ParseEffect
    <2> QED BY <1>1, <1>3, <2>1, <2>2, <2>3, <2>4, <2>5 DEF ShapeInv, ParseEffect, Parsed
  <1> QED BY <1>2, <1>3 DEF ParseEffect, Parsed

(* What the other steps of the child do to its state.                      *)
LEMMA GoShape ==
  ASSUME ShapeInv, ChildOnly, child.pc \notin {"none", "exited", "killed"},
         NEW pc, pc \notin {"none", "cred"}, ChildGo(pc),
         DOMAIN info' = InfoFields, IsList(info.options'), IsList(info.addrlist')
  PROVE  ShapeInv'
  <1>1. /\ DOMAIN child' = ChildFields /\ child'.pc = pc /\ child'.data = child.data
        /\ child'.cred = child.cred
    BY DEF ShapeInv, ChildFields, ChildGo
  <1> QED BY <1>1 DEF ShapeInv, ChildOnly

LEMMA ExitShape ==
  ASSUME ShapeInv, ChildOnly, child.pc \notin {"none", "exited", "killed"},
         NEW rc, ChildExit(rc),
         DOMAIN info' = InfoFields, IsList(info.options'), IsList(info.addrlist')
  PROVE  ShapeInv'
  <1>1. /\ DOMAIN child' = ChildFields /\ child'.pc = "exited" /\ child'.data = child.data
        /\ child'.cred = child.cred
    BY DEF ShapeInv, ChildFields, ChildExit
  <1> QED BY <1>1 DEF ShapeInv, ChildOnly

(* What the ids become.                                                    *)
LEMMA WithIdsIsList ==
  ASSUME NEW options, IsList(options), NEW ids
  PROVE  /\ IsList(WithIds(options, ids))
         /\ \A o \in ToSet(WithIds(options, ids)) : o \in ToSet(options) \/ o.key \in IdWords
  <1> DEFINE IdWord(k) == IF ids[k] = NoVal THEN <<>> ELSE <<Word(k, ids[k])>>
             start == options \o IdWord("uid")
             before == start \o IdWord("cruid")
             backup == IdWord("backupuid") \o IdWord("backupgid")
             head == [backup[1] EXCEPT !.key = AfterG[@]]
             garbled == <<head>> \o Tail(backup)
             last == IF backup = <<>> THEN IdWord("gid")
                     ELSE IF ids["gid"] # NoVal /\ before # <<>> THEN garbled ELSE backup
  <1>1. WithIds(options, ids) = before \o last
    BY DEF WithIds
  <1>2. \A k : IsList(IdWord(k)) /\ \A o \in ToSet(IdWord(k)) : o = Word(k, ids[k])
    BY ListBase
  <1>3. \A k : Word(k, ids[k]).key = k
    BY DEF Word
  <1> HIDE DEF IdWord
  <1>4. IsList(before) /\ \A o \in ToSet(before) : o \in ToSet(options) \/ o.key \in IdWords
    <2>1. IsList(start) /\ ToSet(start) = ToSet(options) \cup ToSet(IdWord("uid"))
      BY <1>2, ListConcat
    <2> HIDE DEF start
    <2>2. IsList(before) /\ ToSet(before) = ToSet(start) \cup ToSet(IdWord("cruid"))
      BY <2>1, <1>2, ListConcat
    <2> QED BY <2>1, <2>2, <1>2, <1>3 DEF IdWords, IdKeys
  <1>5. /\ IsList(backup)
        /\ \A o \in ToSet(backup) : \E k \in {"backupuid", "backupgid"} : o = Word(k, ids[k])
    BY <1>2, ListConcat
  <1>6. IsList(last) /\ \A o \in ToSet(last) : o.key \in IdWords
    <2>1. CASE last = garbled /\ backup # <<>>
      <3> HIDE DEF backup, before
      <3>1. backup[1] \in ToSet(backup) /\ IsList(Tail(backup))
            /\ ToSet(Tail(backup)) \subseteq ToSet(backup)
        BY <1>5, <2>1, ListTail
      <3>2. head.key \in {"gbackupuid", "gbackupgid"}
        BY <1>5, <3>1 DEF Word, AfterG
      <3> HIDE DEF head
      <3>3. IsList(garbled) /\ ToSet(garbled) = {head} \cup ToSet(Tail(backup))
        BY <3>1, ListBase, ListConcat
      <3>4. \A o \in ToSet(backup) : o.key \in IdWords
        BY <1>3, <1>5 DEF IdWords, IdKeys
      <3>5. head.key \in IdWords
        BY <3>2 DEF IdWords, AfterG
      <3> HIDE DEF last, garbled
      <3> QED BY <2>1, <3>1, <3>3, <3>4, <3>5
    <2>2. CASE last = backup
      BY <2>2, <1>3, <1>5 DEF IdWords, IdKeys
    <2>3. CASE last = IdWord("gid")
      BY <2>3, <1>2, <1>3 DEF IdWords, IdKeys
    <2> QED BY <2>1, <2>2, <2>3
  <1> HIDE DEF before, last
  <1> QED BY <1>1, <1>4, <1>6, ListConcat

LEMMA FinalIsList ==
  ASSUME NEW i
  PROVE  /\ IsList(Final(i)) /\ Final(i) # <<>>
         /\ \A o \in ToSet(Final(i)) : o.key \in {"ver", "user", "domain"}
  <1> DEFINE first == <<Word("ver", NoVal), Word("user", i.username)>>
             rest == IF i.domain = NoVal THEN <<>> ELSE <<Word("domain", i.domain)>>
  <1>1. IsList(first) /\ \A o \in ToSet(first) : o.key \in {"ver", "user"}
    BY ListBase DEF Word
  <1>2. IsList(rest) /\ \A o \in ToSet(rest) : o.key = "domain"
    BY ListBase DEF Word
  <1>3. Final(i) = first \o rest
    BY DEF Final
  <1>4. first # <<>>
    OBVIOUS
  <1> HIDE DEF first, rest
  <1>5. IsList(first \o rest) /\ ToSet(first \o rest) = ToSet(first) \cup ToSet(rest)
    BY <1>1, <1>2, ListConcat
  <1>6. ToSet(first) # {}
    BY <1>1, <1>4, ListTail
  <1>7. first \o rest # <<>>
    BY <1>5, <1>6, ListBase
  <1> QED BY <1>1, <1>2, <1>3, <1>5, <1>7

(* What does not fit is left out at the end.                               *)
LEMMA CutsAreLists ==
  ASSUME NEW s, IsList(s), NEW t \in Cuts(s)
  PROVE  /\ IsList(t)
         /\ \A o \in ToSet(t) : o \in ToSet(s) \/ \E w \in ToSet(s) : o = Part(w)
         /\ s # <<>> => t[1] = s[1]
         /\ Len(t) < MAX_OPTIONS => t = s
  <1> DEFINE kept == SubSeq(s, 1, MAX_OPTIONS)
             w == s[MAX_OPTIONS + 1]
             cut == Append(kept, Part(w))
  <1>1. CASE t = s
    BY <1>1
  <1>2. CASE Len(s) > MAX_OPTIONS /\ (t = kept \/ t = cut)
    <2>1. /\ s \in Seq(ToSet(s)) /\ Len(s) \in Nat /\ DOMAIN s = 1 .. Len(s)
          /\ MAX_OPTIONS \in Nat \ {0}
      BY HelperAssumption, ListOf DEF IsList, HelperAssumption
    <2>2. kept \in Seq(ToSet(s)) /\ Len(kept) = MAX_OPTIONS /\ kept[1] = s[1]
      BY <1>2, <2>1
    <2>3. w \in ToSet(s)
      BY <1>2, <2>1 DEF ToSet
    <2> HIDE DEF kept, w
    <2>4. IsList(kept) /\ ToSet(kept) \subseteq ToSet(s)
      BY <2>2, ListOf
    <2>5. IsList(cut) /\ ToSet(cut) = ToSet(kept) \cup {Part(w)}
      BY <2>4, ListAppend
    <2>6. Len(cut) = MAX_OPTIONS + 1 /\ cut[1] = kept[1]
      <3> DEFINE S == ToSet(s) \cup {Part(w)}
      <3>1. kept \in Seq(S) /\ Part(w) \in S
        BY <2>4, ListOf DEF IsList
      <3> HIDE DEF S
      <3> QED BY <3>1, <2>1, <2>2
    <2> HIDE DEF cut
    <2>7. ~(Len(t) < MAX_OPTIONS)
      BY <1>2, <2>1, <2>2, <2>6
    <2> QED BY <1>2, <2>2, <2>3, <2>4, <2>5, <2>6, <2>7
  <1> QED BY <1>1, <1>2, HelperAssumption, ListOf DEF Cuts, IsList, HelperAssumption

LEMMA AddressListIsList ==
  ASSUME NEW entries, IsList(entries), entries # <<>>
  PROVE  IsList(AddressList(entries)) /\ AddressList(entries) # <<>>
  <1> DEFINE places == {n \in DOMAIN entries : n = 1 \/ entries[n].tcp}
             Place(k) == CHOOSE n \in places : Cardinality({m \in places : m <= n}) = k
             Text(e) == IF e.tcp THEN e.addr ELSE Empty
             list == [k \in 1 .. Cardinality(places) |-> Text(entries[Place(k)])]
  <1>1. DOMAIN entries = 1 .. Len(entries) /\ Len(entries) \in Nat \ {0}
    BY EmptySeq DEF IsList
  <1>2. IsFiniteSet(places)
    <2>1. IsFiniteSet(1 .. Len(entries))
      BY <1>1, FS_Interval
    <2>2. places \subseteq 1 .. Len(entries)
      BY <1>1
    <2> QED BY <2>1, <2>2, FS_Subset
  <1>3. 1 \in places
    BY <1>1
  <1> HIDE DEF places, Place, Text
  <1>4. Cardinality(places) \in Nat /\ Cardinality(places) # 0
    BY <1>2, <1>3, FS_CardinalityType, FS_EmptySet
  <1>5. list \in [1 .. Cardinality(places) -> ToSet(list)]
    BY DEF ToSet
  <1>6. IsList(list)
    BY <1>4, <1>5, SeqDef DEF IsList
  <1>7. 1 \in DOMAIN list
    BY <1>4
  <1>8. list # <<>>
    <2> HIDE DEF list
    <2> QED BY <1>7
  <1>9. AddressList(entries) = list
    BY DEF AddressList, places, Place, Text
  <1> QED BY <1>6, <1>8, <1>9

LEMMA ChildShape ==
  ASSUME ShapeInv, ChildStep \/ ChildDies
  PROVE  ShapeInv'
  <1> USE DEF ChildAt
  <1>0. DOMAIN info = InfoFields /\ IsList(info.options) /\ IsList(info.addrlist)
    BY DEF ShapeInv
  <1>1. CASE DropPrivileges
    BY <1>1, <1>0, GoShape, ExitShape DEF DropPrivileges
  <1>2. CASE CheckFstab
    <2>1. CASE Listed /\ child' = [child EXCEPT !.pc = "env", !.data = cmd.fstab.opts]
               /\ info' = [info EXCEPT !.flags = @ \cup {"NOSUID", "NODEV"}]
      <3>1. cmd.fstab.opts \in OptsOf(cmd) /\ cmd \in Commands
        BY <2>1 DEF OptsOf, Listed, ShapeInv
      <3>2. /\ DOMAIN child' = ChildFields /\ child'.pc = "env"
            /\ child'.data = cmd.fstab.opts /\ child'.cred = child.cred
        BY <2>1 DEF ShapeInv, ChildFields
      <3>3. DOMAIN info' = InfoFields /\ info'.options = info.options
            /\ info'.addrlist = info.addrlist
        BY <2>1 DEF ShapeInv, InfoFields
      <3> QED BY <1>2, <3>1, <3>2, <3>3, OptsAreLists DEF ShapeInv, CheckFstab, ChildOnly
    <2> QED BY <1>2, <1>0, <2>1, ExitShape DEF CheckFstab
  <1>3. CASE GetPwFromEnv
    <2>1. info' = info \/ \E pw : info' = SetPassword(info, pw)
      BY <1>3 DEF GetPwFromEnv
    <2>2. DOMAIN info' = InfoFields /\ IsList(info.options') /\ IsList(info.addrlist')
      BY <2>1, <1>0 DEF SetPassword, InfoFields
    <2>3. ChildGo("parse") \/ \E rc : ChildExit(rc)
      BY <1>3 DEF GetPwFromEnv
    <2> QED BY <1>3, <2>2, <2>3, GoShape, ExitShape DEF GetPwFromEnv
  <1>4. CASE ParseOption
    <2>1. CASE ParseEffect
      BY <2>1, ParseShape
    <2>2. CASE EndOptions
      <3>1. CASE Fails(EX_USAGE)
        BY <3>1, <2>2, <1>0, ExitShape DEF EndOptions, Fails
      <3>2. CASE \E ids : /\ ChildGo("permission")
                          /\ info' = [info EXCEPT !.options = WithIds(info.options, ids)]
        <4>1. PICK ids : info' = [info EXCEPT !.options = WithIds(info.options, ids)]
          BY <3>2
        <4>2. IsList(WithIds(info.options, ids))
          BY <1>0, WithIdsIsList
        <4>3. DOMAIN info' = InfoFields /\ info'.addrlist = info.addrlist
              /\ info'.options = WithIds(info.options, ids)
          BY <4>1 DEF ShapeInv, InfoFields
        <4> QED BY <3>2, <4>2, <4>3, <2>2, <1>0, GoShape DEF EndOptions
      <3> QED BY <2>2, <3>1, <3>2 DEF EndOptions
    <2> QED BY <1>4, <2>1, <2>2, Parses
  <1>5. CASE CheckPermission
    <2>1. CASE Fails(EX_USAGE)
      BY <1>5, <2>1, <1>0, ExitShape DEF CheckPermission, Fails
    <2>2. CASE ChildGo("unc") /\ info' = [info EXCEPT !.flags = @ \ {"USERS", "USER"}]
      <3>1. DOMAIN info' = InfoFields /\ info'.options = info.options
            /\ info'.addrlist = info.addrlist
        BY <2>2 DEF ShapeInv, InfoFields
      <3> QED BY <3>1, <2>2, <1>5, <1>0, GoShape DEF CheckPermission
    <2> QED BY <1>5, <2>1, <2>2 DEF CheckPermission
  <1>6. CASE ParseDevice
    <2>1. CASE Fails(EX_USAGE)
      BY <1>6, <2>1, <1>0, ExitShape DEF ParseDevice, Fails
    <2>2. CASE ChildGo("resolve") /\ info' = WithUnc(info, cmd.dev)
      <3>1. DOMAIN info' = InfoFields /\ info'.options = info.options
            /\ info'.addrlist = info.addrlist
        BY <2>2 DEF ShapeInv, InfoFields, WithUnc
      <3> QED BY <3>1, <2>2, <1>6, <1>0, GoShape DEF ParseDevice
    <2> QED BY <1>6, <2>1, <2>2 DEF ParseDevice
  <1>7. CASE ResolveHost
    <2>1. CASE \E rc : Fails(rc)
      BY <1>7, <2>1, <1>0, ExitShape DEF ResolveHost, Fails
    <2>2. CASE ChildGo("user") /\ UNCHANGED info
      BY <1>7, <2>2, <1>0, GoShape DEF ResolveHost
    <2>3. CASE ChildGo("user") /\ \E entries \in AddrInfos :
                 info' = [info EXCEPT !.addrlist = AddressList(entries)]
      <3>1. PICK entries \in AddrInfos : info' = [info EXCEPT !.addrlist = AddressList(entries)]
        BY <2>3
      <3>2. IsList(AddressList(entries))
        BY HelperAssumption, AddressListIsList DEF HelperAssumption
      <3>3. DOMAIN info' = InfoFields /\ info'.options = info.options
            /\ info'.addrlist = AddressList(entries)
        BY <3>1 DEF ShapeInv, InfoFields
      <3> QED BY <3>2, <3>3, <2>3, <1>7, <1>0, GoShape DEF ResolveHost
    <2> QED BY <1>7, <2>1, <2>2, <2>3 DEF ResolveHost
  <1>8. CASE GetUser
    <2>1. info' = info \/ \E n : info' = [info EXCEPT !.username = n, !.got_user = TRUE]
      BY <1>8 DEF GetUser
    <2>2. DOMAIN info' = InfoFields /\ IsList(info.options') /\ IsList(info.addrlist')
      BY <2>1, <1>0 DEF InfoFields
    <2>3. ChildGo("killed") \/ ChildGo("password")
      BY <1>8 DEF GetUser
    <2> QED BY <1>8, <2>2, <2>3, GoShape DEF GetUser
  <1>9. CASE GetPassword
    <2>1. info' = info \/ info' = SetPassword(info, "typed")
      BY <1>9 DEF GetPassword, Fails
    <2>2. DOMAIN info' = InfoFields /\ IsList(info.options') /\ IsList(info.addrlist')
      BY <2>1, <1>0 DEF SetPassword, InfoFields
    <2>3. ChildGo("finish") \/ \E rc : ChildExit(rc)
      BY <1>9 DEF GetPassword, Fails
    <2> QED BY <1>9, <2>2, <2>3, GoShape, ExitShape DEF GetPassword
  <1>10. CASE Finish
    <2>1. PICK options \in Cuts(info.options \o Final(info)) :
            info' = [info EXCEPT !.options = options]
      BY <1>10 DEF Finish
    <2>2. DOMAIN info' = InfoFields /\ info'.addrlist = info.addrlist /\ info'.options = options
      BY <2>1 DEF ShapeInv, InfoFields
    <2>3. IsList(options)
      BY <1>0, FinalIsList, ListConcat, CutsAreLists
    <2> QED BY <1>10, <1>0, <2>2, <2>3, ExitShape DEF Finish
  <1>11. CASE ChildDies
    BY <1>11, <1>0, GoShape DEF ChildDies
  <1> QED BY <1>1, <1>2, <1>3, <1>4, <1>5, <1>6, <1>7, <1>8, <1>9, <1>10, <1>11 DEF ChildStep

(* What the steps of the parent do to its state; info changes in Main and  *)
(* loses the password in the end.                                          *)
LEMMA ExitEffect ==
  ASSUME ShapeInv, NEW rc, MountExit(rc)
  PROVE  /\ DOMAIN parent' = ParentFields /\ parent'.pc = "done" /\ parent'.rc = rc
         /\ DOMAIN info' = InfoFields
         /\ \A f \in InfoFields \ {"password"} : info'[f] = info[f]
  BY DEF ShapeInv, MountExit, ParentFields, InfoFields

LEMMA ParentShape ==
  ASSUME ShapeInv, ParentStep
  PROVE  ShapeInv'
  <1>1. CASE Main
    <2>1. CASE /\ parent' = [parent EXCEPT !.pc = "wait"]
               /\ child' = [child EXCEPT !.pc = "drop", !.data = cmd.opts]
               /\ info' = [info EXCEPT !.nomtab = "n" \in ToSet(cmd.switches),
                                       !.fakemnt = "f" \in ToSet(cmd.switches),
                                       !.flags = IF ReadOnly(cmd.switches) THEN {"RDONLY"} ELSE {}]
      <3>1. /\ DOMAIN parent' = ParentFields /\ parent'.pc = "wait"
            /\ DOMAIN child' = ChildFields /\ child'.pc = "drop" /\ child'.data = cmd.opts
            /\ child'.cred = child.cred
        BY <2>1 DEF ShapeInv, ParentFields, ChildFields
      <3>2. /\ DOMAIN info' = InfoFields /\ info'.options = info.options
            /\ info'.addrlist = info.addrlist
        BY <2>1 DEF ShapeInv, InfoFields
      <3>3. IsList(cmd.opts) /\ ToSet(cmd.opts) \subseteq OptionsOf(cmd)
        BY OptsAreLists DEF ShapeInv, OptsOf
      <3>4. UNCHANGED cmd
        BY <1>1 DEF Main
      <3> QED BY <3>1, <3>2, <3>3, <3>4 DEF ShapeInv
    <2>2. CASE \E rc : MountExit(rc) /\ UNCHANGED child
      <3>1. parent.pc = "main" /\ UNCHANGED cmd
        BY <1>1 DEF Main
      <3>2. UNCHANGED child /\ DOMAIN parent' = ParentFields /\ parent'.pc = "done"
            /\ DOMAIN info' = InfoFields
            /\ info'.options = info.options /\ info'.addrlist = info.addrlist
        BY <2>2, ExitEffect DEF InfoFields
      <3> QED BY <3>1, <3>2 DEF ShapeInv
    <2> QED BY <1>1, <2>1, <2>2 DEF Main
  <1>2. CASE ~Main
    <2>1. UNCHANGED <<cmd, child>>
      BY <1>2 DEF ParentStep, WaitForChild, NoMount, Mount, TryNextAddress, TryUpper, RecordMount
    <2>2. \/ \E rc : MountExit(rc)
          \/ /\ UNCHANGED info
             /\ \/ \E a : parent' = [parent EXCEPT !.pc = "mount", !.addrs = a]
                \/ parent' = [parent EXCEPT !.pc = "mtab"]
                \/ parent' = [parent EXCEPT !.addrs = Tail(@)]
                \/ parent' = [parent EXCEPT !.upper = TRUE]
      BY <1>2 DEF ParentStep, WaitForChild, NoMount, Mount, TryNextAddress, TryUpper, RecordMount
    <2>3. /\ parent.pc \in {"wait", "mount", "mtab"}
          /\ parent.pc = "wait" => child.pc \in {"exited", "killed"}
      BY <1>2 DEF ParentStep, WaitForChild, NoMount, Mount, TryNextAddress, TryUpper, RecordMount,
                  CanMount
    <2>4. /\ DOMAIN parent' = ParentFields
          /\ parent'.pc \in {"mount", "mtab", "done"} \/ parent'.pc = parent.pc
          /\ DOMAIN info' = InfoFields /\ info'.options = info.options
          /\ info'.addrlist = info.addrlist
      <3>1. CASE \E rc : MountExit(rc)
        BY <3>1, ExitEffect DEF InfoFields
      <3>2. CASE UNCHANGED info
        BY <3>2, <2>2, ExitEffect DEF ShapeInv, ParentFields, InfoFields
      <3> QED BY <2>2, <3>1, <3>2
    <2> QED BY <2>1, <2>3, <2>4 DEF ShapeInv
  <1> QED BY <1>1, <1>2

LEMMA StepShape == ShapeInv /\ [HNext]_hvars => ShapeInv'
  <1>1. ShapeInv /\ UNCHANGED hvars => ShapeInv'
    BY DEF ShapeInv, hvars
  <1> QED BY <1>1, ChildShape, ParentShape DEF HNext

-----------------------------------------------------------------------------
(* What each place of the child says of what has been assembled.           *)
Past == {"unc", "resolve", "user", "password", "finish"}
Built == child.pc = "exited" /\ child.rc = 0
Mounting == parent.pc \in {"mount", "mtab"} \/ (parent.pc = "done" /\ parent.rc = 0 /\ ~OnlyPrints)

AssembledInv ==
  /\ child.pc \in Past \/ Built => info.flags \cap {"USERS", "USER"} = {}
  /\ child.pc \in {"user", "password", "finish"} \/ Built => info.addrlist # <<>>
  /\ child.pc \in {"password", "finish"} \/ Built => info.got_user
  /\ child.pc = "finish" \/ Built => info.got_password
  /\ Built /\ Len(info.options) < MAX_OPTIONS => IsSuffix(Final(info), info.options)
  /\ Mounting => Built

LEMMA SuffixOfConcat ==
  ASSUME NEW a, NEW b, IsList(a), IsList(b)
  PROVE  IsSuffix(b, a \o b)
  <1> DEFINE c == a \o b
             rb == Reverse(b)
             rc == Reverse(c)
             S == ToSet(a) \cup ToSet(b)
  <1>1. a \in Seq(S) /\ b \in Seq(S)
    BY ListOf DEF IsList
  <1>2. /\ c \in Seq(S) /\ Len(c) = Len(a) + Len(b) /\ Len(a) \in Nat /\ Len(b) \in Nat
        /\ \A i \in 1 .. Len(c) : c[i] = IF i <= Len(a) THEN a[i] ELSE b[i - Len(a)]
    BY <1>1, ConcatProperties
  <1> HIDE DEF c, S
  <1>3. /\ rb = [i \in 1 .. Len(b) |-> b[Len(b) - i + 1]]
        /\ rc = [i \in 1 .. Len(c) |-> c[Len(c) - i + 1]]
    BY DEF Reverse
  <1> HIDE DEF rb, rc
  <1>4. \A i \in 1 .. Len(b) : rb[i] = rc[i]
    <2> SUFFICES ASSUME NEW i \in 1 .. Len(b) PROVE rb[i] = rc[i]
      OBVIOUS
    <2> DEFINE j == Len(c) - i + 1
    <2>1. j \in 1 .. Len(c) /\ ~(j <= Len(a)) /\ j - Len(a) = Len(b) - i + 1 /\ i \in 1 .. Len(c)
      BY <1>2
    <2>2. rc[i] = c[j]
      BY <2>1, <1>3
    <2> HIDE DEF j
    <2>3. c[j] = b[Len(b) - i + 1]
      BY <2>1, <1>2
    <2> QED BY <2>2, <2>3, <1>3
  <1>5. Len(rb) = Len(b) /\ Len(rc) = Len(c)
    BY <1>2, <1>3
  <1>6. SubSeq(rb, 1, Len(b)) = SubSeq(rc, 1, Len(b))
    BY <1>2, <1>4
  <1>7. IsPrefix(rb, rc)
    BY <1>2, <1>5, <1>6 DEF IsPrefix
  <1> QED BY <1>7 DEF IsSuffix, rb, rc, c

LEMMA AssembledInit == HInit => AssembledInv
  BY DEF HInit, AssembledInv, Past, Built, Mounting

(* A child that goes on or fails, with what was made true so far.          *)
LEMMA GoFields ==
  ASSUME ShapeInv, NEW pc, ChildGo(pc)
  PROVE  child'.pc = pc
  BY DEF ShapeInv, ChildFields, ChildGo

LEMMA ExitFields ==
  ASSUME ShapeInv, NEW rc, ChildExit(rc)
  PROVE  child'.pc = "exited" /\ child'.rc = rc
  BY DEF ShapeInv, ChildFields, ChildExit

LEMMA WhileWorking ==
  ASSUME ShapeInv, AssembledInv, ChildStep \/ ChildDies
  PROVE  /\ ChildOnly /\ ~Mounting'
         /\ child.pc \notin {"none", "exited", "killed"}
  <1>1. ChildOnly /\ child.pc \notin {"none", "exited", "killed"}
    <2>1. CASE ParseOption
      BY <2>1, Parses DEF ParseEffect, Parsed, EndOptions, ChildAt
    <2>2. CASE ~ParseOption
      BY <2>2 DEF ChildStep, ChildDies, ChildAt, DropPrivileges, CheckFstab, GetPwFromEnv,
           CheckPermission, ParseDevice, ResolveHost, GetUser, GetPassword, Finish
    <2> QED BY <2>1, <2>2
  <1>2. parent.pc = "wait" /\ UNCHANGED parent
    BY <1>1 DEF ShapeInv, ChildOnly
  <1> QED BY <1>1, <1>2 DEF Mounting

LEMMA NothingBuilt ==
  ASSUME ~Mounting', child'.pc \notin Past, ~Built'
  PROVE  AssembledInv'
  BY DEF AssembledInv, Past, Built

LEMMA FailedBuilds ==
  ASSUME ShapeInv, ~Mounting', NEW rc, rc # 0, Fails(rc) \/ ChildExit(rc)
  PROVE  AssembledInv'
  <1>1. child'.pc = "exited" /\ child'.rc = rc
    BY ExitFields DEF Fails
  <1> QED BY <1>1, NothingBuilt DEF Past, Built

LEMMA CodesNotZero == EX_USAGE # 0 /\ EX_SYSERR # 0 /\ EX_FILEIO # 0 /\ EX_FAIL # 0 /\ -1 # 0
  BY DEF EX_USAGE, EX_SYSERR, EX_FILEIO, EX_FAIL

LEMMA ChildAssembles ==
  ASSUME ShapeInv, AssembledInv, ChildStep \/ ChildDies
  PROVE  AssembledInv'
  <1> USE DEF ChildAt
  <1>0. ~Mounting' /\ DOMAIN info = InfoFields
    BY WhileWorking DEF ShapeInv
  <1>1. CASE DropPrivileges
    <2>1. CASE ChildExit(EX_SYSERR)
      BY <2>1, <1>0, FailedBuilds, CodesNotZero
    <2>2. CASE ChildGo("fstab") \/ ChildGo("env")
      BY <2>2, <1>0, GoFields, NothingBuilt DEF Past, Built
    <2> QED BY <1>1, <2>1, <2>2 DEF DropPrivileges
  <1>2. CASE CheckFstab
    <2>1. CASE ChildExit(EX_USAGE) \/ ChildExit(EX_FILEIO)
      BY <2>1, <1>0, FailedBuilds, CodesNotZero
    <2>2. CASE child' = [child EXCEPT !.pc = "env", !.data = cmd.fstab.opts]
      <3>1. child'.pc = "env"
        BY <2>2 DEF ShapeInv, ChildFields
      <3> QED BY <3>1, <1>0, NothingBuilt DEF Past, Built
    <2> QED BY <1>2, <2>1, <2>2 DEF CheckFstab
  <1>3. CASE GetPwFromEnv
    <2>1. CASE ChildExit(EX_USAGE) \/ ChildExit(EX_SYSERR)
      BY <2>1, <1>0, FailedBuilds, CodesNotZero
    <2>2. CASE ChildGo("parse")
      BY <2>2, <1>0, GoFields, NothingBuilt DEF Past, Built
    <2> QED BY <1>3, <2>1, <2>2 DEF GetPwFromEnv
  <1>4. CASE ParseOption
    <2>1. CASE ParseEffect
      BY <2>1, <1>0, NothingBuilt DEF ParseEffect, Past, Built, Parsed
    <2>2. CASE EndOptions
      <3>1. CASE Fails(EX_USAGE)
        BY <3>1, <1>0, FailedBuilds, CodesNotZero
      <3>2. CASE ChildGo("permission")
        BY <3>2, <1>0, GoFields, NothingBuilt DEF Past, Built
      <3> QED BY <2>2, <3>1, <3>2 DEF EndOptions
    <2> QED BY <1>4, <2>1, <2>2, Parses
  <1>5. CASE CheckPermission
    <2>1. CASE Fails(EX_USAGE)
      BY <2>1, <1>0, FailedBuilds, CodesNotZero
    <2>2. CASE ChildGo("unc") /\ info' = [info EXCEPT !.flags = @ \ {"USERS", "USER"}]
      <3>1. child'.pc = "unc" /\ info'.flags = info.flags \ {"USERS", "USER"}
        BY <2>2, <1>0, GoFields DEF InfoFields
      <3> QED BY <3>1, <1>0 DEF AssembledInv, Past, Built
    <2> QED BY <1>5, <2>1, <2>2 DEF CheckPermission
  <1>6. CASE ParseDevice
    <2>1. CASE Fails(EX_USAGE)
      BY <2>1, <1>0, FailedBuilds, CodesNotZero
    <2>2. CASE ChildGo("resolve") /\ info' = WithUnc(info, cmd.dev)
      <3>1. child'.pc = "resolve" /\ info'.flags = info.flags
        BY <2>2, <1>0, GoFields DEF WithUnc, InfoFields
      <3> QED BY <3>1, <1>0, <1>6 DEF AssembledInv, Past, Built, ParseDevice
    <2> QED BY <1>6, <2>1, <2>2 DEF ParseDevice
  <1>7. CASE ResolveHost
    <2>1. CASE Fails(EX_USAGE) \/ Fails(EX_SYSERR)
      BY <2>1, <1>0, FailedBuilds, CodesNotZero
    <2>2. CASE info.addrlist # <<>> /\ ChildGo("user") /\ UNCHANGED info
      <3>1. child'.pc = "user"
        BY <2>2, GoFields
      <3> QED BY <3>1, <2>2, <1>0, <1>7 DEF AssembledInv, Past, Built, ResolveHost
    <2>3. CASE ChildGo("user") /\ \E entries \in AddrInfos :
                 info' = [info EXCEPT !.addrlist = AddressList(entries)]
      <3>1. PICK entries \in AddrInfos : info' = [info EXCEPT !.addrlist = AddressList(entries)]
        BY <2>3
      <3>2. AddressList(entries) # <<>>
        BY HelperAssumption, AddressListIsList DEF HelperAssumption
      <3>3. child'.pc = "user" /\ info'.flags = info.flags
            /\ info'.addrlist = AddressList(entries)
        BY <2>3, <3>1, <1>0, GoFields DEF InfoFields
      <3> QED BY <3>2, <3>3, <1>0, <1>7 DEF AssembledInv, Past, Built, ResolveHost
    <2> QED BY <1>7, <2>1, <2>2, <2>3 DEF ResolveHost
  <1>8. CASE GetUser
    <2>1. CASE ChildGo("killed")
      BY <2>1, <1>0, GoFields, NothingBuilt DEF Past, Built
    <2>2. CASE ChildGo("password") /\ info.got_user /\ UNCHANGED info
      <3>1. child'.pc = "password"
        BY <2>2, GoFields
      <3> QED BY <3>1, <2>2, <1>0, <1>8 DEF AssembledInv, Past, Built, GetUser
    <2>3. CASE /\ ChildGo("password")
               /\ \E n : info' = [info EXCEPT !.username = n, !.got_user = TRUE]
      <3>1. child'.pc = "password" /\ info'.flags = info.flags
            /\ info'.addrlist = info.addrlist /\ info'.got_user
        BY <2>3, <1>0, GoFields DEF InfoFields
      <3> QED BY <3>1, <1>0, <1>8 DEF AssembledInv, Past, Built, GetUser
    <2> QED BY <1>8, <2>1, <2>2, <2>3 DEF GetUser
  <1>9. CASE GetPassword
    <2>1. CASE Fails(EX_USAGE) \/ Fails(EX_SYSERR)
      BY <2>1, <1>0, FailedBuilds, CodesNotZero
    <2>2. CASE ChildGo("finish") /\ info.got_password /\ UNCHANGED info
      <3>1. child'.pc = "finish"
        BY <2>2, GoFields
      <3> QED BY <3>1, <2>2, <1>0, <1>9 DEF AssembledInv, Past, Built, GetPassword
    <2>3. CASE ChildGo("finish") /\ info' = SetPassword(info, "typed")
      <3>1. child'.pc = "finish" /\ info'.flags = info.flags
            /\ info'.addrlist = info.addrlist /\ info'.got_user = info.got_user
            /\ info'.got_password
        BY <2>3, <1>0, GoFields DEF InfoFields, SetPassword
      <3> QED BY <3>1, <1>0, <1>9 DEF AssembledInv, Past, Built, GetPassword
    <2> QED BY <1>9, <2>1, <2>2, <2>3 DEF GetPassword
  <1>10. CASE Finish
    <2>1. PICK options \in Cuts(info.options \o Final(info)) :
            info' = [info EXCEPT !.options = options]
      BY <1>10 DEF Finish
    <2>2. /\ info'.options = options
          /\ \A f \in InfoFields \ {"options"} : info'[f] = info[f]
      BY <2>1, <1>0
    <2>3. Final(info)' = Final(info)
      BY <2>2 DEF Final, InfoFields
    <2>4. IsSuffix(Final(info), info.options \o Final(info))
      BY SuffixOfConcat, FinalIsList DEF ShapeInv
    <2>5. child'.pc = "exited"
      BY <1>10, ExitFields DEF Finish
    <2>6. info'.flags = info.flags /\ info'.addrlist = info.addrlist
          /\ info'.got_user = info.got_user /\ info'.got_password = info.got_password
      BY <2>2 DEF InfoFields
    <2>7. (Len(info.options) < MAX_OPTIONS => IsSuffix(Final(info), info.options))'
      <3>1. IsList(info.options \o Final(info))
        BY FinalIsList, ListConcat DEF ShapeInv
      <3>2. Len(options) < MAX_OPTIONS => options = info.options \o Final(info)
        BY <3>1, CutsAreLists
      <3> QED BY <3>2, <2>2, <2>3, <2>4
    <2> QED BY <2>5, <2>6, <2>7, <1>0, <1>10 DEF AssembledInv, Past, Built, Finish
  <1>11. CASE ChildDies
    BY <1>11, <1>0, GoFields, NothingBuilt DEF ChildDies, Past, Built
  <1> QED BY <1>1, <1>2, <1>3, <1>4, <1>5, <1>6, <1>7, <1>8, <1>9, <1>10, <1>11 DEF ChildStep

(* The parent's steps after Main leave the child alone, and of info all    *)
(* but the password.                                                       *)
LEMMA AfterMain ==
  ASSUME ShapeInv, ParentStep, ~Main
  PROVE  /\ UNCHANGED <<cmd, child>>
         /\ DOMAIN info' = InfoFields
         /\ \A f \in InfoFields \ {"password"} : info'[f] = info[f]
  <1>1. UNCHANGED <<cmd, child>>
    BY DEF ParentStep, WaitForChild, NoMount, Mount, TryNextAddress, TryUpper, RecordMount
  <1>2. UNCHANGED info \/ \E rc : MountExit(rc)
    BY DEF ParentStep, WaitForChild, NoMount, Mount, TryNextAddress, TryUpper, RecordMount
  <1> QED BY <1>1, <1>2, ExitEffect DEF ShapeInv

LEMMA MainEnds ==
  ASSUME ShapeInv, Main
  PROVE  ~Mounting' /\ child'.pc \in {"none", "drop"}
  <1>1. CASE parent' = [parent EXCEPT !.pc = "wait"]
             /\ child' = [child EXCEPT !.pc = "drop", !.data = cmd.opts]
    <2>1. parent'.pc = "wait" /\ child'.pc = "drop"
      BY <1>1 DEF ShapeInv, ParentFields, ChildFields
    <2> QED BY <2>1 DEF Mounting
  <1>2. CASE \E rc : (rc # 0 \/ OnlyPrints) /\ MountExit(rc) /\ UNCHANGED child
    <2>1. parent'.pc = "done" /\ (parent'.rc # 0 \/ OnlyPrints) /\ UNCHANGED <<cmd, child>>
      BY <1>2, ExitEffect DEF Main
    <2>2. OnlyPrints' = OnlyPrints
      BY <2>1 DEF OnlyPrints
    <2> QED BY <2>1, <2>2 DEF Mounting, ShapeInv, Main
  <1> QED BY <1>1, <1>2, CodesNotZero DEF Main

(* Whatever is mounted was built: the parent looks at how the child ended. *)
LEMMA MountsBuilt ==
  ASSUME ShapeInv, AssembledInv, ParentStep, ~Main
  PROVE  Mounting' => Built
  <1> SUFFICES ASSUME Mounting' PROVE Built
    OBVIOUS
  <1>1. CASE parent.pc \in {"mount", "mtab"}
    BY <1>1 DEF AssembledInv, Mounting
  <1>2. CASE WaitForChild
    <2>1. CASE \E rc : rc # 0 /\ MountExit(rc)
      BY <2>1, ExitEffect DEF Mounting
    <2>2. CASE ~\E rc : rc # 0 /\ MountExit(rc)
      BY <1>2, <2>2, CodesNotZero DEF WaitForChild, Built
    <2> QED BY <2>1, <2>2
  <1> QED BY <1>1, <1>2 DEF ParentStep, NoMount, Mount, TryNextAddress, TryUpper, RecordMount, CanMount

LEMMA ParentAssembles ==
  ASSUME ShapeInv, AssembledInv, ParentStep
  PROVE  AssembledInv'
  <1>1. CASE Main
    BY <1>1, MainEnds, NothingBuilt DEF Past, Built
  <1>2. CASE ~Main
    <2>1. UNCHANGED child /\ info'.flags = info.flags /\ info'.addrlist = info.addrlist
          /\ info'.got_user = info.got_user /\ info'.got_password = info.got_password
          /\ info'.options = info.options
          /\ info'.username = info.username /\ info'.domain = info.domain
      BY <1>2, AfterMain DEF InfoFields
    <2>2. Final(info)' = Final(info)
      BY <2>1 DEF Final
    <2>3. Built' = Built
      BY <2>1 DEF Built
    <2>4. /\ IsSuffix(Final(info), info.options)' <=> IsSuffix(Final(info), info.options)
          /\ Len(info.options)' = Len(info.options)
      BY <2>1, <2>2
    <2> HIDE DEF Final
    <2> QED BY <1>2, <2>1, <2>3, <2>4, MountsBuilt DEF AssembledInv
  <1> QED BY <1>1, <1>2

LEMMA StepAssembled == ShapeInv /\ AssembledInv /\ [HNext]_hvars => AssembledInv'
  <1>1. AssembledInv /\ UNCHANGED hvars => AssembledInv'
    BY DEF AssembledInv, Built, Mounting, OnlyPrints, Final, hvars
  <1> QED BY <1>1, ChildAssembles, ParentAssembles DEF HNext

LEMMA AlwaysAssembled == HSpec => [](ShapeInv /\ AssembledInv)
  <1>1. HInit => ShapeInv /\ AssembledInv
    BY ShapeInit, AssembledInit
  <1>2. ShapeInv /\ AssembledInv /\ [HNext]_hvars => (ShapeInv /\ AssembledInv)'
    BY StepShape, StepAssembled
  <1> QED BY <1>1, <1>2, PTL DEF HSpec

(* For every command line, every answer and every death of the child: what *)
(* the parent mounts, or says it has mounted, the child has assembled to   *)
(* the end.                                                                *)
THEOREM NothingHalfAssembled == HSpec => []MountsOnlyCompleteInfo
  <1>1. ShapeInv /\ AssembledInv => MountsOnlyCompleteInfo
    BY DEF AssembledInv, MountsOnlyCompleteInfo, Mounting
  <1> QED BY <1>1, AlwaysAssembled, PTL

-----------------------------------------------------------------------------
(* A user who is not root gets what the line in fstab says.                *)
Keys == {o.key : o \in ToSet(cmd.fstab.opts)}
Working == {"env", "parse", "cred", "permission"} \cup Past
Permitted(o) == Whole(o).key \in Generated \/ Whole(o) \in ToSet(cmd.fstab.opts)

FstabOK ==
  /\ Listed
  /\ \A o \in ToSet(info.options) : Permitted(o)
  /\ "NOSUID" \in info.flags \/ "suid" \in Keys
  /\ "NODEV" \in info.flags \/ "dev" \in Keys
  /\ info.flags \cap {"USERS", "USER"} # {} => Keys \cap {"user", "users"} # {}

FollowInv ==
  cmd.uid # 0 =>
    /\ child.pc \in {"drop", "fstab"} =>
         info.options = <<>> /\ info.flags \cap {"USERS", "USER"} = {}
    /\ child.pc \in Working \/ Built => FstabOK
    /\ child.pc \in Working => ToSet(child.data) \subseteq ToSet(cmd.fstab.opts)
    /\ child.pc \in Past \/ Built => Keys \cap {"user", "users"} # {}

RequestsInv == IsList(requests) /\ UserMountsFollowFstab

LEMMA FollowInit == HInit => FollowInv /\ RequestsInv
  <1> SUFFICES ASSUME HInit PROVE FollowInv /\ RequestsInv
    OBVIOUS
  <1>1. FollowInv
    BY DEF HInit, FollowInv, Working, Past, Built
  <1>2. requests = <<>>
    BY DEF HInit
  <1>3. UserMountsFollowFstab
    BY <1>2 DEF UserMountsFollowFstab
  <1> QED BY <1>1, <1>2, <1>3, ListBase DEF RequestsInv

(* cmd never changes, and so neither what is listed.                       *)
LEMMA SameLine ==
  ASSUME UNCHANGED cmd
  PROVE  Listed' = Listed /\ Keys' = Keys /\ \A o : Permitted(o)' = Permitted(o)
  BY DEF Listed, Keys, Permitted

LEMMA GeneratedPermitted ==
  ASSUME NEW o, o.key \in Generated
  PROVE  Permitted(o)
  <1>1. o.key # "part"
    BY DEF Generated, IdKeys, AfterG
  <1> QED BY <1>1 DEF Permitted, Whole

(* And so is a part of what is permitted.                                  *)
LEMMA CutsPermitted ==
  ASSUME NEW s, IsList(s), \A o \in ToSet(s) : Permitted(o), NEW t \in Cuts(s)
  PROVE  \A o \in ToSet(t) : Permitted(o)
  <1>1. ASSUME NEW w, Permitted(w) PROVE Permitted(Part(w))
    <2>1. CASE w.key = "part"
      BY <1>1, <2>1 DEF Part
    <2>2. CASE w.key # "part"
      <3>1. Whole(Part(w)) = w /\ Whole(w) = w
        BY <2>2 DEF Whole, Part, Word
      <3> QED BY <1>1, <3>1 DEF Permitted
    <2> QED BY <2>1, <2>2
  <1> QED BY <1>1, CutsAreLists

LEMMA FailedFollows ==
  ASSUME ShapeInv, ChildOnly, NEW rc, rc # 0, ChildExit(rc) \/ Fails(rc)
  PROVE  FollowInv'
  <1>1. child'.pc = "exited" /\ child'.rc # 0
    BY ExitFields DEF Fails
  <1> QED BY <1>1 DEF FollowInv, Working, Past, Built

(* From place to place with the same options and the same flags.           *)
LEMMA GoFollows ==
  ASSUME ShapeInv, FollowInv, ChildOnly, child.pc \in Working,
         NEW pc \in Working, ChildGo(pc),
         info'.options = info.options, info'.flags = info.flags,
         pc \in Past => child.pc \in Past
  PROVE  FollowInv'
  <1>1. child'.pc = pc /\ child'.data = child.data
    BY DEF ShapeInv, ChildFields, ChildGo
  <1>2. FstabOK' = FstabOK
    BY SameLine DEF FstabOK, ChildOnly
  <1>3. UNCHANGED cmd
    BY DEF ChildOnly
  <1>4. ~Built'
    BY <1>1 DEF Built, Working, Past
  <1>5. pc \notin {"drop", "fstab"}
    BY DEF Working, Past
  <1> QED BY <1>1, <1>2, <1>3, <1>4, <1>5, SameLine DEF FollowInv

LEMMA ParseFollows ==
  ASSUME ShapeInv, FollowInv, ParseEffect
  PROVE  FollowInv'
  <1>1. ChildOnly /\ UNCHANGED cmd /\ child.pc \in Working
    BY DEF ParseEffect, ChildOnly, Parsed, Working
  <1>2. CASE child'.pc = "exited" /\ child'.rc # 0
    BY <1>2 DEF FollowInv, Working, Past, Built
  <1>3. CASE child.data # <<>> /\ child'.pc \in Parsed
    <2> SUFFICES ASSUME cmd.uid # 0 PROVE FollowInv'
      BY <1>1 DEF FollowInv
    <2>1. FstabOK /\ ToSet(child.data) \subseteq ToSet(cmd.fstab.opts)
      BY <1>1 DEF FollowInv
    <2>2. Option \in ToSet(cmd.fstab.opts) /\ Option.key \in Keys
      BY <2>1, <1>3, OptionIsKnown DEF Keys
    <2>3. ToSet(child.data') \subseteq ToSet(cmd.fstab.opts)
      BY <1>3, <2>1, ListTail DEF ParseEffect, ShapeInv, Parsed
    <2>4. \A o \in ToSet(info'.options) : Permitted(o)
      <3>1. CASE info'.options = info.options
        BY <3>1, <2>1 DEF FstabOK
      <3>2. CASE \E word : Noted(word) /\ info'.options = Append(info.options, word)
        <4>1. PICK word : Noted(word) /\ info'.options = Append(info.options, word)
          BY <3>2
        <4>2. Permitted(word)
          <5>1. CASE word = Option
            <6>1. Option.key # "part"
              BY <1>3, OptionIsKnown
            <6> QED BY <5>1, <6>1, <2>2 DEF Permitted, Whole
          <5>2. CASE word.key \in {"file_mode", "dir_mode"}
            BY <5>2, GeneratedPermitted DEF Generated
          <5> QED BY <4>1, <5>1, <5>2 DEF Noted
        <4> QED BY <4>1, <4>2, <2>1, ListAppend DEF FstabOK, ShapeInv
      <3> QED BY <1>3, <3>1, <3>2 DEF ParseEffect, Parsed
    <2>5. /\ "NOSUID" \in info'.flags \/ "suid" \in Keys
          /\ "NODEV" \in info'.flags \/ "dev" \in Keys
          /\ info'.flags \cap {"USERS", "USER"} # {} => Keys \cap {"user", "users"} # {}
      BY <1>3, <2>1, <2>2 DEF ParseEffect, FstabOK, Parsed
    <2>6. FstabOK'
      BY <2>1, <2>4, <2>5, <1>1, SameLine DEF FstabOK
    <2>7. ~Built' /\ child'.pc \notin Past /\ child'.pc \notin {"drop", "fstab"}
      BY <1>3 DEF Built, Past, Parsed
    <2> QED BY <2>3, <2>6, <2>7, <1>1 DEF FollowInv
  <1> QED BY <1>2, <1>3 DEF ParseEffect, Parsed

LEMMA ChildFollows ==
  ASSUME ShapeInv, AssembledInv, FollowInv, ChildStep \/ ChildDies
  PROVE  FollowInv'
  <1> USE DEF ChildAt
  <1>0. DOMAIN info = InfoFields /\ ChildOnly /\ UNCHANGED cmd
    BY WhileWorking DEF ShapeInv, ChildOnly
  <1>1. CASE DropPrivileges
    <2>1. CASE ChildExit(EX_SYSERR)
      BY <2>1, <1>0, FailedFollows, CodesNotZero
    <2>2. CASE ChildGo(IF cmd.uid # 0 THEN "fstab" ELSE "env") /\ UNCHANGED info
      <3>1. cmd.uid # 0 => child'.pc = "fstab"
        BY <2>2, GoFields
      <3> QED BY <3>1, <2>2, <1>0, <1>1 DEF FollowInv, DropPrivileges, Working, Past, Built
    <2> QED BY <1>1, <2>1, <2>2 DEF DropPrivileges
  <1>2. CASE CheckFstab
    <2>1. CASE ChildExit(EX_USAGE) \/ ChildExit(EX_FILEIO)
      BY <2>1, <1>0, FailedFollows, CodesNotZero
    <2>2. CASE /\ Listed
               /\ child' = [child EXCEPT !.pc = "env", !.data = cmd.fstab.opts]
               /\ info' = [info EXCEPT !.flags = @ \cup {"NOSUID", "NODEV"}]
      <3>1. child'.pc = "env" /\ child'.data = cmd.fstab.opts
        BY <2>2 DEF ShapeInv, ChildFields
      <3>2. info'.options = info.options /\ info'.flags = info.flags \cup {"NOSUID", "NODEV"}
        BY <2>2, <1>0 DEF InfoFields
      <3>3. cmd.uid # 0 => FstabOK'
        BY <3>2, <2>2, <1>2, <1>0, SameLine, ListBase DEF FollowInv, FstabOK, CheckFstab
      <3>4. ~Built' /\ child'.pc \notin Past /\ child'.pc \notin {"drop", "fstab"}
        BY <3>1 DEF Built, Past
      <3> QED BY <3>1, <3>3, <3>4, <1>0 DEF FollowInv
    <2> QED BY <1>2, <2>1, <2>2 DEF CheckFstab
  <1>3. CASE GetPwFromEnv
    <2>1. CASE ChildExit(EX_USAGE) \/ ChildExit(EX_SYSERR)
      BY <2>1, <1>0, FailedFollows, CodesNotZero
    <2>2. CASE ChildGo("parse") /\ (info' = info \/ \E pw : info' = SetPassword(info, pw))
      <3>1. info'.options = info.options /\ info'.flags = info.flags
        BY <2>2, <1>0 DEF SetPassword, InfoFields
      <3> QED BY <3>1, <2>2, <1>0, <1>3, GoFollows DEF GetPwFromEnv, Working, Past
    <2> QED BY <1>3, <2>1, <2>2 DEF GetPwFromEnv
  <1>4. CASE ParseOption
    <2>1. CASE EndOptions
      <3>1. CASE Fails(EX_USAGE)
        BY <3>1, <1>0, FailedFollows, CodesNotZero
      <3>2. CASE \E ids : /\ ChildGo("permission")
                          /\ info' = [info EXCEPT !.options = WithIds(info.options, ids)]
        <4>1. PICK ids : info' = [info EXCEPT !.options = WithIds(info.options, ids)]
          BY <3>2
        <4>2. info'.flags = info.flags /\ info'.options = WithIds(info.options, ids)
          BY <4>1, <1>0 DEF InfoFields
        <4>3. \A o \in ToSet(info'.options) : o \in ToSet(info.options) \/ o.key \in IdWords
          BY <4>2, WithIdsIsList DEF ShapeInv
        <4>4. FstabOK => FstabOK'
          <5>1. \A o : o.key \in IdWords => Permitted(o)
            BY GeneratedPermitted DEF IdWords, AfterG, IdKeys, Generated
          <5> QED BY <5>1, <4>2, <4>3, <1>0, SameLine DEF FstabOK
        <4>5. child'.pc = "permission" /\ child'.data = child.data
          BY <3>2 DEF ShapeInv, ChildFields, ChildGo
        <4> QED BY <4>4, <4>5, <1>0, <2>1 DEF FollowInv, EndOptions, Working, Past, Built
      <3> QED BY <2>1, <3>1, <3>2 DEF EndOptions
    <2> QED BY <1>4, <2>1, Parses, ParseFollows
  <1>5. CASE CheckPermission
    <2>1. CASE Fails(EX_USAGE)
      BY <2>1, <1>0, FailedFollows, CodesNotZero
    <2>2. CASE /\ ~(cmd.uid # 0 /\ info.flags \cap {"USERS", "USER"} = {})
               /\ ChildGo("unc") /\ info' = [info EXCEPT !.flags = @ \ {"USERS", "USER"}]
      <3>1. child'.pc = "unc" /\ child'.data = child.data
        BY <2>2 DEF ShapeInv, ChildFields, ChildGo
      <3>2. info'.flags = info.flags \ {"USERS", "USER"} /\ info'.options = info.options
        BY <2>2, <1>0 DEF InfoFields
      <3>3. FstabOK => FstabOK'
        BY <3>2, <1>0, SameLine DEF FstabOK
      <3>4. cmd.uid # 0 => FstabOK /\ Keys \cap {"user", "users"} # {}
        BY <2>2, <1>5 DEF FollowInv, CheckPermission, Working, FstabOK
      <3>5. ~Built' /\ child'.pc \notin {"drop", "fstab"}
        BY <3>1 DEF Built
      <3> QED BY <3>1, <3>3, <3>4, <3>5, <1>0, <1>5, SameLine DEF FollowInv, CheckPermission, Working
    <2> QED BY <1>5, <2>1, <2>2 DEF CheckPermission
  <1>6. CASE ParseDevice
    <2>1. CASE Fails(EX_USAGE)
      BY <2>1, <1>0, FailedFollows, CodesNotZero
    <2>2. CASE ChildGo("resolve") /\ info' = WithUnc(info, cmd.dev)
      <3>1. info'.options = info.options /\ info'.flags = info.flags
        BY <2>2, <1>0 DEF WithUnc, InfoFields
      <3> QED BY <3>1, <2>2, <1>0, <1>6, GoFollows DEF ParseDevice, Working, Past
    <2> QED BY <1>6, <2>1, <2>2 DEF ParseDevice
  <1>7. CASE ResolveHost
    <2>1. CASE Fails(EX_USAGE) \/ Fails(EX_SYSERR)
      BY <2>1, <1>0, FailedFollows, CodesNotZero
    <2>2. CASE ChildGo("user") /\ (info' = info \/ \E a : info' = [info EXCEPT !.addrlist = a])
      <3>1. info'.options = info.options /\ info'.flags = info.flags
        BY <2>2, <1>0 DEF InfoFields
      <3> QED BY <3>1, <2>2, <1>0, <1>7, GoFollows DEF ResolveHost, Working, Past
    <2> QED BY <1>7, <2>1, <2>2 DEF ResolveHost
  <1>8. CASE GetUser
    <2>1. CASE ChildGo("killed")
      <3>1. child'.pc = "killed"
        BY <2>1, GoFields
      <3> QED BY <3>1 DEF FollowInv, Working, Past, Built
    <2>2. CASE /\ ChildGo("password")
               /\ info' = info \/ \E n : info' = [info EXCEPT !.username = n, !.got_user = TRUE]
      <3>1. info'.options = info.options /\ info'.flags = info.flags
        BY <2>2, <1>0 DEF InfoFields
      <3> QED BY <3>1, <2>2, <1>0, <1>8, GoFollows DEF GetUser, Working, Past
    <2> QED BY <1>8, <2>1, <2>2 DEF GetUser
  <1>9. CASE GetPassword
    <2>1. CASE Fails(EX_USAGE) \/ Fails(EX_SYSERR)
      BY <2>1, <1>0, FailedFollows, CodesNotZero
    <2>2. CASE ChildGo("finish") /\ (info' = info \/ info' = SetPassword(info, "typed"))
      <3>1. info'.options = info.options /\ info'.flags = info.flags
        BY <2>2, <1>0 DEF InfoFields, SetPassword
      <3> QED BY <3>1, <2>2, <1>0, <1>9, GoFollows DEF GetPassword, Working, Past
    <2> QED BY <1>9, <2>1, <2>2 DEF GetPassword
  <1>10. CASE Finish
    <2> DEFINE all == info.options \o Final(info)
    <2>1. PICK options \in Cuts(all) : info' = [info EXCEPT !.options = options]
      BY <1>10 DEF Finish
    <2>2. info'.options = options /\ info'.flags = info.flags
      BY <2>1, <1>0 DEF InfoFields
    <2>3. IsList(all) /\ ToSet(all) = ToSet(info.options) \cup ToSet(Final(info))
      BY FinalIsList, ListConcat DEF ShapeInv
    <2> HIDE DEF all
    <2>4. FstabOK => FstabOK'
      <3>1. \A o \in ToSet(Final(info)) : Permitted(o)
        BY FinalIsList, GeneratedPermitted DEF Generated
      <3>2. FstabOK => \A o \in ToSet(options) : Permitted(o)
        BY <3>1, <2>3, CutsPermitted DEF FstabOK
      <3> QED BY <3>2, <2>2, <1>0, SameLine DEF FstabOK
    <2>5. child'.pc = "exited"
      BY <1>10, ExitFields DEF Finish
    <2> QED BY <2>4, <2>5, <1>0, <1>10, SameLine DEF FollowInv, Finish, Working, Past
  <1>11. CASE ChildDies
    <2>1. child'.pc = "killed"
      BY <1>11, GoFields DEF ChildDies
    <2> QED BY <2>1 DEF FollowInv, Working, Past, Built
  <1> QED BY <1>1, <1>2, <1>3, <1>4, <1>5, <1>6, <1>7, <1>8, <1>9, <1>10, <1>11 DEF ChildStep

LEMMA ParentFollows ==
  ASSUME ShapeInv, AssembledInv, FollowInv, ParentStep
  PROVE  FollowInv'
  <1>1. CASE Main
    <2>1. UNCHANGED cmd /\ parent.pc = "main" /\ info.options = <<>> /\ child.pc = "none"
      BY <1>1 DEF Main, ShapeInv
    <2>2. CASE /\ child' = [child EXCEPT !.pc = "drop", !.data = cmd.opts]
               /\ info' = [info EXCEPT !.nomtab = "n" \in ToSet(cmd.switches),
                                       !.fakemnt = "f" \in ToSet(cmd.switches),
                                       !.flags = IF ReadOnly(cmd.switches) THEN {"RDONLY"} ELSE {}]
      <3>1. child'.pc = "drop"
        BY <2>2 DEF ShapeInv, ChildFields
      <3>2. info'.options = <<>> /\ info'.flags \cap {"USERS", "USER"} = {}
        BY <2>1, <2>2 DEF ShapeInv, InfoFields
      <3> QED BY <3>1, <3>2 DEF FollowInv, Working, Past, Built
    <2>3. CASE UNCHANGED child
      BY <2>1, <2>3 DEF FollowInv, Working, Past, Built
    <2> QED BY <1>1, <2>2, <2>3 DEF Main
  <1>2. CASE ~Main
    <2>1. UNCHANGED <<cmd, child>> /\ info'.flags = info.flags /\ info'.options = info.options
      BY <1>2, AfterMain DEF InfoFields
    <2>2. FstabOK' = FstabOK /\ Built' = Built
      BY <2>1, SameLine DEF FstabOK, Built
    <2> QED BY <2>1, <2>2, SameLine DEF FollowInv
  <1> QED BY <1>1, <1>2

(* The parent asks the kernel only while it mounts.                        *)
LEMMA WhatIsAsked ==
  ASSUME ShapeInv, [HNext]_hvars
  PROVE  \/ UNCHANGED requests
         \/ /\ parent.pc = "mount" /\ parent.addrs # <<>> /\ ~info.fakemnt
            /\ Mount \/ TryNextAddress \/ TryUpper
            /\ \E answer \in Answers, options \in Cuts(MountWords) :
                 requests' = Append(requests, Request(answer, options))
  <1>1. CASE ChildStep \/ ChildDies
    <2>1. CASE ParseOption
      BY <2>1, Parses DEF ParseEffect, EndOptions, ChildOnly
    <2>2. CASE ~ParseOption
      BY <1>1, <2>2 DEF ChildStep, ChildDies, DropPrivileges, CheckFstab, GetPwFromEnv, ChildOnly,
           CheckPermission, ParseDevice, ResolveHost, GetUser, GetPassword, Finish
    <2> QED BY <2>1, <2>2
  <1>2. CASE Main \/ WaitForChild \/ NoMount \/ RecordMount \/ UNCHANGED hvars
    BY <1>2 DEF Main, WaitForChild, NoMount, RecordMount, hvars
  <1>3. CASE Mount
    BY <1>3 DEF Mount, CanMount, Asks, Answers
  <1>4. CASE TryNextAddress
    BY <1>4 DEF TryNextAddress, CanMount, Asks, Answers
  <1>5. CASE TryUpper
    BY <1>5 DEF TryUpper, CanMount, Asks, Answers
  <1> QED BY <1>1, <1>2, <1>3, <1>4, <1>5 DEF HNext, ParentStep

LEMMA SameCommand ==
  ASSUME ShapeInv, [HNext]_hvars
  PROVE  UNCHANGED cmd
  <1>1. CASE ChildStep \/ ChildDies
    <2>1. CASE ParseOption
      BY <2>1, Parses DEF ParseEffect, EndOptions, ChildOnly
    <2>2. CASE ~ParseOption
      BY <1>1, <2>2 DEF ChildStep, ChildDies, DropPrivileges, CheckFstab, GetPwFromEnv, ChildOnly,
           CheckPermission, ParseDevice, ResolveHost, GetUser, GetPassword, Finish
    <2> QED BY <2>1, <2>2
  <1>2. CASE Main \/ UNCHANGED hvars
    BY <1>2 DEF Main, hvars
  <1>3. CASE ParentStep /\ ~Main
    BY <1>3, AfterMain
  <1> QED BY <1>1, <1>2, <1>3 DEF HNext

LEMMA AppendedRequest ==
  ASSUME IsList(requests), NEW r, requests' = Append(requests, r)
  PROVE  /\ IsList(requests)' /\ Len(requests) \in Nat /\ Len(requests') = Len(requests) + 1
         /\ DOMAIN requests = 1 .. Len(requests) /\ DOMAIN requests' = 1 .. Len(requests) + 1
         /\ requests'[Len(requests) + 1] = r
         /\ \A n \in 1 .. Len(requests) : requests'[n] = requests[n]
  <1> DEFINE S == ToSet(requests) \cup {r}
  <1>1. requests \in Seq(S) /\ r \in S
    BY ListOf DEF IsList
  <1>2. IsList(requests)'
    BY ListAppend
  <1>3. Append(requests, r) \in Seq(S) /\ Len(requests) \in Nat
        /\ Len(Append(requests, r)) = Len(requests) + 1
        /\ Append(requests, r)[Len(requests) + 1] = r
        /\ \A n \in 1 .. Len(requests) : Append(requests, r)[n] = requests[n]
    BY <1>1
  <1> QED BY <1>1, <1>2, <1>3

LEMMA MountWordsIsList ==
  ASSUME ShapeInv
  PROVE  /\ IsList(MountWords) /\ MountWords # <<>>
         /\ MountWords[1] = Word("ip", parent.addrs[1])
         /\ \A o \in ToSet(MountWords) :
              o \in ToSet(info.options) \/ o.key \in {"ip", "unc", "prefixpath", "pass"}
  <1> DEFINE first == <<Word("ip", parent.addrs[1]), Word("unc", <<info.host, info.share>>)>>
             prefix == IF info.prefix = <<>> THEN <<>> ELSE <<Word("prefixpath", info.prefix)>>
             pass == IF info.got_password THEN <<Word("pass", info.password)>> ELSE <<>>
             w2 == first \o info.options
             w3 == w2 \o prefix
             w4 == w3 \o pass
  <1>1. MountWords = w4
    BY DEF MountWords
  <1>2. IsList(first) /\ \A o \in ToSet(first) : o.key \in {"ip", "unc"}
    BY ListBase DEF Word
  <1>3. IsList(prefix) /\ \A o \in ToSet(prefix) : o.key = "prefixpath"
    BY ListBase DEF Word
  <1>4. IsList(pass) /\ \A o \in ToSet(pass) : o.key = "pass"
    BY ListBase DEF Word
  <1>5. first[1] = Word("ip", parent.addrs[1]) /\ Len(first) = 2
    OBVIOUS
  <1> HIDE DEF first, prefix, pass
  <1>6. IsList(w2) /\ ToSet(w2) = ToSet(first) \cup ToSet(info.options)
    BY <1>2, ListConcat DEF ShapeInv
  <1>7. w2 # <<>> /\ w2[1] = first[1]
    BY <1>2, <1>5, ConcatStart DEF ShapeInv
  <1> HIDE DEF w2
  <1>8. IsList(w3) /\ ToSet(w3) = ToSet(w2) \cup ToSet(prefix)
    BY <1>3, <1>6, ListConcat
  <1>9. w3 # <<>> /\ w3[1] = first[1]
    BY <1>3, <1>6, <1>7, ConcatStart
  <1> HIDE DEF w3
  <1>10. IsList(w4) /\ ToSet(w4) = ToSet(w3) \cup ToSet(pass)
    BY <1>4, <1>8, ListConcat
  <1>11. w4 # <<>> /\ w4[1] = first[1]
    BY <1>4, <1>8, <1>9, ConcatStart
  <1> HIDE DEF w4
  <1> QED BY <1>1, <1>2, <1>3, <1>4, <1>5, <1>6, <1>8, <1>10, <1>11

(* What fstab says of request r.                                           *)
Follows(r) ==
  /\ Listed
  /\ Keys \cap {"user", "users"} # {}
  /\ \A o \in ToSet(r.options) : Permitted(o)
  /\ "NOSUID" \in r.flags \/ "suid" \in Keys
  /\ "NODEV" \in r.flags \/ "dev" \in Keys

LEMMA FollowsFstab ==
  UserMountsFollowFstab <=> (cmd.uid # 0 => \A n \in DOMAIN requests : Follows(requests[n]))
  BY DEF UserMountsFollowFstab, Follows, Keys, Permitted

LEMMA StepRequests ==
  ASSUME ShapeInv, AssembledInv, FollowInv, RequestsInv, [HNext]_hvars
  PROVE  RequestsInv'
  <1>1. UNCHANGED cmd /\ IsList(requests)
    BY SameCommand DEF RequestsInv
  <1>2. \A r : Follows(r)' <=> Follows(r)
    BY <1>1, SameLine DEF Follows
  <1>3. cmd.uid # 0 => \A n \in DOMAIN requests : Follows(requests[n])
    BY FollowsFstab DEF RequestsInv
  <1>4. UserMountsFollowFstab' <=>
          (cmd.uid # 0 => \A n \in DOMAIN requests' : Follows(requests'[n]))
    <2>1. UserMountsFollowFstab' <=>
            (cmd'.uid # 0 => \A n \in DOMAIN requests' : Follows(requests[n])')
      BY <1>1 DEF UserMountsFollowFstab, Follows, Keys, Permitted, Listed
    <2>2. \A n : Follows(requests[n])' <=> Follows(requests'[n])
      BY <1>1 DEF Follows, Keys, Permitted, Listed
    <2> QED BY <2>1, <2>2, <1>1
  <1>5. CASE UNCHANGED requests
    BY <1>1, <1>3, <1>4, <1>5 DEF RequestsInv
  <1>6. CASE /\ parent.pc = "mount"
             /\ \E answer \in Answers, options \in Cuts(MountWords) :
                  requests' = Append(requests, Request(answer, options))
    <2>1. PICK answer \in Answers, options \in Cuts(MountWords) :
            requests' = Append(requests, Request(answer, options))
      BY <1>6
    <2>2. Built
      BY <1>6 DEF AssembledInv, Mounting
    <2>3. cmd.uid # 0 => Follows(Request(answer, options))
      <3>1. cmd.uid # 0 => FstabOK /\ Keys \cap {"user", "users"} # {}
        BY <2>2 DEF FollowInv
      <3>2. \A o : o.key \in {"ip", "unc", "prefixpath", "pass"} => Permitted(o)
        BY GeneratedPermitted DEF Generated
      <3>3. cmd.uid # 0 => \A o \in ToSet(options) : Permitted(o)
        BY <3>1, <3>2, MountWordsIsList, CutsPermitted DEF FstabOK
      <3> QED BY <3>1, <3>3 DEF FstabOK, Follows, Request
    <2> DEFINE r == Request(answer, options)
    <2> HIDE DEF r
    <2>4. cmd.uid # 0 => \A n \in DOMAIN requests' : Follows(requests'[n])
      <3>1. requests' = Append(requests, r) /\ (cmd.uid # 0 => Follows(r))
        BY <2>1, <2>3 DEF r
      <3> QED BY <3>1, <1>1, <1>3, AppendedRequest
    <2>5. IsList(requests)'
      BY <2>1, <1>1, AppendedRequest
    <2> QED BY <1>4, <2>4, <2>5 DEF RequestsInv
  <1> QED BY <1>5, <1>6, WhatIsAsked

LEMMA StepFollow == ShapeInv /\ AssembledInv /\ FollowInv /\ [HNext]_hvars => FollowInv'
  <1>1. FollowInv /\ UNCHANGED hvars => FollowInv'
    BY DEF FollowInv, FstabOK, Listed, Keys, Permitted, Built, hvars
  <1> QED BY <1>1, ChildFollows, ParentFollows DEF HNext

LEMMA AlwaysFollows == HSpec => [](FollowInv /\ RequestsInv)
  <1>1. HInit => FollowInv /\ RequestsInv
    BY FollowInit
  <1>2. (ShapeInv /\ AssembledInv) /\ FollowInv /\ RequestsInv /\ [HNext]_hvars
        => (FollowInv /\ RequestsInv)'
    BY StepFollow, StepRequests
  <1> QED BY <1>1, <1>2, AlwaysAssembled, PTL DEF HSpec

(* For every line in fstab and whatever the user gives besides: what is    *)
(* mounted for a user who is not root is what the line says.               *)
THEOREM UsersGetTheirLine == HSpec => []UserMountsFollowFstab
  <1>1. RequestsInv => UserMountsFollowFstab
    BY DEF RequestsInv
  <1> QED BY <1>1, AlwaysFollows, PTL

-----------------------------------------------------------------------------
(* The addresses in their order.  Before its next request the parent has   *)
(* the addresses left that were not refused, and the kernel has refused or *)
(* not found everything so far.                                            *)
Answered(s, n, a) == {m \in 1 .. n - 1 : s[m].answer = a}

TryOK(s, list, n) ==
  /\ s[n].options[1] = Word("ip", list[Cardinality(Answered(s, n, "refused")) + 1])
  /\ Answered(s, n, "refused") \cup Answered(s, n, "nxio") = 1 .. n - 1
  /\ Cardinality(Answered(s, n, "nxio")) = IF s[n].upper THEN 1 ELSE 0

NextTry(s, list, addrs, upper) ==
  LET n == Len(s) + 1
  IN  /\ Answered(s, n, "refused") \cup Answered(s, n, "nxio") = 1 .. n - 1
      /\ Cardinality(Answered(s, n, "nxio")) = IF upper THEN 1 ELSE 0
      /\ addrs = SubSeq(list, Cardinality(Answered(s, n, "refused")) + 1, Len(list))

Said(s) == s # <<>> /\ Last(s).answer = "mounted"

TriesInv ==
  /\ parent.pc \in {"main", "wait"} => requests = <<>> /\ parent.upper = FALSE
  /\ \A n \in DOMAIN requests : TryOK(requests, info.addrlist, n)
  /\ parent.pc = "mount" => NextTry(requests, info.addrlist, parent.addrs, parent.upper)
  /\ parent.pc = "mtab" \/ (parent.pc = "done" /\ parent.rc = 0 /\ ~OnlyPrints) =>
       info.fakemnt \/ Said(requests)

LEMMA AnsweredFinite ==
  ASSUME NEW s, NEW n \in Nat, NEW a
  PROVE  IsFiniteSet(Answered(s, n, a)) /\ Cardinality(Answered(s, n, a)) \in Nat
  <1>1. IsFiniteSet(1 .. n - 1)
    BY FS_Interval
  <1>2. Answered(s, n, a) \subseteq 1 .. n - 1
    BY DEF Answered
  <1> QED BY <1>1, <1>2, FS_Subset, FS_CardinalityType

(* t is s and one request more, the n-th.                                  *)
OneMore(s, t, n) ==
  \E l \in Nat : n = l + 1 /\ \A m \in 1 .. l : t[m] = s[m]

(* The requests answered a before the k-th of t: those before the n-th of  *)
(* s, and the n-th when its answer is a.                                   *)
Grown(s, t, n, k, a) ==
  /\ t[n].answer = a =>
       /\ Answered(t, k, a) = Answered(s, n, a) \cup {n}
       /\ Cardinality(Answered(t, k, a)) = Cardinality(Answered(s, n, a)) + 1
  /\ t[n].answer # a => Answered(t, k, a) = Answered(s, n, a)

(* One request more.                                                       *)
LEMMA AnsweredMore ==
  ASSUME NEW s, NEW t, NEW n, OneMore(s, t, n), NEW k, k = n + 1, NEW a
  PROVE  Grown(s, t, n, k, a)
  <1> PICK l \in Nat : n = l + 1 /\ \A m \in 1 .. l : t[m] = s[m]
    BY DEF OneMore
  <1>1. /\ n \in Nat /\ k - 1 = n /\ n - 1 = l /\ 1 .. n = (1 .. l) \cup {n}
        /\ n \notin 1 .. l
    OBVIOUS
  <1> DEFINE old == Answered(s, n, a)
             new == Answered(t, k, a)
  <1>2. /\ new = {m \in (1 .. l) \cup {n} : t[m].answer = a}
        /\ old = {m \in 1 .. l : s[m].answer = a}
    BY <1>1 DEF Answered
  <1>3. old = {m \in 1 .. l : t[m].answer = a} /\ n \notin old
    BY <1>1, <1>2
  <1>4. IsFiniteSet(old)
    BY <1>1, AnsweredFinite
  <1> HIDE DEF old, new
  <1>5. t[n].answer # a => new = old
    BY <1>2, <1>3
  <1>6. ASSUME t[n].answer = a PROVE new = old \cup {n}
    BY <1>2, <1>3, <1>6
  <1>7. new = old \cup {n} => Cardinality(new) = Cardinality(old) + 1
    BY <1>3, <1>4, FS_AddElement
  <1> QED BY <1>5, <1>6, <1>7 DEF old, new, Grown

(* A request that is due is in order, and so are those before it.          *)
LEMMA InOrder ==
  ASSUME NEW s, NEW t, Len(s) \in Nat, DOMAIN s = 1 .. Len(s), DOMAIN t = 1 .. Len(s) + 1,
         \A m \in 1 .. Len(s) : t[m] = s[m],
         NEW list, IsList(list), NEW addrs, addrs # <<>>, NEW upper,
         NextTry(s, list, addrs, upper),
         t[Len(s) + 1].options[1] = Word("ip", addrs[1]), t[Len(s) + 1].upper = upper,
         \A n \in DOMAIN s : TryOK(s, list, n)
  PROVE  \A n \in DOMAIN t : TryOK(t, list, n)
  <1>1. \A n \in 1 .. Len(s) + 1 : \A a : Answered(t, n, a) = Answered(s, n, a)
    BY DEF Answered
  <1>2. \A n \in 1 .. Len(s) : TryOK(t, list, n)
    BY <1>1 DEF TryOK
  <1> DEFINE c == Cardinality(Answered(s, Len(s) + 1, "refused"))
  <1>3. c \in Nat /\ Len(list) \in Nat /\ list \in Seq(ToSet(list))
    BY AnsweredFinite DEF IsList
  <1>4. addrs = SubSeq(list, c + 1, Len(list))
    BY DEF NextTry
  <1> HIDE DEF c
  <1>5. c + 1 <= Len(list)
    BY <1>3, <1>4, SubSeqEmpty
  <1>6. addrs[1] = list[c + 1]
    <2>1. \A i \in c + 1 .. Len(list) : list[i] \in ToSet(list)
      BY <1>3
    <2>2. 1 \in 1 .. Len(list) - (c + 1) + 1 /\ (c + 1) + 1 - 1 = c + 1
          /\ c + 1 \in Int /\ Len(list) \in Int
      BY <1>3, <1>5
    <2> QED BY <1>4, <2>1, <2>2, SubSeqProperties
  <1>7. TryOK(t, list, Len(s) + 1)
    <2> DEFINE n == Len(s) + 1
    <2>1. \A a : Answered(t, n, a) = Answered(s, n, a)
      BY <1>1
    <2>2. t[n].upper = upper
      OBVIOUS
    <2>3. /\ Answered(s, n, "refused") \cup Answered(s, n, "nxio") = 1 .. n - 1
          /\ Cardinality(Answered(s, n, "nxio")) = IF upper THEN 1 ELSE 0
      BY DEF NextTry
    <2>4. t[n].options[1] = Word("ip", list[Cardinality(Answered(s, n, "refused")) + 1])
      BY <1>6 DEF c
    <2> HIDE DEF n
    <2>5. TryOK(t, list, n)
      BY <2>1, <2>2, <2>3, <2>4 DEF TryOK
    <2> QED BY <2>5 DEF n
  <1> QED BY <1>2, <1>7

LEMMA TriesInit == HInit => TriesInv
  BY DEF HInit, TriesInv

LEMMA StepTries ==
  ASSUME ShapeInv, AssembledInv, RequestsInv, TriesInv, [HNext]_hvars
  PROVE  TriesInv'
  <1>0. IsList(requests)
    BY DEF RequestsInv
  <1>1. CASE ChildStep \/ ChildDies
    <2>1. parent.pc = "wait" /\ UNCHANGED <<parent, requests>>
      BY <1>1, WhileWorking DEF ShapeInv, ChildOnly
    <2>2. requests' = <<>>
      BY <2>1 DEF TriesInv
    <2> QED BY <2>1, <2>2 DEF TriesInv
  <1>2. CASE UNCHANGED hvars
    BY <1>2 DEF TriesInv, OnlyPrints, hvars
  <1>3. CASE Main
    <2>1. parent.pc = "main" /\ UNCHANGED requests
      BY <1>3 DEF Main
    <2>2. requests' = <<>>
      BY <2>1 DEF TriesInv
    <2>3. /\ parent'.pc \in {"wait", "done"}
          /\ parent'.pc = "done" => parent'.rc # 0 \/ OnlyPrints
          /\ parent'.upper = parent.upper
      BY <1>3, CodesNotZero DEF Main, MountExit, ShapeInv, ParentFields
    <2>4. OnlyPrints' = OnlyPrints
      BY <1>3 DEF Main, OnlyPrints
    <2> QED BY <2>1, <2>2, <2>3, <2>4 DEF TriesInv
  <1>4. CASE ParentStep /\ ~Main
    <2>1. info'.addrlist = info.addrlist /\ info'.fakemnt = info.fakemnt /\ IsList(info.addrlist)
          /\ OnlyPrints' = OnlyPrints
      BY <1>4, AfterMain DEF InfoFields, ShapeInv, OnlyPrints
    <2>2. CASE WaitForChild
      <3>1. parent.pc = "wait" /\ requests = <<>> /\ requests' = <<>> /\ parent.upper = FALSE
        BY <2>2 DEF WaitForChild, TriesInv
      <3>2. CASE \E rc : rc # 0 /\ MountExit(rc)
        <4>1. parent'.pc = "done" /\ parent'.rc # 0
          BY <3>2, ExitEffect
        <4> QED BY <4>1, <3>1 DEF TriesInv
      <3>3. CASE parent' = [parent EXCEPT !.pc = "mount", !.addrs = info.addrlist]
        <4>1. parent'.pc = "mount" /\ parent'.addrs = info.addrlist /\ parent'.upper = FALSE
          BY <3>1, <3>3 DEF ShapeInv, ParentFields
        <4>2. \A a : Answered(<<>>, 1, a) = {}
          BY DEF Answered
        <4>3. SubSeq(info.addrlist, 1, Len(info.addrlist)) = info.addrlist
          BY <2>1, SubSeqFull DEF IsList
        <4>4. Len(<<>>) + 1 = 1 /\ 1 .. 1 - 1 = {}
          OBVIOUS
        <4>5. Cardinality({}) = 0
          BY FS_EmptySet
        <4>6. NextTry(<<>>, info.addrlist, info.addrlist, FALSE)
          BY <4>2, <4>3, <4>4, <4>5 DEF NextTry
        <4> QED BY <3>1, <4>1, <4>6, <2>1 DEF TriesInv
      <3> QED BY <2>2, <3>2, <3>3, CodesNotZero DEF WaitForChild
    <2>3. CASE NoMount
      <3>1. parent.pc = "mount" /\ UNCHANGED requests
        BY <2>3 DEF NoMount
      <3>2. CASE \E rc : rc # 0 /\ MountExit(rc)
        <4>1. parent'.pc = "done" /\ parent'.rc # 0
          BY <3>2, ExitEffect
        <4> QED BY <4>1, <3>1, <2>1 DEF TriesInv
      <3>3. CASE info.fakemnt /\ parent' = [parent EXCEPT !.pc = "mtab"]
        <4>1. parent'.pc = "mtab"
          BY <3>3 DEF ShapeInv, ParentFields
        <4> QED BY <4>1, <3>1, <3>3, <2>1 DEF TriesInv
      <3> QED BY <2>3, <3>2, <3>3, CodesNotZero DEF NoMount
    <2>4. CASE RecordMount
      <3>1. parent.pc = "mtab" /\ UNCHANGED requests /\ \E rc : MountExit(rc)
        BY <2>4 DEF RecordMount
      <3>2. parent'.pc = "done"
        BY <3>1, ExitEffect
      <3> QED BY <3>1, <3>2, <2>1 DEF TriesInv
    <2>5. CASE Mount \/ TryNextAddress \/ TryUpper
      <3>1. PICK answer \in Answers, options \in Cuts(MountWords) :
              requests' = Append(requests, Request(answer, options)) /\
              \/ /\ answer = "mounted" /\ parent' = [parent EXCEPT !.pc = "mtab"]
              \/ \E rc : rc # 0 /\ MountExit(rc)
              \/ answer = "refused" /\ parent' = [parent EXCEPT !.addrs = Tail(@)]
              \/ answer = "nxio" /\ ~parent.upper /\ parent' = [parent EXCEPT !.upper = TRUE]
        <4>1. CASE Mount
          BY <4>1, CodesNotZero DEF Mount, Asks, Answers
        <4>2. CASE TryNextAddress
          BY <4>2 DEF TryNextAddress, Asks, Answers
        <4>3. CASE TryUpper
          BY <4>3, CodesNotZero DEF TryUpper, Asks, Answers
        <4> QED BY <2>5, <4>1, <4>2, <4>3
      <3>2. parent.pc = "mount" /\ parent.addrs # <<>>
        BY <2>5 DEF Mount, TryNextAddress, TryUpper, CanMount
      <3> DEFINE r == Request(answer, options)
                 l == Len(requests)
                 list == info.addrlist
      <3>3. /\ r.options[1] = Word("ip", parent.addrs[1]) /\ r.upper = parent.upper
            /\ r.answer = answer
        BY MountWordsIsList, CutsAreLists DEF Request
      <3> HIDE DEF r
      <3>4. /\ l \in Nat /\ Len(requests') = l + 1
            /\ DOMAIN requests = 1 .. l /\ DOMAIN requests' = 1 .. l + 1
            /\ requests'[l + 1] = r /\ \A n \in 1 .. l : requests'[n] = requests[n]
        BY <3>1, <1>0, AppendedRequest DEF r
      <3>5. NextTry(requests, list, parent.addrs, parent.upper)
        BY <3>2 DEF TriesInv
      <3>6. \A n \in DOMAIN requests : TryOK(requests, list, n)
        BY DEF TriesInv
      <3>7. \A n \in DOMAIN requests' : TryOK(requests', list, n)
        <4>1. /\ requests'[l + 1].options[1] = Word("ip", parent.addrs[1])
              /\ requests'[l + 1].upper = parent.upper
          BY <3>3, <3>4
        <4> QED BY <4>1, <3>2, <3>4, <3>5, <3>6, <2>1, InOrder
      <3>8. \A n \in DOMAIN requests' : TryOK(requests', info'.addrlist, n)
        BY <3>7, <2>1
      <3>9. CASE answer = "mounted" /\ parent' = [parent EXCEPT !.pc = "mtab"]
        <4>1. parent'.pc = "mtab"
          BY <3>9 DEF ShapeInv, ParentFields
        <4>2. Said(requests')
          BY <3>3, <3>4, <3>9 DEF Said, Last
        <4> QED BY <4>1, <4>2, <3>8 DEF TriesInv
      <3>10. CASE \E rc : rc # 0 /\ MountExit(rc)
        <4>1. parent'.pc = "done" /\ parent'.rc # 0
          BY <3>10, ExitEffect
        <4> QED BY <4>1, <3>8 DEF TriesInv
      <3> DEFINE n == l + 1
                 refused == Answered(requests, n, "refused")
                 nxio == Answered(requests, n, "nxio")
                 c == Cardinality(refused)
      <3>11. /\ refused \cup nxio = 1 .. l /\ n \in Nat /\ n = l + 1
             /\ Cardinality(nxio) = (IF parent.upper THEN 1 ELSE 0)
             /\ parent.addrs = SubSeq(list, c + 1, Len(list))
             /\ c \in Nat
        BY <3>4, <3>5, AnsweredFinite DEF NextTry
      <3>12. \A a : /\ requests'[n].answer = a =>
                         /\ Answered(requests', n + 1, a) = Answered(requests, n, a) \cup {n}
                         /\ Cardinality(Answered(requests', n + 1, a))
                              = Cardinality(Answered(requests, n, a)) + 1
                    /\ requests'[n].answer # a =>
                         Answered(requests', n + 1, a) = Answered(requests, n, a)
        <4> DEFINE k == n + 1
        <4>1. n = l + 1 /\ k = n + 1
          OBVIOUS
        <4> HIDE DEF l, n, k
        <4>2. l \in Nat /\ \A m \in 1 .. l : requests'[m] = requests[m]
          BY <3>4
        <4>3. ASSUME NEW a
              PROVE  /\ requests'[n].answer = a =>
                          /\ Answered(requests', k, a) = Answered(requests, n, a) \cup {n}
                          /\ Cardinality(Answered(requests', k, a))
                               = Cardinality(Answered(requests, n, a)) + 1
                     /\ requests'[n].answer # a => Answered(requests', k, a) = Answered(requests, n, a)
          <5> DEFINE t == requests'
          <5>1. OneMore(requests, t, n)
            BY <4>1, <4>2 DEF OneMore
          <5>2. Grown(requests, t, n, k, a)
            <6> HIDE DEF t
            <6> QED BY <4>1, <5>1, AnsweredMore
          <5> QED BY <5>2 DEF Grown
        <4> QED BY <4>3 DEF k
      <3>13. requests'[n].answer = answer
        BY <3>3, <3>4
      <3>14. 1 .. n + 1 - 1 = (1 .. l) \cup {n} /\ Len(requests') + 1 = n + 1
        BY <3>4
      <3>15. CASE answer = "refused" /\ parent' = [parent EXCEPT !.addrs = Tail(@)]
        <4>1. parent'.pc = "mount" /\ parent'.addrs = Tail(parent.addrs)
              /\ parent'.upper = parent.upper
          BY <3>15, <3>2 DEF ShapeInv, ParentFields
        <4>2. Tail(parent.addrs) = SubSeq(list, (c + 1) + 1, Len(list))
          <5>1. list \in Seq(ToSet(list)) /\ Len(list) \in Nat
            BY <2>1 DEF IsList
          <5>2. c + 1 <= Len(list)
            BY <5>1, <3>2, <3>11, SubSeqEmpty
          <5>3. c + 1 \in 1 .. Len(list) /\ Len(list) \in c + 1 .. Len(list)
            BY <5>1, <5>2, <3>11
          <5> HIDE DEF list, c
          <5> QED BY <5>1, <5>3, <3>11, HeadTailOfSubSeq
        <4>3. Answered(requests', n + 1, "refused") = refused \cup {n}
              /\ Cardinality(Answered(requests', n + 1, "refused")) = c + 1
              /\ Answered(requests', n + 1, "nxio") = nxio
          BY <3>12, <3>13, <3>15
        <4> HIDE DEF n, refused, nxio, c, list, l
        <4>4. (refused \cup {n}) \cup nxio = 1 .. n + 1 - 1
          BY <3>11, <3>14
        <4>5. parent'.addrs = SubSeq(list, Cardinality(refused \cup {n}) + 1, Len(list))
          BY <4>1, <4>2, <4>3
        <4>6. NextTry(requests', list, parent'.addrs, parent.upper)
          <5>1. Cardinality(nxio) = (IF parent.upper THEN 1 ELSE 0)
            BY <3>11
          <5> DEFINE k == Len(requests') + 1
          <5>2. k = n + 1
            BY <3>14
          <5>3. Answered(requests', k, "refused") = refused \cup {n} /\ Answered(requests', k, "nxio") = nxio
            BY <5>2, <4>3
          <5>4. Answered(requests', k, "refused") \cup Answered(requests', k, "nxio") = 1 .. k - 1
            BY <5>2, <5>3, <4>4
          <5>5. Cardinality(Answered(requests', k, "nxio")) = (IF parent.upper THEN 1 ELSE 0)
            BY <5>1, <5>3
          <5>6. parent'.addrs = SubSeq(list, Cardinality(Answered(requests', k, "refused")) + 1, Len(list))
            BY <5>3, <4>5
          <5> QED BY <5>4, <5>5, <5>6 DEF NextTry
        <4> QED BY <4>1, <4>6, <3>8, <2>1 DEF TriesInv, list
      <3>16. CASE answer = "nxio" /\ ~parent.upper /\ parent' = [parent EXCEPT !.upper = TRUE]
        <4>1. parent'.pc = "mount" /\ parent'.addrs = parent.addrs /\ parent'.upper = TRUE
          BY <3>16, <3>2 DEF ShapeInv, ParentFields
        <4>2. Answered(requests', n + 1, "nxio") = nxio \cup {n}
              /\ Cardinality(Answered(requests', n + 1, "nxio")) = 1
              /\ Answered(requests', n + 1, "refused") = refused
          BY <3>11, <3>12, <3>13, <3>16
        <4> HIDE DEF n, refused, nxio, c, list, l
        <4>3. Cardinality(Answered(requests', n + 1, "refused")) = c
          BY <4>2 DEF c
        <4>4. refused \cup (nxio \cup {n}) = 1 .. n + 1 - 1
          BY <3>11, <3>14
        <4>5. NextTry(requests', list, parent.addrs, TRUE)
          BY <4>2, <4>3, <4>4, <3>11, <3>14, SMTT(30) DEF NextTry
        <4> QED BY <4>1, <4>5, <3>8, <2>1 DEF TriesInv, list
      <3> QED BY <3>1, <3>9, <3>10, <3>15, <3>16
    <2> QED BY <1>4, <2>2, <2>3, <2>4, <2>5 DEF ParentStep
  <1> QED BY <1>1, <1>2, <1>3, <1>4 DEF HNext

(* For every list of addresses and every sequence of answers: they are     *)
(* tried in their order, none twice but for the upper case, and none after *)
(* an answer that ends it.                                                 *)
THEOREM AddressesInOrder == HSpec => []TriesInOrder
  <1>1. HInit => TriesInv
    BY TriesInit
  <1>2. (ShapeInv /\ AssembledInv) /\ (FollowInv /\ RequestsInv) /\ TriesInv /\ [HNext]_hvars
        => TriesInv'
    BY StepTries
  <1>3. TriesInv => TriesInOrder
    BY DEF TriesInv, TriesInOrder, TryOK, Answered, Said
  <1> QED BY <1>1, <1>2, <1>3, AlwaysAssembled, AlwaysFollows, PTL DEF HSpec

=============================================================================
