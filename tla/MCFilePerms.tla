---------------------------- MODULE MCFilePerms ----------------------------
(***************************************************************************)
(* Instances of FilePerms for TLC: SIDs with 5 subauthorities as of a      *)
(* domain account, and with fewer as the well-known ones; short            *)
(* descriptors, so that a second BUFSIZE is needed for two long ACEs.      *)
(* And of ObjectId, which the tasks take the ids from that rights name.    *)
(* It shares no state with the others: a behaviour is of the one or of     *)
(* the other, and the part that is not looked at stays where it began.     *)
(***************************************************************************)
EXTENDS FilePerms, ObjectId, TLC

CONSTANTS domain, machine, everyone, t1, t2, c1, c2, w1, w2

Subs == (domain :> 5) @@ (machine :> 4) @@ (everyone :> 1)
OneTool == {t1}
TwoTools == {t1, t2}
TwoCrawls == {c1, c2}
TwoWorkers == {w1, w2}
Directory == (domain :> [name |-> "ann", class |-> "person"])
             @@ (machine :> [name |-> "staff", class |-> "group"])

Ace(s, t, m) == [sid |-> s, type |-> t, flags |-> 1, mask |-> m]
Unflagged(a) == [a EXCEPT !.flags = 0]

SomeTypes == {"ALLOWED", "DENIED"}
SomeMasks == {"READ", "FULL"}
SomeFlags == {0, 1}

Long  == Ace(domain, "ALLOWED", "READ")
Short == Ace(everyone, "ALLOWED", "FULL")

SomeCommands ==
  {[op |-> "add",    aces |-> <<Long>>],
   [op |-> "add",    aces |-> <<Unflagged(Short)>>],
   [op |-> "set",    aces |-> <<Long, Short>>],
   [op |-> "set",    aces |-> <<Short, Long>>],
   [op |-> "set",    aces |-> <<Short>>],
   [op |-> "delete", aces |-> <<Short>>],
   [op |-> "modify", aces |-> <<[Long EXCEPT !.mask = "FULL"], [Short EXCEPT !.mask = "READ"]>>]}

SomeFiles ==
  {[owner |-> everyone, group |-> g, dacl |-> TRUE, aces |-> l] :
     g \in {domain, machine, everyone}, l \in {<<Short>>, <<Short, Long>>}}
  \cup {[owner |-> domain, group |-> domain, dacl |-> d, aces |-> <<>>] : d \in BOOLEAN}

(* A tool's steps up to setxattr leave the file alone and a crawl's after  *)
(* getfacl do not look at it, so that they commute: it is enough to take   *)
(* either kind's steps where none of the other kind is under way.          *)
Quiet == \A t \in Tools : tool[t].pc \in {"start", "done"}
Settled == \A c \in Crawls : crawl[c].pc = "scan" \/ Done(c)
ToolStep(t) == Settled /\ AStep(t) /\ UNCHANGED <<pvars, ovars>>
CrawlStep(c) == Quiet /\ PStep(c) /\ UNCHANGED <<avars, ovars>>
NumberStep(w) == SessionStep(w) /\ UNCHANGED <<avars, pvars>>

(* Past LastId no number is asked for.                                     *)
RightsOnly ==
  /\ PInit
  /\ seqtbl = {} /\ autoinc = LastId + 1 /\ filerows = {}
  /\ conn = [s \in Sessions |-> Connected]

(* Tools and crawls that have done nothing, and have nothing to do.        *)
NumbersOnly ==
  /\ OInit
  /\ file = Unread /\ layout = "daclLast"
  /\ tool = [t \in Tools |-> [Waiting EXCEPT !.pc = "done"]]
  /\ isolation = "committed" /\ cache = <<>> /\ names = {} /\ made = {}
  /\ crawl = [c \in Crawls |-> [Begin EXCEPT !.pc = "lookup"]]

MCNext ==
  \/ \E t \in Tools : ToolStep(t)
  \/ \E c \in Crawls : CrawlStep(c)
  \/ \E w \in Sessions : NumberStep(w)

MCSpec ==
  /\ RightsOnly \/ NumbersOnly
  /\ [][MCNext]_<<avars, pvars, ovars>>
  /\ \A t \in Tools : WF_<<avars, pvars>>(ToolStep(t))
  /\ \A c \in Crawls : WF_<<avars, pvars>>(CrawlStep(c))

BothLayouts == {"daclLast", "daclFirst"}
=============================================================================
