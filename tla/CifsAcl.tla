------------------------------ MODULE CifsAcl ------------------------------
(***************************************************************************)
(* setcifsacl (cifsacl/setcifsacl.c, cifsacl.h): it fetches the security   *)
(* descriptor of a file, computes another from it and stores that, with    *)
(* nothing to keep a second setcifsacl out.                                *)
(*                                                                         *)
(* The descriptor the server keeps is a record.  What getxattr returns and *)
(* setxattr sends is a sequence of 32-bit words, since where the parts lie *)
(* decides what the code does.  A word says what it is part of; offsets    *)
(* and sizes count words, so that a quarter of the bytes is meant.         *)
(***************************************************************************)
EXTENDS Integers, Sequences, FiniteSets, SequencesExt

CONSTANTS
  Tools,          (* the running setcifsacl                                *)
  NumSub,         (* num_subauth of each SID, 1 to 5                       *)
  Masks, Types, Flags,
  Commands,       (* the command lines: an operation and its ACEs          *)
  Files,          (* the descriptors the file may have at first            *)
  Layouts,        (* the orders in which a server lays out a descriptor    *)
  BUFSIZE,        (* the first size tried, and the increment               *)
  XATTR_SIZE_MAX

Sids == DOMAIN NumSub
Aces == [sid : Sids, type : Types, flags : Flags, mask : Masks]
Operations == {"delete", "modify", "add", "set"}
Descriptors == [owner : Sids, group : Sids, dacl : BOOLEAN, aces : Seq(Aces)]

ASSUME CifsAclAssumption ==
  /\ NumSub \in [Sids -> 1..5]
  /\ 0 \in Flags
  /\ \A c \in Commands : c.op \in Operations /\ c.aces \in Seq(Aces) /\ c.aces # <<>>
  /\ Files \subseteq Descriptors
  /\ Layouts \subseteq {"daclLast", "daclFirst"}
  /\ BUFSIZE \in Nat \ {0} /\ XATTR_SIZE_MAX \in Nat

VARIABLES
  file,    (* the file's descriptor on the server                          *)
  layout,  (* of the server                                                *)
  tool     (* the setcifsacl processes                                     *)

avars == <<file, layout, tool>>
-----------------------------------------------------------------------------
(* Sizes of the C structures, the SID with room for 5 subauthorities.      *)
NTSD == 5
SID == 7
CTRL == 2
ACE == 9

Junk == <<"junk">>
Get(mem, o) == IF o \in 0 .. Len(mem) - 1 THEN mem[o + 1] ELSE Junk
Slice(mem, o, n) == SubSeq([k \in 1 .. n |-> Get(mem, o + k - 1)], 1, n)
Copy(mem, o, words) ==
  SubSeq([i \in DOMAIN mem |-> IF i - o \in DOMAIN words THEN words[i - o] ELSE mem[i]],
         1, Len(mem))

SidWords(s) == [k \in 1 .. 2 + NumSub[s] |-> <<s, k>>]
AceSize(a) == 4 + NumSub[a.sid]
AceWords(a) == <<<<"ace", a.type, a.flags, AceSize(a)>>, <<"access_req", a.mask>>>>
               \o SidWords(a.sid)
AcesWords(aces) == FlattenSeq([i \in DOMAIN aces |-> AceWords(aces[i])])

Header(o, g, d) ==
  <<<<"revision">>, <<"osidoffset", o>>, <<"gsidoffset", g>>, Junk, <<"dacloffset", d>>>>
Ctrl(size, n) == <<<<"size", size>>, <<"num_aces", n>>>>
DaclWords(aces) == Ctrl(CTRL + Len(AcesWords(aces)), Len(aces)) \o AcesWords(aces)

osidoffset(mem) == Get(mem, 1)[2]
gsidoffset(mem) == Get(mem, 2)[2]
dacloffset(mem) == Get(mem, 4)[2]

(* What a server returns for a descriptor.                                 *)
Marshal(d, order) ==
  LET own == SidWords(d.owner)
      grp == SidWords(d.group)
      acl == IF d.dacl THEN DaclWords(d.aces) ELSE <<>>
      at == IF order = "daclFirst" THEN NTSD + Len(acl) ELSE NTSD
      dacl == IF order = "daclFirst" THEN NTSD ELSE NTSD + Len(own) + Len(grp)
      sids == own \o grp
  IN  Header(at, at + Len(own), IF d.dacl THEN dacl ELSE 0)
      \o (IF order = "daclFirst" THEN acl \o sids ELSE sids \o acl)

SidsAt(mem, o) == {s \in Sids : Slice(mem, o, 2 + NumSub[s]) = SidWords(s)}
AcesAt(mem, o) == {a \in Aces : Slice(mem, o, AceSize(a)) = AceWords(a)}

(* The ACEs n ACEs long from o on, one after the other: none or one list.  *)
ListsAt(mem, o, n) ==
  LET First[k \in 0 .. n] ==
        IF k = 0 THEN {<<>>}
        ELSE UNION {{Append(l, a) : a \in AcesAt(mem, o + Len(AcesWords(l)))} : l \in First[k - 1]}
  IN  First[n]

(* What a server makes of the words it is sent: one descriptor, or none.   *)
Unmarshal(mem) ==
  LET num == Get(mem, dacloffset(mem) + 1)
  IN  IF Get(mem, 1)[1] # "osidoffset" \/ num[1] # "num_aces" \/ num[2] \notin Nat THEN {}
      ELSE {[owner |-> o, group |-> g, dacl |-> TRUE, aces |-> l] :
              o \in SidsAt(mem, osidoffset(mem)), g \in SidsAt(mem, gsidoffset(mem)),
              l \in {l \in ListsAt(mem, dacloffset(mem) + CTRL, num[2]) :
                       Slice(mem, dacloffset(mem), CTRL) = Slice(DaclWords(l), 0, CTRL)}}
-----------------------------------------------------------------------------
(* get_sec_desc_size: the new buffer has room for both SIDs in full and    *)
(* every ACE in full; malloc leaves it as it is.                           *)
Fresh(n) == [i \in 1 .. NTSD + 2 * SID + CTRL + n * ACE |-> Junk]

(* copy_ace for each ACE, offset[i] behind the place for the first; a      *)
(* later one is written over an earlier one.                               *)
CopyAces(new, at, aces, offset) ==
  LET Here(x) == {i \in DOMAIN aces : x - at - offset[i] \in 1 .. AceSize(aces[i])}
      Latest(x) == CHOOSE i \in Here(x) : \A j \in Here(x) : j <= i
  IN  SubSeq([x \in DOMAIN new |->
                IF Here(x) = {} THEN new[x]
                ELSE AceWords(aces[Latest(x)])[x - at - offset[Latest(x)]]], 1, Len(new))

(* Each ACE behind the words of those before it, or behind as many of the  *)
(* structs.                                                                *)
Packed(aces) == [i \in DOMAIN aces |-> Len(AcesWords(SubSeq(aces, 1, i - 1)))]
Spread(aces) == [i \in DOMAIN aces |-> (i - 1) * ACE]

(* copy_sec_desc: the header but for sacloffset, size and number of the    *)
(* ACEs, and both SIDs with 5 subauthorities each whatever they have, all  *)
(* at the offsets they had.                                                *)
CopySecDesc(mem, new, n, size) ==
  LET m == Copy(Copy(new, 0, Copy(Slice(mem, 0, NTSD), 3, <<Junk>>)),
                dacloffset(mem), Ctrl(CTRL + size, n))
  IN  Copy(Copy(m, osidoffset(mem), Slice(mem, osidoffset(mem), SID)),
           gsidoffset(mem), Slice(mem, gsidoffset(mem), SID))

(* The descriptor with these ACEs instead, in a buffer for room ACEs.      *)
Rebuilt(mem, room, aces, offset) ==
  CopySecDesc(mem, CopyAces(Fresh(room), dacloffset(mem) + CTRL, aces, offset),
              Len(aces), Len(AcesWords(aces)))

(* A slip: the number of the ACEs is that of those fetched.                *)
AceAddCountsOld(mem, faces, caces) ==
  LET aces == faces \o caces
  IN  CopySecDesc(mem, CopyAces(Fresh(Len(aces)), dacloffset(mem) + CTRL, aces, Packed(aces)),
                  Len(faces), Len(AcesWords(faces)))

AceAdd(mem, faces, caces) ==
  LET aces == faces \o caces IN Rebuilt(mem, Len(aces), aces, Packed(aces))

(* ace_set puts every ACE sizeof(struct cifs_ace) after the one before.    *)
AceSet(mem, caces) == Rebuilt(mem, Len(caces), caces, Spread(caces))

(* compare_aces with COMPSID | COMPTYPE; with COMPALL it is equality.      *)
SameSidAndType(a, b) == a.sid = b.sid /\ a.type = b.type

(* The first ACE like c becomes c, for one c of caces after the other.     *)
FirstBecomes(l, c) ==
  LET hits == {i \in DOMAIN l : SameSidAndType(l[i], c)}
  IN  IF hits = {} THEN l ELSE [l EXCEPT ![CHOOSE i \in hits : \A j \in hits : i <= j] = c]
Modified(faces, caces) ==
  LET After[j \in 0 .. Len(caces)] ==
        IF j = 0 THEN faces ELSE FirstBecomes(After[j - 1], caces[j])
  IN  After[Len(caces)]
AceModify(mem, faces, caces) ==
  LET aces == Modified(faces, caces) IN Rebuilt(mem, Len(faces), aces, Packed(aces))

Kept(faces, caces) ==
  LET Upto[i \in 0 .. Len(faces)] ==
        IF i = 0 THEN <<>>
        ELSE IF \E j \in DOMAIN caces : faces[i] = caces[j] THEN Upto[i - 1]
        ELSE Append(Upto[i - 1], faces[i])
  IN  Upto[Len(faces)]
AceDelete(mem, faces, caces) ==
  LET aces == Kept(faces, caces) IN Rebuilt(mem, Len(faces), aces, Packed(aces))

(* The reasons for ace_delete and ace_modify to give up.                   *)
Refused(op, faces, caces) ==
  \/ op = "modify" /\ faces = <<>>
  \/ op = "delete" /\ (faces = <<>> \/ Len(faces) < Len(caces) \/ Kept(faces, caces) = faces)

SetaclAction(op, mem, faces, caces) ==
  CASE op = "delete" -> AceDelete(mem, faces, caces)
    [] op = "modify" -> AceModify(mem, faces, caces)
    [] op = "add"    -> AceAdd(mem, faces, caces)
    [] op = "set"    -> AceSet(mem, caces)
-----------------------------------------------------------------------------
NoCommand == [op |-> "add", aces |-> <<>>]
Unread == [owner |-> CHOOSE s \in Sids : TRUE, group |-> CHOOSE s \in Sids : TRUE,
           dacl |-> FALSE, aces |-> <<>>]
Waiting == [pc |-> "start", cmd |-> NoCommand, buf |-> BUFSIZE, attrval |-> Unread]

AInit ==
  /\ file \in Files
  /\ layout \in Layouts
  /\ tool = [t \in Tools |-> Waiting]

End(t) == tool' = [tool EXCEPT ![t] = [Waiting EXCEPT !.pc = "done"]]

(* verify_ace_flags returns without a value for the flags "0" and "0x0":   *)
(* they are what malloc found.  Every other field must be valid.           *)
BuiltFrom(given) ==
  {aces \in [DOMAIN given -> Aces] :
     \A i \in DOMAIN given :
       /\ given[i].flags = 0 \/ aces[i].flags = given[i].flags
       /\ aces[i] = [given[i] EXCEPT !.flags = aces[i].flags]}

(* main: an option, its ACEs and the file; an ACE that does not parse ends *)
(* the program before the file is touched.                                 *)
ParseCommand(t) ==
  /\ tool[t].pc = "start"
  /\ \/ \E c \in Commands : \E aces \in BuiltFrom(c.aces) :
          tool' = [tool EXCEPT ![t].pc = "reading", ![t].cmd = [op |-> c.op, aces |-> aces]]
     \/ End(t)
  /\ UNCHANGED <<file, layout>>

(* The label cifsacl: a larger buffer after ERANGE, up to XATTR_SIZE_MAX;  *)
(* any other error of getxattr is final.                                   *)
GetXattr(t) ==
  LET fits == Len(Marshal(file, layout)) <= tool[t].buf
      room == tool[t].buf < XATTR_SIZE_MAX
  IN  /\ tool[t].pc = "reading"
      /\ \/ room /\ ~fits /\ tool' = [tool EXCEPT ![t].buf = @ + BUFSIZE]
         \/ room /\ fits
            /\ tool' = [tool EXCEPT ![t].pc = "writing", ![t].attrval = file]
         \/ End(t)
      /\ UNCHANGED <<file, layout>>

(* The rest of main before setxattr.                                       *)
Acts(t) ==
  LET d == tool[t].attrval
      cmd == tool[t].cmd
  IN  (d.aces = <<>> => cmd.op = "add") /\ ~Refused(cmd.op, d.aces, cmd.aces)

NewDescriptor(t) ==
  LET d == tool[t].attrval
      cmd == tool[t].cmd
  IN  SetaclAction(cmd.op, Marshal(d, layout), d.aces, cmd.aces)

(* setxattr: the server takes the new descriptor or refuses it.            *)
SetXattr(t) ==
  /\ tool[t].pc = "writing"
  /\ End(t)
  /\ UNCHANGED layout
  /\ \/ UNCHANGED file
     \/ Acts(t) /\ file' \in Unmarshal(NewDescriptor(t))

AStep(t) == ParseCommand(t) \/ GetXattr(t) \/ SetXattr(t)
ANext == \E t \in Tools : AStep(t)
ASpec == AInit /\ [][ANext]_avars /\ \A t \in Tools : WF_avars(AStep(t))
-----------------------------------------------------------------------------

(* Of the ACEs of one SID and type, the first becomes the last one given.  *)
LastReplacesFirst(faces, caces) ==
  [i \in DOMAIN faces |->
     LET js == {j \in DOMAIN caces : SameSidAndType(faces[i], caces[j])}
     IN  IF js = {} \/ \E k \in 1 .. i - 1 : SameSidAndType(faces[k], faces[i])
         THEN faces[i] ELSE caces[CHOOSE j \in js : \A k \in js : k <= j]]

(* setcifsacl's usage: add, delete, modify or replace the ACEs given; of   *)
(* several ACEs alike the first is modified, and the last ACE given wins.  *)
AskedAces(d, cmd) ==
  CASE cmd.op = "add"    -> d.aces \o cmd.aces
    [] cmd.op = "set"    -> cmd.aces
    [] cmd.op = "delete" ->
         LET left == {i \in DOMAIN d.aces : \A j \in DOMAIN cmd.aces : cmd.aces[j] # d.aces[i]}
             Before(i) == {j \in left : j < i}
         IN  [k \in 1 .. Cardinality(left) |->
                d.aces[CHOOSE i \in left : Cardinality(Before(i)) = k - 1]]
    [] cmd.op = "modify" -> LastReplacesFirst(d.aces, cmd.aces)
Asked(d, cmd) == [d EXCEPT !.aces = AskedAces(d, cmd)]

(* The parts stay apart: a DACL in front of the SIDs does not grow into    *)
(* them, and the 5 subauthorities that are copied of a group SID in front  *)
(* of the DACL do not reach the number of ACEs.                            *)
Apart(d, cmd) ==
  /\ layout = "daclFirst" => Len(DaclWords(AskedAces(d, cmd))) <= Len(DaclWords(d.aces))
  /\ layout = "daclLast" => NumSub[d.group] >= 4

(* What suits the code: the parts stay apart; a DACL is there; the size of *)
(* the DACL is not reached either; an ACE set in front of others has a SID *)
(* of full length; and the room for the ACEs set is enough for the SIDs,   *)
(* where they were behind the old ones.                                    *)
Suits(d, cmd) ==
  /\ Apart(d, cmd)
  /\ d.dacl
  /\ layout = "daclLast" => NumSub[d.group] = 5
  /\ cmd.op = "set" =>
       /\ \A i \in 1 .. Len(cmd.aces) - 1 : NumSub[cmd.aces[i].sid] = 5
       /\ layout = "daclFirst" => Len(Marshal(d, layout)) <= Len(Fresh(Len(cmd.aces)))

(* What setcifsacl sends is the descriptor it read with the ACEs asked for *)
(* and the same owner and group, or nothing a server takes, as long as the *)
(* parts stay apart; and where the layout suits the code it is always what *)
(* was asked for.                                                          *)
SendsWhatWasAsked ==
  \A t \in Tools :
    LET d == tool[t].attrval
        cmd == tool[t].cmd
        sent == Unmarshal(NewDescriptor(t))
    IN  /\ tool[t].pc = "writing" /\ Acts(t)
        /\ Apart(d, cmd)
        => /\ sent \subseteq {Asked(d, cmd)}
           /\ Suits(d, cmd) => sent = {Asked(d, cmd)}
=============================================================================
