-------------------------------- MODULE Asn1 --------------------------------
(***************************************************************************)
(* The encoder and decoder of Kerberos tokens: cifsacl/asn1.c, with the    *)
(* two documents spnego.c makes.  A writer works off a document, the bytes *)
(* reach a reader whole, cut off or with one byte changed, and the reader  *)
(* reads the same document's items.                                        *)
(*                                                                         *)
(* A byte has Base values where the code has 256, so that lengths of two   *)
(* and more bytes occur in short documents; HALF is 0x80, Arc the 40 of an *)
(* OID's first byte, and an int has Width bytes instead of 4.              *)
(***************************************************************************)
EXTENDS Integers, Sequences, FiniteSets, SequencesExt

CONSTANTS Base, Arc, Width,
  Documents,    (* what is written: sequences of items                     *)
  Corrupted     (* the documents that may arrive damaged                   *)

HALF == Base \div 2
Bytes == 0 .. Base - 1

(* b to the power of n, as the proofs need its value.                      *)
Power(b, n) ==
  LET power[k \in 0 .. n] == IF k = 0 THEN 1 ELSE b * power[k - 1] IN power[n]

Word == Power(Base, Width)   \* how many values an int has

(* What is left of a number that is stored in an int, or an unsigned int.  *)
Signed(n) ==
  LET u == n % Word IN IF u < Word \div 2 THEN u ELSE u - Word

Ints == -(Power(Base, Width) \div 2) .. Power(Base, Width) \div 2 - 1

(* What a document can consist of; an int may be negative, the numbers of  *)
(* an OID are not.                                                         *)
Items ==
  [op : {"push"}, tag : Bytes] \cup [op : {"pop"}] \cup [op : {"int"}, val : Ints]
  \cup [op : {"oid"}, val : Seq(Nat)] \cup [op : {"enum"}, val : Bytes]
  \cup [op : {"octets", "string", "raw", "rest"}, val : Seq(Bytes)]
  \cup [op : {"bits"}, padding : Bytes, val : Seq(Bytes)]
  \cup [op : {"context"}, tag : Bytes, val : Seq(Bytes)]
  \cup [op : {"bool"}, tag : Bytes, val : BOOLEAN]

ASSUME Asn1Assumption ==
  /\ Documents \subseteq Seq(Items)
  /\ Base \in Nat /\ Base >= 12 /\ Base = 2 * HALF
  /\ Arc \in 1 .. HALF /\ Width \in Nat /\ Width >= 2
  /\ Corrupted \subseteq Documents

VARIABLES
  doc,     (* the document                                                 *)
  data,    (* the struct asn1_data, the writer's and then the reader's     *)
  mode,    (* "write", "read", "refused" or "ended"                        *)
  at,      (* the number of items done                                     *)
  intact,  (* the reader has what was written                              *)
  got,     (* the values read, none where one was only checked             *)
  ended    (* the tags read to their end: where they begin, their length,  *)
           (* and how far they were read                                   *)

vars == <<doc, mode, at, data, intact, got, ended>>

Empty == [data |-> <<>>, ofs |-> 0, nesting |-> <<>>, has_error |-> FALSE, val |-> <<>>]

BOOLEAN_TAG == 1
INTEGER == 2
BIT_STRING == 3
OCTET_STRING == 4
OID == 6
ENUMERATED == 10
GENERAL_STRING == 11

Error(d) == [d EXCEPT !.has_error = TRUE]

(* Reading has gone wrong, or writing.                                     *)
OnlyIf(d, e) == IF d.has_error THEN d ELSE e
-----------------------------------------------------------------------------
(* The writer.  asn1_write appends, as ofs is the length while writing.    *)
Write(d, bytes) == OnlyIf(d, [d EXCEPT !.data = @ \o bytes, !.ofs = @ + Len(bytes)])

(* asn1_push_tag: the tag, and one byte that pop_tag makes the length.     *)
PushTag(d, tag) ==
  LET t == Write(d, <<tag>>)
  IN  Write([t EXCEPT !.nesting = <<[start |-> t.ofs]>> \o @], <<Base - 1>>)

BigEndian(n, k) == [i \in 1 .. k |-> (n \div Power(Base, k - i)) % Base]

(* A slip: one byte is enough for 0x80.                                    *)
LengthBytesShort(len) ==
  LET k == Cardinality({j \in 0 .. 3 : len >= Power(Base, j)})
  IN  IF len <= HALF THEN <<len>> ELSE <<HALF + k>> \o BigEndian(len, k)

LengthBytes(len) ==
  LET k == Cardinality({j \in 0 .. 3 : len >= Power(Base, j)})
  IN  IF len < HALF THEN <<len>> ELSE <<HALF + k>> \o BigEndian(len, k)

(* asn1_pop_tag; what is in the tag is moved if the length takes more.     *)
PopTag(d) ==
  IF d.nesting = <<>> THEN Error(d)
  ELSE LET start == d.nesting[1].start
           written == SubSeq(d.data, start + 2, Len(d.data))
           bytes == SubSeq(d.data, 1, start) \o LengthBytes(d.ofs - (start + 1)) \o written
       IN  OnlyIf(d, [d EXCEPT !.data = bytes, !.ofs = Len(bytes), !.nesting = Tail(@)])

Tagged(d, tag, bytes) == PopTag(Write(PushTag(d, tag), bytes))

(* asn1_write_implicit_Integer: the bytes of the int without the leading   *)
(* ones that its sign implies.                                             *)
IntBytes(i) ==
  LET u == i % Power(Base, Width)
      all == BigEndian(u, Width)
      sign == IF i < 0 THEN Base - 1 ELSE 0
      first == {k \in 1 .. Width : all[k] # sign /\ \A j \in 1 .. k - 1 : all[j] = sign}
      bytes == IF first = {} THEN <<sign>> ELSE SubSeq(all, CHOOSE k \in first : TRUE, Width)
  IN  IF (bytes[1] >= HALF) = (i < 0) THEN bytes ELSE <<sign>> \o bytes

(* ber_write_OID_String, of the numbers of an OID, each an unsigned int;   *)
(* HALF values to a byte, all but the last byte of a number marked.        *)
NumberBytes(number) ==
  LET v == number % Word
      n == Cardinality({0} \cup {k \in 1 .. 4 : v >= Power(HALF, k)})
  IN  [i \in 1 .. n |-> ((v \div Power(HALF, n - i)) % HALF) + (IF i < n THEN HALF ELSE 0)]
OidBytes(oid) ==
  <<(Arc * oid[1] + oid[2]) % Base>>
  \o FlattenSeq([i \in 1 .. Len(oid) - 2 |-> NumberBytes(oid[i + 2])])

(* An OID with fewer than two dots cannot be written; the tag stays open.  *)
WriteOID(d, oid) ==
  IF Len(oid) < 3 THEN Error(PushTag(d, OID)) ELSE Tagged(d, OID, OidBytes(oid))

WriteItem(d, item) ==
  CASE item.op = "push"    -> PushTag(d, item.tag)
    [] item.op = "pop"     -> PopTag(d)
    [] item.op = "int"     -> Tagged(d, INTEGER, IntBytes(item.val))
    [] item.op = "oid"     -> WriteOID(d, item.val)
    [] item.op = "bits"    -> Tagged(d, BIT_STRING, <<item.padding>> \o item.val)
    [] item.op = "octets"  -> Tagged(d, OCTET_STRING, item.val)
    [] item.op = "string"  -> Tagged(d, GENERAL_STRING, item.val)
    [] item.op = "context" -> Tagged(d, item.tag, item.val)
    [] item.op = "bool"    -> Tagged(d, item.tag, <<IF item.val THEN Base - 1 ELSE 0>>)
    [] item.op = "enum"    -> Tagged(d, ENUMERATED, <<item.val>>)
    [] item.op \in {"raw", "rest"} -> Write(d, item.val)

Push(tag) == [op |-> "push", tag |-> tag]
Pop == [op |-> "pop"]
Oid(oid) == [op |-> "oid", val |-> oid]

(* spnego_gen_krb5_wrap and gen_negTokenInit, with the tags numbered so    *)
(* that they are bytes.                                                    *)
Sequence == 8
Application == 9
Context0 == 12
Context2 == 14

Krb5Wrap(kerberos, tok_id, ticket) ==
  <<Push(Application), Oid(kerberos), [op |-> "raw", val |-> tok_id],
    [op |-> "rest", val |-> ticket], Pop>>
NegTokenInit(spnego, oid, blob) ==
  <<Push(Application), Oid(spnego), Push(Context0), Push(Sequence),
    Push(Context0), Push(Sequence), Oid(oid), Pop, Pop,
    Push(Context2), [op |-> "octets", val |-> blob], Pop, Pop, Pop, Pop>>
-----------------------------------------------------------------------------

(* The reader.  A read past the end consumes what is there.                *)
Read(d, n) ==
  IF d.has_error \/ n < 0 THEN Error(d)
  ELSE IF d.ofs + n > Len(d.data) THEN Error([d EXCEPT !.ofs = Len(d.data)])
  ELSE [d EXCEPT !.ofs = @ + n, !.val = SubSeq(d.data, d.ofs + 1, d.ofs + n)]

Unsigned(bytes) ==
  LET value[k \in 0 .. Len(bytes)] == IF k = 0 THEN 0 ELSE value[k - 1] * Base + bytes[k]
  IN  value[Len(bytes)]

(* The rest of a tag, a size_t less an off_t, that is stored in an int.    *)
Remaining(d) == Signed(d.nesting[1].taglen - (d.ofs - d.nesting[1].start))

(* What asn1_tag_remaining asks for; a negative rest is compared unsigned. *)
TagFits(d) ==
  d.nesting # <<>> /\ Remaining(d) >= 0 /\ Remaining(d) <= Len(d.data) - d.ofs
TagRemaining(d) == IF d.has_error \/ ~TagFits(d) THEN Error(d) ELSE d

(* taglen is not cut to a size_t: all that is used of it is what an int    *)
(* keeps.                                                                  *)
StartTag(d, tag) ==
  LET t == Read(d, 1)
      b == Read(t, 1)
      long == Read(b, IF b.val[1] - HALF > 1 THEN b.val[1] - HALF ELSE 1)
      l == IF b.has_error \/ b.val[1] < HALF THEN b ELSE long
  IN  IF t.has_error THEN t
      ELSE IF t.val # <<tag>> THEN Error(t)
      ELSE IF l.has_error THEN l
      ELSE TagRemaining([l EXCEPT !.nesting = <<[start |-> l.ofs, taglen |-> Unsigned(l.val)]>> \o @])

(* A slip: what is left of the tag does not matter.                        *)
EndTagEarly(d) ==
  IF d.has_error \/ d.nesting = <<>> THEN Error(d) ELSE [d EXCEPT !.nesting = Tail(@)]

(* A slip: what is left of the tag is refused, but without has_error.      *)
EndTagSilent(d) ==
  LET r == TagRemaining(d)
  IN  IF r.has_error \/ Remaining(r) # 0 THEN r ELSE [r EXCEPT !.nesting = Tail(@)]

(* asn1_end_tag: all of it must have been read.                            *)
EndTag(d) ==
  LET r == TagRemaining(d)
  IN  IF r.has_error \/ Remaining(r) # 0 THEN Error(r)
      ELSE [r EXCEPT !.nesting = Tail(@)]

(* The rest of the tag, and all of a tag.                                  *)
ReadRest(d) ==
  LET r == TagRemaining(d) IN IF r.has_error THEN r ELSE Read(r, Remaining(r))
ReadTagged(d, tag) ==
  LET t == StartTag(d, tag) IN IF t.has_error THEN t ELSE EndTag(ReadRest(t))

Value(d, v) == OnlyIf(d, [d EXCEPT !.val = v])

(* asn1_read_Integer: the bytes are shifted into an int, unsigned unless   *)
(* they fill it.                                                           *)
AsInt(bytes) == Signed(Unsigned(bytes))
ReadInteger(d, tag) == LET r == ReadTagged(d, tag) IN Value(r, AsInt(r.val))

(* ber_read_OID_String: at least two bytes, the last of them unmarked; of  *)
(* the first k bytes, the number begun and the numbers complete.           *)
NumbersOf(bytes) ==
  LET read[k \in 0 .. Len(bytes)] ==
        IF k = 0 THEN <<0, <<>>>>
        ELSE LET v == (read[k - 1][1] * HALF + (bytes[k] % HALF)) % Word
             IN  IF bytes[k] < HALF THEN <<0, Append(read[k - 1][2], v)>>
                 ELSE <<v, read[k - 1][2]>>
  IN  read[Len(bytes)][2]
ReadOID(d) ==
  LET r == ReadTagged(d, OID)
      b == r.val
  IN  IF r.has_error THEN r
      ELSE IF Len(b) < 2 \/ Last(b) >= HALF THEN Error(r)
      ELSE Value(r, <<b[1] \div Arc, b[1] % Arc>> \o NumbersOf(Tail(b)))

(* asn1_read_BOOLEAN takes one byte of the tag, whatever it holds; one     *)
(* that is not 0xFF is false.                                              *)
ReadBoolean(d, tag) ==
  LET b == Read(StartTag(d, tag), 1) IN Value(EndTag(b), b.val = <<Base - 1>>)

(* asn1_check_BOOLEAN takes the length for the value, and does not end the *)
(* tag.                                                                    *)
CheckBoolean(d, v) ==
  LET b == Read(d, 1)
      c == Read(b, 1)
  IN  IF b.has_error \/ b.val # <<BOOLEAN_TAG>> THEN Error(b)
      ELSE IF c.val # <<IF v THEN 1 ELSE 0>> THEN Error(c) ELSE c

(* asn1_check_enumerated clears has_error where it should set it.          *)
CheckEnumerated(d, v) ==
  LET t == StartTag(d, ENUMERATED)
      b == Read(t, 1)
      e == EndTag(b)
  IN  IF t.has_error THEN t
      ELSE IF b.has_error \/ b.val # <<v>> THEN [e EXCEPT !.has_error = FALSE] ELSE e

(* asn1_read_BitString: the padding and the other bytes.                   *)
ReadBitString(d) ==
  LET t == StartTag(d, BIT_STRING)
      p == Read(t, 1)
      b == Read(p, Remaining(t) - 1)
  IN  IF t.has_error THEN t ELSE IF b.has_error THEN b
      ELSE Value(EndTag(b), p.val \o b.val)

ReadItem(d, item) ==
  CASE item.op = "push"    -> StartTag(d, item.tag)
    [] item.op = "pop"     -> EndTag(d)
    [] item.op = "int"     -> ReadInteger(d, INTEGER)
    [] item.op = "oid"     -> ReadOID(d)
    [] item.op = "bits"    -> ReadBitString(d)
    [] item.op = "octets"  -> ReadTagged(d, OCTET_STRING)
    [] item.op = "string"  -> ReadTagged(d, GENERAL_STRING)
    [] item.op = "context" -> ReadTagged(d, item.tag)
    [] item.op = "bool"    -> ReadBoolean(d, item.tag)
    [] item.op = "enum"    -> ReadInteger(d, ENUMERATED)
    [] item.op = "raw"     -> Read(d, Len(item.val))
    [] item.op = "rest"    -> ReadRest(d)

CheckItem(d, item) ==
  CASE item.op = "oid"  -> LET r == ReadOID(d) IN IF r.has_error \/ r.val = item.val THEN r ELSE Error(r)
    [] item.op = "bool" -> CheckBoolean(d, item.val)
    [] item.op = "enum" -> CheckEnumerated(d, item.val)
-----------------------------------------------------------------------------
Init ==
  /\ doc \in Documents
  /\ data = Empty /\ mode = "write" /\ at = 0 /\ intact = TRUE
  /\ got = <<>> /\ ended = {}

WriteNext ==
  /\ mode = "write" /\ at < Len(doc)
  /\ data' = WriteItem(data, doc[at + 1])
  /\ at' = at + 1
  /\ UNCHANGED <<doc, mode, intact, got, ended>>

(* asn1_blob: only what is complete is handed out.                         *)
IsBlob(d) == ~d.has_error /\ d.nesting = <<>>

(* asn1_load by the receiver, of what has become of the bytes.             *)
Damaged(bytes) ==
  {SubSeq(bytes, 1, n) : n \in 0 .. Len(bytes) - 1}
  \cup {[bytes EXCEPT ![i] = b] : i \in DOMAIN bytes, b \in Bytes}
Load ==
  /\ mode = "write" /\ at = Len(doc) /\ IsBlob(data)
  /\ \E bytes \in {data.data} \cup (IF doc \in Corrupted THEN Damaged(data.data) ELSE {}) :
       /\ data' = [Empty EXCEPT !.data = bytes]
       /\ intact' = (bytes = data.data)
  /\ mode' = "read" /\ at' = 0
  /\ UNCHANGED <<doc, got, ended>>

Refuse ==
  /\ mode = "write" /\ at = Len(doc) /\ ~IsBlob(data)
  /\ mode' = "refused"
  /\ UNCHANGED <<doc, data, at, intact, got, ended>>

Opened == data.nesting[1]

(* The reader goes on after an error, as callers of asn1_read do.          *)
ReadNext ==
  /\ mode = "read" /\ at < Len(doc)
  /\ data' = ReadItem(data, doc[at + 1])
  /\ at' = at + 1
  /\ got' = Append(got, <<data'.val>>)
  /\ ended' = IF doc[at + 1].op = "pop" /\ ~data'.has_error
              THEN ended \cup {[start |-> Opened.start, length |-> Opened.taglen, to |-> data'.ofs]}
              ELSE ended
  /\ UNCHANGED <<doc, mode, intact>>

(* The check_ functions instead; the value is then not known.              *)
CheckNext ==
  /\ mode = "read" /\ at < Len(doc) /\ doc[at + 1].op \in {"oid", "bool", "enum"}
  /\ doc[at + 1].op = "bool" => doc[at + 1].tag = BOOLEAN_TAG
  /\ data' = CheckItem(data, doc[at + 1])
  /\ at' = at + 1
  /\ got' = Append(got, <<>>)
  /\ UNCHANGED <<doc, mode, intact, ended>>

EndRead ==
  /\ mode = "read" /\ at = Len(doc)
  /\ mode' = "ended"
  /\ UNCHANGED <<doc, data, at, intact, got, ended>>

Next == WriteNext \/ Load \/ Refuse \/ ReadNext \/ CheckNext \/ EndRead
Spec == Init /\ [][Next]_vars
-----------------------------------------------------------------------------

Expected(item) ==
  CASE item.op = "bits" -> <<item.padding>> \o item.val
    [] OTHER -> item.val

(* What comes back as it was: an OID whose first two numbers fit in a      *)
(* byte, the second below Arc, and whose others fit in an unsigned int and *)
(* in five bytes; and the rest of a tag where the tag ends behind it.      *)
Legible(d) ==
  /\ \A i \in DOMAIN d :
       d[i].op = "oid" /\ Len(d[i].val) >= 3 =>
         /\ d[i].val[2] < Arc /\ Arc * d[i].val[1] + d[i].val[2] < Base
         /\ \A k \in 3 .. Len(d[i].val) : d[i].val[k] < Word /\ d[i].val[k] < Power(HALF, 5)
  /\ \A i \in DOMAIN d : d[i].op = "rest" => i < Len(d) /\ d[i + 1].op = "pop"

(* What was written is what is read: every document that arrives whole is  *)
(* read without an error up to its last byte, each value as it was given,  *)
(* the lengths of nested tags included; but for negative ints shorter than *)
(* an int, which lose their sign, and for booleans that were checked.  A   *)
(* length takes at most four bytes, and an int holds it.                   *)
ReadsWhatWasWritten ==
  /\ mode \in {"read", "ended"} /\ intact
  /\ Legible(doc) /\ Len(data.data) < Power(Base, 4) /\ Len(data.data) < Word \div 2
  /\ \A i \in DOMAIN got : doc[i].op = "bool" => got[i] # <<>>
  =>
    /\ ~data.has_error /\ (mode = "ended" => IsBlob(data))
    /\ mode = "ended" => data.ofs = Len(data.data)
    /\ \A i \in DOMAIN got :
         doc[i].op \notin {"push", "pop"} /\ got[i] # <<>> =>
           IF doc[i].op = "int" /\ doc[i].val < 0
           THEN got[i][1] \in {doc[i].val, Unsigned(IntBytes(doc[i].val))}
           ELSE got[i][1] = Expected(doc[i])

(* Whatever arrives, if an int can count its bytes, tags that were read to *)
(* their end without an error lie one within the other or apart, although  *)
(* the length of an inner tag is only ever compared with the whole buffer. *)
(* Where a tag ends is told by what an int keeps of its length.            *)
Ends(t) == t.start + (t.length % Word)
EndedTagsNest ==
  Len(data.data) < Word =>
    \A s, t \in ended :
      \/ Ends(s) <= t.start \/ Ends(t) <= s.start
      \/ s.start <= t.start /\ Ends(t) <= Ends(s)
      \/ t.start <= s.start /\ Ends(s) <= Ends(t)

(* The tag that an item is written and read with.                          *)
TagOf(item) ==
  CASE item.op = "int"    -> INTEGER
    [] item.op = "oid"    -> OID
    [] item.op = "bits"   -> BIT_STRING
    [] item.op = "octets" -> OCTET_STRING
    [] item.op = "string" -> GENERAL_STRING
    [] item.op = "enum"   -> ENUMERATED
    [] item.op \in {"push", "context", "bool"} -> item.tag

(* Without has_error nothing went wrong: a read or a check that leaves it  *)
(* clear began without it, and unless it is check_enumerated, which takes  *)
(* back its own errors, found the tag it asks for and left as many tags    *)
(* open as there were, but for the one it opens or ends.                   *)
ErrorsLast ==
  [][mode = "read" /\ at' # at /\ ~data'.has_error =>
       /\ ~data.has_error
       /\ ~(doc[at'].op = "enum" /\ got'[at'] = <<>>) =>
            /\ doc[at'].op \notin {"pop", "raw", "rest"} =>
                 data.data[data.ofs + 1] = TagOf(doc[at'])
            /\ doc[at'].op \notin {"push", "pop"} => data'.nesting = data.nesting]_vars
=============================================================================
