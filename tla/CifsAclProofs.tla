---------------------------- MODULE CifsAclProofs ----------------------------
(***************************************************************************)
(* What setcifsacl sends, for any number of setcifsacl and of ACEs, any    *)
(* SIDs, and both orders in which a server lays a descriptor out.          *)
(*                                                                         *)
(* The argument goes through the words of the descriptor.  MarshalIs says  *)
(* which words a server sends, CopyAcesIs and CopySecDescIs which of them  *)
(* copy_ace and copy_sec_desc leave, and RebuiltIs that the parts do not   *)
(* reach one another as long as they stay apart (Places).  OneSid and      *)
(* OneAce turn words back: whatever a server takes is read from them       *)
(* (RebuiltMeans).  KeptIsAsked and ModifiedIsAsked say that ace_delete    *)
(* and ace_modify make the list of ACEs asked for.  ToolsInv is what these *)
(* need of a setcifsacl that writes.                                       *)
(***************************************************************************)
EXTENDS CifsAcl, SequenceTheorems, SumTheorems, TLAPS

(* FlattenSeq is what any function on its beginnings says that adds one    *)
(* sequence at a time.                                                     *)
LEMMA FlattenIs ==
  ASSUME NEW S, NEW seqs \in Seq(Seq(S)), NEW f \in [0 .. Len(seqs) -> Seq(S)],
         f[0] = <<>>, \A k \in 1 .. Len(seqs) : f[k] = f[k - 1] \o seqs[k]
  PROVE  FlattenSeq(seqs) = f[Len(seqs)]
PROOF
  <1> DEFINE n == Len(seqs)
             V == Seq(S)
             IsFlat(l) == l = [k \in 1 .. n |-> IF k = 1 THEN seqs[k] ELSE l[k - 1] \o seqs[k]]
  <1>0. n \in Nat /\ \A k \in 1 .. n : seqs[k] \in V
    OBVIOUS
  <1> DEFINE h == [k \in 1 .. n |-> f[k]]
  <1>4. IsFlat(h)
    <2>1. \A k \in 1 .. n : k # 1 => k - 1 \in 1 .. n /\ h[k - 1] = f[k - 1]
      BY <1>0
    <2>2. 1 \in 1 .. n => f[1] = seqs[1]
      <3>1. 1 \in 1 .. n => f[1] = f[0] \o seqs[1]
        <4>1. 1 - 1 = 0
          OBVIOUS
        <4> HIDE DEF h
        <4> QED
          BY <4>1
      <3>2. 1 \in 1 .. n => seqs[1] \in Seq(S)
        OBVIOUS
      <3> QED
        BY <3>1, <3>2
    <2>3. \A k \in 1 .. n : h[k] = f[k - 1] \o seqs[k]
      OBVIOUS
    <2> HIDE DEF n, V
    <2>4. \A k \in 1 .. n : h[k] = IF k = 1 THEN seqs[k] ELSE h[k - 1] \o seqs[k]
      BY <2>1, <2>2, <2>3
    <2> QED
      BY <2>4
  <1> DEFINE l == CHOOSE l : IsFlat(l)
  <1>5. IsFlat(l)
    <2> HIDE DEF h, IsFlat
    <2> QED
      BY <1>4
  <1>6. FlattenSeq(seqs) = IF n = 0 THEN seqs ELSE l[n]
    BY DEF FlattenSeq
  <1> HIDE DEF l, h
  <1> DEFINE T == {k \in Nat : k + 1 <= n => l[k + 1] = f[k + 1]}
  <1>7. 0 \in T
    <2>1. 1 <= n => l[1] = seqs[1]
      BY <1>0, <1>5
    <2>2. 1 <= n => 1 \in 1 .. n
      BY <1>0
    <2>3. 1 \in 1 .. n => f[1] = seqs[1]
      BY <1>4 DEF h
    <2> QED
      BY <2>1, <2>2, <2>3
  <1>8. ASSUME NEW k \in T PROVE k + 1 \in T
    <2> SUFFICES ASSUME (k + 1) + 1 <= n PROVE l[(k + 1) + 1] = f[(k + 1) + 1]
      BY <1>8
    <2>1. k \in Nat /\ (k + 1) + 1 \in 1 .. n /\ (k + 1) + 1 # 1 /\ ((k + 1) + 1) - 1 = k + 1 /\ k + 1 <= n
      BY <1>0
    <2>2. l[(k + 1) + 1] = l[k + 1] \o seqs[(k + 1) + 1]
      BY <1>5, <2>1
    <2>3. l[k + 1] = f[k + 1]
      BY <1>8, <2>1
    <2> QED
      BY <2>1, <2>2, <2>3
  <1>9. T = Nat
    <2> HIDE DEF T
    <2>1. T \in SUBSET Nat
      BY DEF T
    <2> QED
      BY <1>7, <1>8, <2>1, InductiveSet
  <1>10. CASE n = 0
    BY <1>6, <1>10
  <1>11. CASE n # 0
    <2>2. n - 1 \in Nat /\ (n - 1) + 1 = n
      BY <1>0, <1>11
    <2>1. n - 1 \in T
      BY <1>9, <2>2
    <2> QED
      BY <1>0, <1>6, <1>11, <2>1, <2>2
  <1> QED
    BY <1>10, <1>11

(* It has one such function.                                               *)
LEMMA FlattenSteps ==
  ASSUME NEW S, NEW seqs \in Seq(Seq(S))
  PROVE  \E f \in [0 .. Len(seqs) -> Seq(S)] :
            f[0] = <<>> /\ \A k \in 1 .. Len(seqs) : f[k] = f[k - 1] \o seqs[k]
PROOF
  <1> DEFINE n == Len(seqs)
             V == Seq(S)
             g == [kv \in Nat \X V |-> kv[2] \o (IF kv[1] \in 1 .. n THEN seqs[kv[1]] ELSE <<>>)]
  <1>0. n \in Nat /\ \A k \in 1 .. n : seqs[k] \in V
    OBVIOUS
  <1>1. g \in [Nat \X V -> V] /\ <<>> \in V
    BY <1>0
  <1>2. PICK f : Iterated(f, n, V, <<>>, g)
    <2> HIDE DEF g, n, V
    <2> QED
      BY <1>0, <1>1, IterationExists
  <1>3. \A k \in 1 .. n : f[k] = f[k - 1] \o seqs[k]
    <2>1. \A k \in 1 .. n : k \in Nat /\ k - 1 \in 0 .. n /\ f[k - 1] \in V
      <3> HIDE DEF n, g, V
      <3> QED
        BY <1>0, <1>2 DEF Iterated
    <2> HIDE DEF V
    <2> QED
      BY <1>2, <2>1 DEF Iterated
  <1> HIDE DEF g
  <1> QED
    BY <1>2, <1>3 DEF Iterated

LEMMA FlattenType ==
  ASSUME NEW S, NEW seqs \in Seq(Seq(S))
  PROVE  FlattenSeq(seqs) \in Seq(S)
PROOF
  <1>1. PICK f \in [0 .. Len(seqs) -> Seq(S)] :
            f[0] = <<>> /\ \A k \in 1 .. Len(seqs) : f[k] = f[k - 1] \o seqs[k]
    BY FlattenSteps
  <1>2. FlattenSeq(seqs) = f[Len(seqs)]
    BY <1>1, FlattenIs
  <1>3. Len(seqs) \in 0 .. Len(seqs)
    OBVIOUS
  <1> QED
    BY <1>2, <1>3

LEMMA FlattenAppend ==
  ASSUME NEW S, NEW seqs \in Seq(Seq(S)), NEW q \in Seq(S)
  PROVE  FlattenSeq(Append(seqs, q)) = FlattenSeq(seqs) \o q
PROOF
  <1> DEFINE n == Len(seqs)
             more == Append(seqs, q)
  <1>1. /\ n \in Nat /\ more \in Seq(Seq(S)) /\ Len(more) = n + 1 /\ more[n + 1] = q
        /\ \A k \in 1 .. n : more[k] = seqs[k]
    BY AppendProperties
  <1> HIDE DEF more
  <1>2. PICK f \in [0 .. Len(more) -> Seq(S)] :
            f[0] = <<>> /\ \A k \in 1 .. Len(more) : f[k] = f[k - 1] \o more[k]
    BY <1>1, FlattenSteps
  <1>3. FlattenSeq(more) = f[n + 1]
    BY <1>1, <1>2, FlattenIs
  <1>4. f[n + 1] = f[n] \o q
    <2>1. n + 1 \in 1 .. n + 1 /\ (n + 1) - 1 = n
      BY <1>1
    <2> QED
      BY <1>1, <1>2, <2>1
  <1> DEFINE h == [k \in 0 .. n |-> f[k]]
  <1>5. /\ h \in [0 .. n -> Seq(S)] /\ h[0] = <<>> /\ h[n] = f[n]
        /\ \A k \in 1 .. n : h[k] = h[k - 1] \o seqs[k]
    <2>1. \A k \in 0 .. n : k \in 0 .. Len(more)
      BY <1>1
    <2>2. \A k \in 1 .. n : k \in 1 .. Len(more) /\ k - 1 \in 0 .. n /\ k \in 0 .. n
      BY <1>1
    <2>3. \A k \in 0 .. n : h[k] = f[k]
      OBVIOUS
    <2>4. h \in [0 .. n -> Seq(S)]
      BY <1>2, <2>1
    <2>5. 0 \in 0 .. n /\ n \in 0 .. n
      BY <1>1
    <2> HIDE DEF h
    <2> QED
      BY <1>1, <1>2, <2>2, <2>3, <2>4, <2>5
  <1> HIDE DEF h, n
  <1>6. FlattenSeq(seqs) = h[n]
    BY <1>5, FlattenIs DEF n
  <1> QED
    BY <1>3, <1>4, <1>5, <1>6 DEF more
-----------------------------------------------------------------------------
(* The words of descriptors.                                               *)
Words ==
  {Junk, <<"revision">>}
  \cup {<<k, n>> : k \in {"osidoffset", "gsidoffset", "dacloffset", "size", "num_aces"}, n \in Int}
  \cup {<<"ace", t, f, n>> : t \in Types, f \in Flags, n \in Nat}
  \cup {<<"access_req", m>> : m \in Masks}
  \cup {<<s, k>> : s \in Sids, k \in 1 .. 7}

LEMMA SubSize ==
  ASSUME NEW s \in Sids
  PROVE  NumSub[s] \in 1 .. 5
PROOF
  BY CifsAclAssumption DEF Sids

(* A sequence is what SubSeq takes of it from end to end.                  *)
LEMMA Whole ==
  ASSUME NEW n \in Nat, NEW f, f = [k \in 1 .. n |-> f[k]]
  PROVE  SubSeq(f, 1, n) = f
PROOF
  OBVIOUS

(* A slice, place by place.                                                *)
LEMMA SliceIs ==
  ASSUME NEW mem, NEW o, NEW n \in Nat
  PROVE  Slice(mem, o, n) = [k \in 1 .. n |-> Get(mem, o + k - 1)]
PROOF
  <1> DEFINE f == [k \in 1 .. n |-> Get(mem, o + k - 1)]
  <1>1. f = [k \in 1 .. n |-> f[k]]
    OBVIOUS
  <1>2. Slice(mem, o, n) = SubSeq(f, 1, n)
    BY DEF Slice
  <1> HIDE DEF f
  <1>3. SubSeq(f, 1, n) = f
    BY <1>1, Whole
  <1> QED
    BY <1>2, <1>3 DEF f

(* The words of a SID, of an ACE and of ACEs.                              *)
LEMMA SidWordsAre ==
  ASSUME NEW s \in Sids
  PROVE  /\ SidWords(s) \in Seq(Words)
         /\ Len(SidWords(s)) = 2 + NumSub[s]
         /\ \A k \in 1 .. 2 + NumSub[s] : SidWords(s)[k] = <<s, k>>
PROOF
  <1>1. NumSub[s] \in 1 .. 5
    BY SubSize
  <1>2. \A k \in 1 .. 2 + NumSub[s] : <<s, k>> \in Words
    BY <1>1 DEF Words
  <1> HIDE DEF Words
  <1> QED
    BY <1>1, <1>2 DEF SidWords

LEMMA AceWordsAre ==
  ASSUME NEW a \in Aces
  PROVE  /\ AceWords(a) \in Seq(Words)
         /\ Len(AceWords(a)) = AceSize(a)
         /\ AceSize(a) \in 5 .. 9
         /\ AceWords(a)[1] = <<"ace", a.type, a.flags, AceSize(a)>>
         /\ AceWords(a)[2] = <<"access_req", a.mask>>
         /\ \A k \in 1 .. 2 + NumSub[a.sid] : AceWords(a)[2 + k] = <<a.sid, k>>
PROOF
  <1>1. a.sid \in Sids /\ a.type \in Types /\ a.flags \in Flags /\ a.mask \in Masks
    BY DEF Aces
  <1>2. NumSub[a.sid] \in 1 .. 5
    BY <1>1, SubSize
  <1>3. AceSize(a) \in 5 .. 9 /\ AceSize(a) = 4 + NumSub[a.sid]
    BY <1>2 DEF AceSize
  <1> DEFINE first == <<"ace", a.type, a.flags, AceSize(a)>>
             second == <<"access_req", a.mask>>
             sid == SidWords(a.sid)
  <1>4. first \in Words /\ second \in Words
    BY <1>1, <1>3 DEF Words
  <1>5. /\ sid \in Seq(Words) /\ Len(sid) = 2 + NumSub[a.sid]
        /\ \A k \in 1 .. 2 + NumSub[a.sid] : sid[k] = <<a.sid, k>>
    BY <1>1, SidWordsAre
  <1>6. AceWords(a) = <<first, second>> \o sid
    BY DEF AceWords
  <1> HIDE DEF Words, first, second, sid
  <1>7. <<first, second>> \in Seq(Words) /\ Len(<<first, second>>) = 2
    BY <1>4
  <1>8. /\ <<first, second>> \o sid \in Seq(Words)
        /\ Len(<<first, second>> \o sid) = 2 + Len(sid)
        /\ \A i \in 1 .. 2 + Len(sid) : (<<first, second>> \o sid)[i] =
             IF i <= 2 THEN <<first, second>>[i] ELSE sid[i - 2]
    BY <1>5, <1>7, ConcatProperties
  <1>9. AceWords(a)[1] = first /\ AceWords(a)[2] = second
    BY <1>2, <1>5, <1>6, <1>8
  <1>10. \A k \in 1 .. 2 + NumSub[a.sid] : AceWords(a)[2 + k] = <<a.sid, k>>
    BY <1>2, <1>5, <1>6, <1>8
  <1> QED
    BY <1>2, <1>3, <1>5, <1>6, <1>8, <1>9, <1>10 DEF first, second

LEMMA AcesWordsAre ==
  ASSUME NEW aces \in Seq(Aces)
  PROVE  /\ AcesWords(aces) \in Seq(Words)
         /\ aces = <<>> => Len(AcesWords(aces)) = 0
         /\ \A a \in Aces : Len(AcesWords(Append(aces, a))) = Len(AcesWords(aces)) + AceSize(a)
PROOF
  <1> DEFINE seqs(l) == [i \in DOMAIN l |-> AceWords(l[i])]
  <1>1. \A a \in Aces : AceWords(a) \in Seq(Words) /\ Len(AceWords(a)) = AceSize(a)
    BY AceWordsAre
  <1> HIDE DEF Words, Aces
  <1>2. \A l \in Seq(Aces) : seqs(l) \in Seq(Seq(Words)) /\ Len(seqs(l)) = Len(l)
    <2> TAKE l \in Seq(Aces)
    <2>1. DOMAIN l = 1 .. Len(l) /\ Len(l) \in Nat /\ \A i \in 1 .. Len(l) : l[i] \in Aces
      BY LenProperties, ElementOfSeq
    <2>2. \A i \in 1 .. Len(l) : AceWords(l[i]) \in Seq(Words)
      BY <1>1, <2>1
    <2> QED
      BY <2>1, <2>2
  <1>3. \A l \in Seq(Aces) : AcesWords(l) = FlattenSeq(seqs(l))
    BY DEF AcesWords
  <1>4. AcesWords(aces) \in Seq(Words)
    <2> HIDE DEF seqs
    <2> QED
      BY <1>2, <1>3, FlattenType
  <1>5. ASSUME aces = <<>> PROVE Len(AcesWords(aces)) = 0
    <2>1. seqs(aces) = <<>>
      BY <1>5
    <2>2. FlattenSeq(<<>>) = <<>>
      BY DEF FlattenSeq
    <2>3. AcesWords(aces) = FlattenSeq(seqs(aces))
      BY <1>3
    <2> HIDE DEF seqs
    <2>4. AcesWords(aces) = <<>>
      BY <2>1, <2>2, <2>3
    <2> QED
      BY <2>4
  <1>6. ASSUME NEW a \in Aces
        PROVE  Len(AcesWords(Append(aces, a))) = Len(AcesWords(aces)) + AceSize(a)
    <2> DEFINE n == Len(aces)
    <2>1. /\ n \in Nat /\ DOMAIN aces = 1 .. n
          /\ Append(aces, a) \in Seq(Aces) /\ Len(Append(aces, a)) = n + 1
          /\ DOMAIN Append(aces, a) = 1 .. n + 1
          /\ \A i \in 1 .. n : Append(aces, a)[i] = aces[i]
          /\ Append(aces, a)[n + 1] = a
      BY AppendProperties, LenProperties
    <2>2. AceWords(a) \in Seq(Words)
      BY <1>1
    <2>3. seqs(Append(aces, a)) = Append(seqs(aces), AceWords(a))
      <3>1. seqs(aces) \in Seq(Seq(Words)) /\ Len(seqs(aces)) = n
        BY <1>2
      <3>2. seqs(Append(aces, a)) \in Seq(Seq(Words)) /\ Len(seqs(Append(aces, a))) = n + 1
        BY <1>2, <2>1
      <3>3. /\ \A i \in 1 .. n : seqs(Append(aces, a))[i] = seqs(aces)[i]
            /\ seqs(Append(aces, a))[n + 1] = AceWords(a)
        BY <2>1
      <3> DEFINE s == seqs(aces)
                 t == seqs(Append(aces, a))
                 w == AceWords(a)
      <3>4. s \in Seq(Seq(Words)) /\ t \in Seq(Seq(Words)) /\ w \in Seq(Words)
            /\ Len(s) = n /\ Len(t) = n + 1 /\ (\A i \in 1 .. n : t[i] = s[i]) /\ t[n + 1] = w
        BY <2>2, <3>1, <3>2, <3>3
      <3> HIDE DEF s, t, w, n, seqs
      <3>5. t = Append(s, w)
        <4>1. /\ Append(s, w) \in Seq(Seq(Words)) /\ Len(Append(s, w)) = n + 1
              /\ \A i \in 1 .. n : Append(s, w)[i] = s[i]
              /\ Append(s, w)[n + 1] = w
          BY <3>4, AppendProperties
        <4>2. \A i \in 1 .. n + 1 : t[i] = Append(s, w)[i]
          BY <2>1, <3>4, <4>1
        <4> QED
          BY <3>4, <4>1, <4>2, SeqEqual
      <3> QED
        BY <3>5 DEF s, t, w
    <2>4. AcesWords(Append(aces, a)) = AcesWords(aces) \o AceWords(a)
      <3>1. seqs(aces) \in Seq(Seq(Words))
        BY <1>2
      <3>2. FlattenSeq(Append(seqs(aces), AceWords(a))) = FlattenSeq(seqs(aces)) \o AceWords(a)
        <4> HIDE DEF seqs
        <4> QED
          BY <2>2, <3>1, FlattenAppend
      <3> HIDE DEF seqs
      <3> QED
        BY <1>3, <2>1, <2>3, <3>2
    <2> QED
      BY <1>1, <1>4, <2>2, <2>4, ConcatProperties
  <1> QED
    BY <1>4, <1>5, <1>6

(* Where a server puts the parts of a descriptor.                          *)
AclSize(d) == IF d.dacl THEN CTRL + Len(AcesWords(d.aces)) ELSE 0
OwnerAt(d, order) == IF order = "daclFirst" THEN NTSD + AclSize(d) ELSE NTSD
GroupAt(d, order) == OwnerAt(d, order) + 2 + NumSub[d.owner]
BehindGroup(d, order) == GroupAt(d, order) + 2 + NumSub[d.group]
DaclAt(d, order) ==
  IF ~d.dacl THEN 0 ELSE IF order = "daclFirst" THEN NTSD ELSE BehindGroup(d, order)

(* The size and the number of the ACEs come first.                         *)
LEMMA DaclWordsAre ==
  ASSUME NEW aces \in Seq(Aces)
  PROVE  /\ DaclWords(aces) \in Seq(Words)
         /\ Len(AcesWords(aces)) \in Nat
         /\ Len(DaclWords(aces)) = CTRL + Len(AcesWords(aces))
         /\ DaclWords(aces)[1] = <<"size", CTRL + Len(AcesWords(aces))>>
         /\ DaclWords(aces)[2] = <<"num_aces", Len(aces)>>
PROOF
  <1> DEFINE words == AcesWords(aces)
             size == CTRL + Len(words)
             ctrl == Ctrl(size, Len(aces))
  <1>1. words \in Seq(Words)
    BY AcesWordsAre
  <1>2. Len(words) \in Nat /\ size \in Nat /\ Len(aces) \in Nat
    <2> HIDE DEF words, Words
    <2> QED
      BY <1>1 DEF CTRL
  <1>3. <<"size", size>> \in Words /\ <<"num_aces", Len(aces)>> \in Words
    BY <1>2 DEF Words
  <1>4. /\ ctrl \in Seq(Words) /\ Len(ctrl) = 2
        /\ ctrl[1] = <<"size", size>> /\ ctrl[2] = <<"num_aces", Len(aces)>>
    <2> HIDE DEF Words, size
    <2> QED
      BY <1>3 DEF Ctrl
  <1>5. DaclWords(aces) = ctrl \o words
    BY DEF DaclWords
  <1> HIDE DEF Words, words, ctrl, size
  <1>6. /\ ctrl \o words \in Seq(Words) /\ Len(ctrl \o words) = Len(ctrl) + Len(words)
        /\ \A i \in 1 .. Len(ctrl) + Len(words) :
             (ctrl \o words)[i] = IF i <= Len(ctrl) THEN ctrl[i] ELSE words[i - Len(ctrl)]
    BY <1>1, <1>4, ConcatProperties
  <1>7. 1 \in 1 .. Len(ctrl) + Len(words) /\ 2 \in 1 .. Len(ctrl) + Len(words)
    BY <1>2, <1>4
  <1> QED
    BY <1>2, <1>4, <1>5, <1>6, <1>7 DEF CTRL, words, size

(* The parts of a descriptor, and that their places are numbers.           *)
LEMMA Offsets ==
  ASSUME NEW d \in Descriptors, NEW order
  PROVE  /\ d.owner \in Sids /\ d.group \in Sids /\ d.dacl \in BOOLEAN /\ d.aces \in Seq(Aces)
         /\ NumSub[d.owner] \in 1 .. 5 /\ NumSub[d.group] \in 1 .. 5
         /\ Len(AcesWords(d.aces)) \in Nat
         /\ AclSize(d) \in Nat
         /\ OwnerAt(d, order) \in Nat /\ OwnerAt(d, order) >= 5
         /\ GroupAt(d, order) \in Nat /\ BehindGroup(d, order) \in Nat
         /\ DaclAt(d, order) \in Nat
PROOF
  <1>1. d.owner \in Sids /\ d.group \in Sids /\ d.dacl \in BOOLEAN /\ d.aces \in Seq(Aces)
    BY DEF Descriptors
  <1>2. NumSub[d.owner] \in 1 .. 5 /\ NumSub[d.group] \in 1 .. 5
    BY <1>1, SubSize
  <1>3. Len(AcesWords(d.aces)) \in Nat
    BY <1>1, DaclWordsAre
  <1>4. AclSize(d) \in Nat
    BY <1>1, <1>3 DEF AclSize, CTRL
  <1>5. OwnerAt(d, order) \in Nat /\ OwnerAt(d, order) >= 5
    BY <1>4 DEF OwnerAt, NTSD
  <1>6. GroupAt(d, order) \in Nat
    BY <1>2, <1>5 DEF GroupAt
  <1>7. BehindGroup(d, order) \in Nat
    BY <1>2, <1>6 DEF BehindGroup
  <1>8. DaclAt(d, order) \in Nat
    BY <1>7 DEF DaclAt, NTSD
  <1> QED
    BY <1>1, <1>2, <1>3, <1>4, <1>5, <1>6, <1>7, <1>8

(* Where the offsets are.                                                  *)
LEMMA HeaderIs ==
  ASSUME NEW o \in Nat, NEW g \in Nat, NEW d \in Nat
  PROVE  /\ Header(o, g, d) \in Seq(Words) /\ Len(Header(o, g, d)) = 5
         /\ Header(o, g, d)[2] = <<"osidoffset", o>>
         /\ Header(o, g, d)[3] = <<"gsidoffset", g>>
         /\ Header(o, g, d)[5] = <<"dacloffset", d>>
PROOF
  <1> DEFINE w1 == <<"revision">>
             w2 == <<"osidoffset", o>>
             w3 == <<"gsidoffset", g>>
             w5 == <<"dacloffset", d>>
  <1>1. w1 \in Words /\ w2 \in Words /\ w3 \in Words /\ Junk \in Words /\ w5 \in Words
    BY DEF Words
  <1>2. Header(o, g, d) = <<w1, w2, w3, Junk, w5>>
    BY DEF Header
  <1> HIDE DEF Words, w1, w2, w3, w5, Junk
  <1>3. /\ <<w1, w2, w3, Junk, w5>> \in Seq(Words) /\ Len(<<w1, w2, w3, Junk, w5>>) = 5
        /\ <<w1, w2, w3, Junk, w5>>[2] = w2 /\ <<w1, w2, w3, Junk, w5>>[3] = w3
        /\ <<w1, w2, w3, Junk, w5>>[5] = w5
    BY <1>1
  <1> QED
    BY <1>2, <1>3 DEF w2, w3, w5

(* A part behind others: where its words are.                              *)
LEMMA Behind ==
  ASSUME NEW S, NEW p \in Seq(S), NEW q \in Seq(S)
  PROVE  /\ p \o q \in Seq(S) /\ Len(p \o q) = Len(p) + Len(q)
         /\ Len(p) \in Nat /\ Len(q) \in Nat
         /\ \A x \in Nat : x < Len(p) => Get(p \o q, x) = Get(p, x) /\ Get(p, x) = p[x + 1]
         /\ \A x \in Nat : x < Len(q) =>
              Get(p \o q, Len(p) + x) = Get(q, x) /\ Get(q, x) = q[x + 1]
PROOF
  <1>1. /\ p \o q \in Seq(S) /\ Len(p \o q) = Len(p) + Len(q)
        /\ \A i \in 1 .. Len(p) + Len(q) :
             (p \o q)[i] = IF i <= Len(p) THEN p[i] ELSE q[i - Len(p)]
    BY ConcatProperties
  <1>2. Len(p) \in Nat /\ Len(q) \in Nat
    OBVIOUS
  <1> DEFINE r == p \o q
  <1> HIDE DEF r
  <1>3. ASSUME NEW x \in Nat, x < Len(p) PROVE Get(r, x) = Get(p, x) /\ Get(p, x) = p[x + 1]
    <2>1. x \in 0 .. Len(p) - 1 /\ x \in 0 .. Len(r) - 1
      BY <1>1, <1>2, <1>3 DEF r
    <2>2. r[x + 1] = p[x + 1]
      BY <1>1, <1>2, <1>3 DEF r
    <2> QED
      BY <2>1, <2>2 DEF Get
  <1>4. ASSUME NEW x \in Nat, x < Len(q)
        PROVE  Get(r, Len(p) + x) = Get(q, x) /\ Get(q, x) = q[x + 1]
    <2>1. x \in 0 .. Len(q) - 1 /\ Len(p) + x \in 0 .. Len(r) - 1
      BY <1>1, <1>2, <1>4 DEF r
    <2>2. r[(Len(p) + x) + 1] = q[x + 1]
      <3>1. (Len(p) + x) + 1 \in 1 .. Len(p) + Len(q) /\ ((Len(p) + x) + 1) - Len(p) = x + 1
            /\ ~((Len(p) + x) + 1 <= Len(p))
        BY <1>2, <1>4
      <3> QED
        BY <1>1, <3>1 DEF r
    <2> QED
      BY <2>1, <2>2 DEF Get
  <1> QED
    BY <1>1, <1>2, <1>3, <1>4 DEF r

(* The descriptor a server sends, word by word.                            *)
LEMMA MarshalIs ==
  ASSUME NEW d \in Descriptors, NEW order
  PROVE  LET mem == Marshal(d, order)
             o == OwnerAt(d, order)
             g == GroupAt(d, order)
         IN  /\ mem \in Seq(Words)
             /\ Len(mem) = 9 + NumSub[d.owner] + NumSub[d.group] + AclSize(d)
             /\ Get(mem, 1) = <<"osidoffset", o>>
             /\ Get(mem, 2) = <<"gsidoffset", g>>
             /\ Get(mem, 4) = <<"dacloffset", DaclAt(d, order)>>
             /\ \A k \in 0 .. 1 + NumSub[d.owner] : Get(mem, o + k) = <<d.owner, k + 1>>
             /\ \A k \in 0 .. 1 + NumSub[d.group] : Get(mem, g + k) = <<d.group, k + 1>>
PROOF
  <1> DEFINE own == SidWords(d.owner)
             grp == SidWords(d.group)
             acl == IF d.dacl THEN DaclWords(d.aces) ELSE <<>>
             o == OwnerAt(d, order)
             g == GroupAt(d, order)
             a == DaclAt(d, order)
             sids == own \o grp
             tail == IF order = "daclFirst" THEN acl \o sids ELSE sids \o acl
             head == Header(o, g, a)
             mem == Marshal(d, order)
             O == NumSub[d.owner]
             G == NumSub[d.group]
  <1>1. /\ d.owner \in Sids /\ d.group \in Sids /\ d.dacl \in BOOLEAN /\ d.aces \in Seq(Aces)
    BY Offsets
  <1>n. /\ O \in 1 .. 5 /\ G \in 1 .. 5
        /\ AclSize(d) \in Nat /\ o \in Nat /\ g \in Nat /\ a \in Nat
    BY Offsets
  <1>2. /\ own \in Seq(Words) /\ Len(own) = 2 + O /\ \A k \in 1 .. 2 + O : own[k] = <<d.owner, k>>
        /\ grp \in Seq(Words) /\ Len(grp) = 2 + G /\ \A k \in 1 .. 2 + G : grp[k] = <<d.group, k>>
    BY <1>1, SidWordsAre
  <1>3. acl \in Seq(Words) /\ Len(acl) = AclSize(d)
    <2>1. <<>> \in Seq(Words) /\ Len(<<>>) = 0
      OBVIOUS
    <2> QED
      BY <1>1, <2>1, DaclWordsAre DEF AclSize
  <1>4. mem = head \o tail
    <2>1. mem = Header(IF order = "daclFirst" THEN NTSD + Len(acl) ELSE NTSD,
                       (IF order = "daclFirst" THEN NTSD + Len(acl) ELSE NTSD) + Len(own),
                       IF d.dacl THEN IF order = "daclFirst" THEN NTSD ELSE NTSD + Len(own) + Len(grp) ELSE 0) \o tail
      BY DEF Marshal
    <2>2. o = IF order = "daclFirst" THEN NTSD + Len(acl) ELSE NTSD
      BY <1>3 DEF OwnerAt
    <2>a. g = o + 2 + O
      BY DEF GroupAt
    <2>b. a = IF d.dacl THEN IF order = "daclFirst" THEN NTSD ELSE g + 2 + G ELSE 0
      BY DEF DaclAt, BehindGroup
    <2>c. Len(own) = 2 + O /\ Len(grp) = 2 + G
      BY <1>2
    <2>d. order # "daclFirst" => o = NTSD
      BY DEF OwnerAt
    <2> HIDE DEF own, grp, acl, o, g, a, O, G
    <2>3. g = o + Len(own)
      BY <1>n, <2>a, <2>c
    <2>4. a = IF d.dacl THEN IF order = "daclFirst" THEN NTSD ELSE NTSD + Len(own) + Len(grp) ELSE 0
      <3>1. order # "daclFirst" => g + 2 + G = NTSD + Len(own) + Len(grp)
        BY <1>n, <2>a, <2>c, <2>d DEF NTSD
      <3> QED
        BY <2>b, <3>1
    <2> HIDE DEF own, grp, acl, o, g, a, tail, mem
    <2> QED
      BY <2>1, <2>2, <2>3, <2>4
  <1>5. /\ head \in Seq(Words) /\ Len(head) = 5
        /\ head[2] = <<"osidoffset", o>> /\ head[3] = <<"gsidoffset", g>>
        /\ head[5] = <<"dacloffset", a>>
    <2> HIDE DEF own, grp, acl, o, g, a, sids, tail, mem, O, G, Words
    <2>1. o \in Nat /\ g \in Nat /\ a \in Nat
      BY <1>n
    <2> QED
      BY <2>1, HeaderIs, Zenon
  <1>6. order = "daclFirst" => o = 5 + Len(acl)
    BY <1>3 DEF OwnerAt, NTSD
  <1>e. order # "daclFirst" => o = 5
    BY DEF OwnerAt, NTSD
  <1>g. g = o + 2 + O
    BY DEF GroupAt
  <1>z. /\ Len(acl) \in Nat /\ Len(acl) = AclSize(d)
    BY <1>3, <1>n
  <1> HIDE DEF own, grp, acl, o, g, a, head, mem, Words, O, G
  <1>7. /\ sids \in Seq(Words) /\ Len(sids) = 4 + O + G
        /\ \A k \in 0 .. 1 + O : Get(sids, k) = <<d.owner, k + 1>>
        /\ \A k \in 0 .. 1 + G : Get(sids, 2 + O + k) = <<d.group, k + 1>>
    <2>0. /\ sids \in Seq(Words) /\ Len(sids) = Len(own) + Len(grp)
          /\ \A x \in Nat : x < Len(own) => Get(sids, x) = own[x + 1]
          /\ \A x \in Nat : x < Len(grp) => Get(sids, Len(own) + x) = grp[x + 1]
      <3>1. own \in Seq(Words) /\ grp \in Seq(Words)
        BY <1>2
      <3>2. /\ own \o grp \in Seq(Words) /\ Len(own \o grp) = Len(own) + Len(grp)
            /\ \A x \in Nat : x < Len(own) => Get(own \o grp, x) = Get(own, x) /\ Get(own, x) = own[x + 1]
            /\ \A x \in Nat : x < Len(grp) =>
                 Get(own \o grp, Len(own) + x) = Get(grp, x) /\ Get(grp, x) = grp[x + 1]
        BY <3>1, Behind
      <3> QED
        BY <3>2
    <2>1. sids \in Seq(Words) /\ Len(sids) = 4 + O + G
      BY <1>n, <1>2, <2>0
    <2>2. ASSUME NEW k \in 0 .. 1 + O PROVE Get(sids, k) = <<d.owner, k + 1>>
      <3>1. k \in Nat /\ k < Len(own) /\ k + 1 \in 1 .. 2 + O
        BY <1>n, <1>2
      <3>2. Get(sids, k) = own[k + 1]
        BY <2>0, <3>1
      <3> QED
        BY <1>2, <3>1, <3>2
    <2>3. ASSUME NEW k \in 0 .. 1 + G PROVE Get(sids, 2 + O + k) = <<d.group, k + 1>>
      <3>1. k \in Nat /\ k < Len(grp) /\ k + 1 \in 1 .. 2 + G /\ 2 + O + k = Len(own) + k
        BY <1>n, <1>2
      <3>2. Get(sids, Len(own) + k) = grp[k + 1]
        BY <2>0, <3>1
      <3> QED
        BY <1>2, <3>1, <3>2
    <2> QED
      BY <2>1, <2>2, <2>3
  <1> HIDE DEF sids
  <1>8. /\ tail \in Seq(Words) /\ Len(tail) = 4 + O + G + AclSize(d)
        /\ \A x \in 0 .. 3 + O + G : Get(tail, o - 5 + x) = Get(sids, x)
    <2>1. tail \in Seq(Words) /\ Len(tail) = 4 + O + G + AclSize(d)
      BY <1>n, <1>3, <1>7, Behind
    <2>2. ASSUME NEW x \in 0 .. 3 + O + G PROVE Get(tail, o - 5 + x) = Get(sids, x)
      <3>1. x \in Nat /\ x < Len(sids)
        BY <1>n, <1>7
      <3>2. CASE order = "daclFirst"
        <4>1. o - 5 + x = Len(acl) + x
          BY <1>n, <1>z, <1>6, <3>1, <3>2
        <4>2. Get(acl \o sids, Len(acl) + x) = Get(sids, x)
          <5>1. acl \in Seq(Words) /\ sids \in Seq(Words)
            BY <1>3, <1>7
          <5>2. \A y \in Nat : y < Len(sids) => Get(acl \o sids, Len(acl) + y) = Get(sids, y)
            BY <5>1, Behind
          <5> QED
            BY <3>1, <5>2
        <4> QED
          BY <3>2, <4>1, <4>2
      <3>3. CASE order # "daclFirst"
        <4>1. o - 5 + x = x
          BY <1>e, <3>1, <3>3
        <4>2. Get(sids \o acl, x) = Get(sids, x)
          BY <1>3, <1>7, <3>1, Behind
        <4> QED
          BY <3>3, <4>1, <4>2
      <3> QED
        BY <3>2, <3>3
    <2> QED
      BY <2>1, <2>2
  <1>h. Len(tail) \in Nat /\ Len(tail) = 4 + O + G + AclSize(d)
    BY <1>n, <1>8
  <1> HIDE DEF tail
  <1>9. /\ mem \in Seq(Words) /\ Len(mem) = 9 + O + G + AclSize(d)
        /\ \A x \in 0 .. 4 : Get(mem, x) = head[x + 1]
        /\ \A x \in Nat : x < Len(tail) => Get(mem, 5 + x) = Get(tail, x)
    <2>0. /\ mem \in Seq(Words) /\ Len(mem) = Len(head) + Len(tail)
          /\ \A x \in Nat : x < Len(head) => Get(mem, x) = head[x + 1]
          /\ \A x \in Nat : x < Len(tail) => Get(mem, Len(head) + x) = Get(tail, x)
      <3>1. head \in Seq(Words) /\ tail \in Seq(Words)
        BY <1>5, <1>8
      <3> QED
        BY <1>4, <3>1, Behind
    <2>1. mem \in Seq(Words) /\ Len(mem) = 9 + O + G + AclSize(d)
      <3>1. Len(mem) = 5 + Len(tail)
        BY <1>5, <2>0
      <3> QED
        BY <1>n, <1>h, <2>0, <3>1
    <2>2. ASSUME NEW x \in 0 .. 4 PROVE Get(mem, x) = head[x + 1]
      BY <1>5, <2>0
    <2>3. ASSUME NEW x \in Nat, x < Len(tail) PROVE Get(mem, 5 + x) = Get(tail, x)
      BY <1>5, <2>0, <2>3
    <2> QED
      BY <2>1, <2>2, <2>3
  <1>10. \A x \in 0 .. 3 + O + G : Get(mem, o + x) = Get(sids, x)
    <2> TAKE x \in 0 .. 3 + O + G
    <2>1. o - 5 + x \in Nat /\ o - 5 + x < Len(tail) /\ 5 + (o - 5 + x) = o + x
      BY <1>n, <1>z, <1>6, <1>e, <1>h
    <2> QED
      BY <1>8, <1>9, <2>1
  <1>11. \A k \in 0 .. 1 + O : Get(mem, o + k) = <<d.owner, k + 1>>
    <2> TAKE k \in 0 .. 1 + O
    <2>1. k \in 0 .. 3 + O + G
      BY <1>n
    <2> QED
      BY <1>7, <1>10, <2>1
  <1>12. \A k \in 0 .. 1 + G : Get(mem, g + k) = <<d.group, k + 1>>
    <2> TAKE k \in 0 .. 1 + G
    <2>1. 2 + O + k \in 0 .. 3 + O + G /\ o + (2 + O + k) = g + k
      BY <1>n, <1>g
    <2> QED
      BY <1>7, <1>10, <2>1
  <1>13. Get(mem, 1) = head[2] /\ Get(mem, 2) = head[3] /\ Get(mem, 4) = head[5]
    BY <1>9
  <1>14. Get(mem, 1) = <<"osidoffset", o>> /\ Get(mem, 2) = <<"gsidoffset", g>>
         /\ Get(mem, 4) = <<"dacloffset", a>>
    BY <1>5, <1>13
  <1> QED
    BY <1>9, <1>11, <1>12, <1>14 DEF mem, o, g, a, O, G
-----------------------------------------------------------------------------
(* Get, Slice and Copy on words.                                           *)
LEMMA GetIs ==
  ASSUME NEW mem \in Seq(Words), NEW x
  PROVE  Get(mem, x) \in Words
PROOF
  <1>1. Junk \in Words
    BY DEF Words
  <1>2. ASSUME x \in 0 .. Len(mem) - 1 PROVE mem[x + 1] \in Words
    <2> HIDE DEF Words
    <2> QED
      BY <1>2
  <1> HIDE DEF Words
  <1> QED
    BY <1>1, <1>2 DEF Get

LEMMA SliceWords ==
  ASSUME NEW mem \in Seq(Words), NEW o \in Nat, NEW n \in Nat
  PROVE  /\ Slice(mem, o, n) \in Seq(Words) /\ Len(Slice(mem, o, n)) = n
         /\ \A k \in 1 .. n : Slice(mem, o, n)[k] = Get(mem, o + k - 1)
PROOF
  <1>1. \A k \in 1 .. n : Get(mem, o + k - 1) \in Words
    BY GetIs
  <1> DEFINE f == Slice(mem, o, n)
  <1>2. f = [k \in 1 .. n |-> Get(mem, o + k - 1)]
    BY SliceIs
  <1>3. \A k \in 1 .. n : f[k] = Get(mem, o + k - 1)
    BY <1>2
  <1>4. f = [k \in 1 .. n |-> f[k]]
    BY <1>2
  <1> HIDE DEF Words, f
  <1>5. \A k \in 1 .. n : f[k] \in Words
    BY <1>1, <1>3
  <1>6. f \in [1 .. n -> Words]
    BY <1>4, <1>5
  <1>7. f \in Seq(Words) /\ Len(f) = n
    BY <1>6
  <1> QED
    BY <1>3, <1>7 DEF f

(* c is mem with the words at o.                                           *)
Overlaid(c, mem, o, words) ==
  /\ c \in Seq(Words) /\ Len(c) = Len(mem)
  /\ \A x \in 0 .. Len(mem) - 1 : Get(c, x) =
       IF x - o \in 0 .. Len(words) - 1 THEN words[x - o + 1] ELSE Get(mem, x)

(* The words copied are there, and the others are what they were.          *)
LEMMA CopyIs ==
  ASSUME NEW mem \in Seq(Words), NEW o \in Nat, NEW words \in Seq(Words)
  PROVE  Overlaid(Copy(mem, o, words), mem, o, words)
PROOF
  <1> DEFINE f == [i \in DOMAIN mem |-> IF i - o \in DOMAIN words THEN words[i - o] ELSE mem[i]]
             n == Len(mem)
  <1> HIDE DEF Words
  <1>1. n \in Nat /\ DOMAIN mem = 1 .. n /\ Len(words) \in Nat /\ DOMAIN words = 1 .. Len(words)
    BY LenProperties
  <1>2. f = [i \in 1 .. n |-> f[i]]
    BY <1>1
  <1>3. \A i \in 1 .. n : f[i] \in Words
    <2> TAKE i \in 1 .. n
    <2>1. f[i] = IF i - o \in DOMAIN words THEN words[i - o] ELSE mem[i]
      BY <1>1
    <2>2. mem[i] \in Words
      BY <1>1, ElementOfSeq
    <2>3. i - o \in DOMAIN words => words[i - o] \in Words
      BY <1>1, ElementOfSeq
    <2> QED
      BY <2>1, <2>2, <2>3
  <1>4. \A i \in 1 .. n : f[i] = IF i - o \in 1 .. Len(words) THEN words[i - o] ELSE mem[i]
    BY <1>1
  <1>5. Copy(mem, o, words) = SubSeq(f, 1, n)
    BY DEF Copy
  <1> HIDE DEF f, n
  <1>6. Copy(mem, o, words) = f
    BY <1>1, <1>2, <1>5, Whole
  <1>7. f \in Seq(Words) /\ Len(f) = n
    <2>1. f \in [1 .. n -> Words]
      BY <1>2, <1>3
    <2> QED
      BY <1>1, <2>1
  <1>8. ASSUME NEW x \in 0 .. n - 1
        PROVE  Get(f, x) = IF x - o \in 0 .. Len(words) - 1 THEN words[x - o + 1] ELSE Get(mem, x)
    <2>1. x + 1 \in 1 .. n /\ (x + 1) - o = x - o + 1
      BY <1>1
    <2>2. Get(f, x) = f[x + 1] /\ Get(mem, x) = mem[x + 1]
      BY <1>7 DEF Get, n
    <2>3. (x + 1) - o \in 1 .. Len(words) <=> x - o \in 0 .. Len(words) - 1
      BY <1>1
    <2> QED
      BY <1>4, <2>1, <2>2, <2>3
  <1> QED
    BY <1>6, <1>7, <1>8 DEF n, Overlaid

(* What malloc returns says nothing.                                       *)
LEMMA FreshIs ==
  ASSUME NEW n \in Nat
  PROVE  /\ Fresh(n) \in Seq(Words) /\ Len(Fresh(n)) = 21 + 9 * n
         /\ \A x \in 0 .. 20 + 9 * n : Get(Fresh(n), x) = Junk
PROOF
  <1>1. Junk \in Words
    BY DEF Words
  <1>2. 21 + 9 * n \in Nat /\ NTSD + 2 * SID + CTRL + n * ACE = 21 + 9 * n
    BY DEF NTSD, SID, CTRL, ACE
  <1>3. Fresh(n) = [i \in 1 .. 21 + 9 * n |-> Junk]
    BY <1>2 DEF Fresh
  <1> HIDE DEF Words
  <1>4. Fresh(n) \in Seq(Words) /\ Len(Fresh(n)) = 21 + 9 * n
    BY <1>1, <1>2, <1>3
  <1> QED
    BY <1>2, <1>3, <1>4 DEF Get

(* ACEs that are apart: each is where it was copied to.                    *)
ApartAt(aces, offset) ==
  /\ offset \in [DOMAIN aces -> Nat]
  /\ \A i, j \in DOMAIN aces : i < j => offset[i] + AceSize(aces[i]) <= offset[j]

(* Each ACE is where it was copied to, and nothing else has changed.       *)
AcesLaid(m, new, at, aces, offset) ==
  /\ m \in Seq(Words) /\ Len(m) = Len(new)
  /\ \A i \in DOMAIN aces : \A k \in 1 .. AceSize(aces[i]) :
       LET x == at + offset[i] + k - 1
       IN  x < Len(new) => Get(m, x) = AceWords(aces[i])[k]
  /\ \A x \in 0 .. Len(new) - 1 :
       (\A i \in DOMAIN aces : x < at + offset[i] \/ at + offset[i] + AceSize(aces[i]) <= x)
       => Get(m, x) = Get(new, x)

LEMMA CopyAcesIs ==
  ASSUME NEW new \in Seq(Words), NEW at \in Nat, NEW aces \in Seq(Aces), NEW offset,
         ApartAt(aces, offset)
  PROVE  AcesLaid(CopyAces(new, at, aces, offset), new, at, aces, offset)
PROOF
  <1> DEFINE Here(x) == {i \in DOMAIN aces : x - at - offset[i] \in 1 .. AceSize(aces[i])}
             Latest(x) == CHOOSE i \in Here(x) : \A j \in Here(x) : j <= i
             f == [x \in DOMAIN new |->
                     IF Here(x) = {} THEN new[x]
                     ELSE AceWords(aces[Latest(x)])[x - at - offset[Latest(x)]]]
             n == Len(new)
             m == CopyAces(new, at, aces, offset)
  <1>1. n \in Nat /\ DOMAIN new = 1 .. n
    BY LenProperties
  <1>2. f = [i \in 1 .. n |-> f[i]]
    BY <1>1
  <1>3. m = SubSeq(f, 1, n)
    BY DEF CopyAces
  <1>a. \A i \in DOMAIN aces :
           /\ i \in Int /\ aces[i] \in Aces /\ offset[i] \in Nat
           /\ AceSize(aces[i]) \in 5 .. 9 /\ AceWords(aces[i]) \in Seq(Words)
           /\ Len(AceWords(aces[i])) = AceSize(aces[i])
    <2> TAKE i \in DOMAIN aces
    <2>1. i \in Int /\ aces[i] \in Aces /\ offset[i] \in Nat
      <3> HIDE DEF Aces
      <3> QED
        BY LenProperties, ElementOfSeq DEF ApartAt
    <2> QED
      BY <2>1, AceWordsAre
  <1> HIDE DEF Words, Aces
  <1>4. \A x \in 1 .. n : \A i \in Here(x) : Here(x) = {i} /\ Latest(x) = i
    <2> TAKE x \in 1 .. n
    <2> SUFFICES ASSUME NEW i \in Here(x) PROVE Here(x) = {i} /\ Latest(x) = i
      OBVIOUS
    <2>1. ASSUME NEW j \in Here(x) PROVE j = i
      <3>0. i \in DOMAIN aces /\ j \in DOMAIN aces /\ i \in Int /\ j \in Int
        BY <1>a
      <3>1. i < j => offset[i] + AceSize(aces[i]) <= offset[j]
        BY <3>0 DEF ApartAt
      <3>2. j < i => offset[j] + AceSize(aces[j]) <= offset[i]
        BY <3>0 DEF ApartAt
      <3>3. /\ offset[i] \in Nat /\ offset[j] \in Nat
            /\ AceSize(aces[i]) \in Nat /\ AceSize(aces[j]) \in Nat
        BY <1>a, <3>0
      <3>4. x - at - offset[i] \in 1 .. AceSize(aces[i]) /\ x - at - offset[j] \in 1 .. AceSize(aces[j])
        OBVIOUS
      <3> DEFINE p == offset[i]
                 q == offset[j]
                 r == AceSize(aces[i])
                 s == AceSize(aces[j])
      <3> HIDE DEF p, q, r, s, Here
      <3>5. /\ i < j => p + r <= q
            /\ j < i => q + s <= p
            /\ p \in Nat /\ q \in Nat /\ r \in Nat /\ s \in Nat
            /\ x - at - p \in 1 .. r /\ x - at - q \in 1 .. s
        BY <3>1, <3>2, <3>3, <3>4 DEF p, q, r, s
      <3>6. x \in Int /\ at \in Int
        BY <1>1
      <3> QED
        BY <3>0, <3>5, <3>6
    <2>2. Here(x) = {i}
      BY <2>1
    <2>3. i \in Int
      BY <1>a
    <2> HIDE DEF Here
    <2> QED
      BY <2>2, <2>3
  <1>5. ASSUME NEW x \in 1 .. n, NEW i \in DOMAIN aces, x - at - offset[i] \in 1 .. AceSize(aces[i])
        PROVE  f[x] = AceWords(aces[i])[x - at - offset[i]]
    <2>1. i \in Here(x)
      BY <1>5
    <2>2. Latest(x) = i /\ Here(x) # {}
      BY <1>4, <2>1
    <2>3. f[x] = IF Here(x) = {} THEN new[x]
                 ELSE AceWords(aces[Latest(x)])[x - at - offset[Latest(x)]]
      BY <1>1
    <2> HIDE DEF f, Here, Latest
    <2> QED
      BY <2>2, <2>3
  <1>6. ASSUME NEW x \in 1 .. n, \A i \in DOMAIN aces : x - at - offset[i] \notin 1 .. AceSize(aces[i])
        PROVE  f[x] = new[x]
    <2>1. Here(x) = {}
      BY <1>6
    <2>3. f[x] = IF Here(x) = {} THEN new[x]
                 ELSE AceWords(aces[Latest(x)])[x - at - offset[Latest(x)]]
      BY <1>1
    <2> HIDE DEF f, Here, Latest
    <2> QED
      BY <2>1, <2>3
  <1> HIDE DEF f, Here, Latest
  <1>7. \A x \in 1 .. n : f[x] \in Words
    <2> TAKE x \in 1 .. n
    <2>1. CASE \E i \in DOMAIN aces : x - at - offset[i] \in 1 .. AceSize(aces[i])
      <3>1. PICK i \in DOMAIN aces : x - at - offset[i] \in 1 .. AceSize(aces[i])
        BY <2>1
      <3>2. f[x] = AceWords(aces[i])[x - at - offset[i]]
        BY <1>5, <3>1
      <3> DEFINE w == AceWords(aces[i])
                 y == x - at - offset[i]
      <3>3. w \in Seq(Words) /\ y \in 1 .. Len(w)
        BY <1>a, <3>1
      <3> HIDE DEF w, y
      <3>4. w[y] \in Words
        BY <3>3
      <3> QED
        BY <3>2, <3>4 DEF w, y
    <2>2. CASE \A i \in DOMAIN aces : x - at - offset[i] \notin 1 .. AceSize(aces[i])
      <3>1. f[x] = new[x]
        BY <1>6, <2>2
      <3> QED
        BY <1>1, <3>1, ElementOfSeq
    <2> QED
      BY <2>1, <2>2
  <1>8. m = f
    <2> HIDE DEF n, m
    <2> QED
      BY <1>1, <1>2, <1>3, Whole
  <1>9. f \in Seq(Words) /\ Len(f) = n
    <2> HIDE DEF n
    <2> QED
      BY <1>1, <1>2, <1>7
  <1> HIDE DEF m, n
  <1>10. \A x \in 0 .. n - 1 : x + 1 \in 1 .. n /\ Get(f, x) = f[x + 1] /\ Get(new, x) = new[x + 1]
    BY <1>1, <1>9 DEF Get, n
  <1>11. ASSUME NEW i \in DOMAIN aces, NEW k \in 1 .. AceSize(aces[i]), at + offset[i] + k - 1 < n
         PROVE  Get(f, at + offset[i] + k - 1) = AceWords(aces[i])[k]
    <2> DEFINE p == offset[i]
               size == AceSize(aces[i])
               x == at + p + k - 1
    <2>0. p \in Nat /\ size \in Nat /\ k \in 1 .. size /\ x < n
      <3>1. p \in Nat /\ size \in 5 .. 9
        BY <1>a
      <3> QED
        BY <1>11, <3>1
    <2>1. /\ x \in 0 .. n - 1 /\ x + 1 \in 1 .. n /\ (x + 1) - at - offset[i] = k
      <3> HIDE DEF p, size
      <3>1. x \in 0 .. n - 1 /\ x + 1 \in 1 .. n /\ (x + 1) - at - p = k
        BY <1>1, <2>0
      <3> QED
        BY <3>1 DEF p
    <2>2. f[x + 1] = AceWords(aces[i])[(x + 1) - at - offset[i]]
      BY <1>5, <2>1
    <2> QED
      BY <1>10, <2>1, <2>2
  <1>12. ASSUME NEW x \in 0 .. n - 1,
                \A i \in DOMAIN aces : x < at + offset[i] \/ at + offset[i] + AceSize(aces[i]) <= x
         PROVE  Get(f, x) = Get(new, x)
    <2>1. \A i \in DOMAIN aces : (x + 1) - at - offset[i] \notin 1 .. AceSize(aces[i])
      <3> TAKE i \in DOMAIN aces
      <3>1. x < at + offset[i] \/ at + offset[i] + AceSize(aces[i]) <= x
        BY <1>12
      <3>2. offset[i] \in Nat /\ AceSize(aces[i]) \in Nat
        BY <1>a
      <3> QED
        BY <1>1, <3>1, <3>2
    <2>2. f[x + 1] = new[x + 1]
      BY <1>6, <1>10, <2>1
    <2> QED
      BY <1>10, <2>2
  <1> QED
    BY <1>8, <1>9, <1>11, <1>12 DEF m, n, AcesLaid

(* What the header says of the place of the parts.                         *)
Says(mem, o, g, a) ==
  /\ Get(mem, 1) = <<"osidoffset", o>>
  /\ Get(mem, 2) = <<"gsidoffset", g>>
  /\ Get(mem, 4) = <<"dacloffset", a>>

(* The header is copied without sacloffset.                                *)
LEMMA HeadIs ==
  ASSUME NEW mem \in Seq(Words)
  PROVE  LET head == Copy(Slice(mem, 0, 5), 3, <<Junk>>)
         IN  /\ head \in Seq(Words) /\ Len(head) = 5
             /\ \A x \in 0 .. 4 : head[x + 1] = IF x = 3 THEN Junk ELSE Get(mem, x)
PROOF
  <1> DEFINE head == Copy(Slice(mem, 0, 5), 3, <<Junk>>)
  <1>0. 0 \in Nat /\ 3 \in Nat /\ 5 \in Nat
    OBVIOUS
  <1>a. Junk \in Words
    BY DEF Words
  <1> HIDE DEF Words
  <1> DEFINE read == Slice(mem, 0, 5)
  <1>1. read \in Seq(Words) /\ Len(read) = 5 /\ \A k \in 1 .. 5 : read[k] = Get(mem, 0 + k - 1)
    BY <1>0, SliceWords
  <1> HIDE DEF read
  <1>2. \A x \in 0 .. 4 : Get(read, x) = Get(mem, x)
    <2> TAKE x \in 0 .. 4
    <2>1. Get(read, x) = read[x + 1]
      BY <1>1 DEF Get
    <2>2. x + 1 \in 1 .. 5 /\ 0 + (x + 1) - 1 = x
      OBVIOUS
    <2> QED
      BY <1>1, <2>1, <2>2
  <1> DEFINE gap == <<Junk>>
  <1>3. gap \in Seq(Words) /\ Len(gap) = 1 /\ gap[1] = Junk
    BY <1>a
  <1>5. head = Copy(read, 3, gap)
    BY DEF read
  <1> HIDE DEF head, gap
  <1>4. /\ head \in Seq(Words) /\ Len(head) = Len(read)
        /\ \A x \in 0 .. Len(read) - 1 : Get(head, x) =
             IF x - 3 \in 0 .. Len(gap) - 1 THEN gap[x - 3 + 1] ELSE Get(read, x)
    <2>1. read \in Seq(Words) /\ gap \in Seq(Words)
      BY <1>1, <1>3
    <2> DEFINE at == 3
    <2>2. at \in Nat
      OBVIOUS
    <2> HIDE DEF at
    <2>3. Overlaid(Copy(read, at, gap), read, at, gap)
      BY <2>1, <2>2, CopyIs
    <2> QED
      BY <1>5, <2>3 DEF at, Overlaid
  <1>6. head \in Seq(Words) /\ Len(head) = 5
    BY <1>1, <1>4
  <1>7. \A x \in 0 .. 4 : Get(head, x) = IF x = 3 THEN Junk ELSE Get(mem, x)
    <2> TAKE x \in 0 .. 4
    <2>1. Get(head, x) = IF x - 3 \in 0 .. 0 THEN gap[x - 3 + 1] ELSE Get(read, x)
      BY <1>1, <1>3, <1>4
    <2>2. x = 3 => x - 3 \in 0 .. 0 /\ x - 3 + 1 = 1
      OBVIOUS
    <2>3. x # 3 => x - 3 \notin 0 .. 0
      OBVIOUS
    <2> QED
      BY <1>2, <1>3, <2>1, <2>2, <2>3
  <1>8. \A x \in 0 .. 4 : Get(head, x) = head[x + 1]
    BY <1>6 DEF Get
  <1> QED
    BY <1>6, <1>7, <1>8 DEF head

(* Where the words of copy_sec_desc's descriptor are from.                 *)
LEMMA CopySecDescIs ==
  ASSUME NEW mem \in Seq(Words), NEW new \in Seq(Words), NEW n \in Nat, NEW size \in Nat,
         NEW o \in Nat, NEW g \in Nat, NEW a \in Nat, Len(new) >= 21,
         Says(mem, o, g, a)
  PROVE  LET m == CopySecDesc(mem, new, n, size)
         IN  /\ m \in Seq(Words) /\ Len(m) = Len(new)
             /\ \A x \in 0 .. Len(new) - 1 : Get(m, x) =
                  IF x - g \in 0 .. 6 \/ x - o \in 0 .. 6 THEN Get(mem, x)
                  ELSE IF x = a THEN <<"size", 2 + size>>
                  ELSE IF x = a + 1 THEN <<"num_aces", n>>
                  ELSE IF x = 3 THEN Junk
                  ELSE IF x < 5 THEN Get(mem, x) ELSE Get(new, x)
PROOF
  <1> DEFINE head == Copy(Slice(mem, 0, 5), 3, <<Junk>>)
             ctrl == Ctrl(2 + size, n)
             own == Slice(mem, o, 7)
             grp == Slice(mem, g, 7)
             m1 == Copy(new, 0, head)
             m2 == Copy(m1, a, ctrl)
             m3 == Copy(m2, o, own)
             m4 == Copy(m3, g, grp)
             N == Len(new)
  <1>0. 0 \in Nat /\ 3 \in Nat /\ 5 \in Nat /\ 7 \in Nat
    OBVIOUS
  <1>1. osidoffset(mem) = o /\ gsidoffset(mem) = g /\ dacloffset(mem) = a
    BY DEF Says, osidoffset, gsidoffset, dacloffset
  <1>2. CopySecDesc(mem, new, n, size) = m4
    BY <1>1 DEF CopySecDesc, NTSD, CTRL, SID
  <1>3. Junk \in Words /\ <<"size", 2 + size>> \in Words /\ <<"num_aces", n>> \in Words
    BY DEF Words
  <1>n. N \in Nat /\ N >= 21
    <2> HIDE DEF Words
    <2> QED
      BY LenProperties
  <1> HIDE DEF Words
  <1>4. /\ head \in Seq(Words) /\ Len(head) = 5
        /\ \A x \in 0 .. 4 : head[x + 1] = IF x = 3 THEN Junk ELSE Get(mem, x)
    BY HeadIs
  <1>5. /\ ctrl \in Seq(Words) /\ Len(ctrl) = 2
        /\ ctrl[1] = <<"size", 2 + size>> /\ ctrl[2] = <<"num_aces", n>>
    BY <1>3 DEF Ctrl
  <1>6. /\ own \in Seq(Words) /\ Len(own) = 7
        /\ \A x \in Int : x - o \in 0 .. 6 => own[x - o + 1] = Get(mem, x)
    <2>1. own \in Seq(Words) /\ Len(own) = 7 /\ \A k \in 1 .. 7 : own[k] = Get(mem, o + k - 1)
      BY <1>0, SliceWords
    <2>2. \A x \in Int : x - o \in 0 .. 6 => x - o + 1 \in 1 .. 7 /\ o + (x - o + 1) - 1 = x
      OBVIOUS
    <2> HIDE DEF own
    <2> QED
      BY <2>1, <2>2
  <1>7. /\ grp \in Seq(Words) /\ Len(grp) = 7
        /\ \A x \in Int : x - g \in 0 .. 6 => grp[x - g + 1] = Get(mem, x)
    <2>1. grp \in Seq(Words) /\ Len(grp) = 7 /\ \A k \in 1 .. 7 : grp[k] = Get(mem, g + k - 1)
      BY <1>0, SliceWords
    <2>2. \A x \in Int : x - g \in 0 .. 6 => x - g + 1 \in 1 .. 7 /\ g + (x - g + 1) - 1 = x
      OBVIOUS
    <2> HIDE DEF grp
    <2> QED
      BY <2>1, <2>2
  <1> HIDE DEF head, ctrl, own, grp
  <1>8. /\ m1 \in Seq(Words) /\ Len(m1) = N
        /\ \A x \in 0 .. N - 1 : Get(m1, x) =
             IF x - 0 \in 0 .. 4 THEN head[x - 0 + 1] ELSE Get(new, x)
    <2> HIDE DEF m1
    <2>1. Overlaid(Copy(new, 0, head), new, 0, head)
      <3>1. new \in Seq(Words) /\ 0 \in Nat /\ head \in Seq(Words)
        BY <1>0, <1>4
      <3> QED
        BY <3>1, CopyIs
    <2> QED
      BY <1>4, <2>1 DEF m1, Overlaid
  <1>9. /\ m2 \in Seq(Words) /\ Len(m2) = N
        /\ \A x \in 0 .. N - 1 : Get(m2, x) =
             IF x - a \in 0 .. 1 THEN ctrl[x - a + 1] ELSE Get(m1, x)
    <2> HIDE DEF m1, m2
    <2>1. Overlaid(Copy(m1, a, ctrl), m1, a, ctrl)
      <3>1. m1 \in Seq(Words) /\ a \in Nat /\ ctrl \in Seq(Words)
        BY <1>5, <1>8
      <3> QED
        BY <3>1, CopyIs
    <2> QED
      BY <1>5, <1>8, <2>1 DEF m2, Overlaid
  <1>10. /\ m3 \in Seq(Words) /\ Len(m3) = N
         /\ \A x \in 0 .. N - 1 : Get(m3, x) =
              IF x - o \in 0 .. 6 THEN own[x - o + 1] ELSE Get(m2, x)
    <2> HIDE DEF m1, m2, m3
    <2>1. Overlaid(Copy(m2, o, own), m2, o, own)
      <3>1. m2 \in Seq(Words) /\ o \in Nat /\ own \in Seq(Words)
        BY <1>6, <1>9
      <3> QED
        BY <3>1, CopyIs
    <2> QED
      BY <1>6, <1>9, <2>1 DEF m3, Overlaid
  <1>11. /\ m4 \in Seq(Words) /\ Len(m4) = N
         /\ \A x \in 0 .. N - 1 : Get(m4, x) =
              IF x - g \in 0 .. 6 THEN grp[x - g + 1] ELSE Get(m3, x)
    <2> HIDE DEF m1, m2, m3, m4
    <2>1. Overlaid(Copy(m3, g, grp), m3, g, grp)
      <3>1. m3 \in Seq(Words) /\ g \in Nat /\ grp \in Seq(Words)
        BY <1>7, <1>10
      <3> QED
        BY <3>1, CopyIs
    <2> QED
      BY <1>7, <1>10, <2>1 DEF m4, Overlaid
  <1> HIDE DEF m1, m2, m3, m4
  <1>12. ASSUME NEW x \in 0 .. N - 1
         PROVE  Get(m4, x) =
                  IF x - g \in 0 .. 6 \/ x - o \in 0 .. 6 THEN Get(mem, x)
                  ELSE IF x = a THEN <<"size", 2 + size>>
                  ELSE IF x = a + 1 THEN <<"num_aces", n>>
                  ELSE IF x = 3 THEN Junk
                  ELSE IF x < 5 THEN Get(mem, x) ELSE Get(new, x)
    <2>0. x \in Int /\ x >= 0
      BY <1>n
    <2>1. CASE x - g \in 0 .. 6
      BY <1>7, <1>11, <2>0, <2>1
    <2>2. CASE x - g \notin 0 .. 6 /\ x - o \in 0 .. 6
      BY <1>6, <1>10, <1>11, <2>0, <2>2
    <2>3. CASE x - g \notin 0 .. 6 /\ x - o \notin 0 .. 6
      <3>1. Get(m4, x) = Get(m2, x)
        BY <1>10, <1>11, <2>3
      <3>2. CASE x = a
        <4>1. x - a \in 0 .. 1 /\ x - a + 1 = 1
          BY <2>0, <3>2
        <4> QED
          BY <1>5, <1>9, <2>3, <3>1, <3>2, <4>1
      <3>3. CASE x = a + 1
        <4>1. x - a \in 0 .. 1 /\ x - a + 1 = 2 /\ x # a
          BY <2>0, <3>3
        <4> QED
          BY <1>5, <1>9, <2>3, <3>1, <3>3, <4>1
      <3>4. CASE x # a /\ x # a + 1
        <4>1. x - a \notin 0 .. 1
          BY <2>0, <3>4
        <4>2. Get(m4, x) = Get(m1, x)
          BY <1>9, <3>1, <4>1
        <4>3. CASE x < 5
          <5>1. x \in 0 .. 4 /\ x - 0 \in 0 .. 4 /\ x - 0 + 1 = x + 1
            BY <2>0, <4>3
          <5>2. Get(m1, x) = head[x + 1]
            BY <1>8, <5>1
          <5>3. head[x + 1] = IF x = 3 THEN Junk ELSE Get(mem, x)
            BY <1>4, <5>1
          <5> QED
            BY <2>3, <3>4, <4>2, <4>3, <5>2, <5>3
        <4>4. CASE ~(x < 5)
          <5>1. x - 0 \notin 0 .. 4 /\ x # 3
            BY <2>0, <4>4
          <5>2. Get(m1, x) = Get(new, x)
            BY <1>8, <5>1
          <5> QED
            BY <2>3, <3>4, <4>2, <4>4, <5>1, <5>2
        <4> QED
          BY <4>3, <4>4
      <3> QED
        BY <3>2, <3>3, <3>4
    <2> QED
      BY <2>1, <2>2, <2>3
  <1> QED
    BY <1>2, <1>11, <1>12

(* The first words of a SID and of an ACE say which it is.                 *)
LEMMA OneSid ==
  ASSUME NEW mem, NEW at \in Nat, NEW s \in Sids, NEW t \in SidsAt(mem, at),
         Get(mem, at) \in {<<s, 1>>, Junk}
  PROVE  t = s
PROOF
  <1>1. t \in Sids /\ Slice(mem, at, 2 + NumSub[t]) = SidWords(t)
    BY DEF SidsAt
  <1>2. 2 + NumSub[t] \in Nat /\ 1 \in 1 .. 2 + NumSub[t]
    BY <1>1, SubSize
  <1>3. SidWords(t)[1] = <<t, 1>>
    BY <1>1, <1>2, SidWordsAre
  <1>4. Slice(mem, at, 2 + NumSub[t]) = [k \in 1 .. 2 + NumSub[t] |-> Get(mem, at + k - 1)]
    BY <1>2, SliceIs
  <1>5. at + 1 - 1 = at
    OBVIOUS
  <1>6. Get(mem, at) = <<t, 1>>
    BY <1>1, <1>2, <1>3, <1>4, <1>5
  <1>7. Junk # <<t, 1>>
    BY DEF Junk
  <1> QED
    BY <1>6, <1>7

LEMMA OneAce ==
  ASSUME NEW mem, NEW at \in Nat, NEW a \in AcesAt(mem, at)
  PROVE  /\ a \in Aces
         /\ Get(mem, at) = <<"ace", a.type, a.flags, AceSize(a)>>
         /\ Get(mem, at + 1) = <<"access_req", a.mask>>
         /\ Get(mem, at + 2) = <<a.sid, 1>>
PROOF
  <1>1. a \in Aces /\ Slice(mem, at, AceSize(a)) = AceWords(a)
    BY DEF AcesAt
  <1>2. AceSize(a) \in 5 .. 9
    BY <1>1, AceWordsAre
  <1>3. AceSize(a) \in Nat /\ {1, 2, 3} \subseteq 1 .. AceSize(a)
    BY <1>2
  <1>4. a.sid \in Sids
    BY <1>1 DEF Aces
  <1>5. 1 \in 1 .. 2 + NumSub[a.sid] /\ 2 + 1 = 3
    BY <1>4, SubSize
  <1>6. /\ AceWords(a)[1] = <<"ace", a.type, a.flags, AceSize(a)>>
        /\ AceWords(a)[2] = <<"access_req", a.mask>>
        /\ AceWords(a)[3] = <<a.sid, 1>>
    <2>1. /\ AceWords(a)[1] = <<"ace", a.type, a.flags, AceSize(a)>>
          /\ AceWords(a)[2] = <<"access_req", a.mask>>
          /\ \A k \in 1 .. 2 + NumSub[a.sid] : AceWords(a)[2 + k] = <<a.sid, k>>
      BY <1>1, AceWordsAre
    <2> QED
      BY <1>5, <2>1
  <1>7. Slice(mem, at, AceSize(a)) = [k \in 1 .. AceSize(a) |-> Get(mem, at + k - 1)]
    BY <1>3, SliceIs
  <1>8. at + 1 - 1 = at /\ at + 2 - 1 = at + 1 /\ at + 3 - 1 = at + 2
    OBVIOUS
  <1>9. \A k \in 1 .. AceSize(a) : AceWords(a)[k] = Get(mem, at + k - 1)
    BY <1>1, <1>7
  <1> QED
    BY <1>1, <1>3, <1>6, <1>8, <1>9

(* An ACE whose words are all there is the one that is read.              *)
LEMMA AceIsThere ==
  ASSUME NEW mem, NEW at \in Nat, NEW a \in Aces,
         \A k \in 1 .. AceSize(a) : Get(mem, at + k - 1) = AceWords(a)[k]
  PROVE  AcesAt(mem, at) = {a}
PROOF
  <1>1. AceSize(a) \in 5 .. 9 /\ AceWords(a) \in Seq(Words) /\ Len(AceWords(a)) = AceSize(a)
    BY AceWordsAre
  <1>2. AceWords(a) = [k \in 1 .. AceSize(a) |-> AceWords(a)[k]]
    <2> HIDE DEF Words
    <2> QED
      BY <1>1
  <1>3. Slice(mem, at, AceSize(a)) = [k \in 1 .. AceSize(a) |-> Get(mem, at + k - 1)]
    BY <1>1, SliceIs
  <1>4. a \in AcesAt(mem, at)
    BY <1>2, <1>3 DEF AcesAt
  <1>5. ASSUME NEW b \in AcesAt(mem, at) PROVE b = a
    <2>1. /\ Get(mem, at) = <<"ace", a.type, a.flags, AceSize(a)>>
          /\ Get(mem, at + 1) = <<"access_req", a.mask>>
          /\ Get(mem, at + 2) = <<a.sid, 1>>
      BY <1>4, OneAce
    <2>2. /\ b \in Aces
          /\ Get(mem, at) = <<"ace", b.type, b.flags, AceSize(b)>>
          /\ Get(mem, at + 1) = <<"access_req", b.mask>>
          /\ Get(mem, at + 2) = <<b.sid, 1>>
      BY OneAce
    <2>3. b.type = a.type /\ b.flags = a.flags /\ b.mask = a.mask /\ b.sid = a.sid
      BY <2>1, <2>2
    <2> QED
      BY <2>2, <2>3 DEF Aces
  <1> QED
    BY <1>4, <1>5
-----------------------------------------------------------------------------
(* The words of the first k ACEs.                                          *)
Upto(aces, k) == Len(AcesWords(SubSeq(aces, 1, k)))

(* Each ACE adds its own words.                                            *)
LEMMA UptoSteps ==
  ASSUME NEW aces \in Seq(Aces)
  PROVE  /\ \A k \in 0 .. Len(aces) : SubSeq(aces, 1, k) \in Seq(Aces) /\ Upto(aces, k) \in Nat
         /\ SubSeq(aces, 1, 0) = <<>> /\ SubSeq(aces, 1, Len(aces)) = aces
         /\ Upto(aces, 0) = 0
         /\ \A k \in 1 .. Len(aces) :
              /\ aces[k] \in Aces /\ AceSize(aces[k]) \in 5 .. 9
              /\ SubSeq(aces, 1, k) = Append(SubSeq(aces, 1, k - 1), aces[k])
              /\ Upto(aces, k) = Upto(aces, k - 1) + AceSize(aces[k])
         /\ Upto(aces, Len(aces)) = Len(AcesWords(aces))
PROOF
  <1> DEFINE n == Len(aces)
             s(k) == SubSeq(aces, 1, k)
  <1> HIDE DEF Aces
  <1>1. n \in Nat /\ \A k \in 1 .. n : aces[k] \in Aces
    BY LenProperties, ElementOfSeq
  <1>2. \A k \in 0 .. n : /\ s(k) \in Seq(Aces) /\ Len(s(k)) = k
                          /\ \A i \in 1 .. k : s(k)[i] = aces[i]
    <2> TAKE k \in 0 .. n
    <2>1. k \in Nat /\ k \in Int /\ 1 \in Int /\ \A i \in 1 .. k : aces[i] \in Aces
      BY <1>1
    <2>2. /\ SubSeq(aces, 1, k) \in Seq(Aces)
          /\ Len(SubSeq(aces, 1, k)) = IF 1 <= k THEN k - 1 + 1 ELSE 0
          /\ \A i \in 1 .. k - 1 + 1 : SubSeq(aces, 1, k)[i] = aces[1 + i - 1]
      BY <2>1, SubSeqProperties
    <2>3. (IF 1 <= k THEN k - 1 + 1 ELSE 0) = k
      BY <2>1
    <2>4. \A i \in 1 .. k : i \in 1 .. k - 1 + 1 /\ 1 + i - 1 = i
      BY <2>1
    <2> QED
      BY <2>2, <2>3, <2>4
  <1>3. s(0) = <<>> /\ s(n) = aces
    <2>1. s(0) = <<>>
      OBVIOUS
    <2>2. n \in 0 .. n
      BY <1>1
    <2> HIDE DEF s
    <2>3. s(n) \in Seq(Aces) /\ Len(s(n)) = Len(aces) /\ \A i \in 1 .. Len(s(n)) : s(n)[i] = aces[i]
      BY <1>2, <2>2
    <2> QED
      BY <2>1, <2>3, SeqEqual
  <1>4. \A k \in 0 .. n : Upto(aces, k) \in Nat
    BY <1>2, DaclWordsAre DEF Upto
  <1>5. Upto(aces, 0) = 0
    <2>1. 0 \in 0 .. n
      BY <1>1
    <2> QED
      BY <1>2, <1>3, <2>1, AcesWordsAre DEF Upto
  <1>6. ASSUME NEW k \in 1 .. n
        PROVE  s(k) = Append(s(k - 1), aces[k]) /\ Upto(aces, k) = Upto(aces, k - 1) + AceSize(aces[k])
    <2>1. k \in 0 .. n /\ k - 1 \in 0 .. n /\ (k - 1) + 1 = k /\ k \in 1 .. k
      BY <1>1
    <2> DEFINE p == s(k - 1)
               q == s(k)
               a == aces[k]
    <2>2. p \in Seq(Aces) /\ Len(p) = k - 1 /\ q \in Seq(Aces) /\ Len(q) = k /\ a \in Aces
      BY <1>1, <1>2, <2>1
    <2>3. \A i \in 1 .. k : q[i] = aces[i]
      BY <1>2, <2>1
    <2>4. \A i \in 1 .. k - 1 : p[i] = aces[i]
      BY <1>2, <2>1
    <2>5. aces[k] = a
      OBVIOUS
    <2> HIDE DEF p, q, a, s
    <2>6. /\ Append(p, a) \in Seq(Aces) /\ Len(Append(p, a)) = Len(p) + 1
          /\ \A i \in 1 .. Len(p) : Append(p, a)[i] = p[i]
          /\ Append(p, a)[Len(p) + 1] = a
      BY <2>2, AppendProperties
    <2>7. \A i \in 1 .. k : q[i] = Append(p, a)[i]
      <3> TAKE i \in 1 .. k
      <3>1. CASE i = k
        BY <2>1, <2>2, <2>3, <2>5, <2>6, <3>1
      <3>2. CASE i # k
        <4>1. i \in 1 .. k - 1
          BY <2>1, <3>2
        <4> QED
          BY <2>2, <2>3, <2>4, <2>6, <4>1
      <3> QED
        BY <3>1, <3>2
    <2>8. q = Append(p, a)
      BY <2>1, <2>2, <2>6, <2>7, SeqEqual
    <2>9. Len(AcesWords(Append(p, a))) = Len(AcesWords(p)) + AceSize(a)
      BY <2>2, AcesWordsAre
    <2> QED
      BY <2>8, <2>9 DEF p, q, a, s, Upto
  <1>7. \A k \in 1 .. n : AceSize(aces[k]) \in 5 .. 9
    BY <1>1, AceWordsAre
  <1>8. Upto(aces, n) = Len(AcesWords(aces))
    BY <1>3 DEF Upto
  <1> QED
    BY <1>1, <1>2, <1>3, <1>4, <1>5, <1>6, <1>7, <1>8

(* They lie one behind the other, and none needs more room than the        *)
(* struct; where none needs less, they are where the structs would be.     *)
LEMMA UptoGrows ==
  ASSUME NEW aces \in Seq(Aces), NEW k \in 0 .. Len(aces)
  PROVE  /\ \A j \in 0 .. k : Upto(aces, j) <= Upto(aces, k)
         /\ Upto(aces, k) <= 9 * k
         /\ (\A i \in 1 .. k : AceSize(aces[i]) = 9) => Upto(aces, k) = 9 * k
PROOF
  <1> DEFINE n == Len(aces)
             U(j) == Upto(aces, j)
             P(m) == /\ \A j \in 0 .. m : U(j) <= U(m)
                     /\ U(m) <= 9 * m
                     /\ (\A i \in 1 .. m : AceSize(aces[i]) = 9) => U(m) = 9 * m
             T == {m \in Nat : m <= n => P(m)}
  <1>1. n \in Nat
    BY LenProperties
  <1>2. /\ \A j \in 0 .. n : U(j) \in Nat
        /\ U(0) = 0
        /\ \A j \in 1 .. n : AceSize(aces[j]) \in 5 .. 9 /\ U(j) = U(j - 1) + AceSize(aces[j])
    BY UptoSteps
  <1> HIDE DEF n, U, Aces
  <1>3. 0 \in T
    <2>1. \A j \in 0 .. 0 : j = 0
      OBVIOUS
    <2> QED
      BY <1>2, <2>1
  <1>4. ASSUME NEW m \in T PROVE m + 1 \in T
    <2> SUFFICES ASSUME m + 1 <= n PROVE P(m + 1)
      OBVIOUS
    <2>1. /\ m \in Nat /\ P(m)
      BY <1>1
    <2>2. /\ m \in 0 .. n /\ m + 1 \in 1 .. n /\ (m + 1) - 1 = m /\ m + 1 \in 0 .. n
      BY <1>1
    <2> DEFINE size == AceSize(aces[m + 1])
    <2>3. /\ U(m + 1) = U(m) + size /\ size \in 5 .. 9 /\ U(m) \in Nat
      BY <1>2, <2>2
    <2>4. (\A i \in 1 .. m + 1 : AceSize(aces[i]) = 9) =>
            size = 9 /\ \A i \in 1 .. m : AceSize(aces[i]) = 9
      BY <2>1
    <2> HIDE DEF size
    <2>5. \A j \in 0 .. m + 1 : U(j) <= U(m + 1)
      <3> TAKE j \in 0 .. m + 1
      <3>1. CASE j = m + 1
        <4>1. U(m + 1) \in Nat
          BY <1>2, <2>2
        <4> QED
          BY <3>1, <4>1
      <3>2. CASE j # m + 1
        <4>1. j \in 0 .. m /\ j \in 0 .. n
          BY <1>1, <2>1, <2>2, <3>2
        <4>2. U(j) <= U(m) /\ U(j) \in Nat
          BY <1>2, <2>1, <4>1
        <4> QED
          BY <2>3, <4>2
      <3> QED
        BY <3>1, <3>2
    <2>6. U(m + 1) <= 9 * (m + 1)
      <3>1. U(m) <= 9 * m
        BY <2>1
      <3> QED
        BY <2>1, <2>3, <3>1
    <2>7. (\A i \in 1 .. m + 1 : AceSize(aces[i]) = 9) => U(m + 1) = 9 * (m + 1)
      <3>1. size = 9 /\ U(m) = 9 * m => U(m + 1) = 9 * (m + 1)
        BY <2>1, <2>3
      <3> QED
        BY <2>1, <2>4, <3>1
    <2> QED
      BY <2>5, <2>6, <2>7
  <1>5. T = Nat
    <2> HIDE DEF T
    <2>1. T \in SUBSET Nat
      BY DEF T
    <2> QED
      BY <1>3, <1>4, <2>1, InductiveSet
  <1>6. k \in T /\ k <= n
    BY <1>1, <1>5 DEF n
  <1> HIDE DEF P
  <1>7. P(k)
    BY <1>6
  <1> QED
    BY <1>7 DEF P, U

(* Neither way of placing the ACEs lets one reach the next.                *)
LEMMA PackedIs ==
  ASSUME NEW aces \in Seq(Aces)
  PROVE  /\ DOMAIN aces = 1 .. Len(aces)
         /\ \A i \in 1 .. Len(aces) :
              Packed(aces)[i] = Upto(aces, i - 1) /\ Spread(aces)[i] = (i - 1) * 9
         /\ ApartAt(aces, Packed(aces))
         /\ ApartAt(aces, Spread(aces))
PROOF
  <1> DEFINE n == Len(aces)
             U(j) == Upto(aces, j)
  <1> HIDE DEF Aces
  <1>1. n \in Nat /\ DOMAIN aces = 1 .. n
    BY LenProperties
  <1>2. /\ \A j \in 0 .. n : U(j) \in Nat
        /\ \A j \in 1 .. n : AceSize(aces[j]) \in 5 .. 9 /\ U(j) = U(j - 1) + AceSize(aces[j])
    BY UptoSteps
  <1>3. \A k \in 0 .. n : \A j \in 0 .. k : U(j) <= U(k)
    BY UptoGrows
  <1>4. Packed(aces) = [i \in 1 .. n |-> U(i - 1)]
    BY <1>1 DEF Packed, Upto
  <1>5. Spread(aces) = [i \in 1 .. n |-> (i - 1) * 9]
    BY <1>1 DEF Spread, ACE
  <1> HIDE DEF n, U
  <1>6. \A i \in 1 .. n : i - 1 \in 0 .. n /\ (i - 1) * 9 \in Nat
    BY <1>1
  <1>7. Packed(aces) \in [DOMAIN aces -> Nat] /\ Spread(aces) \in [DOMAIN aces -> Nat]
    BY <1>1, <1>2, <1>4, <1>5, <1>6
  <1>8. ASSUME NEW i \in 1 .. n, NEW j \in 1 .. n, i < j
        PROVE  /\ Packed(aces)[i] + AceSize(aces[i]) <= Packed(aces)[j]
               /\ Spread(aces)[i] + AceSize(aces[i]) <= Spread(aces)[j]
    <2>1. j - 1 \in 0 .. n /\ i \in 0 .. j - 1
      BY <1>1, <1>8
    <2>2. U(i) <= U(j - 1)
      BY <1>3, <2>1
    <2>3. Packed(aces)[i] = U(i - 1) /\ Packed(aces)[j] = U(j - 1)
      BY <1>4
    <2>4. U(i) = U(i - 1) + AceSize(aces[i])
      BY <1>2
    <2>5. (i - 1) * 9 + AceSize(aces[i]) <= (j - 1) * 9
      <3> DEFINE size == AceSize(aces[i])
      <3>1. size \in 5 .. 9
        BY <1>2
      <3> HIDE DEF size
      <3>2. (i - 1) * 9 + size <= (j - 1) * 9
        BY <1>1, <1>8, <3>1
      <3> QED
        BY <3>2 DEF size
    <2> QED
      BY <1>5, <2>2, <2>3, <2>4, <2>5
  <1>9. \A i \in 1 .. n : Packed(aces)[i] = U(i - 1) /\ Spread(aces)[i] = (i - 1) * 9
    BY <1>4, <1>5
  <1> QED
    BY <1>1, <1>7, <1>8, <1>9 DEF ApartAt, n, U

(* What is read where the first k of the ACEs are, one behind the other:   *)
(* all the ACEs, or none where something else follows.                     *)
LEMMA ListsRead ==
  ASSUME NEW mem, NEW at \in Nat, NEW aces \in Seq(Aces), NEW k \in 0 .. Len(aces),
         \A i \in 1 .. k : AcesAt(mem, at + Upto(aces, i - 1)) = {aces[i]},
         k # Len(aces) => AcesAt(mem, at + Upto(aces, k)) = {}
  PROVE  ListsAt(mem, at, Len(aces)) = IF k = Len(aces) THEN {aces} ELSE {}
PROOF
  <1> DEFINE n == Len(aces)
             Then(ls) == UNION {{Append(l, a) : a \in AcesAt(mem, at + Len(AcesWords(l)))} : l \in ls}
             IsFirst(f) == f = [j \in 0 .. n |-> IF j = 0 THEN {<<>>} ELSE Then(f[j - 1])]
             h == [j \in 0 .. n |-> IF j <= k THEN {SubSeq(aces, 1, j)} ELSE {}]
             First == CHOOSE f : IsFirst(f)
  <1>1. n \in Nat /\ k \in Nat /\ k <= n
    BY LenProperties
  <1>2. ListsAt(mem, at, n) = First[n]
    BY DEF ListsAt
  <1>3. SubSeq(aces, 1, 0) = <<>> /\ SubSeq(aces, 1, n) = aces
        /\ \A j \in 1 .. n : SubSeq(aces, 1, j) = Append(SubSeq(aces, 1, j - 1), aces[j])
    BY UptoSteps
  <1> HIDE DEF Aces
  <1>4. Then({}) = {}
    OBVIOUS
  <1>5. \A l : Then({l}) = {Append(l, a) : a \in AcesAt(mem, at + Len(AcesWords(l)))}
    OBVIOUS
  <1>6. \A j \in 1 .. k : Then({SubSeq(aces, 1, j - 1)}) = {SubSeq(aces, 1, j)}
    <2> TAKE j \in 1 .. k
    <2>1. Then({SubSeq(aces, 1, j - 1)}) = {Append(SubSeq(aces, 1, j - 1), a) : a \in {aces[j]}}
      <3>1. AcesAt(mem, at + Len(AcesWords(SubSeq(aces, 1, j - 1)))) = {aces[j]}
        BY DEF Upto
      <3> HIDE DEF Then
      <3> QED
        BY <1>5, <3>1
    <2>2. SubSeq(aces, 1, j) = Append(SubSeq(aces, 1, j - 1), aces[j])
      <3>1. j \in 1 .. n
        BY <1>1
      <3> HIDE DEF n
      <3> QED
        BY <1>3, <3>1
    <2> HIDE DEF Then
    <2> QED
      BY <2>1, <2>2
  <1>7. k # n => Then({SubSeq(aces, 1, k)}) = {}
    <2> SUFFICES ASSUME k # n PROVE Then({SubSeq(aces, 1, k)}) = {}
      OBVIOUS
    <2>1. AcesAt(mem, at + Len(AcesWords(SubSeq(aces, 1, k)))) = {}
      BY DEF Upto
    <2>2. Then({SubSeq(aces, 1, k)}) = {Append(SubSeq(aces, 1, k), a) : a \in {}}
      <3> HIDE DEF Then
      <3> QED
        BY <1>5, <2>1
    <2> HIDE DEF Then
    <2> QED
      BY <2>2
  <1> HIDE DEF Then, n
  <1>8. IsFirst(h)
    <2>1. ASSUME NEW j \in 0 .. n PROVE h[j] = IF j = 0 THEN {<<>>} ELSE Then(h[j - 1])
      <3>1. h[j] = IF j <= k THEN {SubSeq(aces, 1, j)} ELSE {}
        OBVIOUS
      <3>2. j # 0 => j - 1 \in 0 .. n /\ h[j - 1] = IF j - 1 <= k THEN {SubSeq(aces, 1, j - 1)} ELSE {}
        BY <1>1
      <3> HIDE DEF h
      <3>3. CASE j = 0
        <4>1. 0 <= k
          BY <1>1
        <4>2. SubSeq(aces, 1, j) = <<>>
          BY <1>3, <3>3
        <4> QED
          BY <3>1, <3>3, <4>1, <4>2
      <3>4. CASE j # 0 /\ j <= k
        <4>1. j \in 1 .. k /\ j - 1 <= k
          BY <1>1, <3>4
        <4> QED
          BY <1>6, <3>1, <3>2, <3>4, <4>1
      <3>5. CASE j # 0 /\ j = k + 1
        <4>1. j - 1 = k /\ ~(j <= k) /\ k # n /\ k <= k
          BY <1>1, <3>5
        <4> QED
          BY <1>7, <3>1, <3>2, <3>5, <4>1
      <3>6. CASE j # 0 /\ ~(j <= k) /\ j # k + 1
        <4>1. ~(j - 1 <= k)
          BY <1>1, <3>6
        <4> QED
          BY <1>4, <3>1, <3>2, <3>6, <4>1
      <3> QED
        BY <1>1, <3>3, <3>4, <3>5, <3>6
    <2>2. h = [j \in 0 .. n |-> h[j]]
      OBVIOUS
    <2> HIDE DEF h
    <2>3. [j \in 0 .. n |-> h[j]] = [j \in 0 .. n |-> IF j = 0 THEN {<<>>} ELSE Then(h[j - 1])]
      BY <2>1
    <2> QED
      BY <2>2, <2>3
  <1>9. IsFirst(First)
    <2> HIDE DEF IsFirst, h
    <2> QED
      BY <1>8
  <1> HIDE DEF First
  <1> DEFINE T == {m \in Nat : m <= n => First[m] = h[m]}
  <1>10. 0 \in T
    <2>1. 0 \in 0 .. n
      BY <1>1
    <2> HIDE DEF h
    <2> QED
      BY <1>8, <1>9, <2>1
  <1>11. ASSUME NEW m \in T PROVE m + 1 \in T
    <2> HIDE DEF h
    <2>1. m \in Nat
      OBVIOUS
    <2> SUFFICES ASSUME m + 1 <= n PROVE First[m + 1] = h[m + 1]
      BY <2>1
    <2>2. m + 1 \in 0 .. n /\ m + 1 # 0 /\ (m + 1) - 1 = m /\ m <= n
      BY <1>1, <2>1
    <2>3. First[m] = h[m]
      BY <2>2
    <2> QED
      <3> DEFINE p == m + 1
      <3>1. p \in 0 .. n /\ p # 0 /\ p - 1 = m
        BY <2>2
      <3> HIDE DEF p
      <3>2. First[p] = Then(First[p - 1])
        BY <1>9, <3>1
      <3>3. h[p] = Then(h[p - 1])
        BY <1>8, <3>1
      <3> QED
        BY <2>3, <3>1, <3>2, <3>3 DEF p
  <1>12. T = Nat
    <2> HIDE DEF T
    <2>1. T \in SUBSET Nat
      BY DEF T
    <2> QED
      BY <1>10, <1>11, <2>1, InductiveSet
  <1>13. First[n] = h[n]
    <2>1. n \in T
      BY <1>1, <1>12
    <2> HIDE DEF h
    <2> QED
      BY <1>1, <2>1
  <1>14. h[n] = IF n <= k THEN {SubSeq(aces, 1, n)} ELSE {}
    <2>1. n \in 0 .. n
      BY <1>1
    <2> QED
      BY <2>1
  <1>15. n <= k <=> k = n
    BY <1>1
  <1> QED
    BY <1>2, <1>3, <1>13, <1>14, <1>15 DEF n
-----------------------------------------------------------------------------
(* The parts of a descriptor with these ACEs stay apart.                   *)
StaysApart(d, order, aces) ==
  /\ d \in Descriptors /\ d.dacl /\ order \in {"daclLast", "daclFirst"}
  /\ order = "daclFirst" => Len(DaclWords(aces)) <= Len(DaclWords(d.aces))
  /\ order = "daclLast" => NumSub[d.group] >= 4

(* And those that are copied are copied as they were.                      *)
StaysWhole(d, order, room) ==
  /\ order = "daclFirst" => Len(Marshal(d, order)) <= Len(Fresh(room))
  /\ order = "daclLast" => NumSub[d.group] = 5

(* The parts that copy_sec_desc writes do not reach one another.           *)
LEMMA Places ==
  ASSUME NEW d, NEW order, NEW aces \in Seq(Aces), StaysApart(d, order, aces)
  PROVE  LET o == OwnerAt(d, order)
             g == GroupAt(d, order)
             a == DaclAt(d, order)
             O == NumSub[d.owner]
             G == NumSub[d.group]
             size == Len(AcesWords(aces))
         IN  /\ o \in Nat /\ g \in Nat /\ a \in Nat /\ size \in Nat
             /\ O \in 1 .. 5 /\ G \in 1 .. 5
             /\ g = o + 2 + O
             /\ \/ /\ order = "daclFirst"
                   /\ a = 5 /\ o >= 7 + size /\ Len(Marshal(d, order)) = g + 2 + G
                \/ order = "daclLast" /\ o = 5 /\ a = g + 2 + G /\ G >= 4
PROOF
  <1> DEFINE o == OwnerAt(d, order)
             g == GroupAt(d, order)
             a == DaclAt(d, order)
             O == NumSub[d.owner]
             G == NumSub[d.group]
             size == Len(AcesWords(aces))
             old == Len(AcesWords(d.aces))
             mem == Marshal(d, order)
  <1>1. d \in Descriptors /\ d.dacl /\ (order = "daclFirst" \/ order = "daclLast")
    BY DEF StaysApart
  <1>2. /\ d.aces \in Seq(Aces) /\ O \in 1 .. 5 /\ G \in 1 .. 5 /\ old \in Nat
        /\ o \in Nat /\ g \in Nat /\ a \in Nat
    BY <1>1, Offsets
  <1>3. size \in Nat /\ Len(DaclWords(aces)) = 2 + size
    BY DaclWordsAre DEF CTRL
  <1>4. Len(DaclWords(d.aces)) = 2 + old
    BY <1>2, DaclWordsAre DEF CTRL
  <1>5. AclSize(d) = 2 + old
    BY <1>1 DEF AclSize, CTRL
  <1>6. Len(mem) = 9 + O + G + AclSize(d)
    BY <1>1, MarshalIs
  <1>7. g = o + 2 + O
    BY DEF GroupAt
  <1>8. CASE order = "daclFirst"
    <2>1. o = 5 + AclSize(d)
      BY <1>8 DEF OwnerAt, NTSD
    <2>2. a = 5
      BY <1>1, <1>8 DEF DaclAt, NTSD
    <2>3. 2 + size <= 2 + old
      BY <1>3, <1>4, <1>8 DEF StaysApart
    <2> DEFINE length == Len(mem)
    <2>4. length = 9 + O + G + (2 + old) /\ o = 5 + (2 + old)
      BY <1>5, <1>6, <2>1
    <2>a. O \in Nat /\ G \in Nat /\ old \in Nat /\ o \in Nat /\ size \in Nat
      BY <1>2, <1>3
    <2> HIDE DEF o, g, a, O, G, size, old, mem, length
    <2>5. o >= 7 + size /\ length = g + 2 + G
      BY <1>7, <2>a, <2>3, <2>4
    <2> QED
      BY <1>2, <1>3, <1>7, <1>8, <2>2, <2>5 DEF o, g, a, O, G, size, mem, length
  <1>9. CASE order = "daclLast"
    <2>1. o = 5
      BY <1>9 DEF OwnerAt, NTSD
    <2>2. a = g + 2 + G
      BY <1>1, <1>9 DEF DaclAt, BehindGroup
    <2>3. G >= 4
      BY <1>9 DEF StaysApart
    <2> QED
      BY <1>2, <1>3, <1>7, <1>9, <2>1, <2>2, <2>3
  <1> QED
    BY <1>1, <1>8, <1>9

(* The words of the descriptor with these ACEs.                            *)
LEMMA RebuiltIs ==
  ASSUME NEW d, NEW order, NEW aces \in Seq(Aces), StaysApart(d, order, aces),
         NEW room \in Nat, Len(aces) <= room, NEW offset, ApartAt(aces, offset),
         \A i \in DOMAIN aces : offset[i] <= (i - 1) * 9
  PROVE  LET m == Rebuilt(Marshal(d, order), room, aces, offset)
             o == OwnerAt(d, order)
             g == GroupAt(d, order)
             a == DaclAt(d, order)
             size == Len(AcesWords(aces))
         IN  /\ Says(m, o, g, a)
             /\ Get(m, a + 1) = <<"num_aces", Len(aces)>>
             /\ Get(m, o) \in {<<d.owner, 1>>, Junk}
             /\ Get(m, g) \in {<<d.group, 1>>, Junk}
             /\ \A i \in DOMAIN aces : \A k \in 1 .. AceSize(aces[i]) :
                  offset[i] + k - 1 < size => Get(m, (a + 2) + offset[i] + k - 1) = AceWords(aces[i])[k]
             /\ \A p \in 0 .. size - 1 :
                  (\A i \in DOMAIN aces : p < offset[i] \/ offset[i] + AceSize(aces[i]) <= p)
                  => Get(m, (a + 2) + p) = Junk
             /\ StaysWhole(d, order, room) =>
                  /\ Get(m, a) = <<"size", 2 + size>>
                  /\ \A k \in 0 .. 1 + NumSub[d.owner] : Get(m, o + k) = <<d.owner, k + 1>>
                  /\ \A k \in 0 .. 1 + NumSub[d.group] : Get(m, g + k) = <<d.group, k + 1>>
PROOF
  <1> DEFINE o == OwnerAt(d, order)
             g == GroupAt(d, order)
             a == DaclAt(d, order)
             O == NumSub[d.owner]
             G == NumSub[d.group]
             n == Len(aces)
             size == Len(AcesWords(aces))
             mem == Marshal(d, order)
             base == Fresh(room)
             new == CopyAces(base, a + 2, aces, offset)
             m == Rebuilt(mem, room, aces, offset)
             N == 21 + 9 * room
             own == <<d.owner, 1>>
             grp == <<d.group, 1>>
             Size(i) == AceSize(aces[i])
  <1>1. d \in Descriptors
    BY DEF StaysApart
  <1>2. /\ mem \in Seq(Words) /\ Says(mem, o, g, a)
        /\ \A k \in 0 .. 1 + O : Get(mem, o + k) = <<d.owner, k + 1>>
        /\ \A k \in 0 .. 1 + G : Get(mem, g + k) = <<d.group, k + 1>>
    BY <1>1, MarshalIs DEF Says
  <1>3. /\ o \in Nat /\ g \in Nat /\ a \in Nat /\ size \in Nat
        /\ O \in 1 .. 5 /\ G \in 1 .. 5
        /\ g = o + 2 + O
        /\ \/ order = "daclFirst" /\ a = 5 /\ o >= 7 + size /\ Len(mem) = g + 2 + G
           \/ order = "daclLast" /\ o = 5 /\ a = g + 2 + G /\ G >= 4
    BY Places
  <1>4. n \in Nat /\ N \in Nat /\ N >= 21 + 9 * n /\ DOMAIN aces = 1 .. n
    <2> HIDE DEF Aces
    <2> QED
      BY LenProperties
  <1>5. base \in Seq(Words) /\ Len(base) = N /\ \A x \in 0 .. N - 1 : Get(base, x) = Junk
    <2>1. /\ Fresh(room) \in Seq(Words) /\ Len(Fresh(room)) = 21 + 9 * room
          /\ \A x \in 0 .. 20 + 9 * room : Get(Fresh(room), x) = Junk
      BY FreshIs
    <2>2. N - 1 = 20 + 9 * room
      OBVIOUS
    <2> HIDE DEF Words
    <2> QED
      BY <2>1, <2>2
  <1>6. \A i \in 1 .. n : Size(i) \in 5 .. 9 /\ offset[i] \in Nat /\ offset[i] <= (i - 1) * 9
    BY <1>4, UptoSteps DEF ApartAt
  <1>7. size <= 9 * n
    <2>1. n \in 0 .. Len(aces)
      BY <1>4
    <2>2. Upto(aces, n) <= 9 * n
      BY <2>1, UptoGrows
    <2>3. Upto(aces, n) = size
      BY UptoSteps
    <2> QED
      BY <2>2, <2>3
  <1>8. m = CopySecDesc(mem, new, n, size)
    BY <1>2 DEF Rebuilt, Says, dacloffset, CTRL
  <1> HIDE DEF Words, Aces, base, N
  <1>9. /\ new \in Seq(Words) /\ Len(new) = N
        /\ \A i \in DOMAIN aces : \A k \in 1 .. Size(i) :
             (a + 2) + offset[i] + k - 1 < N => Get(new, (a + 2) + offset[i] + k - 1) = AceWords(aces[i])[k]
        /\ \A x \in 0 .. N - 1 :
             (\A i \in DOMAIN aces : x < (a + 2) + offset[i] \/ (a + 2) + offset[i] + Size(i) <= x)
             => Get(new, x) = Get(base, x)
    <2> DEFINE at == a + 2
    <2>1. at \in Nat
      BY <1>3
    <2> HIDE DEF at
    <2>2. AcesLaid(CopyAces(base, at, aces, offset), base, at, aces, offset)
      <3>1. base \in Seq(Words) /\ at \in Nat /\ aces \in Seq(Aces) /\ ApartAt(aces, offset)
        BY <1>5, <2>1
      <3> HIDE DEF Size
      <3> QED
        BY <3>1, CopyAcesIs
    <2> QED
      BY <1>5, <2>2 DEF at, AcesLaid
  <1> HIDE DEF o, g, a, O, G, n, size, mem, new, m
  <1>10. /\ m \in Seq(Words) /\ Len(m) = N
         /\ \A x \in 0 .. N - 1 : Get(m, x) =
              IF x - g \in 0 .. 6 \/ x - o \in 0 .. 6 THEN Get(mem, x)
              ELSE IF x = a THEN <<"size", 2 + size>>
              ELSE IF x = a + 1 THEN <<"num_aces", n>>
              ELSE IF x = 3 THEN Junk
              ELSE IF x < 5 THEN Get(mem, x) ELSE Get(new, x)
    <2>1. Len(new) >= 21
      BY <1>4, <1>9
    <2>2. LET c == CopySecDesc(mem, new, n, size)
          IN  /\ c \in Seq(Words) /\ Len(c) = Len(new)
              /\ \A x \in 0 .. Len(new) - 1 : Get(c, x) =
                  IF x - g \in 0 .. 6 \/ x - o \in 0 .. 6 THEN Get(mem, x)
                  ELSE IF x = a THEN <<"size", 2 + size>>
                  ELSE IF x = a + 1 THEN <<"num_aces", n>>
                  ELSE IF x = 3 THEN Junk
                  ELSE IF x < 5 THEN Get(mem, x) ELSE Get(new, x)
      <3>1. mem \in Seq(Words) /\ new \in Seq(Words) /\ n \in Nat /\ size \in Nat
            /\ o \in Nat /\ g \in Nat /\ a \in Nat /\ Says(mem, o, g, a)
        BY <1>2, <1>3, <1>4, <1>9
      <3> QED
        BY <2>1, <3>1, CopySecDescIs
    <2> QED
      BY <1>8, <1>9, <2>2
  <1>11. a >= 5 /\ a + 1 < N /\ o >= 5 /\ g >= 5
    BY <1>3, <1>4
  <1>12. \A x \in {1, 2, 4} : Get(m, x) = Get(mem, x)
    <2> TAKE x \in {1, 2, 4}
    <2>1. x \in 0 .. N - 1 /\ x # 3 /\ x < 5 /\ x # a /\ x # a + 1
      BY <1>3, <1>4, <1>11
    <2>2. x - g \notin 0 .. 6 /\ x - o \notin 0 .. 6
      BY <1>3, <1>11
    <2> QED
      BY <1>10, <2>1, <2>2
  <1>13. Says(m, o, g, a)
    BY <1>2, <1>12 DEF Says
  <1>14. Get(m, a + 1) = <<"num_aces", n>>
    <2> DEFINE x == a + 1
    <2>1. x \in 0 .. N - 1 /\ x # a
      BY <1>3, <1>4, <1>11
    <2>2. x - g \notin 0 .. 6 /\ x - o \notin 0 .. 6
      BY <1>3
    <2>3. x = a + 1
      OBVIOUS
    <2> HIDE DEF x
    <2> QED
      BY <1>10, <2>1, <2>2, <2>3
  <1>15. \A x \in Nat : x - g \in 0 .. 6 \/ x - o \in 0 .. 6 =>
           Get(m, x) = IF x < N THEN Get(mem, x) ELSE Junk
    <2> TAKE x \in Nat
    <2>1. CASE x < N
      <3>1. x \in 0 .. N - 1
        BY <1>4, <2>1
      <3> QED
        BY <1>10, <2>1, <3>1
    <2>2. CASE ~(x < N)
      <3>1. x \notin 0 .. Len(m) - 1
        BY <1>4, <1>10, <2>2
      <3> QED
        BY <2>2, <3>1 DEF Get
    <2> QED
      BY <2>1, <2>2
  <1>16. Get(m, o) \in {own, Junk} /\ Get(m, g) \in {grp, Junk}
    <2>1. o - o \in 0 .. 6 /\ g - g \in 0 .. 6 /\ 0 \in 0 .. 1 + O /\ 0 \in 0 .. 1 + G
          /\ o + 0 = o /\ g + 0 = g /\ 0 + 1 = 1
      BY <1>3
    <2>2. Get(mem, o) = own /\ Get(mem, g) = grp
      BY <1>2, <2>1
    <2>3. Get(m, o) \in {Get(mem, o), Junk} /\ Get(m, g) \in {Get(mem, g), Junk}
      BY <1>3, <1>15, <2>1
    <2> QED
      BY <2>2, <2>3
  <1>17. \A p \in 0 .. size - 1 : (a + 2) + p \in 0 .. N - 1 /\ Get(m, (a + 2) + p) = Get(new, (a + 2) + p)
    <2> TAKE p \in 0 .. size - 1
    <2> DEFINE x == (a + 2) + p
    <2>0. p \in Nat /\ p < size
      BY <1>3
    <2>1. x \in 0 .. N - 1
      BY <1>3, <1>4, <1>7, <2>0
    <2>2. x - g \notin 0 .. 6 /\ x - o \notin 0 .. 6
      BY <1>3, <2>0
    <2>3. x # a /\ x # a + 1 /\ x # 3 /\ ~(x < 5)
      BY <1>3, <1>11, <2>0
    <2> HIDE DEF x
    <2>4. Get(m, x) = Get(new, x)
      BY <1>10, <2>1, <2>2, <2>3
    <2> QED
      BY <2>1, <2>4 DEF x
  <1>18. ASSUME NEW i \in DOMAIN aces, NEW k \in 1 .. Size(i), offset[i] + k - 1 < size
         PROVE  Get(m, (a + 2) + offset[i] + k - 1) = AceWords(aces[i])[k]
    <2> DEFINE f == offset[i]
               p == f + k - 1
    <2>1. f \in Nat /\ Size(i) \in 5 .. 9
      BY <1>4, <1>6
    <2>2. k \in Nat /\ k >= 1
      BY <2>1
    <2>3. p \in 0 .. size - 1
      <3> HIDE DEF f
      <3>1. f + k - 1 < size
        BY <1>18 DEF f
      <3> QED
        BY <1>3, <2>1, <2>2, <3>1
    <2>4. (a + 2) + p = (a + 2) + f + k - 1
      <3> HIDE DEF f
      <3> QED
        BY <1>3, <2>1, <2>2
    <2>5. (a + 2) + p \in 0 .. N - 1 /\ Get(m, (a + 2) + p) = Get(new, (a + 2) + p)
      BY <1>17, <2>3
    <2>6. (a + 2) + f + k - 1 < N
      <3> HIDE DEF p
      <3>1. (a + 2) + p < N
        BY <1>3, <1>4, <2>3, <2>5
      <3> QED
        BY <2>4, <3>1
    <2>7. Get(new, (a + 2) + f + k - 1) = AceWords(aces[i])[k]
      BY <1>9, <2>6
    <2> HIDE DEF f, p
    <2>8. Get(m, (a + 2) + f + k - 1) = AceWords(aces[i])[k]
      BY <2>4, <2>5, <2>7
    <2> QED
      BY <2>8 DEF f
  <1>19. ASSUME NEW p \in 0 .. size - 1,
                \A i \in DOMAIN aces : p < offset[i] \/ offset[i] + Size(i) <= p
         PROVE  Get(m, (a + 2) + p) = Junk
    <2> DEFINE x == (a + 2) + p
    <2>1. x \in 0 .. N - 1 /\ Get(m, x) = Get(new, x)
      BY <1>17
    <2>2. ASSUME NEW i \in DOMAIN aces
          PROVE  x < (a + 2) + offset[i] \/ (a + 2) + offset[i] + Size(i) <= x
      <3> DEFINE f == offset[i]
                 s == Size(i)
      <3>1. f \in Nat /\ s \in 5 .. 9 /\ p \in Nat
        BY <1>3, <1>4, <1>6
      <3>2. p < f \/ f + s <= p
        BY <1>19
      <3> HIDE DEF f, s
      <3>3. x < (a + 2) + f \/ (a + 2) + f + s <= x
        BY <1>3, <3>1, <3>2
      <3> QED
        BY <3>3 DEF f, s
    <2> HIDE DEF x
    <2>3. Get(new, x) = Get(base, x)
      BY <1>9, <2>1, <2>2
    <2>4. Get(m, x) = Junk
      BY <1>5, <2>1, <2>3
    <2> QED
      BY <2>4 DEF x
  <1>20. ASSUME StaysWhole(d, order, room)
         PROVE  /\ Get(m, a) = <<"size", 2 + size>>
                /\ \A k \in 0 .. 1 + O : Get(m, o + k) = <<d.owner, k + 1>>
                /\ \A k \in 0 .. 1 + G : Get(m, g + k) = <<d.group, k + 1>>
    <2>1. \/ a = 5 /\ o >= 7 + size /\ g + 2 + G <= N
          \/ o = 5 /\ a = g + 2 + G /\ G = 5
      <3>1. order = "daclFirst" => Len(mem) <= N
        BY <1>5, <1>20 DEF StaysWhole, mem, base
      <3>2. order = "daclLast" => G = 5
        BY <1>20 DEF StaysWhole, G
      <3> QED
        BY <1>3, <3>1, <3>2
    <2>2. Get(m, a) = <<"size", 2 + size>>
      <3>1. a \in 0 .. N - 1
        BY <1>3, <1>4, <1>11
      <3>2. a - g \notin 0 .. 6 /\ a - o \notin 0 .. 6
        BY <1>3, <2>1
      <3> QED
        BY <1>10, <3>1, <3>2
    <2>3. ASSUME NEW k \in 0 .. 1 + O PROVE Get(m, o + k) = <<d.owner, k + 1>>
      <3>1. o + k \in Nat /\ (o + k) - o \in 0 .. 6 /\ o + k < N
        BY <1>3, <1>4, <2>1
      <3> QED
        BY <1>2, <1>15, <3>1
    <2>4. ASSUME NEW k \in 0 .. 1 + G PROVE Get(m, g + k) = <<d.group, k + 1>>
      <3>1. g + k \in Nat /\ (g + k) - g \in 0 .. 6 /\ g + k < N
        BY <1>3, <1>4, <2>1
      <3> QED
        BY <1>2, <1>15, <3>1
    <2> QED
      BY <2>2, <2>3, <2>4
  <1> HIDE DEF Size
  <1> QED
    BY <1>13, <1>14, <1>16, <1>18, <1>19, <1>20 DEF o, g, a, O, G, n, size, mem, m, own, grp, Size

(* A SID that was copied as it was is read.                                *)
LEMMA SidIsThere ==
  ASSUME NEW mem, NEW at \in Nat, NEW s \in Sids,
         \A k \in 0 .. 1 + NumSub[s] : Get(mem, at + k) = <<s, k + 1>>
  PROVE  s \in SidsAt(mem, at)
PROOF
  <1> DEFINE n == 2 + NumSub[s]
  <1>1. n \in Nat /\ NumSub[s] \in 1 .. 5
    BY SubSize
  <1>2. Slice(mem, at, n) = [k \in 1 .. n |-> Get(mem, at + k - 1)]
    BY <1>1, SliceIs
  <1>3. \A k \in 1 .. n : Get(mem, at + k - 1) = <<s, k>>
    <2> TAKE k \in 1 .. n
    <2> DEFINE j == k - 1
    <2>1. j \in 0 .. 1 + NumSub[s] /\ at + j = at + k - 1 /\ j + 1 = k
      BY <1>1
    <2> HIDE DEF j
    <2>2. Get(mem, at + j) = <<s, j + 1>>
      BY <2>1
    <2> QED
      BY <2>1, <2>2
  <1>4. SidWords(s) = [k \in 1 .. n |-> <<s, k>>]
    BY DEF SidWords
  <1> QED
    BY <1>2, <1>3, <1>4 DEF SidsAt

(* The same descriptor with other ACEs.                                    *)
LEMMA WithAces ==
  ASSUME NEW S, NEW B, NEW T, NEW d \in [owner : S, group : S, dacl : B, aces : T], NEW aces
  PROVE  [d EXCEPT !.aces = aces] =
           [owner |-> d.owner, group |-> d.group, dacl |-> d.dacl, aces |-> aces]
PROOF
  OBVIOUS

(* What a server makes of the descriptor.                                  *)
LEMMA RebuiltMeans ==
  ASSUME NEW d, NEW order, NEW aces \in Seq(Aces), StaysApart(d, order, aces),
         NEW room \in Nat, Len(aces) <= room, NEW offset, ApartAt(aces, offset),
         \A i \in DOMAIN aces : offset[i] <= (i - 1) * 9,
         NEW k \in 0 .. Len(aces), \A i \in 1 .. k : offset[i] = Upto(aces, i - 1),
         k # Len(aces) => \A i \in DOMAIN aces :
           Upto(aces, k) < offset[i] \/ offset[i] + AceSize(aces[i]) <= Upto(aces, k)
  PROVE  LET sent == Unmarshal(Rebuilt(Marshal(d, order), room, aces, offset))
         IN  /\ sent \subseteq {[d EXCEPT !.aces = aces]}
             /\ k = Len(aces) /\ StaysWhole(d, order, room) => sent = {[d EXCEPT !.aces = aces]}
PROOF
  <1> DEFINE o == OwnerAt(d, order)
             g == GroupAt(d, order)
             a == DaclAt(d, order)
             n == Len(aces)
             size == Len(AcesWords(aces))
             m == Rebuilt(Marshal(d, order), room, aces, offset)
             sent == Unmarshal(m)
             asked == [d EXCEPT !.aces = aces]
  <1>1. /\ Says(m, o, g, a)
        /\ Get(m, a + 1) = <<"num_aces", n>>
        /\ Get(m, o) \in {<<d.owner, 1>>, Junk}
        /\ Get(m, g) \in {<<d.group, 1>>, Junk}
        /\ \A i \in DOMAIN aces : \A j \in 1 .. AceSize(aces[i]) :
             offset[i] + j - 1 < size => Get(m, (a + 2) + offset[i] + j - 1) = AceWords(aces[i])[j]
        /\ \A p \in 0 .. size - 1 :
             (\A i \in DOMAIN aces : p < offset[i] \/ offset[i] + AceSize(aces[i]) <= p)
             => Get(m, (a + 2) + p) = Junk
        /\ StaysWhole(d, order, room) =>
             /\ Get(m, a) = <<"size", 2 + size>>
             /\ \A j \in 0 .. 1 + NumSub[d.owner] : Get(m, o + j) = <<d.owner, j + 1>>
             /\ \A j \in 0 .. 1 + NumSub[d.group] : Get(m, g + j) = <<d.group, j + 1>>
    BY RebuiltIs
  <1>2. o \in Nat /\ g \in Nat /\ a \in Nat /\ size \in Nat
    BY Places
  <1>3. n \in Nat /\ k \in Nat /\ k <= n /\ DOMAIN aces = 1 .. n
    <2> HIDE DEF Aces
    <2> QED
      BY LenProperties
  <1>4. /\ \A i \in 0 .. n : Upto(aces, i) \in Nat
        /\ \A i \in 1 .. n : /\ aces[i] \in Aces /\ AceSize(aces[i]) \in 5 .. 9
                             /\ Upto(aces, i) = Upto(aces, i - 1) + AceSize(aces[i])
        /\ Upto(aces, n) = size
    BY UptoSteps
  <1>5. \A i \in 0 .. n : Upto(aces, i) <= size
    <2>1. n = Len(aces)
      OBVIOUS
    <2> HIDE DEF n, size, Aces
    <2>2. n \in 0 .. n
      BY <1>3
    <2>3. n \in 0 .. Len(aces)
      BY <2>1, <2>2
    <2>4. \A i \in 0 .. n : Upto(aces, i) <= Upto(aces, n)
      BY <2>3, UptoGrows
    <2> QED
      BY <1>4, <2>4
  <1>6. d \in Descriptors /\ d.dacl
    BY DEF StaysApart
  <1>7. d.owner \in Sids /\ d.group \in Sids
    BY <1>6 DEF Descriptors
  <1>8. asked = [owner |-> d.owner, group |-> d.group, dacl |-> TRUE, aces |-> aces]
    <2>1. d.dacl = TRUE
      BY <1>6 DEF Descriptors
    <2> DEFINE B == BOOLEAN
               T == Seq(Aces)
    <2>2. d \in [owner : Sids, group : Sids, dacl : B, aces : T]
      BY <1>6 DEF Descriptors
    <2> HIDE DEF B, T
    <2>3. asked = [owner |-> d.owner, group |-> d.group, dacl |-> d.dacl, aces |-> aces]
      BY <2>2, WithAces
    <2> QED
      BY <2>1, <2>3
  <1> HIDE DEF o, g, a, n, size, m, Aces
  <1>9. \A i \in 1 .. k : AcesAt(m, (a + 2) + Upto(aces, i - 1)) = {aces[i]}
    <2> TAKE i \in 1 .. k
    <2> DEFINE at == (a + 2) + Upto(aces, i - 1)
               e == aces[i]
               f == offset[i]
               s == AceSize(e)
    <2>1. i \in 1 .. n /\ i - 1 \in 0 .. n /\ i \in 0 .. n
      BY <1>3
    <2>2. f = Upto(aces, i - 1)
      OBVIOUS
    <2>3. at \in Nat /\ e \in Aces /\ s \in 5 .. 9 /\ f \in Nat /\ f + s <= size
      <3>1. Upto(aces, i - 1) \in Nat /\ Upto(aces, i) <= size /\ Upto(aces, i) = Upto(aces, i - 1) + s
            /\ e \in Aces /\ s \in 5 .. 9
        BY <1>4, <1>5, <2>1
      <3> HIDE DEF f, s, e
      <3> QED
        BY <1>2, <2>2, <3>1
    <2>4. \A j \in 1 .. s : Get(m, at + j - 1) = AceWords(e)[j]
      <3> TAKE j \in 1 .. s
      <3>1. f + j - 1 < size
        <4> HIDE DEF f, s
        <4> QED
          BY <1>2, <2>3
      <3>2. Get(m, (a + 2) + f + j - 1) = AceWords(e)[j]
        BY <1>1, <1>3, <2>1, <3>1
      <3>3. at = (a + 2) + f
        BY <2>2
      <3> QED
        BY <3>2, <3>3
    <2> HIDE DEF at, e, f, s
    <2>5. \A j \in 1 .. AceSize(e) : Get(m, at + j - 1) = AceWords(e)[j]
      BY <2>4 DEF s
    <2>6. AcesAt(m, at) = {e}
      BY <2>3, <2>5, AceIsThere
    <2> QED
      BY <2>6 DEF at, e
  <1>10. k # n => AcesAt(m, (a + 2) + Upto(aces, k)) = {}
    <2> SUFFICES ASSUME k # n, NEW b \in AcesAt(m, (a + 2) + Upto(aces, k)) PROVE FALSE
      OBVIOUS
    <2> DEFINE p == Upto(aces, k)
    <2>1. p \in 0 .. size - 1
      <3>1. k \in 0 .. n /\ k + 1 \in 1 .. n /\ k + 1 \in 0 .. n /\ (k + 1) - 1 = k
        BY <1>3
      <3> DEFINE s == AceSize(aces[k + 1])
                 q == Upto(aces, k + 1)
      <3>2. p \in Nat /\ q <= size /\ q = p + s /\ s \in 5 .. 9
        BY <1>4, <1>5, <3>1
      <3> HIDE DEF p, q, s
      <3> QED
        BY <1>2, <3>2
    <2>2. \A i \in DOMAIN aces : p < offset[i] \/ offset[i] + AceSize(aces[i]) <= p
      BY DEF n
    <2> HIDE DEF p
    <2>3. Get(m, (a + 2) + p) = Junk
      BY <1>1, <2>1, <2>2
    <2>4. (a + 2) + p \in Nat
      BY <1>2, <2>1
    <2>5. Get(m, (a + 2) + p) = <<"ace", b.type, b.flags, AceSize(b)>>
      <3>1. b \in AcesAt(m, (a + 2) + p)
        BY DEF p
      <3> QED
        BY <2>4, <3>1, OneAce
    <2>6. Junk # <<"ace", b.type, b.flags, AceSize(b)>>
      BY DEF Junk
    <2> QED
      BY <2>3, <2>5, <2>6
  <1>11. ListsAt(m, a + 2, n) = IF k = n THEN {aces} ELSE {}
    <2> DEFINE at == a + 2
    <2>1. at \in Nat
      BY <1>2
    <2>2. \A i \in 1 .. k : AcesAt(m, at + Upto(aces, i - 1)) = {aces[i]}
      BY <1>9
    <2>3. k # n => AcesAt(m, at + Upto(aces, k)) = {}
      BY <1>10
    <2> HIDE DEF at
    <2>4. ListsAt(m, at, Len(aces)) = IF k = Len(aces) THEN {aces} ELSE {}
      BY <2>1, <2>2, <2>3, ListsRead DEF n
    <2> QED
      BY <2>4 DEF at, n
  <1>12. /\ osidoffset(m) = o /\ gsidoffset(m) = g /\ dacloffset(m) = a
         /\ Get(m, 1)[1] = "osidoffset"
         /\ Get(m, a + 1)[1] = "num_aces" /\ Get(m, a + 1)[2] = n
    BY <1>1 DEF Says, osidoffset, gsidoffset, dacloffset
  <1> DEFINE Fits(l) == Slice(m, a, 2) = Slice(DaclWords(l), 0, 2)
  <1>13. sent = {[owner |-> x, group |-> y, dacl |-> TRUE, aces |-> l] :
                   x \in SidsAt(m, o), y \in SidsAt(m, g),
                   l \in {l \in ListsAt(m, a + 2, n) : Fits(l)}}
    <2>1. ~(Get(m, 1)[1] # "osidoffset" \/ Get(m, a + 1)[1] # "num_aces" \/ Get(m, a + 1)[2] \notin Nat)
      BY <1>3, <1>12
    <2> QED
      BY <1>12, <2>1 DEF Unmarshal, CTRL
  <1>14. SidsAt(m, o) \subseteq {d.owner} /\ SidsAt(m, g) \subseteq {d.group}
    BY <1>1, <1>2, <1>7, OneSid
  <1> HIDE DEF Fits, sent, asked
  <1>15. sent \subseteq {asked}
    <2> SUFFICES ASSUME NEW r \in sent PROVE r = asked
      OBVIOUS
    <2>1. PICK x \in SidsAt(m, o), y \in SidsAt(m, g), l \in ListsAt(m, a + 2, n) :
            r = [owner |-> x, group |-> y, dacl |-> TRUE, aces |-> l]
      BY <1>13
    <2>2. x = d.owner /\ y = d.group /\ l = aces
      BY <1>11, <1>14
    <2> QED
      BY <1>8, <2>1, <2>2
  <1>16. ASSUME k = n, StaysWhole(d, order, room) PROVE sent = {asked}
    <2>1. d.owner \in SidsAt(m, o) /\ d.group \in SidsAt(m, g)
      BY <1>1, <1>2, <1>7, <1>16, SidIsThere
    <2>2. aces \in ListsAt(m, a + 2, n)
      BY <1>11, <1>16
    <2>3. Fits(aces)
      <3> DEFINE w == DaclWords(aces)
                 first == <<"size", 2 + size>>
                 second == <<"num_aces", n>>
      <3>1. w \in Seq(Words) /\ Len(w) = 2 + size /\ w[1] = first /\ w[2] = second
        BY DaclWordsAre DEF CTRL, size, n
      <3>2. Get(m, a) = first /\ Get(m, a + 1) = second
        BY <1>1, <1>16
      <3> HIDE DEF w, first, second, Words
      <3>3. Get(w, 0) = first /\ Get(w, 1) = second
        <4>1. 0 \in 0 .. Len(w) - 1 /\ 1 \in 0 .. Len(w) - 1 /\ 0 + 1 = 1 /\ 1 + 1 = 2
          BY <1>2, <3>1
        <4> QED
          BY <3>1, <4>1 DEF Get
      <3> DEFINE two == 2
      <3>4. \A i \in 1 .. two : Get(m, a + i - 1) = Get(w, 0 + i - 1)
        <4> TAKE i \in 1 .. two
        <4>1. CASE i = 1
          <5>1. a + i - 1 = a /\ 0 + i - 1 = 0
            BY <1>2, <4>1
          <5> QED
            BY <3>2, <3>3, <5>1
        <4>2. CASE i = 2
          <5>1. a + i - 1 = a + 1 /\ 0 + i - 1 = 1
            BY <1>2, <4>2
          <5> QED
            BY <3>2, <3>3, <5>1
        <4> QED
          BY <4>1, <4>2
      <3>5. two \in Nat
        OBVIOUS
      <3> HIDE DEF two
      <3>6. /\ Slice(m, a, two) = [i \in 1 .. two |-> Get(m, a + i - 1)]
            /\ Slice(w, 0, two) = [i \in 1 .. two |-> Get(w, 0 + i - 1)]
        BY <3>5, SliceIs
      <3>7. Slice(m, a, two) = Slice(w, 0, two)
        BY <3>4, <3>6
      <3> QED
        BY <3>7 DEF Fits, w, two
    <2>4. asked \in sent
      <3>1. aces \in {l \in ListsAt(m, a + 2, n) : Fits(l)}
        BY <2>2, <2>3
      <3> DEFINE ls == {l \in ListsAt(m, a + 2, n) : Fits(l)}
                 xs == SidsAt(m, o)
                 ys == SidsAt(m, g)
      <3>2. sent = {[owner |-> x, group |-> y, dacl |-> TRUE, aces |-> l] : x \in xs, y \in ys, l \in ls}
        BY <1>13
      <3> DEFINE Read(x, y, l) == [owner |-> x, group |-> y, dacl |-> TRUE, aces |-> l]
      <3>a. sent = {Read(x, y, l) : x \in xs, y \in ys, l \in ls}
        BY <3>2
      <3>b. asked = Read(d.owner, d.group, aces)
        BY <1>8
      <3>3. d.owner \in xs /\ d.group \in ys /\ aces \in ls
        BY <2>1, <3>1
      <3> HIDE DEF ls, xs, ys, Read
      <3> QED
        BY <3>a, <3>b, <3>3
    <2> QED
      BY <1>15, <2>4
  <1> QED
    BY <1>15, <1>16 DEF sent, asked, n, m

(* With nothing but what SetXattr copies, a server finds the number of the *)
(* ACEs where the owner's offset should be.                                *)
LEMMA NoDacl ==
  ASSUME NEW d \in Descriptors, ~d.dacl, NEW order, NEW aces \in Seq(Aces),
         NEW room \in Nat, NEW offset, ApartAt(aces, offset)
  PROVE  Unmarshal(Rebuilt(Marshal(d, order), room, aces, offset)) = {}
PROOF
  <1> DEFINE o == OwnerAt(d, order)
             g == GroupAt(d, order)
             n == Len(aces)
             size == Len(AcesWords(aces))
             mem == Marshal(d, order)
             new == CopyAces(Fresh(room), 2, aces, offset)
             m == Rebuilt(mem, room, aces, offset)
             num == <<"num_aces", n>>
  <1>1. DaclAt(d, order) = 0
    BY DEF DaclAt
  <1>2. mem \in Seq(Words) /\ Says(mem, o, g, 0)
    BY <1>1, MarshalIs DEF Says
  <1>3. o \in Nat /\ o >= 5 /\ g = o + 2 + NumSub[d.owner] /\ NumSub[d.owner] \in 1 .. 5
    BY Offsets DEF GroupAt
  <1>4. n \in Nat /\ size \in Nat
    <2>1. size \in Nat
      BY DaclWordsAre
    <2> HIDE DEF Aces
    <2> QED
      BY <2>1, LenProperties
  <1>5. new \in Seq(Words) /\ Len(new) = 21 + 9 * room
    <2> DEFINE base == Fresh(room)
               at == 2
    <2>1. base \in Seq(Words) /\ Len(base) = 21 + 9 * room
      BY FreshIs
    <2>2. at \in Nat
      OBVIOUS
    <2> HIDE DEF base, at, Words, Aces
    <2>3. CopyAces(base, at, aces, offset) \in Seq(Words)
          /\ Len(CopyAces(base, at, aces, offset)) = Len(base)
      BY <2>1, <2>2, CopyAcesIs DEF AcesLaid
    <2> QED
      BY <2>1, <2>3 DEF base, at
  <1>6. m = CopySecDesc(mem, new, n, size)
    BY <1>2 DEF Rebuilt, Says, dacloffset, CTRL
  <1> HIDE DEF Words, Aces, o, g, n, size, mem, new, m
  <1>7. Get(m, 1) = num
    <2>1. Len(new) >= 21
      BY <1>5
    <2> DEFINE a == 0
    <2>2. mem \in Seq(Words) /\ new \in Seq(Words) /\ n \in Nat /\ size \in Nat
          /\ o \in Nat /\ g \in Nat /\ a \in Nat /\ Says(mem, o, g, a)
      BY <1>2, <1>3, <1>4, <1>5
    <2> HIDE DEF a
    <2>3. LET c == CopySecDesc(mem, new, n, size)
          IN  /\ c \in Seq(Words) /\ Len(c) = Len(new)
              /\ \A x \in 0 .. Len(new) - 1 : Get(c, x) =
                  IF x - g \in 0 .. 6 \/ x - o \in 0 .. 6 THEN Get(mem, x)
                  ELSE IF x = a THEN <<"size", 2 + size>>
                  ELSE IF x = a + 1 THEN <<"num_aces", n>>
                  ELSE IF x = 3 THEN Junk
                  ELSE IF x < 5 THEN Get(mem, x) ELSE Get(new, x)
      BY <2>1, <2>2, CopySecDescIs
    <2> DEFINE x == 1
    <2>4. x \in 0 .. Len(new) - 1 /\ x # a /\ x = a + 1
      BY <1>5 DEF a
    <2>5. x - g \notin 0 .. 6 /\ x - o \notin 0 .. 6
      BY <1>3
    <2> HIDE DEF x
    <2>6. Get(m, x) = num
      BY <1>6, <2>3, <2>4, <2>5
    <2> QED
      BY <2>6 DEF x
  <1>8. Get(m, 1)[1] # "osidoffset"
    BY <1>7
  <1> QED
    BY <1>8 DEF Unmarshal, m, mem

(* The ACEs one behind the other: ace_add, ace_modify and ace_delete.      *)
LEMMA PackedMeans ==
  ASSUME NEW d, NEW order, NEW aces \in Seq(Aces), StaysApart(d, order, aces),
         NEW room \in Nat, Len(aces) <= room
  PROVE  LET sent == Unmarshal(Rebuilt(Marshal(d, order), room, aces, Packed(aces)))
         IN  /\ sent \subseteq {[d EXCEPT !.aces = aces]}
             /\ StaysWhole(d, order, room) => sent = {[d EXCEPT !.aces = aces]}
PROOF
  <1> DEFINE n == Len(aces)
             offset == Packed(aces)
  <1>1. n \in Nat /\ DOMAIN aces = 1 .. n
    <2> HIDE DEF Aces
    <2> QED
      BY LenProperties
  <1>2. /\ \A i \in 1 .. n : offset[i] = Upto(aces, i - 1)
        /\ ApartAt(aces, offset)
    BY PackedIs
  <1>3. \A j \in 0 .. n : Upto(aces, j) <= 9 * j
    BY UptoGrows
  <1> HIDE DEF offset
  <1>4. \A i \in DOMAIN aces : offset[i] <= (i - 1) * 9
    <2> TAKE i \in DOMAIN aces
    <2>1. i \in 1 .. n /\ i - 1 \in 0 .. n /\ 9 * (i - 1) = (i - 1) * 9
      BY <1>1
    <2> QED
      BY <1>2, <1>3, <2>1
  <1> DEFINE k == n
  <1>5. k \in 0 .. Len(aces) /\ k = Len(aces)
    BY <1>1
  <1>6. \A i \in 1 .. k : offset[i] = Upto(aces, i - 1)
    BY <1>2
  <1> HIDE DEF k
  <1> DEFINE sent == Unmarshal(Rebuilt(Marshal(d, order), room, aces, offset))
  <1>7. /\ sent \subseteq {[d EXCEPT !.aces = aces]}
        /\ k = Len(aces) /\ StaysWhole(d, order, room) => sent = {[d EXCEPT !.aces = aces]}
    BY <1>2, <1>4, <1>5, <1>6, RebuiltMeans
  <1> QED
    BY <1>5, <1>7 DEF offset

(* The ACEs a struct apart: ace_set.  After a short one comes a gap, and   *)
(* the server takes what it is sent for nothing.                           *)
LEMMA SpreadMeans ==
  ASSUME NEW d, NEW order, NEW aces \in Seq(Aces), StaysApart(d, order, aces),
         NEW room \in Nat, Len(aces) <= room
  PROVE  LET sent == Unmarshal(Rebuilt(Marshal(d, order), room, aces, Spread(aces)))
         IN  /\ sent \subseteq {[d EXCEPT !.aces = aces]}
             /\ StaysWhole(d, order, room) /\ (\A i \in 1 .. Len(aces) - 1 : NumSub[aces[i].sid] = 5)
                => sent = {[d EXCEPT !.aces = aces]}
PROOF
  <1> DEFINE n == Len(aces)
             offset == Spread(aces)
             S(i) == AceSize(aces[i])
             Short == {i \in 1 .. n - 1 : S(i) # 9}
  <1>1. n \in Nat /\ DOMAIN aces = 1 .. n
    <2> HIDE DEF Aces
    <2> QED
      BY LenProperties
  <1>2. /\ \A i \in 1 .. n : offset[i] = (i - 1) * 9
        /\ ApartAt(aces, offset)
    BY PackedIs
  <1>3. \A i \in 1 .. n : S(i) \in 5 .. 9 /\ Upto(aces, i) = Upto(aces, i - 1) + S(i)
    BY UptoSteps
  <1>4. \A j \in 0 .. n : (\A i \in 1 .. j : S(i) = 9) => Upto(aces, j) = 9 * j
    BY UptoGrows
  <1>5. (\A i \in 1 .. n - 1 : NumSub[aces[i].sid] = 5) => Short = {}
    BY DEF AceSize
  <1> HIDE DEF offset, n, S
  <1>6. \A i \in DOMAIN aces : offset[i] <= (i - 1) * 9
    <2> TAKE i \in DOMAIN aces
    <2>1. i \in 1 .. n /\ (i - 1) * 9 \in Nat
      BY <1>1
    <2> QED
      BY <1>2, <2>1
  <1>7. PICK k \in 0 .. n : /\ k # n => k \in Short
                            /\ \A i \in Short : k <= i
                            /\ Short = {} => k = n
    <2>1. CASE Short = {}
      <3>1. n \in 0 .. n
        BY <1>1
      <3> QED
        BY <2>1, <3>1
    <2>2. CASE Short # {}
      <3>1. Short \in SUBSET Nat
        BY <1>1
      <3>2. PICK i \in Short : \A j \in Short : i <= j
        <4> HIDE DEF Short
        <4> QED
          BY <2>2, <3>1, LeastNatural
      <3>3. i \in 0 .. n
        BY <1>1
      <3> HIDE DEF Short
      <3> QED
        BY <2>2, <3>2, <3>3
    <2> QED
      BY <2>1, <2>2
  <1>8. \A i \in 1 .. n : i < k => S(i) = 9
    <2> TAKE i \in 1 .. n
    <2> SUFFICES ASSUME i < k, S(i) # 9 PROVE FALSE
      OBVIOUS
    <2>1. i \in 1 .. n - 1
      BY <1>1, <1>7
    <2>2. k <= i
      BY <1>7, <2>1
    <2> QED
      BY <1>1, <1>7, <2>2
  <1>9. \A i \in 1 .. k : Upto(aces, i - 1) = 9 * (i - 1)
    <2> TAKE i \in 1 .. k
    <2>1. i - 1 \in 0 .. n
      BY <1>1
    <2>2. \A j \in 1 .. i - 1 : j \in 1 .. n /\ j < k
      BY <1>1
    <2>3. \A j \in 1 .. i - 1 : S(j) = 9
      BY <1>8, <2>2
    <2> QED
      BY <1>4, <2>1, <2>3
  <1>10. \A i \in 1 .. k : offset[i] = Upto(aces, i - 1)
    <2> TAKE i \in 1 .. k
    <2>1. i \in 1 .. n /\ (i - 1) * 9 = 9 * (i - 1)
      BY <1>1
    <2> QED
      BY <1>2, <1>9, <2>1
  <1>11. k # n => \A i \in DOMAIN aces :
           Upto(aces, k) < offset[i] \/ offset[i] + S(i) <= Upto(aces, k)
    <2> SUFFICES ASSUME k # n, NEW i \in 1 .. n
                 PROVE  Upto(aces, k) < offset[i] \/ offset[i] + S(i) <= Upto(aces, k)
      BY <1>1
    <2>1. k \in Short /\ k \in 1 .. n /\ k \in 1 .. k
      BY <1>1, <1>7
    <2> DEFINE u == Upto(aces, k)
               s == S(k)
               r == S(i)
               f == offset[i]
    <2>2. s \in 5 .. 8
      BY <1>3, <2>1
    <2>3. u = 9 * (k - 1) + s
      <3>1. u = Upto(aces, k - 1) + s
        BY <1>3, <2>1
      <3>2. Upto(aces, k - 1) = 9 * (k - 1)
        BY <1>9, <2>1
      <3> QED
        BY <3>1, <3>2
    <2>4. f = (i - 1) * 9 /\ r \in 5 .. 9 /\ (i = k => r = s)
      BY <1>2, <1>3
    <2>5. k \in Int /\ i \in Int
      BY <1>1
    <2> HIDE DEF u, s, r, f
    <2>6. CASE i < k
      <3>1. f + r <= u
        BY <2>2, <2>3, <2>4, <2>5, <2>6
      <3> QED
        BY <3>1 DEF u, f, r
    <2>7. CASE i = k
      <3>1. f + r <= u
        BY <2>2, <2>3, <2>4, <2>5, <2>7
      <3> QED
        BY <3>1 DEF u, f, r
    <2>8. CASE i > k
      <3>1. u < f
        BY <2>2, <2>3, <2>4, <2>5, <2>8
      <3> QED
        BY <3>1 DEF u, f
    <2> QED
      BY <2>5, <2>6, <2>7, <2>8
  <1> DEFINE sent == Unmarshal(Rebuilt(Marshal(d, order), room, aces, offset))
  <1>12. /\ sent \subseteq {[d EXCEPT !.aces = aces]}
         /\ k = Len(aces) /\ StaysWhole(d, order, room) => sent = {[d EXCEPT !.aces = aces]}
    <2>1. k \in 0 .. Len(aces)
      BY DEF n
    <2>2. k # Len(aces) => \A i \in DOMAIN aces :
            Upto(aces, k) < offset[i] \/ offset[i] + AceSize(aces[i]) <= Upto(aces, k)
      BY <1>11 DEF n, S
    <2> HIDE DEF Short
    <2> QED
      BY <1>2, <1>6, <1>10, <2>1, <2>2, RebuiltMeans
  <1>13. Short = {} => k = Len(aces)
    BY <1>7 DEF n
  <1> HIDE DEF Short
  <1> QED
    BY <1>5, <1>12, <1>13 DEF offset, n

(* There is room for the SIDs where there is room for the ACEs read.       *)
LEMMA RoomForAll ==
  ASSUME NEW d \in Descriptors, d.dacl, NEW order, order = "daclLast" => NumSub[d.group] = 5,
         NEW room \in Nat, Len(d.aces) <= room
  PROVE  StaysWhole(d, order, room)
PROOF
  <1> DEFINE old == Len(AcesWords(d.aces))
             n == Len(d.aces)
             O == NumSub[d.owner]
             G == NumSub[d.group]
             length == Len(Marshal(d, order))
             N == Len(Fresh(room))
  <1>1. d.aces \in Seq(Aces) /\ O \in 1 .. 5 /\ G \in 1 .. 5 /\ old \in Nat
    BY Offsets
  <1>2. length = 9 + O + G + AclSize(d)
    BY MarshalIs
  <1>3. AclSize(d) = 2 + old
    BY DEF AclSize, CTRL
  <1>4. n \in Nat /\ n \in 0 .. n
    <2> HIDE DEF Aces
    <2> QED
      BY <1>1, LenProperties
  <1>5. old <= 9 * n
    <2>1. Upto(d.aces, n) <= 9 * n
      BY <1>1, <1>4, UptoGrows
    <2>2. Upto(d.aces, n) = old
      BY <1>1, UptoSteps
    <2> QED
      BY <2>1, <2>2
  <1>6. N = 21 + 9 * room
    BY FreshIs
  <1>7. n <= room
    OBVIOUS
  <1>8. length <= N
    <2>1. length = 9 + O + G + (2 + old)
      BY <1>2, <1>3
    <2> DEFINE R == room
    <2>2. R \in Nat /\ N = 21 + 9 * R /\ n <= R
      BY <1>6, <1>7
    <2>3. O \in 1 .. 5 /\ G \in 1 .. 5 /\ old \in Nat /\ n \in Nat
      BY <1>1, <1>4
    <2> HIDE DEF old, n, O, G, length, N, R
    <2> QED
      BY <1>5, <2>1, <2>2, <2>3
  <1> QED
    BY <1>8 DEF StaysWhole
-----------------------------------------------------------------------------
(* The members of a finite set of numbers are told apart by how many are   *)
(* below them.                                                             *)
LEMMA Ranks ==
  ASSUME NEW S \in SUBSET Nat, IsFiniteSet(S), NEW i \in S, NEW j \in S, i < j
  PROVE  Cardinality({x \in S : x < i}) < Cardinality({x \in S : x < j})
PROOF
  <1> DEFINE A == {x \in S : x < i}
             B == {x \in S : x < j}
  <1>1. A \subseteq B /\ i \in B /\ i \notin A
    <2>1. \A x \in S : x \in Nat
      OBVIOUS
    <2>2. (\A x \in S : x < i => x < j) /\ ~(i < i)
      BY <2>1
    <2> QED
      BY <2>2
  <1>2. IsFiniteSet(B)
    <2>1. B \subseteq S
      OBVIOUS
    <2> HIDE DEF B
    <2> QED
      BY <2>1, FS_Subset
  <1> HIDE DEF A, B
  <1>3. IsFiniteSet(A)
    BY <1>1, <1>2, FS_Subset
  <1>4. A \cup {i} \subseteq B
    BY <1>1
  <1>5. Cardinality(A \cup {i}) <= Cardinality(B)
    BY <1>2, <1>4, FS_Subset
  <1>6. Cardinality(A \cup {i}) = Cardinality(A) + 1
    BY <1>1, <1>3, FS_AddElement
  <1>7. Cardinality(A) \in Nat /\ Cardinality(B) \in Nat
    BY <1>2, <1>3, FS_CardinalityType
  <1> QED
    BY <1>5, <1>6, <1>7 DEF A, B

(* ace_delete keeps what is not given, in its order.                       *)
LEMMA KeptIsAsked ==
  ASSUME NEW faces \in Seq(Aces), NEW caces \in Seq(Aces)
  PROVE  LET left == {i \in DOMAIN faces : \A j \in DOMAIN caces : caces[j] # faces[i]}
             Before(i) == {j \in left : j < i}
         IN  /\ Kept(faces, caces) = [k \in 1 .. Cardinality(left) |->
                  faces[CHOOSE i \in left : Cardinality(Before(i)) = k - 1]]
             /\ Kept(faces, caces) \in Seq(Aces) /\ Len(Kept(faces, caces)) <= Len(faces)
PROOF
  <1> DEFINE n == Len(faces)
             left == {i \in DOMAIN faces : \A j \in DOMAIN caces : caces[j] # faces[i]}
             Before(i) == {j \in left : j < i}
             Of(k) == faces[CHOOSE i \in left : Cardinality(Before(i)) = k - 1]
             Next1(i, l) == IF \E j \in DOMAIN caces : faces[i] = caces[j] THEN l ELSE Append(l, faces[i])
             IsUpto(f) == f = [i \in 0 .. n |-> IF i = 0 THEN <<>>
                                 ELSE IF \E j \in DOMAIN caces : faces[i] = caces[j] THEN f[i - 1]
                                 ELSE Append(f[i - 1], faces[i])]
             U == CHOOSE f : IsUpto(f)
             V == Seq(Aces)
  <1> HIDE DEF Aces
  <1>1. n \in Nat /\ DOMAIN faces = 1 .. n /\ \A i \in 1 .. n : faces[i] \in Aces
    BY LenProperties, ElementOfSeq
  <1>2. Kept(faces, caces) = U[n]
    BY DEF Kept
  <1>3. IsUpto(U)
    <2> DEFINE g == [il \in Nat \X V |-> IF il[1] \in 1 .. n THEN Next1(il[1], il[2]) ELSE il[2]]
    <2>1. g \in [Nat \X V -> V] /\ <<>> \in V
      <3>1. \A i \in 1 .. n : \A l \in V : Next1(i, l) \in V
        BY <1>1, AppendProperties
      <3> HIDE DEF Next1
      <3> QED
        BY <3>1
    <2>2. PICK f : Iterated(f, n, V, <<>>, g)
      <3> HIDE DEF g, n, V
      <3> QED
        BY <1>1, <2>1, IterationExists
    <2>3. /\ f \in [0 .. n -> V] /\ f[0] = <<>>
          /\ \A i \in 1 .. n : f[i] = Next1(i, f[i - 1])
      <3>1. \A i \in 1 .. n : i \in Nat /\ i - 1 \in 0 .. n
        BY <1>1
      <3>2. f \in [0 .. n -> V] /\ f[0] = <<>> /\ \A i \in 1 .. n : f[i] = g[<<i, f[i - 1]>>]
        <4> HIDE DEF g, n, V
        <4> QED
          BY <2>2 DEF Iterated
      <3>3. \A i \in 1 .. n : f[i - 1] \in V
        BY <3>1, <3>2
      <3>4. \A i \in 1 .. n : \A l \in V : g[<<i, l>>] = Next1(i, l)
        <4> HIDE DEF Next1
        <4> QED
          BY <3>1
      <3> HIDE DEF g, V, Next1
      <3> QED
        BY <3>2, <3>3, <3>4
    <2> HIDE DEF g
    <2>4. IsUpto(f)
      <3>1. \A i \in 0 .. n : i # 0 => i \in 1 .. n
        BY <1>1
      <3>2. f = [i \in 0 .. n |-> f[i]]
        BY <2>3
      <3>3. \A i \in 0 .. n : f[i] = IF i = 0 THEN <<>>
                                     ELSE IF \E j \in DOMAIN caces : faces[i] = caces[j] THEN f[i - 1]
                                     ELSE Append(f[i - 1], faces[i])
        BY <2>3, <3>1
      <3> HIDE DEF n, V
      <3>4. [i \in 0 .. n |-> f[i]] =
              [i \in 0 .. n |-> IF i = 0 THEN <<>>
                                 ELSE IF \E j \in DOMAIN caces : faces[i] = caces[j] THEN f[i - 1]
                                 ELSE Append(f[i - 1], faces[i])]
        BY <3>3
      <3> QED
        BY <3>2, <3>4
    <2> HIDE DEF IsUpto
    <2> QED
      BY <2>4
  <1> HIDE DEF U, n
  <1>4. U[0] = <<>> /\ \A i \in 1 .. n : U[i] = IF i \in left THEN Append(U[i - 1], faces[i]) ELSE U[i - 1]
    <2>1. 0 \in 0 .. n /\ \A i \in 1 .. n : i \in 0 .. n /\ i # 0
      BY <1>1
    <2>2. \A i \in 1 .. n : i \in left <=> ~\E j \in DOMAIN caces : faces[i] = caces[j]
      BY <1>1
    <2> HIDE DEF left
    <2>3. U[0] = <<>>
      BY <1>3, <2>1
    <2>4. ASSUME NEW i \in 1 .. n
          PROVE  U[i] = IF i \in left THEN Append(U[i - 1], faces[i]) ELSE U[i - 1]
      <3>1. U[i] = IF i = 0 THEN <<>>
                   ELSE IF \E j \in DOMAIN caces : faces[i] = caces[j] THEN U[i - 1]
                   ELSE Append(U[i - 1], faces[i])
        BY <1>3, <2>1
      <3> QED
        BY <2>1, <2>2, <3>1
    <2> QED
      BY <2>3, <2>4
  <1>5. left \in SUBSET Nat /\ IsFiniteSet(left) /\ Cardinality(left) <= n
    <2>1. left \subseteq 1 .. n /\ IsFiniteSet(1 .. n) /\ Cardinality(1 .. n) = n
      <3>1. left \subseteq 1 .. n
        BY <1>1
      <3>2. 1 \in Int /\ n \in Int /\ (IF 1 > n THEN 0 ELSE n - 1 + 1) = n
        BY <1>1
      <3>3. IsFiniteSet(1 .. n) /\ Cardinality(1 .. n) = IF 1 > n THEN 0 ELSE n - 1 + 1
        BY <3>2, FS_Interval
      <3> QED
        BY <3>1, <3>2, <3>3
    <2> HIDE DEF left
    <2>2. IsFiniteSet(left) /\ Cardinality(left) <= Cardinality(1 .. n)
      BY <2>1, FS_Subset
    <2> QED
      BY <2>1, <2>2
  <1>6. left \subseteq 1 .. n
    BY <1>1
  <1> HIDE DEF left
  <1> DEFINE To(i) == {j \in left : j <= i}
             P(i) == /\ U[i] \in Seq(Aces) /\ Len(U[i]) = Cardinality(To(i))
                     /\ \A k \in 1 .. Cardinality(To(i)) : U[i][k] = Of(k)
             T == {i \in Nat : i <= n => P(i)}
  <1>7. \A i \in Nat : IsFiniteSet(To(i)) /\ Cardinality(To(i)) \in Nat
    <2> TAKE i \in Nat
    <2>1. To(i) \subseteq left
      OBVIOUS
    <2> HIDE DEF To
    <2> QED
      BY <1>5, <2>1, FS_Subset, FS_CardinalityType
  <1>8. \A i \in left : Of(Cardinality(Before(i)) + 1) = faces[i]
    <2> TAKE i \in left
    <2> DEFINE c == CHOOSE j \in left : Cardinality(Before(j)) = (Cardinality(Before(i)) + 1) - 1
    <2>1. Cardinality(Before(i)) \in Nat
      <3>1. Before(i) \subseteq left
        OBVIOUS
      <3> HIDE DEF Before
      <3> QED
        BY <1>5, <3>1, FS_Subset, FS_CardinalityType
    <2>2. c \in left /\ Cardinality(Before(c)) = Cardinality(Before(i))
      <3> HIDE DEF Before
      <3>1. Cardinality(Before(i)) = (Cardinality(Before(i)) + 1) - 1
        BY <2>1
      <3> QED
        BY <2>1, <3>1
    <2> HIDE DEF c
    <2>3. c < i => Cardinality(Before(c)) < Cardinality(Before(i))
      BY <1>5, <2>2, Ranks
    <2>4. i < c => Cardinality(Before(i)) < Cardinality(Before(c))
      BY <1>5, <2>2, Ranks
    <2> HIDE DEF Before
    <2>5. c \in Nat /\ i \in Nat
      BY <1>5, <2>2
    <2>6. c = i
      BY <2>1, <2>2, <2>3, <2>4, <2>5
    <2> QED
      BY <2>6 DEF c
  <1> HIDE DEF Of
  <1>9. 0 \in T
    <2>1. To(0) = {}
      <3>1. \A j \in left : j \in 1 .. n
        BY <1>6
      <3>2. \A j \in left : ~(j <= 0)
        BY <1>1, <3>1
      <3> QED
        BY <3>2
    <2> HIDE DEF To
    <2>2. Cardinality(To(0)) = 0
      BY <2>1, FS_EmptySet
    <2>3. <<>> \in Seq(Aces) /\ Len(<<>>) = 0
      OBVIOUS
    <2>4. \A k \in 1 .. 0 : U[0][k] = Of(k)
      OBVIOUS
    <2>5. P(0)
      BY <1>4, <2>2, <2>3, <2>4
    <2> HIDE DEF P
    <2> QED
      BY <2>5
  <1>10. ASSUME NEW i \in T PROVE i + 1 \in T
    <2> SUFFICES ASSUME i + 1 <= n PROVE P(i + 1)
      OBVIOUS
    <2> DEFINE l == i + 1
    <2>1. i \in Nat /\ l \in Nat /\ l \in 1 .. n /\ l - 1 = i /\ i <= n
      BY <1>1
    <2>2. P(i)
      BY <2>1
    <2>3. U[l] = IF l \in left THEN Append(U[i], faces[l]) ELSE U[i]
      BY <1>4, <2>1
    <2>4. CASE l \notin left
      <3>1. To(l) = To(i)
        <4>1. \A j \in left : j \in Nat /\ j # l
          BY <1>5, <2>4
        <4>2. \A j \in left : j <= l <=> j <= i
          <5> HIDE DEF l
          <5> QED
            BY <2>1, <4>1
        <4> HIDE DEF l
        <4> QED
          BY <4>2
      <3> HIDE DEF To, l
      <3>2. U[l] = U[i]
        BY <2>3, <2>4
      <3>3. P(l)
        BY <2>2, <3>1, <3>2
      <3> QED
        BY <3>3 DEF l
    <2>5. CASE l \in left
      <3> DEFINE c == Cardinality(To(i))
                 s == U[i]
                 a == faces[l]
      <3>1. To(l) = To(i) \cup {l} /\ l \notin To(i)
        <4>1. \A j \in left : j \in Nat
          BY <1>5
        <4>2. (\A j \in left : j <= l <=> j <= i \/ j = l) /\ ~(l <= i)
          BY <2>1, <4>1
        <4> HIDE DEF l
        <4> QED
          BY <2>5, <4>2
      <3>2. Before(l) = To(i)
        <4>1. \A j \in left : j \in Nat
          BY <1>5
        <4>2. \A j \in left : j < l <=> j <= i
          BY <2>1, <4>1
        <4> HIDE DEF l
        <4> QED
          BY <4>2
      <3>3. Of(c + 1) = a
        BY <1>8, <2>5, <3>2
      <3> HIDE DEF To, l, Before
      <3>4. c \in Nat /\ Cardinality(To(l)) = c + 1
        BY <1>7, <2>1, <3>1, FS_AddElement
      <3>5. s \in Seq(Aces) /\ Len(s) = c /\ \A k \in 1 .. c : s[k] = Of(k)
        BY <2>2
      <3>6. a \in Aces
        BY <1>1, <2>1
      <3>7. U[l] = Append(s, a)
        BY <2>3, <2>5
      <3> HIDE DEF c, s, a
      <3>8. /\ Append(s, a) \in Seq(Aces) /\ Len(Append(s, a)) = Len(s) + 1
            /\ \A k \in 1 .. Len(s) : Append(s, a)[k] = s[k]
            /\ Append(s, a)[Len(s) + 1] = a
        BY <3>5, <3>6, AppendProperties
      <3>9. \A k \in 1 .. c + 1 : Append(s, a)[k] = Of(k)
        <4> TAKE k \in 1 .. c + 1
        <4>1. k = c + 1 \/ k \in 1 .. c
          BY <3>4
        <4> QED
          BY <3>3, <3>5, <3>8, <4>1
      <3>10. P(l)
        BY <3>4, <3>5, <3>7, <3>8, <3>9
      <3> QED
        BY <3>10 DEF l
    <2> QED
      BY <2>4, <2>5
  <1>11. T = Nat
    <2> HIDE DEF T
    <2>1. T \in SUBSET Nat
      BY DEF T
    <2> QED
      BY <1>9, <1>10, <2>1, InductiveSet
  <1>12. P(n)
    <2>1. n \in T
      BY <1>1, <1>11
    <2> HIDE DEF P
    <2> QED
      BY <1>1, <2>1
  <1>13. To(n) = left
    <2>1. \A j \in left : j \in 1 .. n
      BY <1>6
    <2>2. \A j \in left : j <= n
      BY <1>1, <2>1
    <2> QED
      BY <2>2
  <1> DEFINE c == Cardinality(left)
             s == U[n]
  <1>14. s \in Seq(Aces) /\ Len(s) = c /\ \A k \in 1 .. c : s[k] = Of(k)
    <2> HIDE DEF To
    <2> QED
      BY <1>12, <1>13
  <1>15. s = [k \in 1 .. c |-> Of(k)]
    <2> HIDE DEF s, c
    <2>1. s = [k \in 1 .. c |-> s[k]]
      BY <1>14
    <2> QED
      BY <1>14, <2>1
  <1> QED
    BY <1>2, <1>5, <1>14, <1>15 DEF Of, left, n

(* What ace_modify has made of the i-th ACE after the first j given: the   *)
(* last of them like it, if it is the first of its like, or nothing new.   *)
Alike(faces, caces, i, j) == {k \in 1 .. j : SameSidAndType(faces[i], caces[k])}
Early(faces, i) == \E k \in 1 .. i - 1 : SameSidAndType(faces[k], faces[i])
Became(faces, caces, i, j, e) ==
  /\ Alike(faces, caces, i, j) = {} \/ Early(faces, i) => e = faces[i]
  /\ Alike(faces, caces, i, j) # {} /\ ~Early(faces, i) =>
       \E k \in Alike(faces, caces, i, j) :
         e = caces[k] /\ \A x \in Alike(faces, caces, i, j) : x <= k

(* It is of the same SID and type as it was, so that the next ACE given    *)
(* finds what it would have found.                                         *)
LEMMA BecameAlike ==
  ASSUME NEW faces, NEW caces, NEW i, NEW j, NEW e, Became(faces, caces, i, j, e)
  PROVE  SameSidAndType(faces[i], e)
PROOF
  <1>1. \A k \in Alike(faces, caces, i, j) : SameSidAndType(faces[i], caces[k])
    BY DEF Alike
  <1>2. SameSidAndType(faces[i], faces[i])
    BY DEF SameSidAndType
  <1> QED
    BY <1>1, <1>2 DEF Became

(* One more ACE given changes the first of its like.                       *)
LEMMA FirstBecomesIs ==
  ASSUME NEW faces \in Seq(Aces), NEW caces \in Seq(Aces), NEW j \in Nat, j + 1 <= Len(caces),
         NEW l \in Seq(Aces), Len(l) = Len(faces),
         \A i \in 1 .. Len(faces) : Became(faces, caces, i, j, l[i])
  PROVE  LET f == FirstBecomes(l, caces[j + 1])
         IN  /\ f \in Seq(Aces) /\ Len(f) = Len(faces)
             /\ \A i \in 1 .. Len(faces) : Became(faces, caces, i, j + 1, f[i])
PROOF
  <1> DEFINE n == Len(faces)
             c == caces[j + 1]
             f == FirstBecomes(l, c)
             hits == {i \in DOMAIN l : SameSidAndType(l[i], c)}
             Js(i, m) == Alike(faces, caces, i, m)
  <1> HIDE DEF Aces
  <1>1. /\ n \in Nat /\ DOMAIN l = 1 .. n /\ c \in Aces
        /\ \A i \in 1 .. n : l[i] \in Aces
    <2>1. j + 1 \in 1 .. Len(caces)
      OBVIOUS
    <2> QED
      BY <2>1, LenProperties, ElementOfSeq
  <1>2. f = IF hits = {} THEN l ELSE [l EXCEPT ![CHOOSE i \in hits : \A k \in hits : i <= k] = c]
    BY DEF FirstBecomes
  <1>3. \A i \in 1 .. n : SameSidAndType(faces[i], l[i])
    BY BecameAlike
  <1>4. \A i \in 1 .. n : i \in hits <=> SameSidAndType(faces[i], c)
    BY <1>1, <1>3 DEF SameSidAndType
  <1>5. hits \subseteq 1 .. n
    BY <1>1
  <1> HIDE DEF f, n, c, hits
  <1>6. \A i \in 1 .. n : i \notin hits => Js(i, j + 1) = Js(i, j)
    <2> SUFFICES ASSUME NEW i \in 1 .. n, i \notin hits PROVE Js(i, j + 1) = Js(i, j)
      OBVIOUS
    <2>1. ~SameSidAndType(faces[i], caces[j + 1])
      BY <1>4 DEF c
    <2>2. \A k \in Int : k \in 1 .. j + 1 <=> k \in 1 .. j \/ k = j + 1
      OBVIOUS
    <2>3. \A k \in 1 .. j + 1 : k \in Int
      OBVIOUS
    <2>4. \A k \in 1 .. j : k \in Int
      OBVIOUS
    <2> QED
      BY <2>1, <2>2, <2>3, <2>4 DEF Alike
  <1>7. \A i \in 1 .. n : i \in hits =>
          j + 1 \in Js(i, j + 1) /\ \A k \in Js(i, j + 1) : k <= j + 1
    <2> SUFFICES ASSUME NEW i \in 1 .. n, i \in hits
                 PROVE  j + 1 \in Js(i, j + 1) /\ \A k \in Js(i, j + 1) : k <= j + 1
      OBVIOUS
    <2>1. SameSidAndType(faces[i], caces[j + 1])
      BY <1>4 DEF c
    <2>2. j + 1 \in 1 .. j + 1 /\ \A k \in 1 .. j + 1 : k <= j + 1
      OBVIOUS
    <2> QED
      BY <2>1, <2>2 DEF Alike
  <1>8. CASE hits = {}
    <2>1. f = l
      BY <1>2, <1>8
    <2>2. ASSUME NEW i \in 1 .. n PROVE Became(faces, caces, i, j + 1, f[i])
      <3>1. Js(i, j + 1) = Js(i, j)
        BY <1>6, <1>8
      <3>2. Became(faces, caces, i, j, l[i])
        BY DEF n
      <3> QED
        BY <2>1, <3>1, <3>2 DEF Became
    <2> QED
      BY <2>1, <2>2 DEF f, n, c
  <1>9. CASE hits # {}
    <2> DEFINE h == CHOOSE i \in hits : \A k \in hits : i <= k
    <2>1. h \in hits /\ \A k \in hits : h <= k
      <3>1. hits \in SUBSET Nat
        BY <1>1, <1>5
      <3>2. \E i \in hits : \A k \in hits : i <= k
        BY <1>9, <3>1, LeastNatural
      <3> QED
        BY <3>2
    <2>2. f = [l EXCEPT ![h] = c]
      BY <1>2, <1>9
    <2> HIDE DEF h
    <2>3. h \in 1 .. n
      BY <1>5, <2>1
    <2>4. /\ f \in Seq(Aces) /\ Len(f) = n
          /\ \A i \in 1 .. n : f[i] = IF i = h THEN c ELSE l[i]
      <3>1. Len(l) = n
        BY DEF n
      <3>2. l \in [1 .. n -> Aces]
        BY <3>1
      <3>3. f \in [1 .. n -> Aces] /\ \A i \in 1 .. n : f[i] = IF i = h THEN c ELSE l[i]
        BY <1>1, <2>2, <2>3, <3>2
      <3>4. f \in Seq(Aces) /\ Len(f) = n
        BY <1>1, <3>3
      <3> QED
        BY <3>3, <3>4
    <2>5. ASSUME NEW i \in 1 .. n PROVE Became(faces, caces, i, j + 1, f[i])
      <3>0. Became(faces, caces, i, j, l[i])
        BY DEF n
      <3>1. CASE i \notin hits
        <4>1. Js(i, j + 1) = Js(i, j) /\ f[i] = l[i]
          BY <1>6, <2>1, <2>4, <3>1
        <4> QED
          BY <3>0, <4>1 DEF Became
      <3>2. CASE i = h
        <4>1. f[i] = caces[j + 1]
          BY <2>4, <3>2 DEF c
        <4>2. j + 1 \in Js(i, j + 1) /\ \A k \in Js(i, j + 1) : k <= j + 1
          BY <1>7, <2>1, <3>2
        <4>3. ~Early(faces, i)
          <5> SUFFICES ASSUME NEW k \in 1 .. i - 1, SameSidAndType(faces[k], faces[i]) PROVE FALSE
            BY DEF Early
          <5>1. k \in 1 .. n /\ ~(h <= k)
            BY <1>1, <2>3, <3>2
          <5>2. SameSidAndType(faces[i], c)
            BY <1>4, <2>1, <3>2
          <5>3. k \in hits
            BY <1>4, <5>1, <5>2 DEF SameSidAndType
          <5> QED
            BY <2>1, <5>1, <5>3
        <4> QED
          BY <4>1, <4>2, <4>3 DEF Became
      <3>3. CASE i \in hits /\ i # h
        <4>1. f[i] = l[i]
          BY <2>4, <3>3
        <4>2. Early(faces, i)
          <5>1. h \in 1 .. i - 1
            BY <1>1, <2>1, <2>3, <3>3
          <5>2. SameSidAndType(faces[h], c) /\ SameSidAndType(faces[i], c)
            BY <1>4, <2>1, <2>3, <3>3
          <5>3. SameSidAndType(faces[h], faces[i])
            BY <5>2 DEF SameSidAndType
          <5> QED
            BY <5>1, <5>3 DEF Early
        <4> QED
          BY <3>0, <4>1, <4>2 DEF Became
      <3> QED
        BY <3>1, <3>2, <3>3
    <2> QED
      BY <2>4, <2>5 DEF f, n, c
  <1> QED
    BY <1>8, <1>9

(* So the last ACE given wins, and only the first of its like is modified. *)
LEMMA ModifiedIsAsked ==
  ASSUME NEW faces \in Seq(Aces), NEW caces \in Seq(Aces)
  PROVE  /\ Modified(faces, caces) = LastReplacesFirst(faces, caces)
         /\ Modified(faces, caces) \in Seq(Aces) /\ Len(Modified(faces, caces)) = Len(faces)
PROOF
  <1> DEFINE n == Len(faces)
             m == Len(caces)
             IsAfter(f) == f = [j \in 0 .. m |-> IF j = 0 THEN faces
                                                 ELSE FirstBecomes(f[j - 1], caces[j])]
             A == CHOOSE f : IsAfter(f)
             V == {l \in Seq(Aces) : Len(l) = n}
  <1> HIDE DEF Aces
  <1>1. /\ n \in Nat /\ DOMAIN faces = 1 .. n /\ faces \in V
        /\ m \in Nat /\ DOMAIN caces = 1 .. m
        /\ \A j \in 1 .. m : caces[j] \in Aces
    BY LenProperties, ElementOfSeq
  <1>2. Modified(faces, caces) = A[m]
    BY DEF Modified
  <1>3. IsAfter(A)
    <2> DEFINE g == [jl \in Nat \X V |-> IF jl[1] \in 1 .. m THEN FirstBecomes(jl[2], caces[jl[1]])
                                         ELSE jl[2]]
    <2>1. \A l \in V : \A c \in Aces : FirstBecomes(l, c) \in V
      <3> SUFFICES ASSUME NEW l \in V, NEW c \in Aces PROVE FirstBecomes(l, c) \in V
        OBVIOUS
      <3> DEFINE hits == {i \in DOMAIN l : SameSidAndType(l[i], c)}
                 h == CHOOSE i \in hits : \A k \in hits : i <= k
      <3>1. FirstBecomes(l, c) = IF hits = {} THEN l ELSE [l EXCEPT ![h] = c]
        BY DEF FirstBecomes
      <3>2. l \in [1 .. n -> Aces]
        <4>1. l \in Seq(Aces) /\ Len(l) = n
          OBVIOUS
        <4> HIDE DEF n
        <4> QED
          BY <4>1
      <3> HIDE DEF hits, h
      <3>3. [l EXCEPT ![h] = c] \in [1 .. n -> Aces]
        BY <3>2
      <3> HIDE DEF n
      <3>4. [l EXCEPT ![h] = c] \in Seq(Aces) /\ Len([l EXCEPT ![h] = c]) = n
        BY <1>1, <3>3
      <3> QED
        BY <3>1, <3>4
    <2> HIDE DEF V
    <2>2. g \in [Nat \X V -> V]
      BY <1>1, <2>1
    <2>3. PICK f : Iterated(f, m, V, faces, g)
      <3> HIDE DEF g, m
      <3> QED
        BY <1>1, <2>2, IterationExists
    <2>4. f \in [0 .. m -> V] /\ f[0] = faces /\ \A j \in 1 .. m : f[j] = FirstBecomes(f[j - 1], caces[j])
      <3>1. \A j \in 1 .. m : j \in Nat /\ j - 1 \in 0 .. m
        BY <1>1
      <3>2. f \in [0 .. m -> V] /\ f[0] = faces /\ \A j \in 1 .. m : f[j] = g[<<j, f[j - 1]>>]
        <4> HIDE DEF g, m
        <4> QED
          BY <2>3 DEF Iterated
      <3>3. \A j \in 1 .. m : f[j - 1] \in V
        BY <3>1, <3>2
      <3>4. \A j \in 1 .. m : \A l \in V : g[<<j, l>>] = FirstBecomes(l, caces[j])
        BY <3>1
      <3> HIDE DEF g
      <3> QED
        BY <3>2, <3>3, <3>4
    <2> HIDE DEF g
    <2>5. IsAfter(f)
      <3>1. \A j \in 0 .. m : j # 0 => j \in 1 .. m
        BY <1>1
      <3>2. f = [j \in 0 .. m |-> f[j]]
        BY <2>4
      <3>3. \A j \in 0 .. m : f[j] = IF j = 0 THEN faces ELSE FirstBecomes(f[j - 1], caces[j])
        BY <2>4, <3>1
      <3> HIDE DEF m
      <3>4. [j \in 0 .. m |-> f[j]] =
              [j \in 0 .. m |-> IF j = 0 THEN faces ELSE FirstBecomes(f[j - 1], caces[j])]
        BY <3>3
      <3> QED
        BY <3>2, <3>4
    <2> HIDE DEF IsAfter
    <2> QED
      BY <2>5
  <1> HIDE DEF A, n, m
  <1> DEFINE P(j) == /\ A[j] \in Seq(Aces) /\ Len(A[j]) = n
                     /\ \A i \in 1 .. n : Became(faces, caces, i, j, A[j][i])
             T == {j \in Nat : j <= m => P(j)}
  <1>4. 0 \in T
    <2>1. A[0] = faces
      <3>1. 0 \in 0 .. m
        BY <1>1
      <3> QED
        BY <1>3, <3>1
    <2>2. \A i \in 1 .. n : Alike(faces, caces, i, 0) = {}
      BY DEF Alike
    <2>3. \A i \in 1 .. n : Became(faces, caces, i, 0, faces[i])
      BY <2>2 DEF Became
    <2>4. Len(faces) = n
      BY DEF n
    <2> QED
      BY <2>1, <2>3, <2>4
  <1>5. ASSUME NEW j \in T PROVE j + 1 \in T
    <2>0. j \in Nat
      OBVIOUS
    <2> SUFFICES ASSUME j + 1 <= m PROVE P(j + 1)
      BY <2>0
    <2>1. P(j)
      BY <1>1, <2>0
    <2>2. A[j + 1] = FirstBecomes(A[j], caces[j + 1])
      <3> DEFINE k == j + 1
      <3>1. k \in 0 .. m /\ k # 0 /\ k - 1 = j
        BY <1>1, <2>0
      <3> HIDE DEF k
      <3>2. A[k] = FirstBecomes(A[k - 1], caces[k])
        BY <1>3, <3>1
      <3> QED
        BY <3>1, <3>2 DEF k
    <2> DEFINE l == A[j]
    <2>3. l \in Seq(Aces) /\ Len(l) = n /\ \A i \in 1 .. n : Became(faces, caces, i, j, l[i])
      BY <2>1
    <2> HIDE DEF l
    <2>4. LET f == FirstBecomes(l, caces[j + 1])
          IN  /\ f \in Seq(Aces) /\ Len(f) = Len(faces)
              /\ \A i \in 1 .. Len(faces) : Became(faces, caces, i, j + 1, f[i])
      <3>1. j + 1 <= Len(caces)
        BY DEF m
      <3> QED
        BY <2>0, <2>3, <3>1, FirstBecomesIs DEF n
    <2> QED
      BY <2>2, <2>4 DEF n, l
  <1>6. T = Nat
    <2> HIDE DEF T
    <2>1. T \in SUBSET Nat
      BY DEF T
    <2> QED
      BY <1>4, <1>5, <2>1, InductiveSet
  <1>7. P(m)
    <2>1. m \in T
      BY <1>1, <1>6
    <2> HIDE DEF P
    <2> QED
      BY <1>1, <2>1
  <1> DEFINE Js(i) == {j \in DOMAIN caces : SameSidAndType(faces[i], caces[j])}
             Want(i) == IF Js(i) = {} \/ \E k \in 1 .. i - 1 : SameSidAndType(faces[k], faces[i])
                        THEN faces[i] ELSE caces[CHOOSE j \in Js(i) : \A k \in Js(i) : k <= j]
             l == A[m]
  <1>8. l \in Seq(Aces) /\ Len(l) = n /\ \A i \in 1 .. n : Became(faces, caces, i, m, l[i])
    BY <1>7
  <1>9. ASSUME NEW i \in 1 .. n PROVE l[i] = Want(i)
    <2>1. Alike(faces, caces, i, m) = Js(i)
      BY <1>1 DEF Alike
    <2>2. Became(faces, caces, i, m, l[i])
      BY <1>8
    <2>3. \A k \in Js(i) : k \in Int
      BY <1>1
    <2> HIDE DEF l, Js
    <2>4. CASE Js(i) = {} \/ Early(faces, i)
      <3>1. l[i] = faces[i]
        BY <2>1, <2>2, <2>4 DEF Became
      <3> QED
        BY <2>4, <3>1 DEF Early
    <2>5. CASE ~(Js(i) = {} \/ Early(faces, i))
      <3>1. PICK k \in Js(i) : l[i] = caces[k] /\ \A x \in Js(i) : x <= k
        BY <2>1, <2>2, <2>5 DEF Became
      <3> DEFINE c == CHOOSE j \in Js(i) : \A x \in Js(i) : x <= j
      <3>2. c \in Js(i) /\ \A x \in Js(i) : x <= c
        BY <3>1
      <3>3. Want(i) = caces[c]
        BY <2>5 DEF Early
      <3> HIDE DEF c, Want
      <3>4. c \in Int /\ k \in Int /\ c <= k /\ k <= c
        BY <2>3, <3>1, <3>2
      <3>5. c = k
        BY <3>4
      <3> QED
        BY <3>1, <3>3, <3>5
    <2> QED
      BY <2>4, <2>5
  <1>10. l = [i \in 1 .. n |-> Want(i)]
    <2> HIDE DEF l, Want
    <2>1. l = [i \in 1 .. n |-> l[i]]
      BY <1>8
    <2> QED
      BY <1>9, <2>1
  <1>11. l = LastReplacesFirst(faces, caces)
    BY <1>1, <1>10 DEF LastReplacesFirst
  <1> QED
    BY <1>2, <1>8, <1>11 DEF n
-----------------------------------------------------------------------------
(* Whatever it reads and is given, and whichever way the server lays       *)
(* descriptors out, setcifsacl sends what was asked for.                   *)
LEMMA SendsAsked ==
  ASSUME NEW d \in Descriptors, NEW cmd, cmd.op \in Operations, cmd.aces \in Seq(Aces),
         layout \in {"daclLast", "daclFirst"}, Apart(d, cmd)
  PROVE  LET sent == Unmarshal(SetaclAction(cmd.op, Marshal(d, layout), d.aces, cmd.aces))
         IN  /\ sent \subseteq {Asked(d, cmd)}
             /\ Suits(d, cmd) => sent = {Asked(d, cmd)}
PROOF
  <1> DEFINE mem == Marshal(d, layout)
             faces == d.aces
             caces == cmd.aces
             aces == AskedAces(d, cmd)
             sent == Unmarshal(SetaclAction(cmd.op, mem, faces, caces))
             room == IF cmd.op = "add" THEN Len(aces) ELSE IF cmd.op = "set" THEN Len(caces) ELSE Len(faces)
             offset == IF cmd.op = "set" THEN Spread(aces) ELSE Packed(aces)
  <1>1. faces \in Seq(Aces) /\ caces \in Seq(Aces)
    BY DEF Descriptors
  <1>2. Len(faces) \in Nat /\ Len(caces) \in Nat
    <2> HIDE DEF Aces
    <2> QED
      BY <1>1, LenProperties
  <1>3. /\ aces \in Seq(Aces) /\ room \in Nat /\ Len(aces) <= room
        /\ sent = Unmarshal(Rebuilt(mem, room, aces, offset))
        /\ cmd.op # "set" => Len(faces) <= room
        /\ cmd.op = "set" => aces = caces
    <2>1. CASE cmd.op = "add"
      <3>1. aces = faces \o caces
        BY <2>1 DEF AskedAces
      <3>2. aces \in Seq(Aces) /\ Len(aces) = Len(faces) + Len(caces)
        <4> HIDE DEF Aces
        <4>1. faces \o caces \in Seq(Aces) /\ Len(faces \o caces) = Len(faces) + Len(caces)
          BY <1>1, ConcatProperties
        <4> QED
          BY <3>1, <4>1
      <3>3. SetaclAction(cmd.op, mem, faces, caces) = Rebuilt(mem, room, aces, offset)
        BY <2>1, <3>1 DEF SetaclAction, AceAdd
      <3>4. room = Len(aces)
        BY <2>1
      <3> HIDE DEF aces, room, offset, Aces, faces, caces, mem
      <3>5. Len(aces) \in Nat /\ Len(aces) <= Len(aces) /\ Len(faces) <= Len(aces)
        BY <1>2, <3>2
      <3> QED
        BY <2>1, <3>2, <3>3, <3>4, <3>5
    <2>2. CASE cmd.op = "set"
      <3>1. aces = caces
        BY <2>2 DEF AskedAces
      <3>2. SetaclAction(cmd.op, mem, faces, caces) = Rebuilt(mem, room, aces, offset)
        BY <2>2, <3>1 DEF SetaclAction, AceSet
      <3>3. room = Len(caces)
        BY <2>2
      <3> HIDE DEF aces, room, offset, Aces, faces, caces, mem
      <3>4. Len(caces) <= Len(caces)
        BY <1>2
      <3> QED
        BY <1>1, <1>2, <2>2, <3>1, <3>2, <3>3, <3>4
    <2>3. CASE cmd.op = "delete"
      <3>1. aces = Kept(faces, caces) /\ aces \in Seq(Aces) /\ Len(aces) <= Len(faces)
        BY <1>1, <2>3, KeptIsAsked DEF AskedAces
      <3>2. SetaclAction(cmd.op, mem, faces, caces) = Rebuilt(mem, room, aces, offset)
        <4> HIDE DEF aces
        <4> QED
          BY <2>3, <3>1 DEF SetaclAction, AceDelete
      <3>3. room = Len(faces)
        BY <2>3
      <3> HIDE DEF aces, room, offset, Aces, faces, caces, mem
      <3>4. Len(faces) <= Len(faces)
        BY <1>2
      <3> QED
        BY <1>2, <2>3, <3>1, <3>2, <3>3, <3>4
    <2>4. CASE cmd.op = "modify"
      <3>1. aces = Modified(faces, caces) /\ aces \in Seq(Aces) /\ Len(aces) = Len(faces)
        <4>1. aces = LastReplacesFirst(faces, caces)
          BY <2>4 DEF AskedAces
        <4> HIDE DEF aces, faces, caces, Aces
        <4> QED
          BY <1>1, <4>1, ModifiedIsAsked
      <3>2. SetaclAction(cmd.op, mem, faces, caces) = Rebuilt(mem, room, aces, offset)
        <4> HIDE DEF aces
        <4> QED
          BY <2>4, <3>1 DEF SetaclAction, AceModify
      <3>3. room = Len(faces)
        BY <2>4
      <3> HIDE DEF aces, room, offset, Aces, faces, caces, mem
      <3>4. Len(faces) <= Len(faces)
        BY <1>2
      <3> QED
        BY <1>2, <2>4, <3>1, <3>2, <3>3, <3>4
    <2> QED
      BY <2>1, <2>2, <2>3, <2>4 DEF Operations
  <1>4. ApartAt(aces, Packed(aces)) /\ ApartAt(aces, Spread(aces))
    <2> HIDE DEF aces
    <2> QED
      BY <1>3, PackedIs
  <1>5. ApartAt(aces, offset)
    <2> HIDE DEF aces
    <2> QED
      BY <1>4
  <1>6. Asked(d, cmd) = [d EXCEPT !.aces = aces]
    BY DEF Asked
  <1>7. CASE ~d.dacl
    <2>1. ~Suits(d, cmd)
      BY <1>7 DEF Suits
    <2> HIDE DEF aces, room, offset
    <2>2. Unmarshal(Rebuilt(Marshal(d, layout), room, aces, offset)) = {}
      BY <1>3, <1>5, <1>7, NoDacl
    <2> QED
      BY <1>3, <2>1, <2>2
  <1>8. CASE d.dacl
    <2>1. StaysApart(d, layout, aces)
      BY <1>8 DEF Apart, StaysApart
    <2>2. Suits(d, cmd) => StaysWhole(d, layout, room)
      <3> SUFFICES ASSUME Suits(d, cmd) PROVE StaysWhole(d, layout, room)
        OBVIOUS
      <3>1. layout = "daclLast" => NumSub[d.group] = 5
        BY DEF Suits
      <3>2. CASE cmd.op = "set"
        <4>1. room = Len(cmd.aces)
          BY <3>2
        <4>2. layout = "daclFirst" => Len(Marshal(d, layout)) <= Len(Fresh(Len(cmd.aces)))
          BY <3>2 DEF Suits
        <4> HIDE DEF room
        <4> QED
          BY <3>1, <4>1, <4>2 DEF StaysWhole
      <3>3. CASE cmd.op # "set"
        <4> HIDE DEF room
        <4>1. room \in Nat /\ Len(d.aces) <= room
          BY <1>3, <3>3
        <4> QED
          BY <1>8, <3>1, <4>1, RoomForAll
      <3> QED
        BY <3>2, <3>3
    <2>3. CASE cmd.op = "set"
      <3>1. offset = Spread(aces)
        BY <2>3
      <3>2. Suits(d, cmd) => \A i \in 1 .. Len(aces) - 1 : NumSub[aces[i].sid] = 5
        <4>1. Suits(d, cmd) => \A i \in 1 .. Len(caces) - 1 : NumSub[caces[i].sid] = 5
          BY <2>3 DEF Suits
        <4> HIDE DEF aces, caces
        <4> QED
          BY <1>3, <2>3, <4>1
      <3> HIDE DEF aces, room, offset, sent
      <3>3. LET s == Unmarshal(Rebuilt(Marshal(d, layout), room, aces, Spread(aces)))
            IN  /\ s \subseteq {[d EXCEPT !.aces = aces]}
                /\ StaysWhole(d, layout, room) /\ (\A i \in 1 .. Len(aces) - 1 : NumSub[aces[i].sid] = 5)
                   => s = {[d EXCEPT !.aces = aces]}
        BY <1>3, <2>1, SpreadMeans
      <3>4. sent = Unmarshal(Rebuilt(Marshal(d, layout), room, aces, Spread(aces)))
        BY <1>3, <3>1
      <3> QED
        BY <1>6, <2>2, <3>2, <3>3, <3>4 DEF sent
    <2>4. CASE cmd.op # "set"
      <3>1. offset = Packed(aces)
        BY <2>4
      <3> HIDE DEF aces, room, offset, sent
      <3>3. LET s == Unmarshal(Rebuilt(Marshal(d, layout), room, aces, Packed(aces)))
            IN  /\ s \subseteq {[d EXCEPT !.aces = aces]}
                /\ StaysWhole(d, layout, room) => s = {[d EXCEPT !.aces = aces]}
        BY <1>3, <2>1, PackedMeans
      <3>4. sent = Unmarshal(Rebuilt(Marshal(d, layout), room, aces, Packed(aces)))
        BY <1>3, <3>1
      <3> QED
        BY <1>6, <2>2, <3>3, <3>4 DEF sent
    <2> QED
      BY <2>3, <2>4
  <1> QED
    BY <1>7, <1>8
-----------------------------------------------------------------------------
(* What a server makes of words is a descriptor.                           *)
LEMMA ListsAreLists ==
  ASSUME NEW mem, NEW o, NEW n \in Nat
  PROVE  ListsAt(mem, o, n) \subseteq Seq(Aces)
PROOF
  <1> DEFINE Longer(S) ==
               UNION {{Append(l, a) : a \in AcesAt(mem, o + Len(AcesWords(l)))} : l \in S}
             IsFirst(first, m) ==
               first = [k \in 0 .. m |-> IF k = 0 THEN {<<>>} ELSE Longer(first[k - 1])]
             Defined == {m \in Nat : \E first : IsFirst(first, m)}
  <1>0. ASSUME NEW S \in SUBSET Seq(Aces) PROVE Longer(S) \subseteq Seq(Aces)
    BY DEF AcesAt
  <1>1. ListsAt(mem, o, n) = (CHOOSE first : IsFirst(first, n))[n]
    BY DEF ListsAt
  <1> HIDE DEF Longer
  <1>2. 0 \in Defined
    <2>1. IsFirst([k \in 0 .. 0 |-> {<<>>}], 0)
      OBVIOUS
    <2> QED
      BY <2>1
  <1>3. ASSUME NEW m \in Defined PROVE m + 1 \in Defined
    <2>1. PICK first : IsFirst(first, m)
      OBVIOUS
    <2> DEFINE more == [k \in 0 .. m + 1 |-> IF k = 0 THEN {<<>>} ELSE Longer(first[k - 1])]
    <2>0. \A k \in 0 .. m : k \in 0 .. m + 1
      OBVIOUS
    <2>2. \A k \in 0 .. m : more[k] = first[k]
      BY <2>0, <2>1
    <2>3. \A k \in 0 .. m + 1 : k # 0 => k - 1 \in 0 .. m
      OBVIOUS
    <2>4. \A k \in 0 .. m + 1 : k # 0 => more[k - 1] = first[k - 1]
      BY <2>2, <2>3
    <2>5. more = [k \in 0 .. m + 1 |-> IF k = 0 THEN {<<>>} ELSE Longer(more[k - 1])]
      BY <2>4
    <2>6. IsFirst(more, m + 1)
      BY <2>5
    <2> HIDE DEF more, IsFirst
    <2> QED
      BY <2>6
  <1>4. \E first : IsFirst(first, n)
    <2> HIDE DEF Defined
    <2>1. Defined \in SUBSET Nat
      BY DEF Defined
    <2>2. Defined = Nat
      BY <1>2, <1>3, <2>1, InductiveSet
    <2> QED
      BY <2>2 DEF Defined
  <1>5. PICK first : IsFirst(first, n) /\ ListsAt(mem, o, n) = first[n]
    <2> DEFINE first == CHOOSE first : IsFirst(first, n)
    <2>1. IsFirst(first, n)
      BY <1>4
    <2> QED
      BY <1>1, <2>1
  <1> DEFINE Listed == {k \in Nat : k <= n => first[k] \subseteq Seq(Aces)}
  <1>6. 0 \in Listed
    <2>1. first[0] = {<<>>}
      BY <1>5
    <2>2. <<>> \in Seq(Aces)
      OBVIOUS
    <2> QED
      BY <2>1, <2>2
  <1>7. ASSUME NEW k \in Listed PROVE k + 1 \in Listed
    <2> SUFFICES ASSUME k + 1 <= n PROVE first[k + 1] \subseteq Seq(Aces)
      OBVIOUS
    <2>1. k + 1 \in 0 .. n /\ k + 1 # 0 /\ (k + 1) - 1 = k /\ k <= n
      OBVIOUS
    <2>2. first[k + 1] = Longer(first[k])
      BY <1>5, <2>1
    <2> QED
      BY <1>0, <2>1, <2>2
  <1>8. Listed = Nat
    <2> HIDE DEF Listed
    <2>1. Listed \in SUBSET Nat
      BY DEF Listed
    <2> QED
      BY <1>6, <1>7, <2>1, InductiveSet
  <1>9. n <= n => first[n] \subseteq Seq(Aces)
    BY <1>8
  <1> HIDE DEF IsFirst
  <1> QED
    BY <1>5, <1>9

(* A server keeps descriptors only.                                        *)
LEMMA UnmarshalType ==
  ASSUME NEW mem
  PROVE  Unmarshal(mem) \subseteq Descriptors
PROOF
  <1> SUFFICES ASSUME NEW d \in Unmarshal(mem) PROVE d \in Descriptors
    OBVIOUS
  <1> DEFINE num == Get(mem, dacloffset(mem) + 1)
  <1>1. num[2] \in Nat
    BY DEF Unmarshal
  <1>2. PICK o \in SidsAt(mem, osidoffset(mem)), g \in SidsAt(mem, gsidoffset(mem)),
             l \in ListsAt(mem, dacloffset(mem) + CTRL, num[2]) :
          d = [owner |-> o, group |-> g, dacl |-> TRUE, aces |-> l]
    BY DEF Unmarshal
  <1>3. l \in Seq(Aces)
    BY <1>1, <1>2, ListsAreLists
  <1> QED
    BY <1>2, <1>3 DEF Descriptors, SidsAt

(* The file stays a descriptor, whatever setcifsacl sends.                 *)
LEMMA FileStep == file \in Descriptors /\ ANext => file' \in Descriptors
PROOF
  <1> SUFFICES ASSUME file \in Descriptors, NEW t \in Tools, AStep(t)
               PROVE  file' \in Descriptors
    BY DEF ANext
  <1>1. CASE ParseCommand(t)
    BY <1>1 DEF ParseCommand
  <1>2. CASE GetXattr(t)
    BY <1>2 DEF GetXattr
  <1>3. CASE SetXattr(t)
    BY <1>3, UnmarshalType DEF SetXattr
  <1> QED
    BY <1>1, <1>2, <1>3 DEF AStep
-----------------------------------------------------------------------------
Tool ==
  [pc : {"start", "reading", "writing", "done"},
   cmd : [op : Operations, aces : Seq(Aces)], buf : Nat, attrval : Descriptors \cup {Unread}]

(* What a setcifsacl that writes has read is a descriptor.                 *)
ToolsInv ==
  /\ file \in Descriptors
  /\ layout \in {"daclLast", "daclFirst"}
  /\ tool \in [Tools -> Tool]
  /\ \A t \in Tools : tool[t].pc = "writing" => tool[t].attrval \in Descriptors

LEMMA WaitingType == Waiting \in Tool
PROOF
  <1> DEFINE C == [op : Operations, aces : Seq(Aces)]
             D == Descriptors \cup {Unread}
  <1>1. NoCommand \in C
    BY DEF NoCommand, Operations
  <1>2. BUFSIZE \in Nat /\ Unread \in D
    BY CifsAclAssumption
  <1>3. Tool = [pc : {"start", "reading", "writing", "done"}, cmd : C, buf : Nat, attrval : D]
    BY DEF Tool
  <1> HIDE DEF C, D
  <1> QED
    BY <1>1, <1>2, <1>3 DEF Waiting

LEMMA ToolsInit == AInit => ToolsInv
PROOF
  <1> SUFFICES ASSUME AInit PROVE ToolsInv
    OBVIOUS
  <1>1. file \in Descriptors /\ layout \in {"daclLast", "daclFirst"}
    BY CifsAclAssumption DEF AInit
  <1>2. tool = [t \in Tools |-> Waiting]
    BY DEF AInit
  <1>3. Waiting.pc = "start"
    BY DEF Waiting
  <1>4. tool \in [Tools -> Tool]
    BY <1>2, WaitingType
  <1> QED
    BY <1>1, <1>2, <1>3, <1>4 DEF ToolsInv

(* A step of one setcifsacl that leaves it with a record like that.        *)
LEMMA ToolMoved ==
  ASSUME ToolsInv, NEW t \in Tools, NEW r \in Tool, r.pc = "writing" => r.attrval \in Descriptors,
         tool' = [tool EXCEPT ![t] = r], file' \in Descriptors, layout' = layout
  PROVE  ToolsInv'
PROOF
  <1>1. tool' \in [Tools -> Tool]
    BY DEF ToolsInv
  <1>2. ASSUME NEW u \in Tools, tool'[u].pc = "writing" PROVE tool'[u].attrval \in Descriptors
    <2>1. tool'[u] = IF u = t THEN r ELSE tool[u]
      BY DEF ToolsInv
    <2> QED
      BY <1>2, <2>1 DEF ToolsInv
  <1> QED
    BY <1>1, <1>2 DEF ToolsInv

LEMMA ToolsStep == ToolsInv /\ [ANext]_avars => ToolsInv'
PROOF
  <1> SUFFICES ASSUME ToolsInv, [ANext]_avars PROVE ToolsInv'
    OBVIOUS
  <1>1. CASE UNCHANGED avars
    BY <1>1 DEF avars, ToolsInv
  <1>2. ASSUME NEW t \in Tools, AStep(t) PROVE ToolsInv'
    <2> DEFINE old == tool[t]
               C == [op : Operations, aces : Seq(Aces)]
               D == Descriptors \cup {Unread}
               Pcs == {"start", "reading", "writing", "done"}
    <2>1. tool \in [Tools -> Tool] /\ old \in Tool /\ file \in Descriptors
      BY DEF ToolsInv
    <2>2. Tool = [pc : Pcs, cmd : C, buf : Nat, attrval : D]
      BY DEF Tool
    <2>3. file' \in Descriptors
      BY <1>2, <2>1, FileStep DEF ANext
    <2>4. ASSUME End(t), layout' = layout PROVE ToolsInv'
      <3> DEFINE r == [Waiting EXCEPT !.pc = "done"]
      <3>1. r \in Tool /\ r.pc = "done"
        <4> HIDE DEF C, D
        <4>1. Waiting \in [pc : Pcs, cmd : C, buf : Nat, attrval : D]
          BY <2>2, WaitingType
        <4> QED
          BY <2>2, <4>1
      <3>2. tool' = [tool EXCEPT ![t] = r]
        BY <2>4 DEF End
      <3> HIDE DEF r
      <3> QED
        BY <2>3, <2>4, <3>1, <3>2, ToolMoved
    <2>5. CASE ParseCommand(t)
      <3>1. layout' = layout
        BY <2>5 DEF ParseCommand
      <3>2. ASSUME NEW c \in Commands, NEW aces \in BuiltFrom(c.aces),
                   tool' = [tool EXCEPT ![t].pc = "reading", ![t].cmd = [op |-> c.op, aces |-> aces]]
            PROVE  ToolsInv'
        <4> DEFINE cmd == [op |-> c.op, aces |-> aces]
                   r == [old EXCEPT !.pc = "reading", !.cmd = cmd]
        <4>1. cmd \in C
          <5>1. c.op \in Operations /\ c.aces \in Seq(Aces)
            BY CifsAclAssumption
          <5>2. aces \in Seq(Aces)
            <6> HIDE DEF Aces
            <6>1. DOMAIN c.aces = 1 .. Len(c.aces) /\ Len(c.aces) \in Nat
              BY <5>1, LenProperties
            <6>2. aces \in [1 .. Len(c.aces) -> Aces]
              BY <6>1 DEF BuiltFrom
            <6> QED
              BY <6>1, <6>2
          <5> QED
            BY <5>1, <5>2
        <4>2. tool' = [tool EXCEPT ![t] = r]
          BY <2>1, <3>2
        <4> HIDE DEF C, D, cmd
        <4>3. r \in Tool /\ r.pc = "reading"
          BY <2>1, <2>2, <4>1
        <4> HIDE DEF r
        <4> QED
          BY <2>3, <3>1, <4>2, <4>3, ToolMoved
      <3> QED
        BY <2>4, <2>5, <3>1, <3>2 DEF ParseCommand
    <2>6. CASE GetXattr(t)
      <3>1. layout' = layout
        BY <2>6 DEF GetXattr
      <3>2. ASSUME tool' = [tool EXCEPT ![t].buf = @ + BUFSIZE], old.pc = "reading" PROVE ToolsInv'
        <4> DEFINE r == [old EXCEPT !.buf = @ + BUFSIZE]
        <4>1. tool' = [tool EXCEPT ![t] = r]
          BY <2>1, <3>2
        <4>2. BUFSIZE \in Nat
          BY CifsAclAssumption
        <4> HIDE DEF C, D
        <4>3. r \in Tool /\ r.pc = "reading"
          BY <2>1, <2>2, <3>2, <4>2
        <4> HIDE DEF r
        <4> QED
          BY <2>3, <3>1, <4>1, <4>3, ToolMoved
      <3>3. ASSUME tool' = [tool EXCEPT ![t].pc = "writing", ![t].attrval = file] PROVE ToolsInv'
        <4> DEFINE r == [old EXCEPT !.pc = "writing", !.attrval = file]
        <4>1. tool' = [tool EXCEPT ![t] = r]
          BY <2>1, <3>3
        <4>2. file \in D
          BY <2>1
        <4> HIDE DEF C, D
        <4>3. r \in Tool /\ r.attrval = file
          BY <2>1, <2>2, <4>2
        <4> HIDE DEF r
        <4> QED
          BY <2>1, <2>3, <3>1, <4>1, <4>3, ToolMoved
      <3> QED
        BY <2>4, <2>6, <3>1, <3>2, <3>3 DEF GetXattr
    <2>7. CASE SetXattr(t)
      <3>1. layout' = layout /\ End(t)
        BY <2>7 DEF SetXattr
      <3> QED
        BY <2>4, <3>1
    <2> QED
      BY <1>2, <2>5, <2>6, <2>7 DEF AStep
  <1> QED
    BY <1>1, <1>2 DEF ANext

LEMMA SendsFollows == ToolsInv => SendsWhatWasAsked
PROOF
  <1> SUFFICES ASSUME ToolsInv, NEW t \in Tools,
                      tool[t].pc = "writing", Apart(tool[t].attrval, tool[t].cmd)
               PROVE  LET d == tool[t].attrval
                          cmd == tool[t].cmd
                          sent == Unmarshal(NewDescriptor(t))
                      IN  /\ sent \subseteq {Asked(d, cmd)}
                          /\ Suits(d, cmd) => sent = {Asked(d, cmd)}
    BY DEF SendsWhatWasAsked
  <1> DEFINE d == tool[t].attrval
             cmd == tool[t].cmd
  <1>1. d \in Descriptors /\ layout \in {"daclLast", "daclFirst"}
    BY DEF ToolsInv
  <1>2. cmd.op \in Operations /\ cmd.aces \in Seq(Aces)
    <2> DEFINE S == Seq(Aces)
               D == Descriptors \cup {Unread}
    <2>1. tool[t] \in [pc : {"start", "reading", "writing", "done"},
                       cmd : [op : Operations, aces : S], buf : Nat, attrval : D]
      BY DEF ToolsInv, Tool
    <2> HIDE DEF S, D
    <2>2. cmd.op \in Operations /\ cmd.aces \in S
      BY <2>1
    <2> QED
      BY <2>2 DEF S
  <1>3. NewDescriptor(t) = SetaclAction(cmd.op, Marshal(d, layout), d.aces, cmd.aces)
    BY DEF NewDescriptor
  <1>4. Apart(d, cmd)
    OBVIOUS
  <1> HIDE DEF d, cmd
  <1>5. LET sent == Unmarshal(SetaclAction(cmd.op, Marshal(d, layout), d.aces, cmd.aces))
        IN  /\ sent \subseteq {Asked(d, cmd)}
            /\ Suits(d, cmd) => sent = {Asked(d, cmd)}
    BY <1>1, <1>2, <1>4, SendsAsked
  <1> QED
    BY <1>3, <1>5 DEF d, cmd
=============================================================================
