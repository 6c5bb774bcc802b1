----------------------------- MODULE Asn1Proofs -----------------------------
(***************************************************************************)
(* What holds of the encoder and decoder for every document, every way in  *)
(* which its bytes may be damaged and every size of a byte and an int.     *)
(***************************************************************************)
EXTENDS Asn1, SequenceTheorems, SumTheorems

(* The recursive functions do what they say: the values of each are those  *)
(* of a function with the equations, and of the right type.                *)
IsPower(p, b, n) ==
  /\ p \in [0 .. n -> Nat \ {0}] /\ p[0] = 1
  /\ \A k \in 1 .. n : p[k] = b * p[k - 1]

LEMMA PowerSteps ==
  ASSUME NEW b \in Nat \ {0}, NEW n \in Nat
  PROVE  \E p : IsPower(p, b, n) /\ Power(b, n) = p[n]
PROOF
  <1> DEFINE V == Nat \ {0}
             Is(p) == p = [k \in 0 .. n |-> IF k = 0 THEN 1 ELSE b * p[k - 1]]
             g == [kv \in Nat \X V |-> b * kv[2]]
  <1>1. g \in [Nat \X V -> V] /\ 1 \in V
    <2>1. \A v \in V : b * v \in V
      OBVIOUS
    <2> HIDE DEF V
    <2> QED
      BY <2>1 DEF V
  <1>2. PICK f : Iterated(f, n, V, 1, g)
    <2> HIDE DEF V, g
    <2> QED
      BY <1>1, IterationExists
  <1>3. \A k \in 1 .. n : f[k] = b * f[k - 1]
    <2>1. \A k \in 1 .. n : k \in Nat /\ k - 1 \in 0 .. n /\ f[k - 1] \in V
      BY <1>2 DEF Iterated
    <2> QED
      BY <1>2, <2>1 DEF Iterated
  <1>4. Is(f)
    <2>1. \A k \in 0 .. n : k = 0 \/ k \in 1 .. n
      OBVIOUS
    <2> HIDE DEF g
    <2> QED
      BY <1>2, <1>3, <2>1 DEF Iterated
  <1> DEFINE p == CHOOSE p : Is(p)
  <1>5. Is(p) /\ Power(b, n) = p[n]
    BY <1>4 DEF Power
  <1> HIDE DEF p, g
  <1> DEFINE T == {k \in Nat : k <= n => p[k] \in V}
  <1>6. 0 \in T
    BY <1>5
  <1>7. ASSUME NEW k \in T PROVE k + 1 \in T
    <2> SUFFICES ASSUME k + 1 <= n PROVE p[k + 1] \in V
      OBVIOUS
    <2>1. k + 1 \in 0 .. n /\ k + 1 # 0 /\ (k + 1) - 1 = k /\ p[k] \in V
      OBVIOUS
    <2>2. p[k + 1] = b * p[k]
      BY <1>5, <2>1
    <2> QED
      BY <2>1, <2>2
  <1>8. T = Nat
    <2> HIDE DEF T
    <2>1. T \in SUBSET Nat
      BY DEF T
    <2> QED
      BY <1>6, <1>7, <2>1, InductiveSet
  <1>9. \A k \in 0 .. n : p[k] \in V
    BY <1>8
  <1>10. IsPower(p, b, n)
    <2>1. DOMAIN p = 0 .. n /\ p = [k \in 0 .. n |-> p[k]]
      BY <1>5
    <2>2. p \in [0 .. n -> Nat \ {0}]
      BY <1>9, <2>1
    <2>3. \A k \in 1 .. n : k \in 0 .. n /\ k # 0
      OBVIOUS
    <2> QED
      BY <1>5, <2>2, <2>3 DEF IsPower
  <1> QED
    BY <1>5, <1>10

LEMMA PowerType ==
  ASSUME NEW b \in Nat \ {0}, NEW n \in Nat
  PROVE  Power(b, n) \in Nat \ {0}
PROOF
  <1>1. PICK p : IsPower(p, b, n) /\ Power(b, n) = p[n]
    BY PowerSteps
  <1>2. n \in 0 .. n
    OBVIOUS
  <1> QED
    BY <1>1, <1>2 DEF IsPower

IsUnsigned(v, bytes) ==
  /\ v \in [0 .. Len(bytes) -> Nat] /\ v[0] = 0
  /\ \A k \in 1 .. Len(bytes) : v[k] = v[k - 1] * Base + bytes[k]

LEMMA UnsignedSteps ==
  ASSUME NEW bytes \in Seq(Nat)
  PROVE  \E v : IsUnsigned(v, bytes) /\ Unsigned(bytes) = v[Len(bytes)]
PROOF
  <1> DEFINE n == Len(bytes)
             IsValue(v) == v = [k \in 0 .. n |-> IF k = 0 THEN 0 ELSE v[k - 1] * Base + bytes[k]]
             g == [kv \in Nat \X Nat |->
                     kv[2] * Base + (IF kv[1] \in 1 .. n THEN bytes[kv[1]] ELSE 0)]
  <1>0. n \in Nat /\ Base \in Nat /\ \A k \in 1 .. n : bytes[k] \in Nat
    BY Asn1Assumption
  <1>1. g \in [Nat \X Nat -> Nat]
    BY <1>0
  <1>2. PICK f : Iterated(f, n, Nat, 0, g)
    <2> HIDE DEF g, n
    <2> QED
      BY <1>0, <1>1, IterationExists
  <1>3. \A k \in 1 .. n : f[k] = f[k - 1] * Base + bytes[k]
    <2>1. \A k \in 1 .. n : k \in Nat /\ k - 1 \in 0 .. n /\ f[k - 1] \in Nat
      <3> HIDE DEF n, g
      <3> QED
        BY <1>0, <1>2 DEF Iterated
    <2> QED
      BY <1>2, <2>1 DEF Iterated
  <1>4. IsValue(f)
    <2>1. \A k \in 0 .. n : k = 0 \/ k \in 1 .. n
      OBVIOUS
    <2> HIDE DEF g, n
    <2> QED
      BY <1>2, <1>3, <2>1 DEF Iterated
  <1> DEFINE v == CHOOSE v : IsValue(v)
  <1>5. IsValue(v) /\ Unsigned(bytes) = v[n]
    BY <1>4 DEF Unsigned
  <1> HIDE DEF v, g, n
  <1> DEFINE T == {k \in Nat : k <= n => v[k] \in Nat}
  <1>6. 0 \in T
    BY <1>0, <1>5
  <1>7. ASSUME NEW k \in T PROVE k + 1 \in T
    <2> SUFFICES ASSUME k + 1 <= n PROVE v[k + 1] \in Nat
      OBVIOUS
    <2>1. /\ k + 1 \in 0 .. n /\ k + 1 \in 1 .. n /\ k + 1 # 0 /\ (k + 1) - 1 = k
          /\ v[k] \in Nat
      BY <1>0
    <2>2. v[k + 1] = v[k] * Base + bytes[k + 1]
      BY <1>5, <2>1
    <2>3. v[k] * Base \in Nat /\ bytes[k + 1] \in Nat
      BY <1>0, <2>1
    <2> QED
      BY <2>2, <2>3
  <1>8. T = Nat
    <2> HIDE DEF T
    <2>1. T \in SUBSET Nat
      BY DEF T
    <2> QED
      BY <1>6, <1>7, <2>1, InductiveSet
  <1>9. \A k \in 0 .. n : v[k] \in Nat
    BY <1>0, <1>8
  <1>10. IsUnsigned(v, bytes)
    <2>1. DOMAIN v = 0 .. n /\ v = [k \in 0 .. n |-> v[k]]
      BY <1>5
    <2>2. v \in [0 .. n -> Nat]
      BY <1>9, <2>1
    <2>3. \A k \in 1 .. n : k \in 0 .. n /\ k # 0
      BY <1>0
    <2>4. 0 \in 0 .. n
      BY <1>0
    <2>5. v[0] = 0 /\ \A k \in 1 .. n : v[k] = v[k - 1] * Base + bytes[k]
      BY <1>5, <2>3, <2>4
    <2> QED
      BY <2>2, <2>5 DEF IsUnsigned, n
  <1> QED
    BY <1>5, <1>10 DEF n

LEMMA UnsignedType ==
  ASSUME NEW bytes \in Seq(Nat)
  PROVE  Unsigned(bytes) \in Nat
PROOF
  <1>1. PICK v : IsUnsigned(v, bytes) /\ Unsigned(bytes) = v[Len(bytes)]
    BY UnsignedSteps
  <1>2. Len(bytes) \in 0 .. Len(bytes)
    OBVIOUS
  <1> QED
    BY <1>1, <1>2 DEF IsUnsigned

IsFlattened(f, seqs, S) ==
  /\ f \in [0 .. Len(seqs) -> Seq(S)] /\ f[0] = <<>>
  /\ \A k \in 1 .. Len(seqs) : f[k] = f[k - 1] \o seqs[k]

LEMMA FlattenSteps ==
  ASSUME NEW S, NEW seqs \in Seq(Seq(S))
  PROVE  \E f : IsFlattened(f, seqs, S) /\ FlattenSeq(seqs) = f[Len(seqs)]
PROOF
  <1> DEFINE n == Len(seqs)
             V == Seq(S)
             IsFlat(l) == l = [k \in 1 .. n |-> IF k = 1 THEN seqs[k] ELSE l[k - 1] \o seqs[k]]
             g == [kv \in Nat \X V |-> kv[2] \o (IF kv[1] \in 1 .. n THEN seqs[kv[1]] ELSE <<>>)]
  <1>0. n \in Nat /\ \A k \in 1 .. n : seqs[k] \in V
    OBVIOUS
  <1>1. g \in [Nat \X V -> V] /\ <<>> \in V
    BY <1>0
  <1>2. PICK f : Iterated(f, n, V, <<>>, g)
    <2> HIDE DEF g, n, V
    <2> QED
      BY <1>0, <1>1, IterationExists
  <1>3. \A k \in 1 .. n : f[k] = f[k - 1] \o seqs[k]
    <2>1. \A k \in 1 .. n : k \in Nat /\ k - 1 \in 0 .. n /\ f[k - 1] \in V
      <3> HIDE DEF n, g, V
      <3> QED
        BY <1>0, <1>2 DEF Iterated
    <2> HIDE DEF V
    <2> QED
      BY <1>2, <2>1 DEF Iterated
  <1> DEFINE h == [k \in 1 .. n |-> f[k]]
  <1>4. IsFlat(h)
    <2>1. \A k \in 1 .. n : k # 1 => k - 1 \in 1 .. n /\ h[k - 1] = f[k - 1]
      BY <1>0
    <2>2. 1 \in 1 .. n => f[1] = seqs[1]
      <3>1. 1 \in 1 .. n => f[1] = f[0] \o seqs[1]
        <4>1. 1 - 1 = 0
          OBVIOUS
        <4> HIDE DEF n, g, h
        <4> QED
          BY <1>3, <4>1
      <3> QED
        BY <1>0, <1>2, <3>1 DEF Iterated
    <2> HIDE DEF g, n, V
    <2>3. \A k \in 1 .. n : h[k] = IF k = 1 THEN seqs[k] ELSE h[k - 1] \o seqs[k]
      BY <1>3, <2>1, <2>2
    <2> QED
      BY <2>3
  <1> DEFINE l == CHOOSE l : IsFlat(l)
  <1>5. IsFlat(l)
    <2> HIDE DEF h, IsFlat
    <2> QED
      BY <1>4
  <1>6. FlattenSeq(seqs) = IF n = 0 THEN seqs ELSE l[n]
    BY DEF FlattenSeq
  <1> HIDE DEF l, g, n, h
  <1> DEFINE T == {k \in Nat : k + 1 <= n => l[k + 1] = f[k + 1]}
  <1>7. 0 \in T
    <2> SUFFICES ASSUME 1 <= n PROVE l[1] = f[1]
      OBVIOUS
    <2>1. 1 \in 1 .. n /\ 1 - 1 = 0
      BY <1>0
    <2>2. l[1] = seqs[1] /\ f[1] = f[0] \o seqs[1] /\ f[0] = <<>>
      BY <1>2, <1>3, <1>5, <2>1 DEF Iterated
    <2>3. seqs[1] \in V
      BY <1>0, <2>1
    <2> QED
      BY <2>2, <2>3
  <1>8. ASSUME NEW k \in T PROVE k + 1 \in T
    <2> SUFFICES ASSUME k + 2 <= n PROVE l[k + 2] = f[k + 2]
      OBVIOUS
    <2>1. /\ k + 2 \in 1 .. n /\ k + 2 # 1 /\ (k + 2) - 1 = k + 1
          /\ l[k + 1] = f[k + 1]
      BY <1>0
    <2>2. l[k + 2] = l[k + 1] \o seqs[k + 2] /\ f[k + 2] = f[k + 1] \o seqs[k + 2]
      BY <1>3, <1>5, <2>1
    <2> QED
      BY <2>1, <2>2
  <1>9. T = Nat
    <2> HIDE DEF T
    <2>1. T \in SUBSET Nat
      BY DEF T
    <2> QED
      BY <1>7, <1>8, <2>1, InductiveSet
  <1>10. n # 0 => l[n] = f[n]
    <2> SUFFICES ASSUME n # 0 PROVE l[n] = f[n]
      OBVIOUS
    <2>0. n - 1 \in Nat /\ (n - 1) + 1 = n
      BY <1>0
    <2>1. n - 1 \in T
      BY <1>9, <2>0
    <2> QED
      BY <1>0, <2>0, <2>1
  <1>11. n = 0 => seqs = <<>> /\ f[n] = <<>>
    BY <1>2 DEF n, Iterated
  <1>12. FlattenSeq(seqs) = f[n]
    BY <1>6, <1>10, <1>11
  <1>13. IsFlattened(f, seqs, S)
    BY <1>2, <1>3 DEF IsFlattened, Iterated, n
  <1> QED
    BY <1>12, <1>13 DEF n

LEMMA FlattenType ==
  ASSUME NEW S, NEW seqs \in Seq(Seq(S))
  PROVE  FlattenSeq(seqs) \in Seq(S)
PROOF
  <1>1. PICK f : IsFlattened(f, seqs, S) /\ FlattenSeq(seqs) = f[Len(seqs)]
    BY FlattenSteps
  <1>2. Len(seqs) \in 0 .. Len(seqs)
    OBVIOUS
  <1> QED
    BY <1>1, <1>2 DEF IsFlattened
-----------------------------------------------------------------------------
(* What is written are bytes.                                              *)
LEMMA Sizes == Base \in Nat /\ HALF \in Nat /\ HALF >= 5 /\ Base = 2 * HALF /\ Width \in Nat /\ Width >= 2
PROOF
  <1>1. Base \in Nat /\ Base >= 10 /\ Base = 2 * HALF /\ Width \in Nat /\ Width >= 2
    BY Asn1Assumption
  <1>2. Base \div 2 \in Nat
    BY <1>1
  <1>3. HALF \in Nat
    BY <1>2 DEF HALF
  <1> QED
    BY <1>1, <1>3

(* Division: what is a quotient and a remainder.                           *)
LEMMA DivMod ==
  ASSUME NEW n \in Int, NEW b \in Nat \ {0}
  PROVE  /\ n \div b \in Int /\ n % b \in 0 .. b - 1
         /\ n = (n \div b) * b + (n % b)
PROOF
  OBVIOUS

LEMMA DivModUnique ==
  ASSUME NEW n \in Int, NEW b \in Nat \ {0}, NEW q \in Int, NEW r \in 0 .. b - 1,
         n = q * b + r
  PROVE  n \div b = q /\ n % b = r
PROOF
  OBVIOUS

(* What an int keeps of a number.                                          *)
LEMMA WordType == Word \in Nat \ {0}
PROOF
  <1>1. Base \in Nat \ {0} /\ Width \in Nat
    BY Sizes
  <1> QED
    BY <1>1, PowerType DEF Word

LEMMA SignedType ==
  ASSUME NEW n \in Int
  PROVE  /\ Signed(n) \in Int
         /\ Signed(n) = 0 => n % Word = 0
         /\ n \in Nat /\ n < Word \div 2 => Signed(n) = n
PROOF
  <1> DEFINE w == Word
             u == n % w
             h == w \div 2
  <1>1. w \in Nat \ {0}
    BY WordType
  <1>2. Signed(n) = IF u < h THEN u ELSE u - w
    BY DEF Signed
  <1> HIDE DEF w
  <1>3. u \in 0 .. w - 1
    BY <1>1, DivMod
  <1>4. h \in Nat /\ h <= w
    BY <1>1
  <1>5. ASSUME n \in Nat, n < h PROVE u = n
    <2> HIDE DEF h
    <2>1. n \in 0 .. w - 1 /\ 0 \in Int /\ n = 0 * w + n
      BY <1>1, <1>4, <1>5
    <2> QED
      BY <1>1, <2>1, DivModUnique
  <1> HIDE DEF u, h
  <1>6. Signed(n) \in Int
    BY <1>1, <1>2, <1>3
  <1>7. Signed(n) = 0 => u = 0
    BY <1>1, <1>2, <1>3
  <1>8. n \in Nat /\ n < h => Signed(n) = n
    BY <1>2, <1>5
  <1> QED
    BY <1>6, <1>7, <1>8 DEF u, h, w

LEMMA IntsType == Ints \subseteq Int
PROOF
  <1>1. Power(Base, Width) \in Nat \ {0}
    BY Sizes, PowerType
  <1> DEFINE p == Power(Base, Width)
  <1> HIDE DEF p
  <1>2. p \in Nat
    BY <1>1 DEF p
  <1>3. p \div 2 \in Int
    BY <1>2
  <1>4. -(p \div 2) .. p \div 2 - 1 \subseteq Int
    BY <1>3
  <1> QED
    BY <1>4 DEF p, Ints

LEMMA BigEndianType ==
  ASSUME NEW n \in Int, NEW k \in Nat
  PROVE  BigEndian(n, k) \in Seq(Bytes) /\ Len(BigEndian(n, k)) = k
PROOF
  <1>1. ASSUME NEW i \in 1 .. k PROVE (n \div Power(Base, k - i)) % Base \in Bytes
    <2>1. Power(Base, k - i) \in Nat \ {0}
      BY Sizes, PowerType
    <2> DEFINE p == Power(Base, k - i)
    <2> HIDE DEF p
    <2>2. n \div p \in Int
      BY <2>1 DEF p
    <2> QED
      BY <2>2, Sizes DEF Bytes, p
  <1> DEFINE F(i) == (n \div Power(Base, k - i)) % Base
  <1>2. BigEndian(n, k) = [i \in 1 .. k |-> F(i)]
    BY DEF BigEndian
  <1>3. \A i \in 1 .. k : F(i) \in Bytes
    BY <1>1
  <1> HIDE DEF F, Bytes
  <1> QED
    BY <1>2, <1>3

LEMMA FewOf ==
  ASSUME NEW n \in Nat, NEW S \in SUBSET (0 .. n)
  PROVE  Cardinality(S) \in 0 .. n + 1
PROOF
  <1>1. IsFiniteSet(0 .. n) /\ Cardinality(0 .. n) = n + 1
    BY FS_Interval
  <1>2. IsFiniteSet(S) /\ Cardinality(S) <= n + 1
    BY <1>1, FS_Subset
  <1>3. Cardinality(S) \in Nat
    BY <1>2, FS_CardinalityType
  <1> QED
    BY <1>2, <1>3

LEMMA LengthBytesType ==
  ASSUME NEW len \in Nat
  PROVE  LengthBytes(len) \in Seq(Bytes) /\ Len(LengthBytes(len)) >= 1
PROOF
  <1> DEFINE js == {j \in 0 .. 3 : len >= Power(Base, j)}
             k == Cardinality(js)
  <1>1. k \in 0 .. 4
    <2>1. js \in SUBSET (0 .. 3)
      OBVIOUS
    <2> HIDE DEF js
    <2>2. k \in 0 .. 3 + 1
      BY <2>1, FewOf
    <2> QED
      BY <2>2
  <1>2. LengthBytes(len) = IF len < HALF THEN <<len>> ELSE <<HALF + k>> \o BigEndian(len, k)
    BY DEF LengthBytes
  <1> HIDE DEF k
  <1>3. len < HALF => len \in Bytes
    BY Sizes DEF Bytes
  <1>4. HALF + k \in Bytes
    BY <1>1, Sizes DEF Bytes
  <1>5. BigEndian(len, k) \in Seq(Bytes) /\ Len(BigEndian(len, k)) = k
    BY <1>1, BigEndianType
  <1> HIDE DEF Bytes
  <1>6. CASE len < HALF
    BY <1>2, <1>3, <1>6
  <1>7. CASE ~(len < HALF)
    <2> DEFINE r == BigEndian(len, k)
    <2> HIDE DEF r
    <2>1. <<HALF + k>> \o r \in Seq(Bytes) /\ Len(<<HALF + k>> \o r) = 1 + k
      BY <1>4, <1>5 DEF r
    <2> QED
      BY <1>1, <1>2, <1>7, <2>1 DEF r
  <1> QED
    BY <1>6, <1>7

LEMMA IntBytesType ==
  ASSUME NEW i \in Int
  PROVE  IntBytes(i) \in Seq(Bytes)
PROOF
  <1> DEFINE u == i % Power(Base, Width)
             all == BigEndian(u, Width)
             sign == IF i < 0 THEN Base - 1 ELSE 0
             first == {k \in 1 .. Width : all[k] # sign /\ \A j \in 1 .. k - 1 : all[j] = sign}
             bytes == IF first = {} THEN <<sign>> ELSE SubSeq(all, CHOOSE k \in first : TRUE, Width)
  <1>1. u \in Int
    <2>1. Power(Base, Width) \in Nat \ {0}
      BY Sizes, PowerType
    <2> DEFINE p == Power(Base, Width)
    <2> HIDE DEF p
    <2> QED
      BY <2>1 DEF p
  <1> HIDE DEF u
  <1>2. all \in Seq(Bytes) /\ Len(all) = Width
    BY <1>1, Sizes, BigEndianType
  <1>3. sign \in Bytes
    BY Sizes DEF Bytes
  <1>4. IntBytes(i) = IF (bytes[1] >= HALF) = (i < 0) THEN bytes ELSE <<sign>> \o bytes
    BY DEF IntBytes, u
  <1> HIDE DEF all, sign, Bytes
  <1>5. first # {} => (CHOOSE k \in first : TRUE) \in 1 .. Width
    OBVIOUS
  <1>6. bytes \in Seq(Bytes)
    <2> DEFINE k == CHOOSE k \in first : TRUE
    <2>1. first # {} => k \in 1 .. Width
      BY <1>5
    <2> HIDE DEF first, k
    <2>2. first # {} => SubSeq(all, k, Width) \in Seq(Bytes)
      BY <1>2, <2>1, Sizes
    <2>3. <<sign>> \in Seq(Bytes)
      BY <1>3
    <2> QED
      BY <2>2, <2>3 DEF k
  <1> HIDE DEF bytes
  <1>7. <<sign>> \o bytes \in Seq(Bytes)
    BY <1>3, <1>6
  <1> QED
    BY <1>4, <1>6, <1>7

LEMMA OidBytesType ==
  ASSUME NEW oid \in Seq(Nat), Len(oid) >= 3
  PROVE  OidBytes(oid) \in Seq(Bytes)
PROOF
  <1>1. ASSUME NEW number \in Nat PROVE NumberBytes(number) \in Seq(Bytes)
    <2> DEFINE v == number % Word
               ks == {0} \cup {k \in 1 .. 4 : v >= Power(HALF, k)}
               n == Cardinality(ks)
               F(i) == ((v \div Power(HALF, n - i)) % HALF) + (IF i < n THEN HALF ELSE 0)
    <2>1. n \in Nat
      <3>1. ks \in SUBSET (0 .. 4)
        OBVIOUS
      <3> HIDE DEF ks
      <3>2. n \in 0 .. 4 + 1
        BY <3>1, FewOf
      <3> QED
        BY <3>2
    <2>2. NumberBytes(number) = [i \in 1 .. n |-> F(i)]
      BY DEF NumberBytes
    <2>0. v \in Int
      BY WordType, DivMod
    <2> HIDE DEF n, v
    <2>3. ASSUME NEW i \in 1 .. n PROVE F(i) \in Bytes
      <3> DEFINE p == Power(HALF, n - i)
      <3>1. p \in Nat \ {0}
        <4>1. n - i \in Nat /\ HALF \in Nat \ {0}
          BY <2>1, Sizes
        <4> QED
          BY <4>1, PowerType
      <3> HIDE DEF p
      <3>2. v \div p \in Int
        BY <2>0, <3>1
      <3>3. (v \div p) % HALF \in 0 .. HALF - 1
        BY <3>2, Sizes
      <3> QED
        BY <3>3, Sizes DEF Bytes, p
    <2> HIDE DEF F, Bytes
    <2> QED
      BY <2>1, <2>2, <2>3
  <1> DEFINE seqs == [i \in 1 .. Len(oid) - 2 |-> NumberBytes(oid[i + 2])]
             first == (Arc * oid[1] + oid[2]) % Base
  <1>2. seqs \in Seq(Seq(Bytes))
    <2>1. \A i \in 1 .. Len(oid) - 2 : oid[i + 2] \in Nat
      OBVIOUS
    <2>2. Len(oid) - 2 \in Nat
      OBVIOUS
    <2> DEFINE G(i) == NumberBytes(oid[i + 2])
    <2>3. \A i \in 1 .. Len(oid) - 2 : G(i) \in Seq(Bytes)
      BY <1>1, <2>1
    <2> HIDE DEF Bytes, G
    <2>4. [i \in 1 .. Len(oid) - 2 |-> G(i)] \in Seq(Seq(Bytes))
      BY <2>2, <2>3
    <2> QED
      BY <2>4 DEF G
  <1>3. first \in Bytes
    <2>1. Arc \in Nat /\ oid[1] \in Nat /\ oid[2] \in Nat
      BY Asn1Assumption, Sizes
    <2>2. Arc * oid[1] \in Nat
      BY <2>1
    <2> DEFINE a == Arc * oid[1] + oid[2]
    <2>3. a \in Nat
      BY <2>1, <2>2
    <2> HIDE DEF a
    <2>4. a % Base \in 0 .. Base - 1
      BY <2>3, Sizes
    <2> QED
      BY <2>4 DEF Bytes, a
  <1> HIDE DEF seqs, first, Bytes
  <1>4. FlattenSeq(seqs) \in Seq(Bytes)
    BY <1>2, FlattenType
  <1>5. OidBytes(oid) = <<first>> \o FlattenSeq(seqs)
    BY DEF OidBytes, seqs, first
  <1> QED
    BY <1>3, <1>4, <1>5
-----------------------------------------------------------------------------
(* The struct asn1_data while it is written.                               *)
IsData(d) ==
  /\ DOMAIN d = {"data", "ofs", "nesting", "has_error", "val"}
  /\ d.data \in Seq(Bytes)
  /\ d.has_error \in BOOLEAN

WriterOK(d) ==
  /\ IsData(d)
  /\ d.ofs = Len(d.data)
  /\ d.nesting \in Seq([start : Nat])
  /\ ~d.has_error => \A i \in DOMAIN d.nesting : d.nesting[i].start + 1 <= d.ofs

LEMMA Element ==
  ASSUME NEW S, NEW p \in Seq(S), NEW i \in DOMAIN p
  PROVE  p[i] \in S /\ i \in 1 .. Len(p)
PROOF
  OBVIOUS

LEMMA Starts ==
  ASSUME NEW d, WriterOK(d), ~d.has_error, NEW i \in DOMAIN d.nesting
  PROVE  d.ofs \in Nat /\ d.nesting[i].start \in Nat /\ d.nesting[i].start + 1 <= d.ofs
PROOF
  <1>1. d.data \in Seq(Bytes) /\ d.ofs = Len(d.data) /\ d.nesting \in Seq([start : Nat])
    BY DEF WriterOK, IsData
  <1> DEFINE l == d.nesting
  <1>2. l[i] \in [start : Nat]
    <2>1. l \in Seq([start : Nat]) /\ i \in DOMAIN l
      BY <1>1
    <2> HIDE DEF l
    <2> QED
      BY <2>1, Element
  <1>3. d.nesting[i].start + 1 <= d.ofs
    BY DEF WriterOK
  <1> QED
    BY <1>1, <1>2, <1>3

LEMMA WriteKeeps ==
  ASSUME NEW d, WriterOK(d), NEW bytes \in Seq(Bytes)
  PROVE  /\ WriterOK(Write(d, bytes))
         /\ Write(d, bytes).nesting = d.nesting
         /\ Write(d, bytes).has_error = d.has_error
         /\ ~d.has_error => Write(d, bytes).ofs = d.ofs + Len(bytes)
PROOF
  <1>1. CASE d.has_error
    BY <1>1 DEF Write, OnlyIf
  <1>2. CASE ~d.has_error
    <2> DEFINE e == [d EXCEPT !.data = @ \o bytes, !.ofs = @ + Len(bytes)]
    <2>1. Write(d, bytes) = e
      BY <1>2 DEF Write, OnlyIf
    <2>2. /\ DOMAIN e = DOMAIN d /\ e.nesting = d.nesting
          /\ e.data = d.data \o bytes /\ e.ofs = d.ofs + Len(bytes)
      BY DEF WriterOK, IsData
    <2>3. e.has_error = d.has_error
      BY DEF WriterOK, IsData
    <2> HIDE DEF e, Bytes
    <2>4. d.data \in Seq(Bytes) /\ Len(d.data) \in Nat /\ Len(bytes) \in Nat /\ d.ofs = Len(d.data)
      BY DEF WriterOK, IsData
    <2>5. d.data \o bytes \in Seq(Bytes) /\ Len(d.data \o bytes) = Len(d.data) + Len(bytes)
      BY <2>4
    <2>6. WriterOK(e)
      <3>1. IsData(e) /\ e.ofs = Len(e.data) /\ e.nesting \in Seq([start : Nat])
        BY <2>2, <2>3, <2>4, <2>5 DEF WriterOK, IsData
      <3>2. ASSUME NEW i \in DOMAIN e.nesting PROVE e.nesting[i].start + 1 <= e.ofs
        <4>1. e.nesting[i].start \in Nat /\ e.nesting[i].start + 1 <= d.ofs
          BY <1>2, <2>2, Starts
        <4> QED
          BY <2>2, <2>4, <4>1
      <3> QED
        BY <3>1, <3>2 DEF WriterOK
    <2> QED
      BY <2>1, <2>2, <2>3, <2>6
  <1> QED
    BY <1>1, <1>2 DEF WriterOK, IsData

LEMMA ErrorKeeps ==
  ASSUME NEW d, WriterOK(d)
  PROVE  WriterOK(Error(d)) /\ Error(d).has_error
PROOF
  <1> DEFINE e == [d EXCEPT !.has_error = TRUE]
  <1>1. /\ DOMAIN e = DOMAIN d /\ e.nesting = d.nesting
        /\ e.data = d.data /\ e.ofs = d.ofs
    BY DEF WriterOK, IsData
  <1>2. e.has_error
    BY DEF WriterOK, IsData
  <1>3. Error(d) = e
    BY DEF Error
  <1> HIDE DEF e
  <1> QED
    BY <1>1, <1>2, <1>3 DEF WriterOK, IsData

LEMMA PushTagKeeps ==
  ASSUME NEW d, WriterOK(d), NEW tag \in Bytes
  PROVE  WriterOK(PushTag(d, tag)) /\ PushTag(d, tag).has_error = d.has_error
PROOF
  <1> DEFINE t == Write(d, <<tag>>)
             n == [t EXCEPT !.nesting = <<[start |-> t.ofs]>> \o @]
             e == Write(n, <<Base - 1>>)
  <1>1. <<tag>> \in Seq(Bytes) /\ <<Base - 1>> \in Seq(Bytes) /\ Len(<<Base - 1>>) = 1
    BY Sizes DEF Bytes
  <1>2. WriterOK(t) /\ t.has_error = d.has_error
    BY <1>1, WriteKeeps
  <1>3. PushTag(d, tag) = e
    BY DEF PushTag
  <1> HIDE DEF t
  <1>4. /\ DOMAIN n = DOMAIN t /\ n.nesting = <<[start |-> t.ofs]>> \o t.nesting
        /\ n.data = t.data /\ n.ofs = t.ofs
    BY <1>2 DEF WriterOK, IsData
  <1>5. n.has_error = t.has_error
    BY <1>2 DEF WriterOK, IsData
  <1> HIDE DEF n
  <1>6. /\ t.ofs \in Nat /\ n.nesting \in Seq([start : Nat])
        /\ \A i \in DOMAIN n.nesting :
             \/ i = 1 /\ n.nesting[i].start = t.ofs
             \/ i - 1 \in DOMAIN t.nesting /\ n.nesting[i] = t.nesting[i - 1]
    <2>1. t.ofs \in Nat /\ t.nesting \in Seq([start : Nat])
      BY <1>2 DEF WriterOK, IsData
    <2> DEFINE o == [start |-> t.ofs]
    <2>2. o \in [start : Nat] /\ o.start = t.ofs
      BY <2>1
    <2> HIDE DEF o
    <2>3. /\ <<o>> \o t.nesting \in Seq([start : Nat])
          /\ \A i \in DOMAIN (<<o>> \o t.nesting) :
               (<<o>> \o t.nesting)[i] = IF i = 1 THEN o ELSE t.nesting[i - 1]
          /\ \A i \in DOMAIN (<<o>> \o t.nesting) : i = 1 \/ i - 1 \in DOMAIN t.nesting
      BY <2>1, <2>2
    <2> QED
      BY <1>4, <2>1, <2>2, <2>3 DEF o
  <1>7. CASE d.has_error
    <2>1. WriterOK(n)
      BY <1>2, <1>4, <1>5, <1>6, <1>7 DEF WriterOK, IsData
    <2> QED
      BY <1>1, <1>2, <1>3, <1>5, <2>1, WriteKeeps
  <1>8. CASE ~d.has_error
    <2> DEFINE b == <<Base - 1>>
    <2> HIDE DEF b
    <2>1. e = [n EXCEPT !.data = @ \o b, !.ofs = @ + Len(b)]
      BY <1>2, <1>5, <1>8 DEF Write, OnlyIf, b
    <2> HIDE DEF e
    <2>2. /\ DOMAIN e = DOMAIN n /\ e.nesting = n.nesting
          /\ e.data = n.data \o b /\ e.ofs = n.ofs + Len(b)
      BY <1>2, <1>4, <2>1 DEF WriterOK, IsData
    <2>3. e.has_error = n.has_error
      BY <1>2, <1>4, <2>1 DEF WriterOK, IsData
    <2>4. /\ n.data \in Seq(Bytes) /\ Len(n.data) \in Nat /\ n.ofs = Len(n.data)
          /\ b \in Seq(Bytes) /\ Len(b) = 1
      BY <1>1, <1>2, <1>4 DEF WriterOK, IsData, b
    <2> HIDE DEF Bytes
    <2>5. n.data \o b \in Seq(Bytes) /\ Len(n.data \o b) = Len(n.data) + 1
      <3> DEFINE l == n.data
      <3>1. l \in Seq(Bytes)
        BY <2>4
      <3> HIDE DEF l
      <3>2. l \o b \in Seq(Bytes) /\ Len(l \o b) = Len(l) + Len(b)
        BY <2>4, <3>1, ConcatProperties
      <3> QED
        BY <2>4, <3>2 DEF l
    <2>6. ASSUME NEW i \in DOMAIN e.nesting PROVE e.nesting[i].start + 1 <= e.ofs
      <3>1. CASE i = 1 /\ n.nesting[i].start = t.ofs
        <4>1. e.ofs = t.ofs + 1 /\ e.nesting[i].start = t.ofs
          BY <1>4, <2>2, <2>4, <3>1
        <4> QED
          BY <1>6, <4>1
      <3>2. CASE i - 1 \in DOMAIN t.nesting /\ n.nesting[i] = t.nesting[i - 1]
        <4>1. t.nesting[i - 1].start + 1 <= t.ofs /\ t.nesting[i - 1].start \in Nat
          <5>1. WriterOK(t) /\ ~t.has_error
            BY <1>2, <1>8
          <5> QED
            BY <3>2, <5>1, Starts
        <4> QED
          <5>1. e.ofs = t.ofs + 1 /\ e.nesting[i] = t.nesting[i - 1]
            BY <1>4, <2>2, <2>4, <3>2
          <5> QED
            BY <1>6, <4>1, <5>1
      <3> QED
        BY <1>6, <2>2, <3>1, <3>2
    <2>7. WriterOK(e)
      BY <1>2, <1>4, <1>5, <1>6, <2>2, <2>3, <2>4, <2>5, <2>6 DEF WriterOK, IsData
    <2> QED
      BY <1>2, <1>3, <1>5, <2>3, <2>7
  <1> QED
    BY <1>2, <1>7, <1>8 DEF WriterOK, IsData

LEMMA PopTagKeeps ==
  ASSUME NEW d, WriterOK(d)
  PROVE  WriterOK(PopTag(d)) /\ (d.has_error => PopTag(d).has_error)
PROOF
  <1>1. CASE d.nesting = <<>>
    <2>1. PopTag(d) = Error(d)
      BY <1>1 DEF PopTag
    <2> QED
      BY <2>1, ErrorKeeps
  <1>2. CASE d.nesting # <<>> /\ d.has_error
    BY <1>2 DEF PopTag, OnlyIf
  <1>3. CASE d.nesting # <<>> /\ ~d.has_error
    <2> DEFINE start == d.nesting[1].start
               before == SubSeq(d.data, 1, start)
               len == LengthBytes(d.ofs - (start + 1))
               written == SubSeq(d.data, start + 2, Len(d.data))
               bytes == before \o len \o written
               e == [d EXCEPT !.data = bytes, !.ofs = Len(bytes), !.nesting = Tail(@)]
    <2>1. PopTag(d) = e
      BY <1>3 DEF PopTag, OnlyIf
    <2>2. /\ DOMAIN e = DOMAIN d /\ e.nesting = Tail(d.nesting)
          /\ e.data = bytes /\ e.ofs = Len(bytes)
      <3> HIDE DEF bytes
      <3> QED
        BY DEF WriterOK, IsData
    <2>3. e.has_error = d.has_error
      <3> HIDE DEF bytes
      <3> QED
        BY DEF WriterOK, IsData
    <2> HIDE DEF e
    <2> DEFINE ns == d.nesting
               all == d.data
    <2>4. ns \in Seq([start : Nat]) /\ all \in Seq(Bytes) /\ d.ofs = Len(all) /\ ns # <<>>
      BY <1>3 DEF WriterOK, IsData
    <2>5. 1 \in DOMAIN ns
      <3> HIDE DEF ns
      <3> QED
        BY <2>4
    <2>6. start \in Nat /\ start + 1 <= d.ofs
      BY <1>3, <2>5, Starts
    <2> HIDE DEF start, ns, all
    <2>7. d.ofs \in Nat /\ d.ofs - (start + 1) \in Nat
      BY <2>4, <2>6
    <2>8. len \in Seq(Bytes) /\ Len(len) >= 1 /\ Len(len) \in Nat
      <3>1. len \in Seq(Bytes) /\ Len(len) >= 1
        BY <2>7, LengthBytesType
      <3> HIDE DEF len, Bytes
      <3> QED
        BY <3>1
    <2>9. before \in Seq(Bytes) /\ Len(before) = start
      <3>1. SubSeq(all, 1, start) \in Seq(Bytes) /\ Len(SubSeq(all, 1, start)) = start
        <4> HIDE DEF Bytes
        <4> QED
          BY <2>4, <2>6, <2>7
      <3> QED
        BY <3>1 DEF all
    <2>10. written \in Seq(Bytes) /\ Len(written) = d.ofs - (start + 1)
      <3>1. /\ SubSeq(all, start + 2, Len(all)) \in Seq(Bytes)
            /\ Len(SubSeq(all, start + 2, Len(all))) = Len(all) - (start + 1)
        <4> HIDE DEF Bytes
        <4> QED
          BY <2>4, <2>6, <2>7
      <3> QED
        BY <2>4, <3>1 DEF all
    <2> HIDE DEF before, len, written
    <2>11. before \o len \in Seq(Bytes) /\ Len(before \o len) = start + Len(len)
      BY <2>8, <2>9, ConcatProperties
    <2>12. bytes \in Seq(Bytes) /\ Len(bytes) = start + Len(len) + (d.ofs - (start + 1))
      <3>1. (before \o len) \o written \in Seq(Bytes)
            /\ Len((before \o len) \o written) = Len(before \o len) + Len(written)
        BY <2>10, <2>11, ConcatProperties
      <3> QED
        BY <2>10, <2>11, <3>1
    <2>13. Len(bytes) >= d.ofs /\ Len(bytes) \in Nat
      BY <2>6, <2>7, <2>8, <2>12
    <2> HIDE DEF bytes
    <2>14. /\ Tail(ns) \in Seq([start : Nat])
           /\ \A i \in DOMAIN Tail(ns) : i + 1 \in DOMAIN ns /\ Tail(ns)[i] = ns[i + 1]
      BY <2>4
    <2>15. ASSUME NEW i \in DOMAIN e.nesting PROVE e.nesting[i].start + 1 <= e.ofs
      <3>1. i + 1 \in DOMAIN d.nesting /\ e.nesting[i] = d.nesting[i + 1]
        BY <2>2, <2>14 DEF ns
      <3>2. d.nesting[i + 1].start \in Nat /\ d.nesting[i + 1].start + 1 <= d.ofs
        BY <1>3, <3>1, Starts
      <3> QED
        BY <2>2, <2>7, <2>13, <3>1, <3>2
    <2>16. WriterOK(e)
      BY <2>2, <2>3, <2>12, <2>14, <2>15 DEF WriterOK, IsData, ns
    <2> QED
      BY <1>3, <2>1, <2>16
  <1> QED
    BY <1>1, <1>2, <1>3

LEMMA TaggedKeeps ==
  ASSUME NEW d, WriterOK(d), NEW tag \in Bytes, NEW bytes \in Seq(Bytes)
  PROVE  WriterOK(Tagged(d, tag, bytes))
PROOF
  <1>1. WriterOK(PushTag(d, tag))
    BY PushTagKeeps
  <1>2. WriterOK(Write(PushTag(d, tag), bytes))
    BY <1>1, WriteKeeps
  <1> QED
    BY <1>2, PopTagKeeps DEF Tagged

(* Whatever is written leaves bytes, and lengths where they belong.        *)
LEMMA WriteItemKeeps ==
  ASSUME NEW d, WriterOK(d), NEW item \in Items
  PROVE  WriterOK(WriteItem(d, item))
PROOF
  <1>0. /\ INTEGER \in Bytes /\ OID \in Bytes /\ BIT_STRING \in Bytes /\ OCTET_STRING \in Bytes
        /\ ENUMERATED \in Bytes /\ GENERAL_STRING \in Bytes /\ Base - 1 \in Bytes /\ 0 \in Bytes
    BY Sizes, Asn1Assumption
       DEF Bytes, INTEGER, OID, BIT_STRING, OCTET_STRING, ENUMERATED, GENERAL_STRING
  <1> HIDE DEF Bytes
  <1>1. CASE item \in [op : {"push"}, tag : Bytes]
    <2>1. item.op = "push" /\ item.tag \in Bytes
      BY <1>1
    <2>2. WriteItem(d, item) = PushTag(d, item.tag)
      BY <2>1 DEF WriteItem
    <2> QED
      BY <2>1, <2>2, PushTagKeeps
  <1>2. CASE item \in [op : {"pop"}]
    <2>1. item.op = "pop"
      BY <1>2
    <2>2. WriteItem(d, item) = PopTag(d)
      BY <2>1 DEF WriteItem
    <2> QED
      BY <2>2, PopTagKeeps
  <1>3. CASE item \in [op : {"int"}, val : Ints]
    <2>1. item.op = "int" /\ item.val \in Int
      BY <1>3, IntsType
    <2>2. WriteItem(d, item) = Tagged(d, INTEGER, IntBytes(item.val))
      BY <2>1 DEF WriteItem
    <2> QED
      BY <1>0, <2>1, <2>2, TaggedKeeps, IntBytesType
  <1>4. CASE item \in [op : {"oid"}, val : Seq(Nat)]
    <2>1. item.op = "oid" /\ item.val \in Seq(Nat)
      BY <1>4
    <2>2. WriteItem(d, item) = WriteOID(d, item.val)
      BY <2>1 DEF WriteItem
    <2> DEFINE oid == item.val
    <2>3. oid \in Seq(Nat)
      BY <2>1
    <2> HIDE DEF oid
    <2>4. CASE Len(oid) < 3
      BY <1>0, <2>2, <2>4, PushTagKeeps, ErrorKeeps DEF WriteOID, oid
    <2>5. CASE ~(Len(oid) < 3)
      <3>1. OidBytes(oid) \in Seq(Bytes)
        BY <2>3, <2>5, OidBytesType
      <3> QED
        BY <1>0, <2>2, <2>5, <3>1, TaggedKeeps DEF WriteOID, oid
    <2> QED
      BY <2>4, <2>5
  <1>5. CASE item \in [op : {"bits"}, padding : Bytes, val : Seq(Bytes)]
    <2>1. item.op = "bits" /\ item.padding \in Bytes /\ item.val \in Seq(Bytes)
      BY <1>5
    <2>2. WriteItem(d, item) = Tagged(d, BIT_STRING, <<item.padding>> \o item.val)
      BY <2>1 DEF WriteItem
    <2> DEFINE p == item.padding
               v == item.val
    <2>3. <<p>> \in Seq(Bytes) /\ v \in Seq(Bytes)
      BY <2>1
    <2> HIDE DEF p, v
    <2>4. <<p>> \o v \in Seq(Bytes)
      BY <2>3, ConcatProperties
    <2> QED
      BY <1>0, <2>2, <2>4, TaggedKeeps DEF p, v
  <1>6. CASE item \in [op : {"octets", "string", "raw", "rest"}, val : Seq(Bytes)]
    <2>1. item.op \in {"octets", "string", "raw", "rest"} /\ item.val \in Seq(Bytes)
      BY <1>6
    <2>2. \/ WriteItem(d, item) = Tagged(d, OCTET_STRING, item.val)
          \/ WriteItem(d, item) = Tagged(d, GENERAL_STRING, item.val)
          \/ WriteItem(d, item) = Write(d, item.val)
      BY <2>1 DEF WriteItem
    <2> QED
      BY <1>0, <2>1, <2>2, TaggedKeeps, WriteKeeps
  <1>7. CASE item \in [op : {"context"}, tag : Bytes, val : Seq(Bytes)]
    <2>1. item.op = "context" /\ item.tag \in Bytes /\ item.val \in Seq(Bytes)
      BY <1>7
    <2>2. WriteItem(d, item) = Tagged(d, item.tag, item.val)
      BY <2>1 DEF WriteItem
    <2> QED
      BY <2>1, <2>2, TaggedKeeps
  <1>8. CASE item \in [op : {"bool"}, tag : Bytes, val : BOOLEAN]
    <2>1. item.op = "bool" /\ item.tag \in Bytes
      BY <1>8
    <2> DEFINE b == IF item.val THEN Base - 1 ELSE 0
    <2>2. WriteItem(d, item) = Tagged(d, item.tag, <<b>>)
      BY <2>1 DEF WriteItem
    <2>3. b \in Bytes
      BY <1>0
    <2> HIDE DEF b
    <2>4. <<b>> \in Seq(Bytes)
      BY <2>3
    <2> QED
      BY <2>1, <2>2, <2>4, TaggedKeeps
  <1>9. CASE item \in [op : {"enum"}, val : Bytes]
    <2>1. item.op = "enum" /\ item.val \in Bytes
      BY <1>9
    <2>2. WriteItem(d, item) = Tagged(d, ENUMERATED, <<item.val>>)
      BY <2>1 DEF WriteItem
    <2> DEFINE v == item.val
    <2>3. <<v>> \in Seq(Bytes)
      BY <2>1
    <2> HIDE DEF v
    <2> QED
      BY <1>0, <2>2, <2>3, TaggedKeeps DEF v
  <1> QED
    BY <1>1, <1>2, <1>3, <1>4, <1>5, <1>6, <1>7, <1>8, <1>9 DEF Items
-----------------------------------------------------------------------------
(* The struct asn1_data while it is read, and what reading does to it: it  *)
(* only goes forward, errors last, the nesting is kept, or one tag is      *)
(* opened behind what was read before.                                     *)
ReaderOK(d) ==
  /\ IsData(d)
  /\ d.ofs \in 0 .. Len(d.data)
  /\ d.nesting \in Seq([start : Nat, taglen : Int])

Follows(d, e) ==
  /\ ReaderOK(e)
  /\ e.data = d.data /\ d.ofs <= e.ofs
  /\ d.has_error => e.has_error

Opening(d, e) ==
  /\ d.nesting \in Seq([start : Nat, taglen : Int])
  /\ \E n \in [start : Nat, taglen : Int] :
       d.ofs <= n.start /\ n.start <= e.ofs /\ e.nesting = <<n>> \o d.nesting

Keeps(d, e) == Follows(d, e) /\ e.nesting = d.nesting
Opens(d, e) == Follows(d, e) /\ (e.nesting = d.nesting \/ Opening(d, e))

LEMMA Numbers ==
  ASSUME NEW d, ReaderOK(d)
  PROVE  /\ d.ofs \in Nat /\ Len(d.data) \in Nat /\ d.ofs <= Len(d.data)
         /\ d.data \in Seq(Bytes)
         /\ d.nesting # <<>> => /\ d.nesting[1] \in [start : Nat, taglen : Int]
                                /\ Remaining(d) \in Int
PROOF
  <1> DEFINE all == d.data
             ns == d.nesting
  <1>1. all \in Seq(Bytes) /\ d.ofs \in 0 .. Len(all) /\ ns \in Seq([start : Nat, taglen : Int])
    BY DEF ReaderOK, IsData
  <1>2. Len(all) \in Nat
    <2> HIDE DEF all
    <2> QED
      BY <1>1
  <1>3. ASSUME ns # <<>> PROVE ns[1] \in [start : Nat, taglen : Int]
    <2> HIDE DEF ns
    <2>1. 1 \in DOMAIN ns
      BY <1>1, <1>3
    <2> QED
      BY <1>1, <2>1, Element
  <1>4. d.ofs \in Nat /\ d.ofs <= Len(d.data)
    BY <1>1, <1>2
  <1>5. ASSUME ns # <<>> PROVE Remaining(d) \in Int
    <2> DEFINE o == ns[1]
    <2>1. o \in [start : Nat, taglen : Int]
      BY <1>3, <1>5
    <2> HIDE DEF o
    <2>2. o.start \in Nat /\ o.taglen \in Int
      BY <2>1
    <2> DEFINE x == o.taglen - (d.ofs - o.start)
    <2>3. x \in Int
      BY <1>4, <2>2
    <2> HIDE DEF x
    <2>4. Signed(x) \in Int
      BY <2>3, SignedType
    <2> QED
      BY <2>4 DEF o, x, Remaining
  <1> QED
    BY <1>1, <1>2, <1>3, <1>4, <1>5

(* Setting has_error, or the value read.                                   *)
LEMMA ErrorReads ==
  ASSUME NEW d, ReaderOK(d)
  PROVE  Keeps(d, Error(d)) /\ Error(d).has_error /\ Error(d).ofs = d.ofs
PROOF
  <1> DEFINE e == [d EXCEPT !.has_error = TRUE]
  <1>1. /\ DOMAIN e = DOMAIN d /\ e.nesting = d.nesting
        /\ e.data = d.data /\ e.ofs = d.ofs
    BY DEF ReaderOK, IsData
  <1>2. e.has_error
    BY DEF ReaderOK, IsData
  <1>3. Error(d) = e
    BY DEF Error
  <1> HIDE DEF e
  <1>4. ReaderOK(e)
    BY <1>1, <1>2 DEF ReaderOK, IsData
  <1> QED
    BY <1>1, <1>2, <1>3, <1>4, Numbers DEF Keeps, Follows

LEMMA ValueReads ==
  ASSUME NEW d, ReaderOK(d), NEW v
  PROVE  Keeps(d, Value(d, v)) /\ Value(d, v).has_error = d.has_error
PROOF
  <1> DEFINE e == [d EXCEPT !.val = v]
  <1>1. /\ DOMAIN e = DOMAIN d /\ e.nesting = d.nesting
        /\ e.data = d.data /\ e.ofs = d.ofs
    BY DEF ReaderOK, IsData
  <1>2. e.has_error = d.has_error
    BY DEF ReaderOK, IsData
  <1>3. Value(d, v) = d \/ Value(d, v) = e
    BY DEF Value, OnlyIf
  <1> HIDE DEF e
  <1>4. ReaderOK(e)
    BY <1>1, <1>2 DEF ReaderOK, IsData
  <1> QED
    BY <1>1, <1>2, <1>3, <1>4, Numbers DEF Keeps, Follows

LEMMA ReadReads ==
  ASSUME NEW d, ReaderOK(d), NEW n, d.has_error \/ n \in Int
  PROVE  /\ Keeps(d, Read(d, n))
         /\ ~Read(d, n).has_error => /\ n \in Nat /\ Read(d, n).ofs = d.ofs + n
                                     /\ Read(d, n).val \in Seq(Bytes)
                                     /\ Len(Read(d, n).val) = n
PROOF
  <1>1. CASE d.has_error \/ n < 0
    <2>1. Read(d, n) = Error(d)
      BY <1>1 DEF Read
    <2> QED
      BY <2>1, ErrorReads
  <1>2. CASE ~(d.has_error \/ n < 0) /\ d.ofs + n > Len(d.data)
    <2> DEFINE c == [d EXCEPT !.ofs = Len(d.data)]
    <2>1. Read(d, n) = Error(c)
      BY <1>2 DEF Read
    <2>2. /\ DOMAIN c = DOMAIN d /\ c.nesting = d.nesting
          /\ c.data = d.data /\ c.ofs = Len(d.data)
      BY DEF ReaderOK, IsData
    <2>3. c.has_error = d.has_error
      BY DEF ReaderOK, IsData
    <2> HIDE DEF c
    <2>4. Len(d.data) \in 0 .. Len(d.data)
      BY Numbers
    <2>5. ReaderOK(c)
      BY <2>2, <2>3, <2>4 DEF ReaderOK, IsData
    <2>6. Keeps(c, Error(c)) /\ Error(c).has_error
      BY <2>5, ErrorReads
    <2>7. d.ofs <= Error(c).ofs
      BY <2>2, <2>5, ErrorReads, Numbers
    <2> QED
      BY <2>1, <2>2, <2>6, <2>7 DEF Keeps, Follows
  <1>3. CASE ~(d.has_error \/ n < 0) /\ ~(d.ofs + n > Len(d.data))
    <2> DEFINE s == SubSeq(d.data, d.ofs + 1, d.ofs + n)
               e == [d EXCEPT !.ofs = @ + n, !.val = s]
    <2>1. Read(d, n) = e
      BY <1>3 DEF Read
    <2>2. /\ DOMAIN e = DOMAIN d /\ e.nesting = d.nesting
          /\ e.data = d.data /\ e.ofs = d.ofs + n /\ e.val = s
      <3> HIDE DEF s
      <3> QED
        BY DEF ReaderOK, IsData
    <2>3. e.has_error = d.has_error
      <3> HIDE DEF s
      <3> QED
        BY DEF ReaderOK, IsData
    <2>4. n \in Nat /\ d.ofs \in Nat /\ d.ofs + n <= Len(d.data) /\ Len(d.data) \in Nat
      BY <1>3, Numbers
    <2>5. s \in Seq(Bytes) /\ Len(s) = n
      <3> DEFINE all == d.data
      <3>1. all \in Seq(Bytes) /\ Len(all) \in Nat /\ d.ofs + n <= Len(all)
        BY <2>4, Numbers
      <3> HIDE DEF all, Bytes
      <3>2. /\ SubSeq(all, d.ofs + 1, d.ofs + n) \in Seq(Bytes)
            /\ Len(SubSeq(all, d.ofs + 1, d.ofs + n)) = n
        BY <2>4, <3>1
      <3> QED
        BY <3>2 DEF all
    <2> HIDE DEF e, s
    <2>6. d.ofs + n \in 0 .. Len(d.data) /\ d.ofs <= d.ofs + n
      BY <2>4
    <2>7. ReaderOK(e)
      BY <2>2, <2>3, <2>6 DEF ReaderOK, IsData
    <2> QED
      BY <2>1, <2>2, <2>3, <2>4, <2>5, <2>6, <2>7 DEF Keeps, Follows
  <1> QED
    BY <1>1, <1>2, <1>3

LEMMA RemainingReads ==
  ASSUME NEW d, ReaderOK(d)
  PROVE  /\ Keeps(d, TagRemaining(d))
         /\ TagRemaining(d).ofs = d.ofs
         /\ ~TagRemaining(d).has_error => /\ TagRemaining(d) = d /\ ~d.has_error
                                          /\ d.nesting # <<>>
PROOF
  <1>1. CASE d.has_error \/ ~TagFits(d)
    <2>1. TagRemaining(d) = Error(d)
      BY <1>1 DEF TagRemaining
    <2> QED
      BY <2>1, ErrorReads
  <1>2. CASE ~(d.has_error \/ ~TagFits(d))
    <2>1. TagRemaining(d) = d /\ ~d.has_error /\ d.nesting # <<>>
      BY <1>2 DEF TagRemaining, TagFits
    <2> QED
      BY <2>1, Numbers DEF Keeps, Follows
  <1> QED
    BY <1>1, <1>2

LEMMA KeepsTwice ==
  ASSUME NEW d, NEW e, NEW f, ReaderOK(d), Keeps(d, e)
  PROVE  /\ Keeps(e, f) => Keeps(d, f)
         /\ Opens(e, f) => Opens(d, f)
         /\ Opening(e, f) /\ Follows(e, f) => Opening(d, f) /\ Follows(d, f)
PROOF
  <1>1. ReaderOK(e) /\ d.ofs <= e.ofs /\ d.ofs \in Nat /\ e.ofs \in Nat
    BY Numbers DEF Keeps, Follows
  <1>2. ASSUME Follows(e, f) PROVE Follows(d, f)
    <2>1. f.ofs \in Nat
      BY <1>2, Numbers DEF Follows
    <2> QED
      BY <1>1, <1>2, <2>1 DEF Keeps, Follows
  <1>3. ASSUME Opening(e, f) PROVE Opening(d, f)
    <2>1. PICK n \in [start : Nat, taglen : Int] :
            e.ofs <= n.start /\ n.start <= f.ofs /\ f.nesting = <<n>> \o e.nesting
      BY <1>3 DEF Opening
    <2>2. e.nesting = d.nesting /\ d.ofs <= n.start
      BY <1>1, <2>1 DEF Keeps
    <2> QED
      BY <1>3, <2>1, <2>2 DEF Opening
  <1> QED
    BY <1>2, <1>3 DEF Keeps, Opens

LEMMA OpensThenKeeps ==
  ASSUME NEW d, NEW e, NEW f, ReaderOK(d), Follows(d, e), Keeps(e, f)
  PROVE  /\ Follows(d, f)
         /\ Opens(d, e) => Opens(d, f)
         /\ Opening(d, e) => Opening(d, f)
PROOF
  <1>1. /\ d.ofs \in Nat /\ e.ofs \in Nat /\ f.ofs \in Nat
        /\ d.ofs <= e.ofs /\ e.ofs <= f.ofs
    BY Numbers DEF Keeps, Follows
  <1>2. Follows(d, f)
    BY <1>1 DEF Keeps, Follows
  <1>3. ASSUME Opening(d, e) PROVE Opening(d, f)
    <2>1. PICK n \in [start : Nat, taglen : Int] :
            d.ofs <= n.start /\ n.start <= e.ofs /\ e.nesting = <<n>> \o d.nesting
      BY <1>3 DEF Opening
    <2>2. n.start <= f.ofs /\ f.nesting = e.nesting
      BY <1>1, <2>1 DEF Keeps
    <2> QED
      BY <1>3, <2>1, <2>2 DEF Opening
  <1> QED
    BY <1>2, <1>3 DEF Keeps, Opens

(* A tag is opened, behind all that was read; without an error it has      *)
(* been.                                                                   *)
LEMMA StartReads ==
  ASSUME NEW d, ReaderOK(d), NEW tag
  PROVE  /\ Opens(d, StartTag(d, tag))
         /\ ~StartTag(d, tag).has_error => Opening(d, StartTag(d, tag))
PROOF
  <1> DEFINE t == Read(d, 1)
             b == Read(t, 1)
             n == IF b.val[1] - HALF > 1 THEN b.val[1] - HALF ELSE 1
             long == Read(b, n)
             l == IF b.has_error \/ b.val[1] < HALF THEN b ELSE long
             o == [start |-> l.ofs, taglen |-> Unsigned(l.val)]
             p == [l EXCEPT !.nesting = <<o>> \o @]
  <1>1. Keeps(d, t) /\ ReaderOK(t)
    BY ReadReads DEF Keeps, Follows
  <1>2. Keeps(t, b) /\ ReaderOK(b) /\ (~b.has_error => b.val \in Seq(Bytes) /\ Len(b.val) = 1)
    <2> HIDE DEF t
    <2>1. ReaderOK(t) /\ 1 \in Int
      BY <1>1
    <2>2. /\ Keeps(t, Read(t, 1))
          /\ ~Read(t, 1).has_error => Read(t, 1).val \in Seq(Bytes) /\ Len(Read(t, 1).val) = 1
      BY <2>1, ReadReads
    <2>3. ReaderOK(Read(t, 1))
      BY <2>2 DEF Keeps, Follows
    <2> QED
      BY <2>2, <2>3
  <1>3. StartTag(d, tag) =
          IF t.has_error THEN t
          ELSE IF t.val # <<tag>> THEN Error(t)
          ELSE IF l.has_error THEN l
          ELSE TagRemaining(p)
    BY DEF StartTag
  <1> HIDE DEF t
  <1>4. Keeps(d, b)
    BY <1>1, <1>2, KeepsTwice
  <1> HIDE DEF b
  <1>5. ~b.has_error => n \in Int
    <2> DEFINE v == b.val
    <2>1. ~b.has_error => v \in Seq(Bytes) /\ Len(v) = 1
      BY <1>2
    <2> HIDE DEF v
    <2>2. ~b.has_error => v[1] \in Bytes
      BY <2>1
    <2>3. ~b.has_error => v[1] \in Int /\ HALF \in Int
      BY <2>2, Sizes DEF Bytes
    <2> QED
      BY <2>3 DEF v
  <1>6. ~b.has_error => Keeps(b, long) /\ (~long.has_error => long.val \in Seq(Bytes))
    <2> HIDE DEF n
    <2> QED
      BY <1>2, <1>5, ReadReads
  <1> HIDE DEF long
  <1>7. Keeps(d, l) /\ ReaderOK(l) /\ (~l.has_error => l.val \in Seq(Bytes))
    <2>1. ~b.has_error => Keeps(d, long)
      BY <1>4, <1>6, KeepsTwice
    <2> QED
      BY <1>2, <1>4, <1>6, <2>1 DEF Keeps, Follows
  <1> HIDE DEF l
  <1>8. CASE t.has_error
    BY <1>1, <1>3, <1>8 DEF Keeps, Opens
  <1>9. CASE ~t.has_error /\ t.val # <<tag>>
    <2>1. Keeps(t, Error(t)) /\ Error(t).has_error
      BY <1>1, ErrorReads
    <2>2. Keeps(d, Error(t))
      BY <1>1, <2>1, KeepsTwice
    <2> QED
      BY <1>3, <1>9, <2>1, <2>2 DEF Keeps, Opens
  <1>10. CASE ~t.has_error /\ ~(t.val # <<tag>>) /\ l.has_error
    BY <1>3, <1>7, <1>10 DEF Keeps, Opens
  <1>11. CASE ~t.has_error /\ ~(t.val # <<tag>>) /\ ~l.has_error
    <2>1. StartTag(d, tag) = TagRemaining(p)
      BY <1>3, <1>11
    <2>2. Unsigned(l.val) \in Nat /\ l.ofs \in Nat
      <3>1. l.val \in Seq(Nat)
        <4> DEFINE v == l.val
        <4>1. v \in Seq(Bytes)
          BY <1>7, <1>11
        <4>2. Bytes \subseteq Nat
          BY Sizes DEF Bytes
        <4> HIDE DEF v, Bytes
        <4>3. v \in Seq(Nat)
          BY <4>1, <4>2, SeqMonotonic
        <4> QED
          BY <4>3 DEF v
      <3> QED
        BY <1>7, <3>1, UnsignedType, Numbers
    <2>3. o \in [start : Nat, taglen : Int] /\ o.start = l.ofs
      BY <2>2
    <2> HIDE DEF o
    <2>4. /\ DOMAIN p = DOMAIN l /\ p.nesting = <<o>> \o l.nesting
          /\ p.data = l.data /\ p.ofs = l.ofs
      BY <1>7 DEF ReaderOK, IsData
    <2>5. p.has_error = l.has_error
      BY <1>7 DEF ReaderOK, IsData
    <2> HIDE DEF p
    <2>6. <<o>> \o l.nesting \in Seq([start : Nat, taglen : Int])
      <3> DEFINE ns == l.nesting
      <3>1. ns \in Seq([start : Nat, taglen : Int]) /\ <<o>> \in Seq([start : Nat, taglen : Int])
        BY <1>7, <2>3 DEF ReaderOK
      <3> HIDE DEF ns
      <3>2. <<o>> \o ns \in Seq([start : Nat, taglen : Int])
        BY <3>1, ConcatProperties
      <3> QED
        BY <3>2 DEF ns
    <2>7. ReaderOK(p)
      BY <1>7, <2>4, <2>5, <2>6 DEF ReaderOK, IsData
    <2>8. Keeps(p, TagRemaining(p))
      BY <2>7, RemainingReads
    <2>9. Follows(d, p)
      BY <1>7, <2>4, <2>5, <2>7 DEF Keeps, Follows
    <2>10. Opening(d, p)
      <3>1. d.ofs <= o.start /\ o.start <= p.ofs
        BY <1>7, <2>2, <2>3, <2>4 DEF Keeps, Follows
      <3>2. p.nesting = <<o>> \o d.nesting /\ d.nesting \in Seq([start : Nat, taglen : Int])
        BY <1>7, <2>4 DEF Keeps, ReaderOK
      <3> QED
        BY <2>3, <3>1, <3>2 DEF Opening
    <2> QED
      BY <2>1, <2>8, <2>9, <2>10, OpensThenKeeps DEF Opens
  <1> QED
    BY <1>8, <1>9, <1>10, <1>11

(* A tag ends where its length says, or not at all.                        *)
LEMMA EndReads ==
  ASSUME NEW d, ReaderOK(d)
  PROVE  /\ Follows(d, EndTag(d))
         /\ EndTag(d).ofs = d.ofs
         /\ EndTag(d).has_error => EndTag(d).nesting = d.nesting
         /\ ~EndTag(d).has_error => /\ d.nesting # <<>> /\ EndTag(d).nesting = Tail(d.nesting)
                                    /\ Remaining(d) = 0
PROOF
  <1> DEFINE r == TagRemaining(d)
  <1>1. /\ Keeps(d, r) /\ r.ofs = d.ofs
        /\ ~r.has_error => r = d /\ ~d.has_error /\ d.nesting # <<>>
    BY RemainingReads
  <1>2. ReaderOK(r)
    BY <1>1 DEF Keeps, Follows
  <1>3. EndTag(d) = IF r.has_error \/ Remaining(r) # 0 THEN Error(r)
                    ELSE [r EXCEPT !.nesting = Tail(@)]
    BY DEF EndTag
  <1> HIDE DEF r
  <1>4. CASE r.has_error \/ Remaining(r) # 0
    <2>1. EndTag(d) = Error(r)
      BY <1>3, <1>4
    <2>2. Keeps(r, Error(r)) /\ Error(r).has_error /\ Error(r).ofs = r.ofs
      BY <1>2, ErrorReads
    <2>3. Keeps(d, Error(r))
      BY <1>1, <2>2, KeepsTwice
    <2> QED
      BY <1>1, <2>1, <2>2, <2>3 DEF Keeps
  <1>5. CASE ~(r.has_error \/ Remaining(r) # 0)
    <2> DEFINE e == [d EXCEPT !.nesting = Tail(@)]
    <2>1. EndTag(d) = e /\ d.nesting # <<>> /\ Remaining(d) = 0 /\ ~d.has_error
      BY <1>1, <1>3, <1>5
    <2>2. /\ DOMAIN e = DOMAIN d /\ e.nesting = Tail(d.nesting)
          /\ e.data = d.data /\ e.ofs = d.ofs
      BY DEF ReaderOK, IsData
    <2>3. e.has_error = d.has_error
      BY DEF ReaderOK, IsData
    <2> HIDE DEF e
    <2>4. Tail(d.nesting) \in Seq([start : Nat, taglen : Int])
      <3> DEFINE ns == d.nesting
      <3>1. ns \in Seq([start : Nat, taglen : Int]) /\ ns # <<>>
        BY <2>1 DEF ReaderOK
      <3> HIDE DEF ns
      <3>2. Tail(ns) \in Seq([start : Nat, taglen : Int])
        BY <3>1
      <3> QED
        BY <3>2 DEF ns
    <2>5. ReaderOK(e)
      BY <2>2, <2>3, <2>4 DEF ReaderOK, IsData
    <2> QED
      BY <2>1, <2>2, <2>3, <2>5, Numbers DEF Follows
  <1> QED
    BY <1>4, <1>5

LEMMA TailAfterOne ==
  ASSUME NEW S, NEW n \in S, NEW ns \in Seq(S)
  PROVE  Tail(<<n>> \o ns) = ns
PROOF
  <1> DEFINE one == <<n>>
             l == one \o ns
             t == Tail(l)
  <1>1. one \in Seq(S) /\ Len(one) = 1 /\ Len(ns) \in Nat
    OBVIOUS
  <1> HIDE DEF one
  <1>2. /\ l \in Seq(S) /\ Len(l) = 1 + Len(ns)
        /\ \A i \in 1 .. 1 + Len(ns) : l[i] = IF i <= 1 THEN one[i] ELSE ns[i - 1]
    <2> HIDE DEF l
    <2>1. /\ one \o ns \in Seq(S) /\ Len(one \o ns) = Len(one) + Len(ns)
          /\ \A i \in 1 .. Len(one) + Len(ns) :
               (one \o ns)[i] = IF i <= Len(one) THEN one[i] ELSE ns[i - Len(one)]
      BY <1>1, ConcatProperties
    <2> QED
      BY <1>1, <2>1 DEF l
  <1> HIDE DEF l
  <1>3. l # <<>>
    BY <1>1, <1>2
  <1>4. t \in Seq(S) /\ Len(t) = Len(l) - 1 /\ \A i \in 1 .. Len(t) : t[i] = l[i + 1]
    BY <1>2, <1>3, HeadTailProperties
  <1> HIDE DEF t
  <1>5. Len(t) = Len(ns)
    BY <1>1, <1>2, <1>4
  <1>6. ASSUME NEW i \in 1 .. Len(t) PROVE t[i] = ns[i]
    <2>1. i + 1 \in 1 .. 1 + Len(ns) /\ ~(i + 1 <= 1) /\ (i + 1) - 1 = i
      BY <1>1, <1>5
    <2> QED
      BY <1>2, <1>4, <2>1
  <1>7. t = ns
    BY <1>4, <1>5, <1>6, SeqEqual
  <1> QED
    BY <1>7 DEF t, l, one

(* A tag that was opened and has ended leaves the nesting as it was.       *)
LEMMA OpensThenEnds ==
  ASSUME NEW d, NEW e, ReaderOK(d), Opens(d, e), ~e.has_error => Opening(d, e)
  PROVE  Opens(d, EndTag(e))
PROOF
  <1>1. ReaderOK(e)
    BY DEF Opens, Follows
  <1>2. Follows(e, EndTag(e)) /\ EndTag(e).ofs = e.ofs
    BY <1>1, EndReads
  <1>3. Follows(d, EndTag(e))
    BY <1>2 DEF Opens, Follows
  <1>4. CASE EndTag(e).has_error
    <2>1. EndTag(e).nesting = e.nesting
      BY <1>1, <1>4, EndReads
    <2> QED
      BY <1>2, <1>3, <2>1 DEF Opens, Opening
  <1>5. CASE ~EndTag(e).has_error
    <2>1. ~e.has_error /\ EndTag(e).nesting = Tail(e.nesting)
      BY <1>1, <1>2, <1>5, EndReads DEF Follows
    <2>2. PICK n \in [start : Nat, taglen : Int] : e.nesting = <<n>> \o d.nesting
      BY <2>1 DEF Opening
    <2> DEFINE ns == d.nesting
    <2>3. ns \in Seq([start : Nat, taglen : Int])
      BY DEF ReaderOK
    <2> HIDE DEF ns
    <2>4. Tail(<<n>> \o ns) = ns
      BY <2>3, TailAfterOne
    <2>5. EndTag(e).nesting = d.nesting
      BY <2>1, <2>2, <2>4 DEF ns
    <2> QED
      BY <1>3, <2>5 DEF Opens
  <1> QED
    BY <1>4, <1>5

LEMMA RestReads ==
  ASSUME NEW d, ReaderOK(d)
  PROVE  Keeps(d, ReadRest(d))
PROOF
  <1> DEFINE r == TagRemaining(d)
  <1>1. Keeps(d, r) /\ (~r.has_error => r = d /\ d.nesting # <<>>)
    BY RemainingReads
  <1>2. ReadRest(d) = IF r.has_error THEN r ELSE Read(r, Remaining(r))
    BY DEF ReadRest
  <1> HIDE DEF r
  <1>3. CASE r.has_error
    BY <1>1, <1>2, <1>3
  <1>4. CASE ~r.has_error
    <2>1. Remaining(d) \in Int
      BY <1>1, <1>4, Numbers
    <2>2. Keeps(d, Read(d, Remaining(d)))
      BY <2>1, ReadReads
    <2> QED
      BY <1>1, <1>2, <1>4, <2>2
  <1> QED
    BY <1>3, <1>4

LEMMA TaggedReads ==
  ASSUME NEW d, ReaderOK(d), NEW tag
  PROVE  Opens(d, ReadTagged(d, tag)) /\ ReaderOK(ReadTagged(d, tag))
PROOF
  <1> DEFINE t == StartTag(d, tag)
             r == ReadRest(t)
  <1>1. Opens(d, t) /\ ReaderOK(t) /\ (~t.has_error => Opening(d, t))
    BY StartReads DEF Opens, Follows
  <1>2. ReadTagged(d, tag) = IF t.has_error THEN t ELSE EndTag(r)
    BY DEF ReadTagged
  <1> HIDE DEF t
  <1>3. Keeps(t, r)
    BY <1>1, RestReads
  <1>4. Opens(d, r) /\ (~t.has_error => Opening(d, r))
    BY <1>1, <1>3, OpensThenKeeps DEF Opens
  <1>5. ~t.has_error => Opens(d, EndTag(r))
    BY <1>4, OpensThenEnds
  <1> QED
    BY <1>1, <1>2, <1>5 DEF Opens, Follows

LEMMA OpensThenValue ==
  ASSUME NEW d, NEW e, ReaderOK(d), Opens(d, e)
  PROVE  /\ Opens(d, Error(e)) /\ Error(e).has_error
         /\ \A v : Opens(d, Value(e, v))
PROOF
  <1>1. ReaderOK(e) /\ Follows(d, e)
    BY DEF Opens, Follows
  <1>2. Keeps(e, Error(e)) /\ Error(e).has_error
    BY <1>1, ErrorReads
  <1>3. ASSUME NEW v PROVE Keeps(e, Value(e, v))
    BY <1>1, ValueReads
  <1>4. Opens(d, Error(e))
    BY <1>1, <1>2, OpensThenKeeps
  <1>5. ASSUME NEW v PROVE Opens(d, Value(e, v))
    BY <1>1, <1>3, OpensThenKeeps
  <1> QED
    BY <1>2, <1>4, <1>5

LEMMA IntegerReads ==
  ASSUME NEW d, ReaderOK(d), NEW tag
  PROVE  Opens(d, ReadInteger(d, tag))
PROOF
  <1>1. Opens(d, ReadTagged(d, tag))
    BY TaggedReads
  <1>2. \A v : Opens(d, Value(ReadTagged(d, tag), v))
    BY <1>1, OpensThenValue
  <1> QED
    BY <1>2 DEF ReadInteger

LEMMA OidReads ==
  ASSUME NEW d, ReaderOK(d)
  PROVE  Opens(d, ReadOID(d))
PROOF
  <1> DEFINE r == ReadTagged(d, OID)
  <1>1. Opens(d, r)
    BY TaggedReads
  <1>2. \/ ReadOID(d) = r \/ ReadOID(d) = Error(r)
        \/ \E v : ReadOID(d) = Value(r, v)
    BY DEF ReadOID
  <1> HIDE DEF r
  <1> QED
    BY <1>1, <1>2, OpensThenValue

LEMMA BooleanReads ==
  ASSUME NEW d, ReaderOK(d), NEW tag
  PROVE  Opens(d, ReadBoolean(d, tag))
PROOF
  <1> DEFINE t == StartTag(d, tag)
             b == Read(t, 1)
  <1>1. Opens(d, t) /\ ReaderOK(t) /\ (~t.has_error => Opening(d, t))
    BY StartReads DEF Opens, Follows
  <1>2. \E v : ReadBoolean(d, tag) = Value(EndTag(b), v)
    BY DEF ReadBoolean
  <1> HIDE DEF t
  <1>3. Keeps(t, b)
    <2>1. 1 \in Int
      OBVIOUS
    <2> QED
      BY <1>1, <2>1, ReadReads
  <1> HIDE DEF b
  <1>4. Opens(d, b) /\ (~b.has_error => Opening(d, b))
    BY <1>1, <1>3, OpensThenKeeps DEF Opens, Keeps, Follows
  <1>5. Opens(d, EndTag(b))
    BY <1>4, OpensThenEnds
  <1> QED
    BY <1>2, <1>5, OpensThenValue

LEMMA BitStringReads ==
  ASSUME NEW d, ReaderOK(d)
  PROVE  Opens(d, ReadBitString(d))
PROOF
  <1> DEFINE t == StartTag(d, BIT_STRING)
             p == Read(t, 1)
             n == Remaining(t) - 1
             b == Read(p, n)
  <1>1. Opens(d, t) /\ ReaderOK(t) /\ (~t.has_error => Opening(d, t))
    BY StartReads DEF Opens, Follows
  <1>2. \/ ReadBitString(d) = t /\ t.has_error
        \/ ReadBitString(d) = b /\ ~t.has_error
        \/ ~t.has_error /\ \E v : ReadBitString(d) = Value(EndTag(b), v)
    BY DEF ReadBitString
  <1> HIDE DEF t
  <1>3. Keeps(t, p) /\ ReaderOK(p)
    <2>1. 1 \in Int
      OBVIOUS
    <2>2. Keeps(t, p)
      BY <1>1, <2>1, ReadReads
    <2> QED
      BY <2>2 DEF Keeps, Follows
  <1> HIDE DEF p
  <1>4. ~t.has_error => n \in Int
    <2> SUFFICES ASSUME ~t.has_error PROVE n \in Int
      OBVIOUS
    <2>1. t.nesting # <<>>
      <3>1. PICK x \in [start : Nat, taglen : Int] : t.nesting = <<x>> \o d.nesting
        BY <1>1 DEF Opening
      <3> DEFINE ns == d.nesting
      <3>2. ns \in Seq([start : Nat, taglen : Int])
        BY DEF ReaderOK
      <3> HIDE DEF ns
      <3>3. <<x>> \o ns # <<>>
        BY <3>2
      <3> QED
        BY <3>1, <3>3 DEF ns
    <2>2. Remaining(t) \in Int
      BY <1>1, <2>1, Numbers
    <2> QED
      BY <2>2
  <1> HIDE DEF n
  <1>5. ASSUME ~t.has_error PROVE Opens(d, b) /\ Opening(d, b)
    <2>1. Keeps(p, b)
      BY <1>3, <1>4, <1>5, ReadReads
    <2>2. Opens(d, p) /\ Opening(d, p)
      BY <1>1, <1>3, <1>5, OpensThenKeeps DEF Opens
    <2> QED
      BY <2>1, <2>2, OpensThenKeeps DEF Opens
  <1>6. ASSUME ~t.has_error PROVE Opens(d, EndTag(b))
    <2> HIDE DEF b
    <2> QED
      BY <1>5, <1>6, OpensThenEnds
  <1> QED
    BY <1>1, <1>2, <1>5, <1>6, OpensThenValue

LEMMA CheckBooleanReads ==
  ASSUME NEW d, ReaderOK(d), NEW v
  PROVE  Opens(d, CheckBoolean(d, v))
PROOF
  <1> DEFINE b == Read(d, 1)
             c == Read(b, 1)
  <1>0. 1 \in Int
    OBVIOUS
  <1>1. Keeps(d, b) /\ ReaderOK(b)
    BY <1>0, ReadReads DEF Keeps, Follows
  <1>2. \/ CheckBoolean(d, v) = Error(b) \/ CheckBoolean(d, v) = Error(c)
        \/ CheckBoolean(d, v) = c
    BY DEF CheckBoolean
  <1> HIDE DEF b
  <1>3. Keeps(b, c)
    BY <1>0, <1>1, ReadReads
  <1> HIDE DEF c
  <1>4. Opens(d, b) /\ Opens(d, c)
    BY <1>1, <1>3, KeepsTwice DEF Keeps, Opens
  <1> QED
    BY <1>2, <1>4, OpensThenValue

(* has_error is cleared only when it was set by reading the value.         *)
LEMMA CheckEnumeratedReads ==
  ASSUME NEW d, ReaderOK(d), NEW v
  PROVE  Opens(d, CheckEnumerated(d, v))
PROOF
  <1> DEFINE t == StartTag(d, ENUMERATED)
             b == Read(t, 1)
             e == EndTag(b)
             f == [e EXCEPT !.has_error = FALSE]
  <1>1. Opens(d, t) /\ ReaderOK(t) /\ (~t.has_error => Opening(d, t))
    BY StartReads DEF Opens, Follows
  <1>2. \/ CheckEnumerated(d, v) = t
        \/ CheckEnumerated(d, v) = e
        \/ CheckEnumerated(d, v) = f /\ ~t.has_error
    BY DEF CheckEnumerated
  <1> HIDE DEF t
  <1>3. Keeps(t, b)
    <2>1. 1 \in Int
      OBVIOUS
    <2> QED
      BY <1>1, <2>1, ReadReads
  <1> HIDE DEF b
  <1>4. Opens(d, b) /\ (~b.has_error => Opening(d, b))
    BY <1>1, <1>3, OpensThenKeeps DEF Opens, Keeps, Follows
  <1>5. Opens(d, e) /\ ReaderOK(e)
    BY <1>4, OpensThenEnds DEF Opens, Follows
  <1> HIDE DEF e
  <1>6. ASSUME ~t.has_error PROVE Opens(d, f)
    <2>1. ~d.has_error
      BY <1>1, <1>6 DEF Opens, Follows
    <2>2. /\ DOMAIN f = DOMAIN e /\ f.nesting = e.nesting
          /\ f.data = e.data /\ f.ofs = e.ofs
      BY <1>5 DEF ReaderOK, IsData
    <2>3. f.has_error = FALSE
      BY <1>5 DEF ReaderOK, IsData
    <2> HIDE DEF f
    <2>4. ReaderOK(f)
      <3>1. f.has_error \in BOOLEAN
        BY <2>3
      <3> QED
        BY <1>5, <2>2, <3>1 DEF ReaderOK, IsData
    <2>5. Follows(d, f)
      BY <1>5, <2>1, <2>2, <2>4 DEF Opens, Follows
    <2>6. Opening(d, e) => Opening(d, f)
      BY <2>2 DEF Opening
    <2> QED
      BY <1>5, <2>2, <2>5, <2>6 DEF Opens
  <1> QED
    BY <1>1, <1>2, <1>5, <1>6

(* Of everything that is read, only the end of a tag takes from the        *)
(* nesting.                                                                *)
LEMMA ItemReads ==
  ASSUME NEW d, ReaderOK(d), NEW item \in Items
  PROVE  Follows(d, ReadItem(d, item)) /\ (item.op # "pop" => Opens(d, ReadItem(d, item)))
PROOF
  <1>1. /\ item.op \in {"push", "pop", "int", "oid", "enum", "octets", "string", "raw", "rest",
                        "bits", "context", "bool"}
        /\ item.op = "raw" => item.val \in Seq(Bytes)
    <2> HIDE DEF Bytes
    <2> QED
      BY DEF Items
  <1>2. CASE item.op = "pop"
    <2>1. ReadItem(d, item) = EndTag(d)
      BY <1>2 DEF ReadItem
    <2> QED
      BY <1>2, <2>1, EndReads
  <1>3. CASE item.op = "push"
    <2>1. ReadItem(d, item) = StartTag(d, item.tag)
      BY <1>3 DEF ReadItem
    <2> QED
      BY <2>1, StartReads DEF Opens
  <1>4. CASE item.op \in {"int", "enum"}
    <2>1. ReadItem(d, item) = ReadInteger(d, INTEGER) \/ ReadItem(d, item) = ReadInteger(d, ENUMERATED)
      BY <1>4 DEF ReadItem
    <2> QED
      BY <2>1, IntegerReads DEF Opens
  <1>5. CASE item.op = "oid"
    <2>1. ReadItem(d, item) = ReadOID(d)
      BY <1>5 DEF ReadItem
    <2> QED
      BY <2>1, OidReads DEF Opens
  <1>6. CASE item.op = "bits"
    <2>1. ReadItem(d, item) = ReadBitString(d)
      BY <1>6 DEF ReadItem
    <2> QED
      BY <2>1, BitStringReads DEF Opens
  <1>7. CASE item.op \in {"octets", "string", "context"}
    <2>1. \E tag : ReadItem(d, item) = ReadTagged(d, tag)
      BY <1>7 DEF ReadItem
    <2> QED
      BY <2>1, TaggedReads DEF Opens
  <1>8. CASE item.op = "bool"
    <2>1. ReadItem(d, item) = ReadBoolean(d, item.tag)
      BY <1>8 DEF ReadItem
    <2> QED
      BY <2>1, BooleanReads DEF Opens
  <1>9. CASE item.op = "raw"
    <2>1. ReadItem(d, item) = Read(d, Len(item.val))
      BY <1>9 DEF ReadItem
    <2>2. Len(item.val) \in Int
      <3> DEFINE v == item.val
      <3>1. v \in Seq(Bytes)
        BY <1>1, <1>9
      <3> HIDE DEF v, Bytes
      <3>2. Len(v) \in Int
        BY <3>1
      <3> QED
        BY <3>2 DEF v
    <2> QED
      BY <2>1, <2>2, ReadReads DEF Keeps, Opens
  <1>10. CASE item.op = "rest"
    <2>1. ReadItem(d, item) = ReadRest(d)
      BY <1>10 DEF ReadItem
    <2> QED
      BY <2>1, RestReads DEF Keeps, Opens
  <1> QED
    BY <1>1, <1>2, <1>3, <1>4, <1>5, <1>6, <1>7, <1>8, <1>9, <1>10

LEMMA ItemChecks ==
  ASSUME NEW d, ReaderOK(d), NEW item, item.op \in {"oid", "bool", "enum"}
  PROVE  Opens(d, CheckItem(d, item))
PROOF
  <1>1. CASE item.op = "oid"
    <2> DEFINE r == ReadOID(d)
    <2>1. CheckItem(d, item) = r \/ CheckItem(d, item) = Error(r)
      BY <1>1 DEF CheckItem
    <2> HIDE DEF r
    <2>2. Opens(d, r)
      BY OidReads DEF r
    <2> QED
      BY <2>1, <2>2, OpensThenValue
  <1>2. CASE item.op = "bool"
    <2>1. CheckItem(d, item) = CheckBoolean(d, item.val)
      BY <1>2 DEF CheckItem
    <2> QED
      BY <2>1, CheckBooleanReads
  <1>3. CASE item.op = "enum"
    <2>1. CheckItem(d, item) = CheckEnumerated(d, item.val)
      BY <1>3 DEF CheckItem
    <2> QED
      BY <2>1, CheckEnumeratedReads
  <1> QED
    BY <1>1, <1>2, <1>3
-----------------------------------------------------------------------------
(* What has been found when there is no error: the tag where the item      *)
(* begins, and nothing is open that was not.                               *)
Done(d, e, tag) == ~e.has_error => e.nesting = d.nesting /\ d.data[d.ofs + 1] = tag

LEMMA FirstByte ==
  ASSUME NEW d, ReaderOK(d), NEW tag, ~Read(d, 1).has_error, Read(d, 1).val = <<tag>>
  PROVE  d.data[d.ofs + 1] = tag
PROOF
  <1> DEFINE o == d.ofs
             all == d.data
             s == SubSeq(all, o + 1, o + 1)
             e == [d EXCEPT !.ofs = @ + 1, !.val = s]
             c == [d EXCEPT !.ofs = Len(all)]
  <1>1. o \in Nat /\ all \in Seq(Bytes) /\ Len(all) \in Nat
    BY Numbers
  <1>2. ~d.has_error /\ Read(d, 1) = e /\ o + 1 <= Len(all)
    <2>1. Error(d).has_error
      BY ErrorReads
    <2>2. Error(c).has_error
      <3>1. /\ DOMAIN c = DOMAIN d /\ c.nesting = d.nesting
            /\ c.data = d.data /\ c.ofs = Len(d.data)
        BY DEF ReaderOK, IsData
      <3>2. c.has_error = d.has_error
        BY DEF ReaderOK, IsData
      <3> HIDE DEF c
      <3>3. c.ofs \in 0 .. Len(c.data)
        BY <1>1, <3>1
      <3>4. ReaderOK(c)
        BY <3>1, <3>2, <3>3 DEF ReaderOK, IsData
      <3> QED
        BY <3>4, ErrorReads
    <2> HIDE DEF c, e
    <2>3. Read(d, 1) = IF d.has_error \/ 1 < 0 THEN Error(d)
                       ELSE IF o + 1 > Len(all) THEN Error(c) ELSE e
      BY DEF Read, c, e
    <2> HIDE DEF o, all
    <2> QED
      BY <1>1, <2>1, <2>2, <2>3
  <1>3. e.val = s
    <2> HIDE DEF s
    <2> QED
      BY DEF ReaderOK, IsData
  <1>4. s = <<tag>>
    <2> HIDE DEF s, e
    <2> QED
      BY <1>2, <1>3
  <1> HIDE DEF o, all, Bytes
  <1>5. s[1] = all[o + 1]
    BY <1>1, <1>2
  <1> HIDE DEF s
  <1>6. all[o + 1] = tag
    BY <1>4, <1>5
  <1> QED
    BY <1>6 DEF all, o

LEMMA StartFinds ==
  ASSUME NEW d, ReaderOK(d), NEW tag, ~StartTag(d, tag).has_error
  PROVE  d.data[d.ofs + 1] = tag
PROOF
  <1> DEFINE t == Read(d, 1)
  <1>1. 1 \in Int
    OBVIOUS
  <1>2. ReaderOK(t)
    BY <1>1, ReadReads DEF Keeps, Follows
  <1>3. t.has_error => StartTag(d, tag) = t
    BY DEF StartTag
  <1>4. ~t.has_error /\ t.val # <<tag>> => StartTag(d, tag) = Error(t)
    BY DEF StartTag
  <1>5. Error(t).has_error
    BY <1>2, ErrorReads
  <1>6. ~t.has_error /\ t.val = <<tag>>
    <2> HIDE DEF t
    <2> QED
      BY <1>3, <1>4, <1>5
  <1> QED
    BY <1>6, FirstByte

LEMMA EndTidies ==
  ASSUME NEW d, NEW e, ReaderOK(d), Opens(d, e), ~e.has_error => Opening(d, e),
         ~EndTag(e).has_error
  PROVE  EndTag(e).nesting = d.nesting /\ ~e.has_error
PROOF
  <1>1. ReaderOK(e)
    BY DEF Opens, Follows
  <1>2. Follows(e, EndTag(e)) /\ EndTag(e).nesting = Tail(e.nesting)
    BY <1>1, EndReads
  <1>3. ~e.has_error
    BY <1>2 DEF Follows
  <1>4. PICK n \in [start : Nat, taglen : Int] : e.nesting = <<n>> \o d.nesting
    BY <1>3 DEF Opening
  <1> DEFINE ns == d.nesting
  <1>5. ns \in Seq([start : Nat, taglen : Int])
    BY DEF ReaderOK
  <1> HIDE DEF ns
  <1>6. Tail(<<n>> \o ns) = ns
    BY <1>5, TailAfterOne
  <1> QED
    BY <1>2, <1>3, <1>4, <1>6 DEF ns

(* A tag that was started, read in some way and ended.                     *)
LEMMA StartToEnd ==
  ASSUME NEW d, ReaderOK(d), NEW tag, NEW b, Keeps(StartTag(d, tag), b)
  PROVE  Done(d, EndTag(b), tag) /\ ReaderOK(EndTag(b))
PROOF
  <1> DEFINE t == StartTag(d, tag)
  <1>1. Opens(d, t) /\ (~t.has_error => Opening(d, t))
    BY StartReads
  <1>2. ~t.has_error => d.data[d.ofs + 1] = tag
    BY StartFinds
  <1> HIDE DEF t
  <1>3. Keeps(t, b)
    BY DEF t
  <1>4. ~b.has_error => ~t.has_error
    BY <1>3 DEF Keeps, Follows
  <1>5. Opens(d, b) /\ (~b.has_error => Opening(d, b))
    BY <1>1, <1>3, <1>4, OpensThenKeeps DEF Opens
  <1>6. ReaderOK(b)
    BY <1>5 DEF Opens, Follows
  <1>7. ReaderOK(EndTag(b))
    BY <1>6, EndReads DEF Follows
  <1>8. ~EndTag(b).has_error => EndTag(b).nesting = d.nesting /\ ~b.has_error
    BY <1>5, EndTidies
  <1> QED
    BY <1>2, <1>4, <1>7, <1>8 DEF Done

LEMMA DoneValue ==
  ASSUME NEW d, NEW e, NEW tag, ReaderOK(e), Done(d, e, tag)
  PROVE  /\ Done(d, Error(e), tag)
         /\ \A v : Done(d, Value(e, v), tag)
PROOF
  <1>1. Error(e).has_error
    BY ErrorReads
  <1>2. ASSUME NEW v PROVE Done(d, Value(e, v), tag)
    <2>1. Value(e, v).nesting = e.nesting /\ Value(e, v).has_error = e.has_error
      BY ValueReads DEF Keeps
    <2> QED
      BY <2>1 DEF Done
  <1> QED
    BY <1>1, <1>2 DEF Done

LEMMA TaggedDone ==
  ASSUME NEW d, ReaderOK(d), NEW tag
  PROVE  Done(d, ReadTagged(d, tag), tag) /\ ReaderOK(ReadTagged(d, tag))
PROOF
  <1> DEFINE t == StartTag(d, tag)
             r == ReadRest(t)
  <1>1. ReadTagged(d, tag) = IF t.has_error THEN t ELSE EndTag(r)
    BY DEF ReadTagged
  <1>2. ReaderOK(t)
    BY StartReads DEF Opens, Follows
  <1>3. Keeps(t, r)
    BY <1>2, RestReads
  <1>4. Done(d, EndTag(r), tag) /\ ReaderOK(EndTag(r))
    BY <1>3, StartToEnd
  <1> HIDE DEF t, r
  <1> QED
    BY <1>1, <1>2, <1>4 DEF Done

LEMMA OidDone ==
  ASSUME NEW d, ReaderOK(d)
  PROVE  Done(d, ReadOID(d), OID) /\ ReaderOK(ReadOID(d))
PROOF
  <1> DEFINE r == ReadTagged(d, OID)
  <1>1. Done(d, r, OID) /\ ReaderOK(r)
    BY TaggedDone
  <1>2. ReadOID(d) = r \/ ReadOID(d) = Error(r) \/ \E v : ReadOID(d) = Value(r, v)
    BY DEF ReadOID
  <1> HIDE DEF r
  <1>3. ReaderOK(ReadOID(d))
    BY OidReads DEF Opens, Follows
  <1> QED
    BY <1>1, <1>2, <1>3, DoneValue

LEMMA BooleanDone ==
  ASSUME NEW d, ReaderOK(d), NEW tag
  PROVE  Done(d, ReadBoolean(d, tag), tag)
PROOF
  <1> DEFINE t == StartTag(d, tag)
             b == Read(t, 1)
  <1>1. ReaderOK(t) /\ 1 \in Int
    BY StartReads DEF Opens, Follows
  <1>2. Keeps(t, b)
    <2> HIDE DEF t
    <2> QED
      BY <1>1, ReadReads
  <1>3. Done(d, EndTag(b), tag) /\ ReaderOK(EndTag(b))
    BY <1>2, StartToEnd
  <1>4. \E v : ReadBoolean(d, tag) = Value(EndTag(b), v)
    BY DEF ReadBoolean
  <1> HIDE DEF b
  <1> QED
    BY <1>3, <1>4, DoneValue

LEMMA BitsDone ==
  ASSUME NEW d, ReaderOK(d)
  PROVE  Done(d, ReadBitString(d), BIT_STRING)
PROOF
  <1> DEFINE t == StartTag(d, BIT_STRING)
             p == Read(t, 1)
             n == Remaining(t) - 1
             b == Read(p, n)
  <1>1. ReaderOK(t) /\ (~t.has_error => Opening(d, t)) /\ 1 \in Int
    BY StartReads DEF Opens, Follows
  <1>2. \/ ReadBitString(d) = t /\ t.has_error
        \/ ReadBitString(d) = b /\ b.has_error
        \/ ~t.has_error /\ \E v : ReadBitString(d) = Value(EndTag(b), v)
    BY DEF ReadBitString
  <1>3. ASSUME ~t.has_error PROVE Keeps(t, b)
    <2> HIDE DEF t
    <2>1. Keeps(t, p) /\ ReaderOK(p)
      BY <1>1, ReadReads DEF Keeps, Follows
    <2> HIDE DEF p
    <2>2. t.nesting # <<>>
      <3>1. PICK x \in [start : Nat, taglen : Int] : t.nesting = <<x>> \o d.nesting
        BY <1>1, <1>3 DEF Opening
      <3> DEFINE ns == d.nesting
      <3>2. ns \in Seq([start : Nat, taglen : Int])
        BY DEF ReaderOK
      <3> HIDE DEF ns
      <3>3. <<x>> \o ns # <<>>
        BY <3>2
      <3> QED
        BY <3>1, <3>3 DEF ns
    <2>3. n \in Int
      BY <1>1, <2>2, Numbers
    <2> HIDE DEF n
    <2>4. Keeps(p, b)
      BY <2>1, <2>3, ReadReads
    <2> HIDE DEF b
    <2> QED
      BY <1>1, <2>1, <2>4, KeepsTwice
  <1>4. ~t.has_error => Done(d, EndTag(b), BIT_STRING) /\ ReaderOK(EndTag(b))
    BY <1>3, StartToEnd
  <1> HIDE DEF t, b
  <1> QED
    BY <1>2, <1>4, DoneValue DEF Done

LEMMA CheckBooleanDone ==
  ASSUME NEW d, ReaderOK(d), NEW v
  PROVE  Done(d, CheckBoolean(d, v), BOOLEAN_TAG)
PROOF
  <1> DEFINE b == Read(d, 1)
             c == Read(b, 1)
             w == <<IF v THEN 1 ELSE 0>>
  <1>1. 1 \in Int
    OBVIOUS
  <1>2. Keeps(d, b) /\ ReaderOK(b)
    BY <1>1, ReadReads DEF Keeps, Follows
  <1>3. ~b.has_error /\ b.val = <<BOOLEAN_TAG>> => d.data[d.ofs + 1] = BOOLEAN_TAG
    BY FirstByte
  <1>4. CheckBoolean(d, v) = IF b.has_error \/ b.val # <<BOOLEAN_TAG>> THEN Error(b)
                             ELSE IF c.val # w THEN Error(c) ELSE c
    BY DEF CheckBoolean
  <1> HIDE DEF b, w
  <1>5. Keeps(b, c) /\ ReaderOK(c)
    BY <1>1, <1>2, ReadReads DEF Keeps, Follows
  <1> HIDE DEF c
  <1>6. Error(b).has_error /\ Error(c).has_error
    BY <1>2, <1>5, ErrorReads
  <1>7. c.nesting = d.nesting
    BY <1>2, <1>5 DEF Keeps
  <1> QED
    BY <1>3, <1>4, <1>6, <1>7 DEF Done

LEMMA ItemDone ==
  ASSUME NEW d, ReaderOK(d), NEW item \in Items, ~ReadItem(d, item).has_error
  PROVE  /\ item.op \notin {"pop", "raw", "rest"} => d.data[d.ofs + 1] = TagOf(item)
         /\ item.op \notin {"push", "pop"} => ReadItem(d, item).nesting = d.nesting
PROOF
  <1>1. /\ item.op \in {"push", "pop", "int", "oid", "enum", "octets", "string", "raw", "rest",
                        "bits", "context", "bool"}
        /\ item.op = "raw" => item.val \in Seq(Bytes)
    <2> HIDE DEF Bytes
    <2> QED
      BY DEF Items
  <1>2. CASE item.op = "push"
    <2>1. ReadItem(d, item) = StartTag(d, item.tag) /\ TagOf(item) = item.tag
      BY <1>2 DEF ReadItem, TagOf
    <2> QED
      BY <1>2, <2>1, StartFinds
  <1>3. CASE item.op \in {"int", "enum"}
    <2>1. ReadItem(d, item) = ReadInteger(d, TagOf(item))
      BY <1>3 DEF ReadItem, TagOf
    <2> DEFINE r == ReadTagged(d, TagOf(item))
    <2>2. Done(d, r, TagOf(item)) /\ ReaderOK(r)
      BY TaggedDone
    <2>3. \E v : ReadItem(d, item) = Value(r, v)
      BY <2>1 DEF ReadInteger
    <2> HIDE DEF r
    <2>4. Done(d, ReadItem(d, item), TagOf(item))
      BY <2>2, <2>3, DoneValue
    <2> QED
      BY <2>4 DEF Done
  <1>4. CASE item.op = "oid"
    <2>1. ReadItem(d, item) = ReadOID(d) /\ TagOf(item) = OID
      BY <1>4 DEF ReadItem, TagOf
    <2> QED
      BY <2>1, OidDone DEF Done
  <1>5. CASE item.op = "bits"
    <2>1. ReadItem(d, item) = ReadBitString(d) /\ TagOf(item) = BIT_STRING
      BY <1>5 DEF ReadItem, TagOf
    <2> QED
      BY <2>1, BitsDone DEF Done
  <1>6. CASE item.op \in {"octets", "string", "context"}
    <2>1. ReadItem(d, item) = ReadTagged(d, TagOf(item))
      BY <1>6 DEF ReadItem, TagOf
    <2> QED
      BY <2>1, TaggedDone DEF Done
  <1>7. CASE item.op = "bool"
    <2>1. ReadItem(d, item) = ReadBoolean(d, TagOf(item))
      BY <1>7 DEF ReadItem, TagOf
    <2> QED
      BY <2>1, BooleanDone DEF Done
  <1>8. CASE item.op = "raw"
    <2>1. ReadItem(d, item) = Read(d, Len(item.val))
      BY <1>8 DEF ReadItem
    <2>2. Len(item.val) \in Int
      <3> DEFINE v == item.val
      <3>1. v \in Seq(Bytes)
        BY <1>1, <1>8
      <3> HIDE DEF v, Bytes
      <3>2. Len(v) \in Int
        BY <3>1
      <3> QED
        BY <3>2 DEF v
    <2>3. ReadItem(d, item).nesting = d.nesting
      BY <2>1, <2>2, ReadReads DEF Keeps
    <2> QED
      BY <1>8, <2>3
  <1>9. CASE item.op = "rest"
    <2>1. ReadItem(d, item) = ReadRest(d)
      BY <1>9 DEF ReadItem
    <2>2. ReadItem(d, item).nesting = d.nesting
      BY <2>1, RestReads DEF Keeps
    <2> QED
      BY <1>9, <2>2
  <1>10. CASE item.op = "pop"
    BY <1>10
  <1> QED
    BY <1>1, <1>2, <1>3, <1>4, <1>5, <1>6, <1>7, <1>8, <1>9, <1>10

LEMMA CheckDone ==
  ASSUME NEW d, ReaderOK(d), NEW item, item.op \in {"oid", "bool"},
         item.op = "bool" => item.tag = BOOLEAN_TAG, ~CheckItem(d, item).has_error
  PROVE  d.data[d.ofs + 1] = TagOf(item) /\ CheckItem(d, item).nesting = d.nesting
PROOF
  <1>1. CASE item.op = "oid"
    <2> DEFINE r == ReadOID(d)
    <2>1. CheckItem(d, item) = r \/ CheckItem(d, item) = Error(r)
      BY <1>1 DEF CheckItem
    <2>2. Done(d, r, OID) /\ ReaderOK(r)
      BY OidDone
    <2>3. TagOf(item) = OID
      BY <1>1 DEF TagOf
    <2> HIDE DEF r
    <2>4. Done(d, Error(r), OID)
      BY <2>2, DoneValue
    <2>5. Done(d, CheckItem(d, item), OID)
      BY <2>1, <2>2, <2>4
    <2> QED
      BY <2>3, <2>5 DEF Done
  <1>2. CASE item.op = "bool"
    <2>1. CheckItem(d, item) = CheckBoolean(d, item.val) /\ TagOf(item) = BOOLEAN_TAG
      BY <1>2 DEF CheckItem, TagOf
    <2> QED
      BY <2>1, CheckBooleanDone DEF Done
  <1> QED
    BY <1>1, <1>2
-----------------------------------------------------------------------------
(* Open tags begin one behind the other and behind every tag that ended    *)
(* before they were opened; every other ended tag lies within them.        *)
Nest(es) ==
  \A s, t \in es :
    \/ s[2] <= t[1] \/ t[2] <= s[1]
    \/ s[1] <= t[1] /\ t[2] <= s[2]
    \/ t[1] <= s[1] /\ s[2] <= t[2]

StackOK(d, es) ==
  /\ \A i \in DOMAIN d.nesting : d.nesting[i].start <= d.ofs
  /\ \A i, j \in DOMAIN d.nesting : i < j => d.nesting[j].start <= d.nesting[i].start
  /\ es \in SUBSET (Int \X Int)
  /\ \A s \in es : s[1] <= s[2] /\ s[2] <= d.ofs
  /\ \A s \in es : \A i \in DOMAIN d.nesting :
       s[2] <= d.nesting[i].start \/ d.nesting[i].start <= s[1]

LEMMA StackOpens ==
  ASSUME NEW d, NEW e, NEW es, ReaderOK(d), StackOK(d, es), Opens(d, e)
  PROVE  StackOK(e, es)
PROOF
  <1>1. d.ofs \in Int /\ e.ofs \in Int /\ d.ofs <= e.ofs
    BY Numbers DEF Opens, Follows
  <1>2. \A s \in es : s[1] \in Int /\ s[2] \in Int
    BY DEF StackOK
  <1> DEFINE ns == d.nesting
  <1>3. ns \in Seq([start : Nat, taglen : Int])
    BY DEF ReaderOK
  <1>4. \A i \in DOMAIN ns : ns[i].start \in Int
    <2> HIDE DEF ns
    <2> TAKE i \in DOMAIN ns
    <2>1. ns[i] \in [start : Nat, taglen : Int]
      BY <1>3, Element
    <2> QED
      BY <2>1
  <1>5. CASE e.nesting = d.nesting
    BY <1>1, <1>2, <1>4, <1>5 DEF StackOK
  <1>6. CASE Opening(d, e)
    <2>1. PICK n \in [start : Nat, taglen : Int] :
            d.ofs <= n.start /\ n.start <= e.ofs /\ e.nesting = <<n>> \o ns
      BY <1>6 DEF Opening
    <2>2. n.start \in Int
      BY <2>1
    <2> DEFINE ms == e.nesting
    <2>3. \A i \in DOMAIN ms :
            \/ i = 1 /\ ms[i] = n
            \/ i \in Int /\ i > 1 /\ i - 1 \in DOMAIN ns /\ ms[i] = ns[i - 1]
      <3> HIDE DEF ns
      <3>1. \A i \in DOMAIN (<<n>> \o ns) :
              \/ i = 1 /\ (<<n>> \o ns)[i] = n
              \/ i \in Int /\ i > 1 /\ i - 1 \in DOMAIN ns /\ (<<n>> \o ns)[i] = ns[i - 1]
        BY <1>3
      <3> QED
        BY <2>1, <3>1
    <2> DEFINE A(i) == ms[i].start
               B(i) == ns[i].start
    <2>4. \A i \in DOMAIN ms :
            \/ i = 1 /\ A(i) = n.start
            \/ i \in Int /\ i > 1 /\ i - 1 \in DOMAIN ns /\ A(i) = B(i - 1)
      BY <2>3
    <2>5. /\ \A i \in DOMAIN ns : B(i) \in Int /\ B(i) <= d.ofs
          /\ \A i, j \in DOMAIN ns : i < j => B(j) <= B(i)
          /\ \A s \in es : s[1] <= s[2] /\ s[2] <= d.ofs
          /\ \A s \in es : \A i \in DOMAIN ns : s[2] <= B(i) \/ B(i) <= s[1]
      BY <1>4 DEF StackOK
    <2> HIDE DEF ms, ns, A, B
    <2>6. \A i \in DOMAIN ms : A(i) <= e.ofs
      BY <1>1, <2>1, <2>2, <2>4, <2>5
    <2>7. ASSUME NEW i \in DOMAIN ms, NEW j \in DOMAIN ms, i < j PROVE A(j) <= A(i)
      <3>1. j # 1 /\ j \in Int /\ j > 1 /\ j - 1 \in DOMAIN ns /\ A(j) = B(j - 1)
        BY <2>4, <2>7
      <3>2. CASE i = 1
        BY <1>1, <2>1, <2>2, <2>4, <2>5, <3>1, <3>2
      <3>3. CASE i # 1
        <4>1. i \in Int /\ i - 1 \in DOMAIN ns /\ A(i) = B(i - 1) /\ i - 1 < j - 1
          BY <2>4, <2>7, <3>1, <3>3
        <4> QED
          BY <2>5, <3>1, <4>1
      <3> QED
        BY <3>2, <3>3
    <2>8. ASSUME NEW s \in es, NEW i \in DOMAIN ms PROVE s[2] <= A(i) \/ A(i) <= s[1]
      BY <1>1, <1>2, <2>1, <2>2, <2>4, <2>5
    <2>9. \A s \in es : s[1] <= s[2] /\ s[2] <= e.ofs
      BY <1>1, <1>2, <2>5
    <2> QED
      BY <2>6, <2>7, <2>8, <2>9 DEF StackOK, ms, A
  <1> QED
    BY <1>5, <1>6 DEF Opens

(* A tag ends where it has been read to, whatever its length; what an int  *)
(* keeps of the length is how much has been read.                          *)
LEMMA StackEnds ==
  ASSUME NEW d, NEW es, ReaderOK(d), StackOK(d, es), Nest(es), ~EndTag(d).has_error,
         NEW s, s = <<d.nesting[1].start, d.ofs>>
  PROVE  StackOK(EndTag(d), es \cup {s}) /\ Nest(es \cup {s})
PROOF
  <1> DEFINE e == EndTag(d)
             ns == d.nesting
             o == ns[1]
  <1>1. e.ofs = d.ofs /\ ns # <<>> /\ e.nesting = Tail(ns)
    BY EndReads
  <1>2. ns \in Seq([start : Nat, taglen : Int]) /\ d.ofs \in Nat
    BY Numbers DEF ReaderOK
  <1>3. \A i \in DOMAIN ns : ns[i].start \in Int
    <2> HIDE DEF ns
    <2> TAKE i \in DOMAIN ns
    <2>1. ns[i] \in [start : Nat, taglen : Int]
      BY <1>2, Element
    <2> QED
      BY <2>1
  <1>4. /\ s \in Int \X Int /\ s[1] = ns[1].start /\ s[2] = d.ofs
        /\ s[1] \in Int /\ s[2] \in Int
    <2>1. o \in [start : Nat, taglen : Int]
      BY <1>1, Numbers
    <2>2. s = <<o.start, d.ofs>>
      OBVIOUS
    <2> HIDE DEF o
    <2>3. o.start \in Nat
      BY <2>1
    <2> QED
      BY <1>2, <2>2, <2>3 DEF o
  <1>5. /\ 1 \in DOMAIN ns
        /\ \A i \in DOMAIN Tail(ns) :
             i \in Int /\ i >= 1 /\ i + 1 \in DOMAIN ns /\ Tail(ns)[i] = ns[i + 1]
    <2> HIDE DEF ns
    <2> QED
      BY <1>1, <1>2
  <1> DEFINE ms == e.nesting
             A(i) == ms[i].start
             B(i) == ns[i].start
  <1>6. \A i \in DOMAIN ms : i \in Int /\ i >= 1 /\ i + 1 \in DOMAIN ns /\ A(i) = B(i + 1)
    BY <1>1, <1>5
  <1>7. /\ \A i \in DOMAIN ns : B(i) \in Int /\ B(i) <= d.ofs
        /\ \A i, j \in DOMAIN ns : i < j => B(j) <= B(i)
        /\ es \in SUBSET (Int \X Int)
        /\ \A t \in es : t[1] <= t[2] /\ t[2] <= d.ofs
        /\ \A t \in es : \A i \in DOMAIN ns : t[2] <= B(i) \/ B(i) <= t[1]
    BY <1>3 DEF StackOK
  <1>8. s[1] = B(1)
    BY <1>4
  <1> HIDE DEF ns, ms, A, B, o
  <1>9. \A t \in es : t[1] \in Int /\ t[2] \in Int
    BY <1>7
  <1>10. s[1] <= s[2]
    BY <1>2, <1>4, <1>5, <1>7, <1>8
  <1>11. \A i \in DOMAIN ms : A(i) <= d.ofs /\ A(i) <= s[1] /\ A(i) \in Int
    <2> TAKE i \in DOMAIN ms
    <2>1. i + 1 \in DOMAIN ns /\ 1 < i + 1 /\ A(i) = B(i + 1)
      BY <1>6
    <2> QED
      BY <1>5, <1>7, <1>8, <2>1
  <1>12. \A i, j \in DOMAIN ms : i < j => A(j) <= A(i)
    <2> SUFFICES ASSUME NEW i \in DOMAIN ms, NEW j \in DOMAIN ms, i < j PROVE A(j) <= A(i)
      OBVIOUS
    <2>1. i + 1 < j + 1
      BY <1>6
    <2> QED
      BY <1>6, <1>7, <2>1
  <1>13. \A t \in es : \A i \in DOMAIN ms : t[2] <= A(i) \/ A(i) <= t[1]
    BY <1>6, <1>7
  <1>14. \A t \in es : t[2] <= s[1] \/ (s[1] <= t[1] /\ t[2] <= s[2])
    BY <1>4, <1>5, <1>7, <1>8
  <1>15. Nest(es \cup {s})
    BY <1>4, <1>9, <1>10, <1>14 DEF Nest
  <1>16. StackOK(e, es \cup {s})
    <2>1. es \cup {s} \in SUBSET (Int \X Int)
      BY <1>4, <1>7
    <2>2. \A t \in es \cup {s} : t[1] <= t[2] /\ t[2] <= e.ofs
      BY <1>1, <1>2, <1>4, <1>7, <1>10
    <2>3. \A t \in es \cup {s} : \A i \in DOMAIN ms : t[2] <= A(i) \/ A(i) <= t[1]
      BY <1>11, <1>13
    <2> HIDE DEF e
    <2> QED
      BY <1>1, <1>11, <1>12, <2>1, <2>2, <2>3 DEF StackOK, ms, A
  <1> QED
    BY <1>15, <1>16
-----------------------------------------------------------------------------
Reading == mode \in {"read", "ended"}

Spans(es) == {<<t.start, t.to>> : t \in es}
Measured(es) ==
  \A t \in es : /\ t.start \in Nat /\ t.to \in Nat /\ t.length \in Int
                 /\ (t.length - (t.to - t.start)) % Word = 0

Asn1Inv ==
  /\ doc \in Seq(Items) /\ at \in 0 .. Len(doc)
  /\ mode = "write" => WriterOK(data)
  /\ Reading => ReaderOK(data) /\ StackOK(data, Spans(ended))
  /\ ~Reading => ended = {}
  /\ Nest(Spans(ended)) /\ Measured(ended)

LEMMA EndMeasures ==
  ASSUME NEW d, ReaderOK(d), ~EndTag(d).has_error
  PROVE  /\ d.nesting[1].start \in Nat /\ d.nesting[1].taglen \in Int /\ d.ofs \in Nat
         /\ (d.nesting[1].taglen - (d.ofs - d.nesting[1].start)) % Word = 0
PROOF
  <1> DEFINE o == d.nesting[1]
             x == o.taglen - (d.ofs - o.start)
  <1>1. d.nesting # <<>> /\ Remaining(d) = 0
    BY EndReads
  <1>2. o \in [start : Nat, taglen : Int] /\ d.ofs \in Nat
    BY <1>1, Numbers
  <1>3. Signed(x) = 0
    BY <1>1 DEF Remaining
  <1> HIDE DEF o
  <1>4. o.start \in Nat /\ o.taglen \in Int
    BY <1>2
  <1>5. x \in Int
    BY <1>2, <1>4
  <1> HIDE DEF x
  <1>6. x % Word = 0
    BY <1>3, <1>5, SignedType
  <1> QED
    BY <1>2, <1>4, <1>6 DEF o, x

(* Where the buffer is shorter than what an int counts, that is where a    *)
(* tag ends by its length.                                                 *)
LEMMA EndsWhereRead ==
  ASSUME NEW a \in Nat, NEW b \in Nat, NEW l \in Int, a <= b, b < Word,
         (l - (b - a)) % Word = 0
  PROVE  a + (l % Word) = b
PROOF
  <1> DEFINE w == Word
             x == l - (b - a)
             q == x \div w
             n == b - a
  <1>1. w \in Nat \ {0} /\ x \in Int /\ n \in 0 .. w - 1
    BY WordType
  <1>2. x % w = 0
    OBVIOUS
  <1> HIDE DEF w
  <1>3. l = x + n
    OBVIOUS
  <1> HIDE DEF x, n
  <1>4. q \in Int /\ x = q * w + (x % w)
    BY <1>1, DivMod
  <1> HIDE DEF q
  <1>5. l = q * w + n
    BY <1>1, <1>2, <1>3, <1>4
  <1>6. w \in Nat \ {0} /\ n \in 0 .. w - 1 /\ q \in Int /\ l \in Int
    BY <1>1, <1>4
  <1>7. l % w = n
    BY <1>5, <1>6, DivModUnique
  <1> QED
    BY <1>7 DEF w, n

LEMMA NextItem ==
  ASSUME Asn1Inv, at < Len(doc)
  PROVE  doc[at + 1] \in Items /\ at + 1 \in 0 .. Len(doc)
PROOF
  <1>1. doc \in Seq(Items) /\ at \in 0 .. Len(doc)
    BY DEF Asn1Inv
  <1> HIDE DEF Items
  <1> QED
    BY <1>1

(* Whatever bytes arrive, the reader starts with nothing open.             *)
LEMMA Loads ==
  ASSUME NEW bytes \in Seq(Bytes)
  PROVE  ReaderOK([Empty EXCEPT !.data = bytes]) /\ StackOK([Empty EXCEPT !.data = bytes], {})
PROOF
  <1> DEFINE d == [Empty EXCEPT !.data = bytes]
  <1>1. /\ DOMAIN d = {"data", "ofs", "nesting", "has_error", "val"}
        /\ d.data = bytes /\ d.ofs = 0 /\ d.nesting = <<>>
    BY DEF Empty
  <1>2. d.has_error = FALSE
    BY DEF Empty
  <1> HIDE DEF d, Bytes
  <1>3. d.has_error \in BOOLEAN
    BY <1>2
  <1>4. 0 \in 0 .. Len(bytes) /\ <<>> \in Seq([start : Nat, taglen : Int])
    OBVIOUS
  <1>5. ReaderOK(d)
    BY <1>1, <1>3, <1>4 DEF ReaderOK, IsData
  <1>6. DOMAIN d.nesting = {}
    BY <1>1
  <1>7. StackOK(d, {})
    BY <1>6 DEF StackOK
  <1> QED
    BY <1>5, <1>7 DEF d

LEMMA DamagedType ==
  ASSUME NEW bytes \in Seq(Bytes)
  PROVE  Damaged(bytes) \subseteq Seq(Bytes)
PROOF
  <1>1. ASSUME NEW n \in 0 .. Len(bytes) - 1 PROVE SubSeq(bytes, 1, n) \in Seq(Bytes)
    <2> HIDE DEF Bytes
    <2> QED
      OBVIOUS
  <1>2. ASSUME NEW i \in DOMAIN bytes, NEW b \in Bytes PROVE [bytes EXCEPT ![i] = b] \in Seq(Bytes)
    <2> HIDE DEF Bytes
    <2> QED
      OBVIOUS
  <1> QED
    BY <1>1, <1>2 DEF Damaged

LEMMA Asn1Starts == Init => Asn1Inv
PROOF
  <1> SUFFICES ASSUME Init PROVE Asn1Inv
    OBVIOUS
  <1>1. doc \in Seq(Items) /\ at = 0 /\ mode = "write" /\ ended = {} /\ data = Empty
    BY Asn1Assumption DEF Init
  <1>2. at \in 0 .. Len(doc)
    <2> HIDE DEF Items
    <2> QED
      BY <1>1
  <1>3. WriterOK(Empty)
    <2>1. /\ DOMAIN Empty = {"data", "ofs", "nesting", "has_error", "val"}
          /\ Empty.data = <<>> /\ Empty.ofs = 0 /\ Empty.nesting = <<>>
      BY DEF Empty
    <2>2. Empty.has_error = FALSE
      BY DEF Empty
    <2>3. Empty.has_error \in BOOLEAN
      BY <2>2
    <2> HIDE DEF Bytes
    <2>4. /\ <<>> \in Seq(Bytes) /\ <<>> \in Seq([start : Nat])
          /\ Len(<<>>) = 0 /\ DOMAIN <<>> = {}
      OBVIOUS
    <2> QED
      BY <2>1, <2>3, <2>4 DEF WriterOK, IsData
  <1>4. Spans(ended) = {}
    BY <1>1 DEF Spans
  <1> QED
    BY <1>1, <1>2, <1>3, <1>4 DEF Asn1Inv, Reading, Nest, Measured

LEMMA Asn1Steps == Asn1Inv /\ [Next]_vars => Asn1Inv'
PROOF
  <1> SUFFICES ASSUME Asn1Inv, [Next]_vars PROVE Asn1Inv'
    OBVIOUS
  <1>1. CASE WriteNext
    <2>1. /\ mode = "write" /\ at < Len(doc) /\ data' = WriteItem(data, doc[at + 1]) /\ at' = at + 1
          /\ doc' = doc /\ mode' = mode /\ ended' = ended
      BY <1>1 DEF WriteNext
    <2>2. doc[at + 1] \in Items /\ at + 1 \in 0 .. Len(doc)
      BY <2>1, NextItem
    <2>3. WriterOK(data')
      BY <2>1, <2>2, WriteItemKeeps DEF Asn1Inv
    <2> QED
      BY <2>1, <2>2, <2>3 DEF Asn1Inv, Reading, Nest, Spans
  <1>2. CASE Load
    <2>1. /\ mode = "write" /\ mode' = "read" /\ at' = 0 /\ doc' = doc /\ ended' = ended
      BY <1>2 DEF Load
    <2>2. data.data \in Seq(Bytes)
      BY <2>1 DEF Asn1Inv, WriterOK, IsData
    <2>3. PICK bytes \in {data.data} \cup (IF doc \in Corrupted THEN Damaged(data.data) ELSE {}) :
            data' = [Empty EXCEPT !.data = bytes]
      BY <1>2 DEF Load
    <2>4. bytes \in Seq(Bytes)
      BY <2>2, <2>3, DamagedType
    <2>5. ReaderOK(data') /\ StackOK(data', {}) /\ ended = {}
      BY <2>1, <2>3, <2>4, Loads DEF Asn1Inv, Reading
    <2>6. 0 \in 0 .. Len(doc)
      BY DEF Asn1Inv
    <2>7. Spans(ended) = {}
      BY <2>5 DEF Spans
    <2> QED
      BY <2>1, <2>5, <2>6, <2>7 DEF Asn1Inv, Reading
  <1>3. CASE Refuse
    BY <1>3 DEF Refuse, Asn1Inv, Reading
  <1>4. CASE ReadNext
    <2> DEFINE item == doc[at + 1]
               r == [start |-> Opened.start, length |-> Opened.taglen, to |-> data'.ofs]
               s == <<Opened.start, data.ofs>>
               spans == Spans(ended)
               pops == item.op = "pop" /\ ~data'.has_error
    <2>1. /\ mode = "read" /\ at < Len(doc) /\ data' = ReadItem(data, item) /\ at' = at + 1
          /\ doc' = doc /\ mode' = mode
          /\ ended' = IF pops THEN ended \cup {r} ELSE ended
      BY <1>4 DEF ReadNext
    <2>2. item \in Items /\ at + 1 \in 0 .. Len(doc)
      BY <2>1, NextItem
    <2>3. ReaderOK(data) /\ StackOK(data, spans) /\ Nest(spans) /\ Measured(ended)
      BY <2>1 DEF Asn1Inv, Reading
    <2>4. Follows(data, data') /\ (item.op # "pop" => Opens(data, data'))
      BY <2>1, <2>2, <2>3, ItemReads
    <2>5. item.op = "pop" => data' = EndTag(data)
      BY <2>1 DEF ReadItem
    <2>6. ReaderOK(data')
      BY <2>4 DEF Follows
    <2> HIDE DEF item
    <2>7. CASE pops
      <3>1. data' = EndTag(data) /\ ~EndTag(data).has_error /\ data'.ofs = data.ofs
        BY <2>3, <2>5, <2>7, EndReads
      <3>2. s = <<data.nesting[1].start, data.ofs>>
        BY DEF Opened
      <3>3. r.start = Opened.start /\ r.to = data.ofs /\ r.length = Opened.taglen
        BY <3>1
      <3>4. Measured({r})
        BY <2>3, <3>1, <3>3, EndMeasures DEF Measured, Opened
      <3>5. <<r.start, r.to>> = s
        BY <3>3
      <3> HIDE DEF r, s, spans
      <3>6. StackOK(data', spans \cup {s}) /\ Nest(spans \cup {s})
        BY <2>3, <3>1, <3>2, StackEnds
      <3>7. ended' = ended \cup {r}
        BY <2>1, <2>7
      <3>8. Spans(ended') = spans \cup {s}
        BY <3>5, <3>7 DEF Spans, spans
      <3>9. Measured(ended')
        BY <2>3, <3>4, <3>7 DEF Measured
      <3> QED
        BY <2>1, <2>2, <2>6, <3>6, <3>8, <3>9 DEF Asn1Inv, Reading
    <2>8. CASE ~pops
      <3>1. Opens(data, data')
        <4>1. CASE item.op = "pop"
          <5>1. data'.nesting = data.nesting
            BY <2>3, <2>5, <2>8, <4>1, EndReads
          <5> QED
            BY <2>4, <5>1 DEF Opens
        <4>2. CASE item.op # "pop"
          BY <2>4, <4>2
        <4> QED
          BY <4>1, <4>2
      <3>2. ended' = ended
        BY <2>1, <2>8
      <3>3. StackOK(data', spans)
        BY <2>3, <3>1, StackOpens
      <3> QED
        BY <2>1, <2>2, <2>3, <2>6, <3>2, <3>3 DEF Asn1Inv, Reading
    <2> QED
      BY <2>7, <2>8
  <1>5. CASE CheckNext
    <2>1. /\ mode = "read" /\ at < Len(doc) /\ data' = CheckItem(data, doc[at + 1]) /\ at' = at + 1
          /\ doc[at + 1].op \in {"oid", "bool", "enum"}
          /\ doc' = doc /\ mode' = mode /\ ended' = ended
      BY <1>5 DEF CheckNext
    <2>2. at + 1 \in 0 .. Len(doc)
      BY <2>1, NextItem
    <2>3. ReaderOK(data) /\ StackOK(data, Spans(ended)) /\ Nest(Spans(ended))
      BY <2>1 DEF Asn1Inv, Reading
    <2>4. Opens(data, data')
      BY <2>1, <2>3, ItemChecks
    <2>5. ReaderOK(data') /\ StackOK(data', Spans(ended))
      BY <2>3, <2>4, StackOpens DEF Opens, Follows
    <2> QED
      BY <2>1, <2>2, <2>3, <2>5 DEF Asn1Inv, Reading
  <1>6. CASE EndRead
    BY <1>6 DEF EndRead, Asn1Inv, Reading
  <1>7. CASE UNCHANGED vars
    BY <1>7 DEF vars, Asn1Inv, Reading
  <1> QED
    BY <1>1, <1>2, <1>3, <1>4, <1>5, <1>6, <1>7 DEF Next

(* asn1.c, for every document and every corruption of it: a writer only    *)
(* appends behind its open tags, a reader only goes forward within its     *)
(* buffer and keeps an error.                                              *)
THEOREM Asn1Invariant == Spec => []Asn1Inv
PROOF
  BY Asn1Starts, Asn1Steps, PTL DEF Spec

(* For every document and whatever one byte or the end of its bytes        *)
(* becomes, if there are fewer bytes than an int has values: the tags that *)
(* asn1_end_tag ended without an error nest, each ending where what an int *)
(* keeps of its length says.                                               *)
THEOREM TagsNest == Spec => []EndedTagsNest
PROOF
  <1>1. Asn1Inv => EndedTagsNest
    <2> SUFFICES ASSUME Asn1Inv, Len(data.data) < Word, NEW s \in ended, NEW t \in ended
                 PROVE  \/ Ends(s) <= t.start \/ Ends(t) <= s.start
                        \/ s.start <= t.start /\ Ends(t) <= Ends(s)
                        \/ t.start <= s.start /\ Ends(s) <= Ends(t)
      BY DEF EndedTagsNest
    <2>1. Reading
      BY DEF Asn1Inv
    <2>2. ReaderOK(data) /\ StackOK(data, Spans(ended)) /\ Nest(Spans(ended)) /\ Measured(ended)
      BY <2>1 DEF Asn1Inv
    <2>3. ASSUME NEW x \in ended PROVE Ends(x) = x.to
      <3>1. /\ x.start \in Nat /\ x.to \in Nat /\ x.length \in Int
            /\ (x.length - (x.to - x.start)) % Word = 0
        BY <2>2 DEF Measured
      <3>2. x.start <= x.to /\ x.to <= data.ofs
        <4>1. <<x.start, x.to>> \in Spans(ended)
          BY DEF Spans
        <4>2. <<x.start, x.to>>[1] <= <<x.start, x.to>>[2] /\ <<x.start, x.to>>[2] <= data.ofs
          BY <2>2, <4>1 DEF StackOK
        <4> QED
          BY <4>2
      <3>3. x.to < Word
        <4>1. data.ofs \in Nat /\ Len(data.data) \in Nat /\ data.ofs <= Len(data.data)
          BY <2>2, Numbers
        <4> QED
          BY <3>1, <3>2, <4>1, WordType
      <3> QED
        BY <3>1, <3>2, <3>3, EndsWhereRead DEF Ends
    <2> DEFINE a == <<s.start, s.to>>
               b == <<t.start, t.to>>
    <2>4. a \in Spans(ended) /\ b \in Spans(ended)
      BY DEF Spans
    <2>5. \/ a[2] <= b[1] \/ b[2] <= a[1]
          \/ a[1] <= b[1] /\ b[2] <= a[2]
          \/ b[1] <= a[1] /\ a[2] <= b[2]
      <3> HIDE DEF a, b
      <3> QED
        BY <2>2, <2>4 DEF Nest
    <2> QED
      BY <2>3, <2>5
  <1> QED
    BY <1>1, Asn1Invariant, PTL
-----------------------------------------------------------------------------
(* The numbers: powers, the bytes of a number and the number of bytes.     *)

(* Two functions with the same step agree.                                 *)
LEMMA PowerNext ==
  ASSUME NEW b \in Nat \ {0}, NEW n \in Nat
  PROVE  Power(b, 0) = 1 /\ Power(b, n + 1) = b * Power(b, n)
PROOF
  <1>1. PICK p : IsPower(p, b, n) /\ Power(b, n) = p[n]
    BY PowerSteps
  <1>2. PICK q : IsPower(q, b, n + 1) /\ Power(b, n + 1) = q[n + 1]
    BY PowerSteps
  <1>3. PICK z : IsPower(z, b, 0) /\ Power(b, 0) = z[0]
    BY PowerSteps
  <1> DEFINE T == {k \in Nat : k <= n => p[k] = q[k]}
  <1>4. 0 \in T
    BY <1>1, <1>2 DEF IsPower
  <1>5. ASSUME NEW k \in T PROVE k + 1 \in T
    <2> SUFFICES ASSUME k + 1 <= n PROVE p[k + 1] = q[k + 1]
      OBVIOUS
    <2>1. k + 1 \in 1 .. n /\ k + 1 \in 1 .. n + 1 /\ (k + 1) - 1 = k /\ p[k] = q[k]
      OBVIOUS
    <2> QED
      BY <1>1, <1>2, <2>1 DEF IsPower
  <1>6. T = Nat
    <2> HIDE DEF T
    <2>1. T \in SUBSET Nat
      BY DEF T
    <2> QED
      BY <1>4, <1>5, <2>1, InductiveSet
  <1>7. p[n] = q[n]
    BY <1>6
  <1>8. n + 1 \in 1 .. n + 1 /\ (n + 1) - 1 = n
    OBVIOUS
  <1>9. q[n + 1] = b * q[n]
    BY <1>2, <1>8 DEF IsPower
  <1> QED
    BY <1>1, <1>2, <1>3, <1>7, <1>9 DEF IsPower

(* Dividing twice.                                                         *)
DividesTwice(n, a, b) == n \div (a * b) = (n \div a) \div b
LeavesTwice(n, a, b) == n % (a * b) = ((n \div a) % b) * a + (n % a)

LEMMA DivTwice ==
  ASSUME NEW n \in Int, NEW a \in Nat \ {0}, NEW b \in Nat \ {0}
  PROVE  DividesTwice(n, a, b) /\ LeavesTwice(n, a, b)
PROOF
  <1> DEFINE q == n \div a
             r == n % a
             s == q \div b
             t == q % b
  <1>1. q \in Int /\ r \in 0 .. a - 1 /\ n = q * a + r
    BY DivMod
  <1>2. s \in Int /\ t \in 0 .. b - 1 /\ q = s * b + t
    <2> HIDE DEF q
    <2> QED
      BY <1>1, DivMod
  <1> HIDE DEF q, r, s, t
  <1>3. a * b \in Nat \ {0}
    OBVIOUS
  <1>4. n = s * (a * b) + (t * a + r)
    BY <1>1, <1>2
  <1>5. t * a + r \in 0 .. a * b - 1
    <2>1. t * a <= (b - 1) * a
      BY <1>2
    <2>2. (b - 1) * a = a * b - a
      OBVIOUS
    <2>3. 0 <= t * a /\ t * a \in Int
      BY <1>2
    <2> QED
      BY <1>1, <1>3, <2>1, <2>2, <2>3
  <1>6. n \div (a * b) = s /\ n % (a * b) = t * a + r
    <2> DEFINE c == a * b
    <2> HIDE DEF c
    <2> SUFFICES n \div c = s /\ n % c = t * a + r
      BY DEF c
    <2> DEFINE w == t * a + r
    <2>1. c \in Nat \ {0} /\ n = s * c + w /\ w \in 0 .. c - 1
      BY <1>3, <1>4, <1>5 DEF c
    <2> HIDE DEF w
    <2>2. n \div c = s /\ n % c = w
      BY <1>2, <2>1, DivModUnique
    <2> QED
      BY <2>2 DEF w
  <1>7. n \div (a * b) = (n \div a) \div b
    BY <1>6 DEF q, s
  <1>8. n % (a * b) = ((n \div a) % b) * a + (n % a)
    BY <1>6 DEF q, r, t
  <1> QED
    BY <1>7, <1>8 DEF DividesTwice, LeavesTwice

(* A byte more makes Base times the number and the byte.                   *)
LEMMA UnsignedAppend ==
  ASSUME NEW bytes \in Seq(Nat), NEW c \in Nat
  PROVE  Unsigned(Append(bytes, c)) = Unsigned(bytes) * Base + c
PROOF
  <1> DEFINE n == Len(bytes)
             more == Append(bytes, c)
  <1>1. /\ n \in Nat /\ more \in Seq(Nat) /\ Len(more) = n + 1 /\ more[n + 1] = c
        /\ \A k \in 1 .. n : more[k] = bytes[k]
    OBVIOUS
  <1> HIDE DEF more
  <1>2. PICK v : IsUnsigned(v, bytes) /\ Unsigned(bytes) = v[n]
    BY UnsignedSteps
  <1>3. PICK w : IsUnsigned(w, more) /\ Unsigned(more) = w[Len(more)]
    BY <1>1, UnsignedSteps
  <1>4. v[0] = 0 /\ \A k \in 1 .. n : v[k] = v[k - 1] * Base + bytes[k]
    BY <1>2 DEF IsUnsigned
  <1>5. w[0] = 0 /\ \A k \in 1 .. n + 1 : w[k] = w[k - 1] * Base + more[k]
    BY <1>1, <1>3 DEF IsUnsigned
  <1>6. Unsigned(more) = w[n + 1]
    BY <1>1, <1>3
  <1> HIDE DEF n
  <1> DEFINE T == {k \in Nat : k <= n => v[k] = w[k]}
  <1>7. 0 \in T
    BY <1>4, <1>5
  <1>8. ASSUME NEW k \in T PROVE k + 1 \in T
    <2> SUFFICES ASSUME k + 1 <= n PROVE v[k + 1] = w[k + 1]
      OBVIOUS
    <2>1. k + 1 \in 1 .. n /\ k + 1 \in 1 .. n + 1 /\ (k + 1) - 1 = k /\ v[k] = w[k]
      BY <1>1
    <2>2. v[k + 1] = v[k] * Base + bytes[k + 1] /\ w[k + 1] = w[k] * Base + more[k + 1]
      BY <1>4, <1>5, <2>1
    <2> QED
      BY <1>1, <2>1, <2>2
  <1>9. T = Nat
    <2> HIDE DEF T
    <2>1. T \in SUBSET Nat
      BY DEF T
    <2> QED
      BY <1>7, <1>8, <2>1, InductiveSet
  <1>10. v[n] = w[n]
    <2>1. n \in T
      <3> HIDE DEF T
      <3> QED
        BY <1>1, <1>9
    <2> QED
      BY <1>1, <2>1
  <1>11. n + 1 \in 1 .. n + 1 /\ (n + 1) - 1 = n
    BY <1>1
  <1>12. w[n + 1] = w[n] * Base + more[n + 1]
    BY <1>5, <1>11
  <1> QED
    BY <1>1, <1>2, <1>6, <1>10, <1>12 DEF more

LEMMA UnsignedEmpty == Unsigned(<<>>) = 0
PROOF
  <1>1. <<>> \in Seq(Nat) /\ Len(<<>>) = 0
    OBVIOUS
  <1>2. PICK v : IsUnsigned(v, <<>>) /\ Unsigned(<<>>) = v[Len(<<>>)]
    BY <1>1, UnsignedSteps
  <1> QED
    BY <1>1, <1>2 DEF IsUnsigned

LEMMA BytesAreNat ==
  ASSUME NEW s \in Seq(Bytes)
  PROVE  s \in Seq(Nat) /\ Bytes \subseteq Nat /\ Len(s) \in Nat
PROOF
  <1>1. Bytes \subseteq Nat
    BY Sizes DEF Bytes
  <1> HIDE DEF Bytes
  <1>2. s \in Seq(Nat)
    BY <1>1, SeqMonotonic
  <1> QED
    BY <1>1, <1>2

(* The last byte is what dividing by Base leaves.                          *)
LEMMA BigEndianNext ==
  ASSUME NEW n \in Int, NEW k \in Nat
  PROVE  BigEndian(n, k + 1) = Append(BigEndian(n \div Base, k), n % Base)
PROOF
  <1> DEFINE m == n \div Base
             c == n % Base
             all == BigEndian(n, k + 1)
             few == BigEndian(m, k)
  <1>0. Base \in Nat \ {0} /\ m \in Int /\ c \in Bytes
    <2>1. Base \in Nat \ {0}
      BY Sizes
    <2>2. m \in Int /\ c \in 0 .. Base - 1
      BY <2>1, DivMod
    <2> QED
      BY <2>1, <2>2 DEF Bytes
  <1>1. /\ all \in Seq(Bytes) /\ Len(all) = k + 1
        /\ few \in Seq(Bytes) /\ Len(few) = k
    <2>1. k + 1 \in Nat
      OBVIOUS
    <2> HIDE DEF m
    <2> QED
      BY <1>0, <2>1, BigEndianType
  <1>2. Append(few, c) \in Seq(Bytes) /\ Len(Append(few, c)) = k + 1
        /\ Append(few, c)[k + 1] = c /\ \A i \in 1 .. k : Append(few, c)[i] = few[i]
    <2> HIDE DEF few, c, Bytes
    <2> QED
      BY <1>0, <1>1
  <1>3. \A i \in 1 .. k + 1 : all[i] = (n \div Power(Base, (k + 1) - i)) % Base
    BY DEF BigEndian
  <1>4. \A i \in 1 .. k : few[i] = (m \div Power(Base, k - i)) % Base
    BY DEF BigEndian
  <1>5. all[k + 1] = c
    <2>1. k + 1 \in 1 .. k + 1 /\ (k + 1) - (k + 1) = 0
      OBVIOUS
    <2>2. Power(Base, 0) = 1
      BY <1>0, PowerNext
    <2>3. all[k + 1] = (n \div 1) % Base
      <3> HIDE DEF all
      <3> QED
        BY <1>3, <2>1, <2>2
    <2>4. n \div 1 = n
      OBVIOUS
    <2> QED
      BY <2>3, <2>4
  <1>6. ASSUME NEW i \in 1 .. k PROVE all[i] = few[i]
    <2> DEFINE j == k - i
               p == Power(Base, j)
    <2>1. j \in Nat /\ (k + 1) - i = j + 1 /\ i \in 1 .. k + 1
      OBVIOUS
    <2>2. p \in Nat \ {0} /\ Power(Base, j + 1) = Base * p
      <3> HIDE DEF j
      <3> QED
        BY <1>0, <2>1, PowerType, PowerNext
    <2>3. all[i] = (n \div Power(Base, j + 1)) % Base
      <3> HIDE DEF all, j
      <3> QED
        BY <1>3, <2>1
    <2>4. few[i] = (m \div p) % Base
      <3> HIDE DEF few, m
      <3> QED
        BY <1>4
    <2> HIDE DEF p, all, few
    <2>5. n \div (Base * p) = (n \div Base) \div p
      <3>1. Base \in Nat \ {0} /\ p \in Nat \ {0}
        BY <1>0, <2>2
      <3>2. DividesTwice(n, Base, p)
        BY <3>1, DivTwice
      <3> QED
        BY <3>2 DEF DividesTwice
    <2> QED
      BY <2>2, <2>3, <2>4, <2>5
  <1>7. all = Append(few, c)
    <2> DEFINE s == Append(few, c)
    <2>1. /\ s \in Seq(Bytes) /\ Len(s) = k + 1
          /\ s[k + 1] = c /\ \A i \in 1 .. k : s[i] = few[i]
      BY <1>2
    <2>2. \A i \in 1 .. k + 1 : i = k + 1 \/ i \in 1 .. k
      OBVIOUS
    <2> HIDE DEF s, all, few, c, Bytes
    <2>3. \A i \in 1 .. k + 1 : all[i] = s[i]
      BY <1>5, <1>6, <2>1, <2>2
    <2>4. all = s
      BY <1>1, <2>1, <2>3, SeqEqual
    <2> QED
      BY <2>4 DEF s
  <1> QED
    BY <1>7

LEMMA Monotone ==
  ASSUME NEW x \in Int, NEW y \in Int, NEW c \in Nat, x <= y
  PROVE  x * c \in Int /\ y * c \in Int /\ x * c <= y * c
PROOF
  <1>1. (y - x) * c >= 0
    OBVIOUS
  <1>2. (y - x) * c = y * c - x * c
    OBVIOUS
  <1> QED
    BY <1>1, <1>2

(* k bytes hold a number up to Power(Base, k).                             *)
LEMMA UnsignedBigEndian ==
  ASSUME NEW n \in Int, NEW k \in Nat
  PROVE  Unsigned(BigEndian(n, k)) = n % Power(Base, k)
PROOF
  <1>0. Base \in Nat \ {0}
    BY Sizes
  <1> DEFINE Holds(m, j) == Unsigned(BigEndian(m, j)) = m % Power(Base, j)
             T == {j \in Nat : \A m \in Int : Holds(m, j)}
  <1>1. 0 \in T
    <2> SUFFICES ASSUME NEW m \in Int PROVE Holds(m, 0)
      OBVIOUS
    <2>1. BigEndian(m, 0) \in Seq(Bytes) /\ Len(BigEndian(m, 0)) = 0
      BY BigEndianType
    <2>2. BigEndian(m, 0) = <<>>
      <3> DEFINE b == BigEndian(m, 0)
      <3> HIDE DEF b, Bytes
      <3>1. b = <<>>
        BY <2>1 DEF b
      <3> QED
        BY <3>1 DEF b
    <2>3. Power(Base, 0) = 1
      BY <1>0, PowerNext
    <2>4. m % 1 = 0
      OBVIOUS
    <2> QED
      BY <2>2, <2>3, <2>4, UnsignedEmpty
  <1>2. ASSUME NEW j \in T PROVE j + 1 \in T
    <2> SUFFICES ASSUME NEW m \in Int PROVE Holds(m, j + 1)
      OBVIOUS
    <2> DEFINE q == m \div Base
               c == m % Base
               few == BigEndian(q, j)
               p == Power(Base, j)
    <2>1. j \in Nat /\ q \in Int /\ c \in Nat
      BY <1>0
    <2>2. few \in Seq(Nat)
      <3> HIDE DEF q
      <3> QED
        BY <2>1, BigEndianType, BytesAreNat
    <2>3. BigEndian(m, j + 1) = Append(few, c)
      BY <2>1, BigEndianNext
    <2>4. Unsigned(few) = q % p
      <3> HIDE DEF q
      <3> QED
        BY <2>1
    <2>5. p \in Nat \ {0} /\ Power(Base, j + 1) = Base * p
      BY <1>0, <2>1, PowerType, PowerNext
    <2>6. Unsigned(Append(few, c)) = Unsigned(few) * Base + c
      <3> HIDE DEF few, c
      <3> QED
        BY <2>1, <2>2, UnsignedAppend
    <2>7. m % (Base * p) = ((m \div Base) % p) * Base + (m % Base)
      <3> HIDE DEF p
      <3>1. Base \in Nat \ {0} /\ p \in Nat \ {0}
        BY <1>0, <2>5
      <3>2. LeavesTwice(m, Base, p)
        BY <3>1, DivTwice
      <3> QED
        BY <3>2 DEF LeavesTwice
    <2> HIDE DEF few, p
    <2> QED
      BY <2>3, <2>4, <2>5, <2>6, <2>7
  <1>3. T = Nat
    <2> HIDE DEF T
    <2>1. T \in SUBSET Nat
      BY DEF T
    <2> QED
      BY <1>1, <1>2, <2>1, InductiveSet
  <1>4. Holds(n, k)
    <2> HIDE DEF Holds
    <2> QED
      BY <1>3
  <1> QED
    BY <1>4

LEMMA UnsignedBound ==
  ASSUME NEW bytes \in Seq(Bytes)
  PROVE  Unsigned(bytes) < Power(Base, Len(bytes)) /\ Unsigned(bytes) \in Nat
PROOF
  <1> DEFINE n == Len(bytes)
  <1>0. Base \in Nat \ {0} /\ n \in Nat /\ bytes \in Seq(Nat)
    BY Sizes, BytesAreNat
  <1>1. PICK v : IsUnsigned(v, bytes) /\ Unsigned(bytes) = v[n]
    BY <1>0, UnsignedSteps
  <1>2. v[0] = 0 /\ \A k \in 1 .. n : v[k] = v[k - 1] * Base + bytes[k]
    BY <1>1 DEF IsUnsigned
  <1>3. \A k \in 0 .. n : v[k] \in Nat
    BY <1>1 DEF IsUnsigned
  <1>4. \A k \in 1 .. n : bytes[k] \in Nat /\ bytes[k] <= Base - 1
    <2>1. \A k \in 1 .. n : bytes[k] \in Bytes
      <3> HIDE DEF Bytes
      <3> QED
        OBVIOUS
    <2> QED
      BY <1>0, <2>1 DEF Bytes
  <1> HIDE DEF n
  <1> DEFINE T == {k \in Nat : k <= n => v[k] < Power(Base, k)}
  <1>5. 0 \in T
    <2>1. Power(Base, 0) = 1
      BY <1>0, PowerNext
    <2> QED
      BY <1>2, <2>1
  <1>6. ASSUME NEW k \in T PROVE k + 1 \in T
    <2> SUFFICES ASSUME k + 1 <= n PROVE v[k + 1] < Power(Base, k + 1)
      OBVIOUS
    <2> DEFINE p == Power(Base, k)
    <2>1. k \in Nat /\ v[k] < p /\ k \in 0 .. n /\ k + 1 \in 1 .. n /\ (k + 1) - 1 = k
      BY <1>0
    <2>2. p \in Nat /\ Power(Base, k + 1) = Base * p
      BY <1>0, <2>1, PowerType, PowerNext
    <2>3. v[k + 1] = v[k] * Base + bytes[k + 1]
      BY <1>2, <2>1
    <2> HIDE DEF p
    <2>4. v[k] <= p - 1 /\ v[k] \in Nat /\ bytes[k + 1] \in Nat /\ bytes[k + 1] <= Base - 1
      BY <1>3, <1>4, <2>1, <2>2
    <2>5. v[k] * Base <= (p - 1) * Base
      <3>1. v[k] \in Int /\ p - 1 \in Int /\ Base \in Nat /\ v[k] <= p - 1
        BY <1>0, <2>2, <2>4
      <3> QED
        BY <3>1, Monotone
    <2>6. (p - 1) * Base = Base * p - Base
      BY <1>0, <2>2
    <2>7. v[k] * Base \in Int /\ Base * p \in Int
      BY <1>0, <2>2, <2>4
    <2>8. v[k] * Base + bytes[k + 1] < Base * p
      <3> DEFINE x == v[k] * Base
                 y == Base * p
      <3>1. /\ x \in Int /\ y \in Int /\ x <= y - Base /\ Base \in Nat
            /\ bytes[k + 1] \in Nat /\ bytes[k + 1] <= Base - 1
        BY <1>0, <2>4, <2>5, <2>6, <2>7
      <3> HIDE DEF x, y
      <3>2. x + bytes[k + 1] < y
        BY <3>1
      <3> QED
        BY <3>2 DEF x, y
    <2> QED
      BY <2>2, <2>3, <2>8
  <1>7. T = Nat
    <2> HIDE DEF T
    <2>1. T \in SUBSET Nat
      BY DEF T
    <2> QED
      BY <1>5, <1>6, <2>1, InductiveSet
  <1>8. v[n] < Power(Base, n) /\ v[n] \in Nat
    <2>1. n \in T /\ n \in 0 .. n /\ n <= n
      BY <1>0, <1>7
    <2> QED
      BY <1>3, <2>1
  <1> QED
    BY <1>1, <1>8 DEF n

LEMMA PowerOrder ==
  ASSUME NEW b \in Nat \ {0}, NEW j \in Nat, NEW k \in Nat, j <= k
  PROVE  Power(b, j) <= Power(b, k)
PROOF
  <1> DEFINE T == {i \in Nat : Power(b, j) <= Power(b, j + i)}
  <1>1. 0 \in T
    <2>1. Power(b, j) \in Nat /\ j + 0 = j
      BY PowerType
    <2> QED
      BY <2>1
  <1>2. ASSUME NEW i \in T PROVE i + 1 \in T
    <2> DEFINE p == Power(b, j)
               q == Power(b, j + i)
    <2>1. i \in Nat /\ j + i \in Nat /\ j + (i + 1) = (j + i) + 1 /\ p <= q
      OBVIOUS
    <2>2. p \in Nat /\ q \in Nat
      BY <2>1, PowerType
    <2>3. Power(b, (j + i) + 1) = b * q
      BY <2>1, PowerNext
    <2> HIDE DEF p, q
    <2>4. q <= b * q /\ b * q \in Nat
      BY <2>2
    <2>5. p <= b * q
      BY <2>1, <2>2, <2>4
    <2> QED
      BY <2>1, <2>3, <2>5 DEF p
  <1>3. T = Nat
    <2> HIDE DEF T
    <2>1. T \in SUBSET Nat
      BY DEF T
    <2> QED
      BY <1>1, <1>2, <2>1, InductiveSet
  <1>4. k - j \in Nat /\ j + (k - j) = k
    OBVIOUS
  <1>5. k - j \in T
    <2> HIDE DEF T
    <2> QED
      BY <1>3, <1>4
  <1> QED
    BY <1>4, <1>5

(* Counting the powers that are not above a number counts its digits.      *)
LEMMA Digits ==
  ASSUME NEW b \in Nat \ {0}, NEW m \in Nat, NEW v \in Nat, v < Power(b, m + 1)
  PROVE  \E n \in 1 .. m + 1 :
           /\ v < Power(b, n)
           /\ Cardinality({0} \cup {k \in 1 .. m : v >= Power(b, k)}) = n
PROOF
  <1> DEFINE S == {i \in 1 .. m + 1 : v < Power(b, i)}
             ks == {0} \cup {k \in 1 .. m : v >= Power(b, k)}
  <1>1. PICK n \in S : \A i \in S : n <= i
    <2>1. S \in SUBSET Nat /\ m + 1 \in S
      OBVIOUS
    <2> HIDE DEF S
    <2> QED
      BY <2>1, LeastNatural
  <1>2. n \in 1 .. m + 1 /\ v < Power(b, n)
    OBVIOUS
  <1>3. ASSUME NEW k \in 1 .. m PROVE v >= Power(b, k) <=> k <= n - 1
    <2>1. k \in Nat /\ n \in Nat
      BY <1>2
    <2>2. Power(b, k) \in Nat /\ Power(b, n) \in Nat
      BY <2>1, PowerType
    <2>3. CASE k <= n - 1
      <3>1. k \in 1 .. m + 1 /\ ~(n <= k)
        BY <2>1, <2>3
      <3>2. k \notin S
        <4> HIDE DEF S
        <4> QED
          BY <1>1, <3>1
      <3>3. ~(v < Power(b, k))
        BY <3>1, <3>2
      <3> QED
        BY <2>2, <2>3, <3>3
    <2>4. CASE ~(k <= n - 1)
      <3>1. n <= k
        BY <2>1, <2>4
      <3>2. Power(b, n) <= Power(b, k)
        BY <2>1, <3>1, PowerOrder
      <3> QED
        BY <1>2, <2>2, <2>4, <3>2
    <2> QED
      BY <2>3, <2>4
  <1>4. ks = 0 .. n - 1
    <2>1. n \in Nat /\ n >= 1 /\ n - 1 <= m
      BY <1>2
    <2>2. \A k \in ks : k \in 0 .. n - 1
      BY <1>3, <2>1
    <2>3. \A k \in 0 .. n - 1 : k = 0 \/ k \in 1 .. m
      BY <2>1
    <2>4. \A k \in 0 .. n - 1 : k \in ks
      BY <1>3, <2>1, <2>3
    <2> HIDE DEF ks
    <2> QED
      BY <2>2, <2>4
  <1>5. Cardinality(0 .. n - 1) = n
    <2>1. n - 1 \in Int /\ 0 \in Int /\ n \in Nat /\ n >= 1
      BY <1>2
    <2>2. Cardinality(0 .. n - 1) = IF 0 > n - 1 THEN 0 ELSE (n - 1) - 0 + 1
      BY <2>1, FS_Interval
    <2> QED
      BY <2>1, <2>2
  <1> HIDE DEF ks
  <1>6. Cardinality(ks) = n
    BY <1>4, <1>5
  <1> QED
    BY <1>2, <1>6 DEF ks

(* asn1_pop_tag's length: one byte, or the number of its bytes and them.   *)
LEMMA LengthBytesAre ==
  ASSUME NEW len \in Nat, len < Power(Base, 4), len >= HALF
  PROVE  \E k \in 1 .. 4 : /\ len < Power(Base, k)
                           /\ LengthBytes(len) = <<HALF + k>> \o BigEndian(len, k)
PROOF
  <1>0. Base \in Nat \ {0} /\ HALF \in Nat /\ HALF >= 5
    BY Sizes
  <1> DEFINE js == {j \in 0 .. 3 : len >= Power(Base, j)}
             ks == {0} \cup {k \in 1 .. 3 : len >= Power(Base, k)}
             m == 3
  <1>1. js = ks
    <2>1. Power(Base, 0) = 1
      BY <1>0, PowerNext
    <2>2. len >= Power(Base, 0)
      BY <1>0, <2>1
    <2>3. \A j \in 0 .. 3 : j = 0 \/ j \in 1 .. 3
      OBVIOUS
    <2>4. \A j \in 1 .. 3 : j \in 0 .. 3
      OBVIOUS
    <2> QED
      BY <2>2, <2>3, <2>4
  <1>2. \E n \in 1 .. m + 1 :
          /\ len < Power(Base, n)
          /\ Cardinality({0} \cup {k \in 1 .. m : len >= Power(Base, k)}) = n
    <2>1. m \in Nat /\ m + 1 = 4
      OBVIOUS
    <2> HIDE DEF m
    <2>2. len < Power(Base, m + 1)
      BY <2>1
    <2> QED
      BY <1>0, <2>1, <2>2, Digits
  <1>3. PICK n \in 1 .. 4 : len < Power(Base, n) /\ Cardinality(ks) = n
    BY <1>2
  <1>4. LengthBytes(len) = <<HALF + Cardinality(js)>> \o BigEndian(len, Cardinality(js))
    BY <1>0 DEF LengthBytes
  <1> HIDE DEF js, ks
  <1> QED
    BY <1>1, <1>3, <1>4

LEMMA SumProduct ==
  ASSUME NEW x \in Nat, NEW y \in Nat, NEW z \in Nat
  PROVE  x * y + z \in Nat /\ x * y = y * x
PROOF
  OBVIOUS

LEMMA SmallMod ==
  ASSUME NEW n \in Nat, NEW p \in Nat \ {0}, n < p
  PROVE  n % p = n /\ n \div p = 0
PROOF
  OBVIOUS

LEMMA BigEndianIs ==
  ASSUME NEW n \in Int, NEW k \in Nat, NEW i \in 1 .. k
  PROVE  /\ BigEndian(n, k)[i] = (n \div Power(Base, k - i)) % Base
         /\ k - i \in Nat /\ Power(Base, k - i) \in Nat \ {0}
PROOF
  <1>1. k - i \in Nat /\ Base \in Nat \ {0}
    BY Sizes
  <1>2. Power(Base, k - i) \in Nat \ {0}
    BY <1>1, PowerType
  <1> QED
    BY <1>1, <1>2 DEF BigEndian

(* Zeros in front can be left out, or added.                               *)
LEMMA LeadingZeros ==
  ASSUME NEW u \in Nat, NEW w \in Nat, u < Power(Base, w), NEW k \in 0 .. w,
         \A j \in 1 .. k : BigEndian(u, w)[j] = 0
  PROVE  u < Power(Base, w - k)
PROOF
  <1>0. Base \in Nat \ {0}
    BY Sizes
  <1> DEFINE T == {m \in Nat : m <= k => u < Power(Base, w - m)}
  <1>1. 0 \in T
    <2>1. w - 0 = w
      OBVIOUS
    <2> QED
      BY <2>1
  <1>2. ASSUME NEW m \in T PROVE m + 1 \in T
    <2> SUFFICES ASSUME m + 1 <= k PROVE u < Power(Base, w - (m + 1))
      OBVIOUS
    <2> DEFINE e == w - (m + 1)
               q == Power(Base, e)
    <2>1. e \in Nat /\ w - m = e + 1 /\ m + 1 \in 1 .. k /\ m + 1 \in 1 .. w
      OBVIOUS
    <2>2. u < Power(Base, e + 1)
      <3>1. u < Power(Base, w - m)
        OBVIOUS
      <3> QED
        BY <2>1, <3>1
    <2>3. BigEndian(u, w)[m + 1] = 0
      BY <2>1
    <2>4. BigEndian(u, w)[m + 1] = (u \div q) % Base
      <3>1. u \in Int
        OBVIOUS
      <3> QED
        BY <2>1, <3>1, BigEndianIs
    <2>5. q \in Nat \ {0} /\ Power(Base, e + 1) = Base * q
      <3> HIDE DEF e
      <3> QED
        BY <1>0, <2>1, PowerType, PowerNext
    <2> HIDE DEF e, q
    <2> DEFINE d == u \div q
               r == u % q
    <2>6. d \in Int /\ r \in 0 .. q - 1 /\ u = d * q + r
      <3>1. q \in Nat \ {0} /\ u \in Int
        BY <2>5
      <3> QED
        BY <3>1, DivMod
    <2> HIDE DEF d, r
    <2>7. d < Base
      <3> SUFFICES ASSUME d >= Base PROVE FALSE
        BY <1>0, <2>6
      <3>1. Base * q <= d * q /\ Base * q \in Int /\ d * q \in Int
        BY <1>0, <2>5, <2>6, Monotone
      <3> QED
        BY <2>2, <2>5, <2>6, <3>1
    <2>8. d >= 0
      <3> SUFFICES ASSUME d <= -1 PROVE FALSE
        BY <2>6
      <3>1. d * q <= (-1) * q /\ d * q \in Int
        BY <2>5, <2>6, Monotone
      <3> QED
        BY <2>5, <2>6, <3>1
    <2>9. d % Base = d
      BY <1>0, <2>6, <2>7, <2>8, SmallMod
    <2>10. d = 0
      BY <2>3, <2>4, <2>9 DEF d
    <2>11. u < q
      BY <2>5, <2>6, <2>10
    <2> QED
      BY <2>11 DEF q, e
  <1>3. T = Nat
    <2> HIDE DEF T
    <2>1. T \in SUBSET Nat
      BY DEF T
    <2> QED
      BY <1>1, <1>2, <2>1, InductiveSet
  <1>4. k \in T /\ k <= k
    <2> HIDE DEF T
    <2> QED
      BY <1>3
  <1> QED
    BY <1>4

LEMMA BigEndianFrom ==
  ASSUME NEW u \in Int, NEW w \in Nat, NEW k \in 1 .. w
  PROVE  SubSeq(BigEndian(u, w), k, w) = BigEndian(u, w - k + 1)
PROOF
  <1> DEFINE all == BigEndian(u, w)
             n == w - k + 1
             few == BigEndian(u, n)
             s == SubSeq(all, k, w)
  <1>0. n \in Nat
    OBVIOUS
  <1>1. all \in Seq(Bytes) /\ Len(all) = w
    BY BigEndianType
  <1>2. few \in Seq(Bytes) /\ Len(few) = n
    <2> HIDE DEF n
    <2> QED
      BY <1>0, BigEndianType
  <1>3. s \in Seq(Bytes) /\ Len(s) = n /\ \A i \in 1 .. n : s[i] = all[k + i - 1]
    <2> HIDE DEF all, Bytes
    <2> QED
      BY <1>1
  <1>4. ASSUME NEW i \in 1 .. n PROVE s[i] = few[i]
    <2>1. k + i - 1 \in 1 .. w /\ w - (k + i - 1) = n - i
      OBVIOUS
    <2>2. all[k + i - 1] = (u \div Power(Base, w - (k + i - 1))) % Base
      <3> DEFINE j == k + i - 1
      <3>1. j \in 1 .. w
        BY <2>1
      <3> HIDE DEF j
      <3>2. all[j] = (u \div Power(Base, w - j)) % Base
        BY <3>1, BigEndianIs
      <3> QED
        BY <3>2 DEF j
    <2>3. few[i] = (u \div Power(Base, n - i)) % Base
      <3> HIDE DEF n
      <3> QED
        BY <1>0, BigEndianIs
    <2>4. s[i] = all[k + i - 1]
      <3> HIDE DEF s, all, n
      <3> QED
        BY <1>3
    <2> HIDE DEF s, all, few
    <2> QED
      BY <2>1, <2>2, <2>3, <2>4
  <1>5. s = few
    <2> HIDE DEF s, few, n, Bytes
    <2> QED
      BY <1>0, <1>2, <1>3, <1>4, SeqEqual
  <1> QED
    BY <1>5

LEMMA ZeroBefore ==
  ASSUME NEW u \in Nat, NEW m \in Nat, u < Power(Base, m)
  PROVE  <<0>> \o BigEndian(u, m) = BigEndian(u, m + 1)
PROOF
  <1> DEFINE few == BigEndian(u, m)
             n == m + 1
             all == BigEndian(u, n)
             s == <<0>> \o few
  <1>0. Base \in Nat \ {0} /\ n \in Nat /\ u \in Int
    BY Sizes
  <1>1. all \in Seq(Bytes) /\ Len(all) = n /\ few \in Seq(Bytes) /\ Len(few) = m
    <2> HIDE DEF n
    <2> QED
      BY <1>0, BigEndianType
  <1>2. /\ s \in Seq(Bytes) /\ Len(s) = n /\ s[1] = 0
        /\ \A i \in 2 .. n : s[i] = few[i - 1]
    <2>1. 0 \in Bytes
      BY Sizes DEF Bytes
    <2> HIDE DEF few, Bytes
    <2> QED
      BY <1>1, <2>1
  <1>3. all[1] = 0
    <2>1. 1 \in 1 .. n /\ n - 1 = m
      OBVIOUS
    <2>2. all[1] = (u \div Power(Base, n - 1)) % Base
      <3> HIDE DEF n
      <3> QED
        BY <1>0, <2>1, BigEndianIs
    <2> DEFINE p == Power(Base, m)
    <2>3. p \in Nat \ {0} /\ u < p
      BY <1>0, PowerType
    <2> HIDE DEF p
    <2>4. u \div p = 0
      BY <2>3, SmallMod
    <2>5. 0 % Base = 0
      BY <1>0
    <2> HIDE DEF all
    <2> QED
      BY <2>1, <2>2, <2>4, <2>5 DEF p
  <1>4. ASSUME NEW i \in 2 .. n PROVE all[i] = few[i - 1]
    <2>1. i \in 1 .. n /\ i - 1 \in 1 .. m /\ n - i = m - (i - 1)
      OBVIOUS
    <2>2. all[i] = (u \div Power(Base, n - i)) % Base
      <3> HIDE DEF n
      <3> QED
        BY <1>0, <2>1, BigEndianIs
    <2>3. few[i - 1] = (u \div Power(Base, m - (i - 1))) % Base
      BY <1>0, <2>1, BigEndianIs
    <2> HIDE DEF all, few
    <2> QED
      BY <2>1, <2>2, <2>3
  <1>5. s = all
    <2>1. \A i \in 1 .. n : i = 1 \/ i \in 2 .. n
      BY <1>0
    <2> HIDE DEF s, all, few, n, Bytes
    <2>2. \A i \in 1 .. n : s[i] = all[i]
      BY <1>2, <1>3, <1>4, <2>1
    <2> QED
      BY <1>0, <1>1, <1>2, <2>2, SeqEqual
  <1> QED
    BY <1>5

LEMMA IntSizes ==
  /\ Power(Base, Width) \in Nat \ {0} /\ Power(Base, Width - 1) \in Nat \ {0}
  /\ Power(Base, Width) = 2 * (HALF * Power(Base, Width - 1))
  /\ Power(Base, Width) \div 2 = HALF * Power(Base, Width - 1)
PROOF
  <1> DEFINE q == Power(Base, Width - 1)
  <1>1. Base \in Nat \ {0} /\ Width - 1 \in Nat /\ (Width - 1) + 1 = Width
    BY Sizes
  <1>2. q \in Nat \ {0} /\ Power(Base, Width) = Base * q
    <2> DEFINE w == Width - 1
    <2>1. w \in Nat /\ w + 1 = Width
      BY <1>1
    <2> HIDE DEF w
    <2>2. Power(Base, w) \in Nat \ {0} /\ Power(Base, w + 1) = Base * Power(Base, w)
      BY <1>1, <2>1, PowerType, PowerNext
    <2> QED
      BY <2>1, <2>2 DEF w
  <1> HIDE DEF q
  <1>3. Power(Base, Width) \in Nat \ {0}
    BY <1>1, Sizes, PowerType
  <1> DEFINE h == HALF * q
  <1>4. h \in Nat /\ Base * q = 2 * h
    BY <1>2, Sizes
  <1> HIDE DEF h
  <1>5. (2 * h) \div 2 = h
    BY <1>4
  <1> QED
    BY <1>2, <1>3, <1>4, <1>5 DEF q, h

(* The bytes of an int that is not negative hold it.                       *)
LEMMA NaturalBytes ==
  ASSUME NEW i \in Nat, i < Power(Base, Width)
  PROVE  \E m \in Nat : IntBytes(i) = BigEndian(i, m) /\ i < Power(Base, m)
PROOF
  <1> DEFINE u == i % Power(Base, Width)
             all == BigEndian(u, Width)
             sign == IF i < 0 THEN Base - 1 ELSE 0
             first == {k \in 1 .. Width : all[k] # sign /\ \A j \in 1 .. k - 1 : all[j] = sign}
             bytes == IF first = {} THEN <<sign>> ELSE SubSeq(all, CHOOSE k \in first : TRUE, Width)
  <1>0. Base \in Nat \ {0} /\ Width \in Nat /\ Width >= 2 /\ HALF \in Nat
    BY Sizes
  <1>1. u = i
    <2> DEFINE p == Power(Base, Width)
    <2>1. p \in Nat \ {0} /\ i < p
      BY <1>0, PowerType
    <2> HIDE DEF p
    <2> QED
      BY <2>1, SmallMod DEF p
  <1>2. IntBytes(i) = bytes \/ IntBytes(i) = <<sign>> \o bytes
    <2> HIDE DEF u
    <2>1. IntBytes(i) = IF (bytes[1] >= HALF) = (i < 0) THEN bytes ELSE <<sign>> \o bytes
      BY DEF IntBytes, u
    <2> HIDE DEF bytes, sign
    <2> QED
      BY <2>1
  <1>zero. sign = 0
    OBVIOUS
  <1> HIDE DEF u, sign
  <1>3. \E m \in Nat : bytes = BigEndian(i, m) /\ i < Power(Base, m)
    <2>1. CASE first = {}
      <3>1. \A k \in 1 .. Width : all[k] = 0
        <4> SUFFICES ASSUME NEW n \in 1 .. Width, all[n] # 0 PROVE FALSE
          OBVIOUS
        <4> HIDE DEF all
        <4> DEFINE T == {k \in 1 .. Width : all[k] # 0}
        <4>1. T \in SUBSET Nat /\ n \in T
          OBVIOUS
        <4>2. PICK k \in T : \A j \in T : k <= j
          <5> HIDE DEF T
          <5> QED
            BY <4>1, LeastNatural
        <4>3. k \in 1 .. Width /\ all[k] # 0
          OBVIOUS
        <4>4. ASSUME NEW j \in 1 .. k - 1 PROVE all[j] = 0
          <5>1. j \in 1 .. Width /\ ~(k <= j)
            BY <1>0, <4>3
          <5> QED
            BY <4>2, <5>1
        <4> HIDE DEF all
        <4>5. k \in first
          BY <1>zero, <4>3, <4>4
        <4> QED
          BY <2>1, <4>5
      <3>2. i < Power(Base, Width - Width)
        <4>1. Width \in 0 .. Width
          BY <1>0
        <4> QED
          BY <1>0, <1>1, <3>1, <4>1, LeadingZeros
      <3>3. Width - Width = 0 /\ Power(Base, 0) = 1
        BY <1>0, PowerNext
      <3>4. i = 0
        BY <3>2, <3>3
      <3>5. <<0>> \o BigEndian(0, 0) = BigEndian(0, 0 + 1)
        BY <3>3, ZeroBefore
      <3>6. BigEndian(0, 0) = <<>>
        BY DEF BigEndian
      <3>7. <<0>> \o <<>> = <<0>>
        OBVIOUS
      <3>8. Power(Base, 0 + 1) = Base * 1
        BY <1>0, <3>3, PowerNext
      <3>9. bytes = BigEndian(i, 1) /\ i < Power(Base, 1)
        <4>1. bytes = <<0>> /\ 0 + 1 = 1
          BY <1>zero, <2>1
        <4> HIDE DEF bytes
        <4> QED
          BY <1>0, <3>4, <3>5, <3>6, <3>7, <3>8, <4>1
      <3> QED
        BY <3>9
    <2>2. CASE first # {}
      <3> DEFINE k == CHOOSE k \in first : TRUE
      <3>1. k \in 1 .. Width /\ \A j \in 1 .. k - 1 : all[j] = 0
        <4>1. k \in first
          <5> HIDE DEF first
          <5> QED
            BY <2>2
        <4> QED
          BY <1>zero, <4>1
      <3>2. bytes = SubSeq(all, k, Width)
        BY <2>2
      <3> HIDE DEF k, bytes
      <3>3. SubSeq(all, k, Width) = BigEndian(i, Width - k + 1)
        <4>1. i \in Int /\ Width \in Nat /\ k \in 1 .. Width
          BY <1>0, <3>1
        <4>2. SubSeq(BigEndian(i, Width), k, Width) = BigEndian(i, Width - k + 1)
          BY <4>1, BigEndianFrom
        <4> QED
          BY <1>1, <4>2
      <3> DEFINE z == k - 1
      <3>4. z \in 0 .. Width /\ Width - z = Width - k + 1 /\ Width - k + 1 \in Nat
        BY <1>0, <3>1
      <3>5. \A j \in 1 .. z : BigEndian(i, Width)[j] = 0
        BY <1>1, <3>1
      <3> HIDE DEF z
      <3>6. i < Power(Base, Width - z)
        BY <1>0, <3>4, <3>5, LeadingZeros
      <3> QED
        BY <3>2, <3>3, <3>4, <3>6
    <2> QED
      BY <2>1, <2>2
  <1> HIDE DEF bytes
  <1>4. PICK m \in Nat : bytes = BigEndian(i, m) /\ i < Power(Base, m)
    BY <1>3
  <1>5. CASE IntBytes(i) = bytes
    BY <1>4, <1>5
  <1>6. CASE IntBytes(i) = <<sign>> \o bytes
    <2>1. IntBytes(i) = BigEndian(i, m + 1)
      BY <1>zero, <1>4, <1>6, ZeroBefore
    <2>2. Power(Base, m) <= Power(Base, m + 1) /\ Power(Base, m) \in Nat /\ Power(Base, m + 1) \in Nat
      <3>1. m + 1 \in Nat /\ m <= m + 1
        OBVIOUS
      <3> QED
        BY <1>0, <3>1, PowerOrder, PowerType
    <2>3. i < Power(Base, m + 1)
      BY <1>4, <2>2
    <2> QED
      BY <2>1, <2>3
  <1> QED
    BY <1>2, <1>5, <1>6

(* A negative int takes Width bytes or fewer, and Width only if they are   *)
(* all of it.                                                              *)
LEMMA NegativeBytes ==
  ASSUME NEW i \in Int, i < 0, i >= -(Power(Base, Width) \div 2)
  PROVE  /\ Len(IntBytes(i)) \in 0 .. Width
         /\ Len(IntBytes(i)) = Width => IntBytes(i) = BigEndian(i + Power(Base, Width), Width)
PROOF
  <1> DEFINE p == Power(Base, Width)
             q == Power(Base, Width - 1)
             u == i % p
             all == BigEndian(u, Width)
             sign == IF i < 0 THEN Base - 1 ELSE 0
             first == {k \in 1 .. Width : all[k] # sign /\ \A j \in 1 .. k - 1 : all[j] = sign}
             bytes == IF first = {} THEN <<sign>> ELSE SubSeq(all, CHOOSE k \in first : TRUE, Width)
             r == IF (bytes[1] >= HALF) = (i < 0) THEN bytes ELSE <<sign>> \o bytes
  <1>0. /\ Base \in Nat \ {0} /\ Width \in Nat /\ Width >= 2 /\ HALF \in Nat /\ HALF >= 5
        /\ Base = 2 * HALF
    BY Sizes
  <1>1. p \in Nat /\ q \in Nat \ {0} /\ p = 2 * (HALF * q) /\ p \div 2 = HALF * q
    BY IntSizes
  <1>2. IntBytes(i) = r
    <2> HIDE DEF u
    <2> QED
      BY DEF IntBytes, u, p
  <1> DEFINE h == HALF * q
  <1>3. h \in Nat
    BY <1>0, <1>1
  <1>4. u = i + p /\ u \in Nat /\ u >= h /\ u < p
    <2>1. i >= -h /\ p = 2 * h
      BY <1>1
    <2> HIDE DEF h, p, q
    <2> DEFINE x == i + p
    <2>2. x \in 0 .. p - 1 /\ x >= h /\ p \in Nat \ {0}
      BY <1>1, <1>3, <2>1
    <2>3. i = (-1) * p + x
      BY <1>1
    <2> HIDE DEF x
    <2>4. i % p = x
      BY <2>2, <2>3, DivModUnique
    <2> QED
      BY <1>1, <2>2, <2>4 DEF x
  <1>5. all \in Seq(Bytes) /\ Len(all) = Width /\ sign = Base - 1 /\ sign \in Bytes
    <2>1. all \in Seq(Bytes) /\ Len(all) = Width
      <3> HIDE DEF u
      <3>1. u \in Int
        BY <1>4
      <3> QED
        BY <1>0, <3>1, BigEndianType
    <2> HIDE DEF all
    <2> QED
      BY <1>0, <2>1 DEF Bytes
  <1>6. all[1] >= HALF /\ all[1] \in Bytes
    <2>1. 1 \in 1 .. Width
      BY <1>0
    <2>2. all[1] = (u \div q) % Base
      <3> HIDE DEF u
      <3>1. u \in Int
        BY <1>4
      <3> QED
        BY <1>0, <2>1, <3>1, BigEndianIs
    <2> DEFINE d == u \div q
               m == u % q
    <2>3. d \in Int /\ m \in 0 .. q - 1 /\ u = d * q + m
      <3> HIDE DEF u, q
      <3>1. u \in Int /\ q \in Nat \ {0}
        BY <1>1, <1>4
      <3> QED
        BY <3>1, DivMod
    <2> HIDE DEF d, m, u, q, p
    <2>4. d >= HALF
      <3> SUFFICES ASSUME d + 1 <= HALF PROVE FALSE
        BY <1>0, <2>3
      <3>1. (d + 1) * q <= h
        BY <1>0, <1>1, <2>3, Monotone
      <3>2. (d + 1) * q = d * q + q /\ d * q \in Int
        BY <1>1, <2>3
      <3> HIDE DEF h
      <3> QED
        BY <1>1, <1>3, <1>4, <2>3, <3>1, <3>2
    <2>5. d < Base
      <3> SUFFICES ASSUME Base <= d PROVE FALSE
        BY <1>0, <2>3
      <3>1. Base * q <= d * q /\ d * q \in Int
        BY <1>0, <1>1, <2>3, Monotone
      <3>2. Base * q = p
        BY <1>0, <1>1
      <3> QED
        BY <1>1, <1>4, <2>3, <3>1, <3>2
    <2>6. d % Base = d
      BY <1>0, <2>3, <2>4, <2>5, SmallMod
    <2>7. all[1] = d
      BY <2>2, <2>6 DEF d
    <2> HIDE DEF all
    <2>8. d \in Bytes
      BY <1>0, <2>3, <2>4, <2>5 DEF Bytes
    <2> QED
      BY <2>4, <2>7, <2>8
  <1> HIDE DEF u, all, sign
  <1>7. CASE first = {}
    <2>1. bytes = <<sign>>
      BY <1>7
    <2>2. r = bytes
      <3> HIDE DEF bytes
      <3>1. bytes[1] = sign
        BY <2>1
      <3>2. sign >= HALF
        BY <1>0, <1>5
      <3> QED
        BY <3>1, <3>2
    <2> HIDE DEF r, bytes
    <2>3. Len(r) = 1
      BY <2>1, <2>2
    <2> QED
      BY <1>0, <1>2, <2>3
  <1>8. CASE first # {}
    <2> DEFINE k == CHOOSE k \in first : TRUE
    <2>1. k \in 1 .. Width /\ \A j \in 1 .. k - 1 : all[j] = sign
      <3>1. k \in first
        <4> HIDE DEF first
        <4> QED
          BY <1>8
      <3> QED
        BY <3>1
    <2>2. bytes = SubSeq(all, k, Width)
      BY <1>8
    <2> HIDE DEF k, bytes, first
    <2>3. /\ bytes \in Seq(Bytes) /\ Len(bytes) = Width - k + 1
          /\ \A j \in 1 .. Width - k + 1 : bytes[j] = all[k + j - 1]
      <3> HIDE DEF Bytes
      <3> QED
        BY <1>0, <1>5, <2>1, <2>2
    <2>4. CASE k = 1
      <3>1. bytes = all
        <4> HIDE DEF Bytes
        <4>1. \A j \in 1 .. Width : bytes[j] = all[j]
          BY <1>0, <2>3, <2>4
        <4>2. Len(bytes) = Width
          BY <1>0, <2>3, <2>4
        <4> QED
          BY <1>0, <1>5, <2>3, <4>1, <4>2, SeqEqual
      <3>2. r = bytes
        BY <1>6, <3>1
      <3> HIDE DEF r
      <3> QED
        BY <1>0, <1>2, <1>4, <1>5, <3>1, <3>2 DEF all
    <2>5. CASE k # 1
      <3>1. CASE r = bytes
        <4>1. Len(r) = Width - k + 1
          BY <2>3, <3>1
        <4> HIDE DEF r
        <4> QED
          BY <1>0, <1>2, <2>1, <2>5, <4>1
      <3>2. CASE r = <<sign>> \o bytes
        <4> DEFINE s == <<sign>> \o bytes
        <4>1. /\ s \in Seq(Bytes) /\ Len(s) = Width - k + 2 /\ s[1] = sign
              /\ \A j \in 2 .. Width - k + 2 : s[j] = bytes[j - 1]
          <5> HIDE DEF Bytes
          <5> QED
            BY <1>0, <1>5, <2>1, <2>3
        <4> HIDE DEF s
        <4>2. Len(s) \in 0 .. Width
          BY <1>0, <2>1, <2>5, <4>1
        <4>3. ASSUME Len(s) = Width PROVE s = all
          <5>1. k = 2
            BY <1>0, <2>1, <4>1, <4>3
          <5>2. all[1] = sign
            BY <2>1, <5>1
          <5>3. \A j \in 1 .. Width : j = 1 \/ (j \in 2 .. Width /\ j - 1 \in 1 .. Width - 1)
            BY <1>0
          <5>4. \A j \in 2 .. Width : s[j] = bytes[j - 1]
            BY <1>0, <4>1, <5>1
          <5>5. \A j \in 1 .. Width - 1 : bytes[j] = all[j + 1]
            BY <1>0, <2>3, <5>1
          <5>6. \A j \in 1 .. Width : s[j] = all[j]
            BY <1>0, <4>1, <5>2, <5>3, <5>4, <5>5
          <5> HIDE DEF Bytes
          <5> QED
            BY <1>5, <4>1, <4>3, <5>6, SeqEqual
        <4> HIDE DEF r
        <4> QED
          BY <1>2, <1>4, <3>2, <4>2, <4>3 DEF s, all
      <3>3. r = bytes \/ r = <<sign>> \o bytes
        OBVIOUS
      <3> HIDE DEF r
      <3> QED
        BY <3>1, <3>2, <3>3
    <2> QED
      BY <2>4, <2>5
  <1> QED
    BY <1>7, <1>8

(* asn1_read_Integer of what asn1_write_Integer wrote.                     *)
LEMMA IntBack ==
  ASSUME NEW i \in Ints
  PROVE  /\ i >= 0 => AsInt(IntBytes(i)) = i
         /\ i < 0 => AsInt(IntBytes(i)) \in {i, Unsigned(IntBytes(i))}
PROOF
  <1> DEFINE p == Power(Base, Width)
             q == Power(Base, Width - 1)
             h == HALF * q
             r == IntBytes(i)
             u == Unsigned(r) % p
  <1>1. /\ Base \in Nat \ {0} /\ Width \in Nat /\ Width >= 2 /\ HALF \in Nat /\ HALF >= 5
        /\ Base = 2 * HALF
    BY Sizes
  <1>2. p \in Nat \ {0} /\ q \in Nat \ {0} /\ p = 2 * h /\ p \div 2 = h
    BY IntSizes
  <1>3. h \in Nat
    BY <1>1, <1>2
  <1>4. i \in Int /\ -h <= i /\ i < h
    <2>1. i \in -(p \div 2) .. p \div 2 - 1
      BY DEF Ints
    <2> HIDE DEF p, h
    <2> QED
      BY <1>2, <1>3, <2>1
  <1>5. AsInt(r) = IF u < h THEN u ELSE u - p
    <2>1. AsInt(r) = IF u < p \div 2 THEN u ELSE u - p
      <3> HIDE DEF r
      <3> QED
        BY DEF AsInt, Signed, Word
    <2> HIDE DEF r, u, p, h
    <2> QED
      BY <1>2, <2>1
  <1>6. r \in Seq(Bytes)
    BY <1>4, IntBytesType
  <1>7. ASSUME i >= 0 PROVE AsInt(r) = i
    <2>1. i \in Nat /\ i < p
      <3> HIDE DEF p, h
      <3> QED
        BY <1>2, <1>3, <1>4, <1>7
    <2>2. PICK m \in Nat : r = BigEndian(i, m) /\ i < Power(Base, m)
      BY <2>1, NaturalBytes
    <2>3. Unsigned(r) = i
      <3> DEFINE pm == Power(Base, m)
      <3>1. Unsigned(BigEndian(i, m)) = i % pm
        BY <1>4, UnsignedBigEndian
      <3>2. pm \in Nat \ {0} /\ i < pm
        BY <1>1, <2>2, PowerType
      <3> HIDE DEF pm
      <3>3. i % pm = i
        BY <2>1, <3>2, SmallMod
      <3> QED
        BY <2>2, <3>1, <3>3
    <2>4. u = i
      <3> HIDE DEF p, r
      <3>1. i % p = i
        BY <1>2, <2>1, SmallMod
      <3> QED
        BY <2>3, <3>1
    <2> HIDE DEF u, h, p, r
    <2> QED
      BY <1>4, <1>5, <2>4
  <1>8. ASSUME i < 0 PROVE AsInt(r) \in {i, Unsigned(r)}
    <2>1. Len(r) \in 0 .. Width /\ (Len(r) = Width => r = BigEndian(i + p, Width))
      <3>1. i >= -(p \div 2)
        BY <1>2, <1>4
      <3> QED
        BY <1>4, <1>8, <3>1, NegativeBytes
    <2>2. CASE Len(r) = Width
      <3> DEFINE x == i + p
      <3>1. x \in Nat /\ x < p /\ x >= h /\ x \in Int /\ x - p = i
        <4> HIDE DEF p, h
        <4> QED
          BY <1>2, <1>3, <1>4, <1>8
      <3> HIDE DEF x
      <3>2. x % p = x
        <4> HIDE DEF p
        <4> QED
          BY <1>2, <3>1, SmallMod
      <3>3. Unsigned(r) = x % p
        <4>1. Unsigned(BigEndian(x, Width)) = x % p
          BY <1>1, <3>1, UnsignedBigEndian
        <4> HIDE DEF r
        <4> QED
          BY <2>1, <2>2, <4>1 DEF x
      <3>4. u = x
        BY <3>2, <3>3
      <3> HIDE DEF u, r, p, h
      <3>5. AsInt(r) = i
        BY <1>2, <1>3, <1>5, <3>1, <3>4
      <3> QED
        BY <3>5
    <2>3. CASE Len(r) # Width
      <3> DEFINE n == Len(r)
                 v == Unsigned(r)
      <3>1. n \in Nat /\ Width - 1 \in Nat /\ n <= Width - 1
        BY <1>1, <2>1, <2>3
      <3>2. v < Power(Base, n) /\ v \in Nat
        BY <1>6, UnsignedBound
      <3> HIDE DEF n, r, v
      <3>3. Power(Base, n) <= q /\ Power(Base, n) \in Nat
        BY <1>1, <3>1, PowerOrder, PowerType
      <3> HIDE DEF q
      <3>4. q <= h
        BY <1>1, <1>2 DEF h
      <3>5. v < h /\ v < p
        <4> HIDE DEF p, h
        <4> QED
          BY <1>2, <1>3, <3>2, <3>3, <3>4
      <3>6. v % p = v
        <4> HIDE DEF p
        <4> QED
          BY <1>2, <3>2, <3>5, SmallMod
      <3>7. u = v
        BY <3>6 DEF v
      <3> HIDE DEF u, p, h
      <3>8. AsInt(r) = v
        BY <1>5, <3>5, <3>7
      <3> QED
        BY <3>8 DEF v
    <2> QED
      BY <2>2, <2>3
  <1> QED
    BY <1>7, <1>8

LEMMA EnumBack ==
  ASSUME NEW v \in Bytes
  PROVE  AsInt(<<v>>) = v
PROOF
  <1> DEFINE p == Power(Base, Width)
             q == Power(Base, Width - 1)
             h == HALF * q
             r == <<v>>
  <1>1. /\ Base \in Nat \ {0} /\ Width - 1 \in Nat /\ 1 <= Width - 1 /\ HALF \in Nat /\ HALF >= 5
        /\ Base = 2 * HALF
    BY Sizes
  <1>2. p \in Nat \ {0} /\ q \in Nat \ {0} /\ p = 2 * h /\ p \div 2 = h
    BY IntSizes
  <1>3. v \in Nat /\ v < Base
    BY <1>1 DEF Bytes
  <1>4. Unsigned(r) = v
    <2>1. <<>> \in Seq(Nat) /\ Append(<<>>, v) = r
      OBVIOUS
    <2>2. Unsigned(Append(<<>>, v)) = Unsigned(<<>>) * Base + v
      BY <1>3, <2>1, UnsignedAppend
    <2> QED
      BY <1>1, <1>3, <2>1, <2>2, UnsignedEmpty
  <1>5. Base <= q
    <2>1. Power(Base, 1) <= q
      BY <1>1, PowerOrder
    <2>2. Power(Base, 0 + 1) = Base * Power(Base, 0) /\ Power(Base, 0) = 1
      BY <1>1, PowerNext
    <2> QED
      BY <1>1, <2>1, <2>2
  <1> HIDE DEF q
  <1>6. h \in Nat /\ q <= h
    BY <1>1, <1>2
  <1> HIDE DEF h
  <1>7. v < h /\ v < p
    BY <1>1, <1>2, <1>3, <1>5, <1>6
  <1>8. v % p = v
    <2> HIDE DEF p
    <2> QED
      BY <1>2, <1>3, <1>7, SmallMod
  <1>9. AsInt(r) = IF Unsigned(r) % p < p \div 2 THEN Unsigned(r) % p ELSE (Unsigned(r) % p) - p
    BY DEF AsInt, Signed, Word
  <1> HIDE DEF r, p
  <1> QED
    BY <1>2, <1>4, <1>7, <1>8, <1>9 DEF r

-----------------------------------------------------------------------------
(* An OID that is written is the OID that is read.                         *)

(* ber_read_OID_String after some bytes: the number begun and those        *)
(* complete; and with one byte more.                                       *)
Begun == Nat \X Seq(Nat)

WithByte(p, c) ==
  LET v == (p[1] * HALF + (c % HALF)) % Word
  IN  IF c < HALF THEN <<0, Append(p[2], v)>> ELSE <<v, p[2]>>

IsDecoding(f, bytes) ==
  /\ f \in [0 .. Len(bytes) -> Begun] /\ f[0] = <<0, <<>>>>
  /\ \A k \in 1 .. Len(bytes) : f[k] = WithByte(f[k - 1], bytes[k])

Decodes(bytes, p) == \E f : IsDecoding(f, bytes) /\ p = f[Len(bytes)]

LEMMA DecodesNumbers ==
  ASSUME NEW bytes \in Seq(Nat), NEW p, Decodes(bytes, p)
  PROVE  NumbersOf(bytes) = p[2]
PROOF
  <1> DEFINE n == Len(bytes)
             Step(g, k) ==
               IF k = 0 THEN <<0, <<>>>>
               ELSE LET v == (g[k - 1][1] * HALF + (bytes[k] % HALF)) % Word
                    IN  IF bytes[k] < HALF THEN <<0, Append(g[k - 1][2], v)>>
                        ELSE <<v, g[k - 1][2]>>
             Is(g) == g = [k \in 0 .. n |-> Step(g, k)]
  <1>0. n \in Nat
    OBVIOUS
  <1>1. PICK f : IsDecoding(f, bytes) /\ p = f[n]
    BY DEF Decodes
  <1>2. f \in [0 .. n -> Begun] /\ f[0] = <<0, <<>>>> /\ \A k \in 1 .. n : f[k] = WithByte(f[k - 1], bytes[k])
    BY <1>1 DEF IsDecoding
  <1> HIDE DEF n
  <1>3. Is(f)
    <2>1. \A k \in 0 .. n : k = 0 \/ k \in 1 .. n
      BY <1>0
    <2>2. \A k \in 0 .. n : f[k] = Step(f, k)
      BY <1>2, <2>1 DEF WithByte
    <2> HIDE DEF Step
    <2>3. f = [k \in 0 .. n |-> f[k]]
      BY <1>2
    <2> QED
      BY <2>2, <2>3
  <1> DEFINE g == CHOOSE g : Is(g)
  <1>4. Is(g)
    <2> HIDE DEF Is
    <2> QED
      BY <1>3
  <1>5. NumbersOf(bytes) = g[n][2]
    BY DEF NumbersOf, n
  <1>6. g[0] = <<0, <<>>>> /\ \A k \in 1 .. n : g[k] = WithByte(g[k - 1], bytes[k])
    <2> HIDE DEF g
    <2>1. 0 \in 0 .. n /\ \A k \in 1 .. n : k \in 0 .. n /\ k # 0
      BY <1>0
    <2> HIDE DEF Step
    <2>2. \A k \in 0 .. n : g[k] = Step(g, k)
      BY <1>4
    <2> HIDE DEF Is
    <2>3. g[0] = <<0, <<>>>>
      BY <2>1, <2>2 DEF Step
    <2>4. ASSUME NEW k \in 1 .. n PROVE g[k] = WithByte(g[k - 1], bytes[k])
      <3>1. k \in 0 .. n /\ k # 0
        BY <2>1
      <3> QED
        BY <2>2, <3>1 DEF WithByte, Step
    <2> QED
      BY <2>3, <2>4
  <1> HIDE DEF g, Is
  <1> DEFINE T == {k \in Nat : k <= n => f[k] = g[k]}
  <1>7. 0 \in T
    BY <1>2, <1>6
  <1>8. ASSUME NEW k \in T PROVE k + 1 \in T
    <2> SUFFICES ASSUME k + 1 <= n PROVE f[k + 1] = g[k + 1]
      OBVIOUS
    <2>1. k + 1 \in 1 .. n /\ (k + 1) - 1 = k /\ f[k] = g[k]
      BY <1>0
    <2>2. f[k + 1] = WithByte(f[k], bytes[k + 1]) /\ g[k + 1] = WithByte(g[k], bytes[k + 1])
      BY <1>2, <1>6, <2>1
    <2> QED
      BY <2>1, <2>2
  <1>9. T = Nat
    <2> HIDE DEF T
    <2>1. T \in SUBSET Nat
      BY DEF T
    <2> QED
      BY <1>7, <1>8, <2>1, InductiveSet
  <1>10. f[n] = g[n]
    BY <1>0, <1>9
  <1> QED
    BY <1>1, <1>5, <1>10

LEMMA DecodesNothing == Decodes(<<>>, <<0, <<>>>>)
PROOF
  <1> DEFINE f == [k \in 0 .. 0 |-> <<0, <<>>>>]
  <1>1. <<0, <<>>>> \in Begun
    <2>1. <<>> \in Seq(Nat) /\ 0 \in Nat
      OBVIOUS
    <2> QED
      BY <2>1 DEF Begun
  <1> HIDE DEF Begun
  <1>2. Len(<<>>) = 0 /\ f \in [0 .. 0 -> Begun] /\ f[0] = <<0, <<>>>>
    BY <1>1
  <1> HIDE DEF f
  <1>3. IsDecoding(f, <<>>)
    BY <1>2 DEF IsDecoding
  <1> QED
    BY <1>2, <1>3 DEF Decodes

LEMMA WithByteType ==
  ASSUME NEW p \in Begun, NEW c \in Nat
  PROVE  WithByte(p, c) \in Begun
PROOF
  <1> DEFINE w == p[1] * HALF + (c % HALF)
             v == w % Word
             s == p[2]
  <1>1. p[1] \in Nat /\ s \in Seq(Nat)
    BY DEF Begun
  <1>2. v \in Nat
    <2>1. HALF \in Nat \ {0}
      BY Sizes
    <2>2. c % HALF \in Nat /\ p[1] * HALF \in Nat
      BY <1>1, <2>1
    <2>3. w \in Int
      BY <2>2
    <2> HIDE DEF w
    <2>4. w % Word \in 0 .. Word - 1
      BY <2>3, WordType, DivMod
    <2> QED
      BY <2>4, WordType
  <1> HIDE DEF v, s
  <1>3. Append(s, v) \in Seq(Nat)
    BY <1>1, <1>2
  <1>4. WithByte(p, c) = IF c < HALF THEN <<0, Append(s, v)>> ELSE <<v, s>>
    BY DEF WithByte, v, s
  <1> DEFINE t == Append(s, v)
  <1>5. t \in Seq(Nat) /\ s \in Seq(Nat) /\ v \in Nat /\ 0 \in Nat
    BY <1>1, <1>2, <1>3
  <1> HIDE DEF t
  <1>6. <<0, t>> \in Begun /\ <<v, s>> \in Begun
    BY <1>5 DEF Begun
  <1> HIDE DEF Begun
  <1> QED
    BY <1>4, <1>6 DEF t

LEMMA DecodesNext ==
  ASSUME NEW bytes \in Seq(Nat), NEW c \in Nat, NEW p, Decodes(bytes, p)
  PROVE  Decodes(Append(bytes, c), WithByte(p, c))
PROOF
  <1> DEFINE n == Len(bytes)
             more == Append(bytes, c)
  <1>1. /\ n \in Nat /\ more \in Seq(Nat) /\ Len(more) = n + 1 /\ more[n + 1] = c
        /\ \A k \in 1 .. n : more[k] = bytes[k]
    OBVIOUS
  <1>2. PICK f : IsDecoding(f, bytes) /\ p = f[n]
    BY DEF Decodes
  <1>3. f \in [0 .. n -> Begun] /\ f[0] = <<0, <<>>>> /\ \A k \in 1 .. n : f[k] = WithByte(f[k - 1], bytes[k])
    BY <1>2 DEF IsDecoding
  <1> HIDE DEF n, more
  <1> DEFINE g == [k \in 0 .. n + 1 |-> IF k = n + 1 THEN WithByte(p, c) ELSE f[k]]
  <1>4. \A k \in 0 .. n + 1 : k = n + 1 \/ k \in 0 .. n
    BY <1>1
  <1>5. \A k \in 0 .. n : k \in 0 .. n + 1 /\ k # n + 1 /\ g[k] = f[k]
    BY <1>1
  <1>6. n + 1 \in 0 .. n + 1 /\ g[n + 1] = WithByte(p, c)
    BY <1>1
  <1>7. p \in Begun /\ WithByte(p, c) \in Begun
    <2>1. n \in 0 .. n
      BY <1>1
    <2>2. p \in Begun
      BY <1>2, <1>3, <2>1
    <2> QED
      BY <2>2, WithByteType
  <1>8. g \in [0 .. n + 1 -> Begun]
    <2>1. \A k \in 0 .. n + 1 : g[k] \in Begun
      <3> HIDE DEF g, Begun
      <3> QED
        BY <1>3, <1>4, <1>5, <1>6, <1>7
    <2> QED
      BY <2>1
  <1> HIDE DEF g
  <1>9. ASSUME NEW k \in 1 .. n + 1 PROVE g[k] = WithByte(g[k - 1], more[k])
    <2>1. CASE k = n + 1
      <3>1. k - 1 = n /\ n \in 0 .. n
        BY <1>1, <2>1
      <3> QED
        BY <1>1, <1>2, <1>5, <1>6, <2>1, <3>1
    <2>2. CASE k \in 1 .. n
      <3>1. k \in 0 .. n /\ k - 1 \in 0 .. n
        BY <1>1, <2>2
      <3> QED
        BY <1>1, <1>3, <1>5, <2>2, <3>1
    <2> QED
      BY <1>1, <2>1, <2>2
  <1>10. g[0] = <<0, <<>>>>
    BY <1>1, <1>3, <1>5
  <1>11. IsDecoding(g, more)
    BY <1>1, <1>8, <1>9, <1>10 DEF IsDecoding
  <1> QED
    BY <1>1, <1>6, <1>11 DEF Decodes, more

IsProduct(c, a, b) == c = a * b
DividesByBoth(n, c, a, b) == n \div c = (n \div a) \div b

LEMMA DivProduct ==
  ASSUME NEW n \in Int, NEW a \in Nat \ {0}, NEW b \in Nat \ {0}, NEW c, IsProduct(c, a, b)
  PROVE  DividesByBoth(n, c, a, b)
PROOF
  <1>1. DividesTwice(n, a, b)
    BY DivTwice
  <1> QED
    BY <1>1 DEF DividesTwice, DividesByBoth, IsProduct

LEMMA PrefixNext ==
  ASSUME NEW S, NEW s \in Seq(S), NEW t \in Seq(S), NEW j \in Nat, j < Len(t)
  PROVE  /\ s \o SubSeq(t, 1, j) \in Seq(S) /\ t[j + 1] \in S
         /\ s \o SubSeq(t, 1, j + 1) = Append(s \o SubSeq(t, 1, j), t[j + 1])
PROOF
  <1> DEFINE a == SubSeq(t, 1, j)
             b == SubSeq(t, 1, j + 1)
             x == s \o b
             y == Append(s \o a, t[j + 1])
             n == Len(s)
  <1>1. /\ a \in Seq(S) /\ Len(a) = j /\ \A i \in 1 .. j : a[i] = t[i]
        /\ b \in Seq(S) /\ Len(b) = j + 1 /\ \A i \in 1 .. j + 1 : b[i] = t[i]
        /\ t[j + 1] \in S /\ n \in Nat
    OBVIOUS
  <1> HIDE DEF a, b
  <1>2. /\ x \in Seq(S) /\ Len(x) = n + (j + 1)
        /\ \A i \in 1 .. n + (j + 1) : x[i] = IF i <= n THEN s[i] ELSE t[i - n]
    <2>1. /\ x \in Seq(S) /\ Len(x) = n + Len(b)
          /\ \A i \in 1 .. n + Len(b) : x[i] = IF i <= n THEN s[i] ELSE b[i - n]
      BY <1>1, ConcatProperties
    <2>2. \A i \in 1 .. n + (j + 1) : ~(i <= n) => i - n \in 1 .. j + 1
      BY <1>1
    <2> HIDE DEF x, n
    <2> QED
      BY <1>1, <2>1, <2>2
  <1>3. s \o a \in Seq(S) /\ Len(s \o a) = n + j
        /\ \A i \in 1 .. n + j : (s \o a)[i] = IF i <= n THEN s[i] ELSE t[i - n]
    <2>1. /\ s \o a \in Seq(S) /\ Len(s \o a) = Len(s) + Len(a)
          /\ \A i \in 1 .. Len(s) + Len(a) : (s \o a)[i] = IF i <= Len(s) THEN s[i] ELSE a[i - Len(s)]
      BY <1>1, ConcatProperties
    <2>2. \A i \in 1 .. n + j : ~(i <= n) => i - n \in 1 .. j
      BY <1>1
    <2> QED
      BY <1>1, <2>1, <2>2
  <1>4. /\ y \in Seq(S) /\ Len(y) = n + (j + 1)
        /\ \A i \in 1 .. n + (j + 1) : y[i] = IF i <= n THEN s[i] ELSE t[i - n]
    <2> DEFINE z == s \o a
               c == t[j + 1]
    <2>1. z \in Seq(S) /\ Len(z) = n + j /\ c \in S
      BY <1>1, <1>3
    <2>2. \A i \in 1 .. n + j : z[i] = IF i <= n THEN s[i] ELSE t[i - n]
      BY <1>3
    <2> HIDE DEF z
    <2>3. /\ Append(z, c) \in Seq(S) /\ Len(Append(z, c)) = n + (j + 1)
          /\ Append(z, c)[n + (j + 1)] = c
          /\ \A i \in 1 .. n + j : Append(z, c)[i] = z[i]
      <3> HIDE DEF c
      <3> QED
        BY <1>1, <2>1
    <2>4. \A i \in 1 .. n + (j + 1) : i \in 1 .. n + j \/ (i = n + (j + 1) /\ ~(i <= n) /\ i - n = j + 1)
      BY <1>1
    <2> QED
      BY <2>2, <2>3, <2>4 DEF z
  <1> HIDE DEF x, y, n
  <1>5. \A i \in 1 .. n + (j + 1) : x[i] = y[i]
    BY <1>2, <1>4
  <1>6. x = y
    BY <1>1, <1>2, <1>4, <1>5, SeqEqual
  <1> QED
    BY <1>1, <1>3, <1>6 DEF x, y, a, b

LEMMA AtMost ==
  ASSUME NEW n \in Nat, NEW b \in Nat \ {0}
  PROVE  n \div b \in 0 .. n
PROOF
  <1> DEFINE q == n \div b
             m == n % b
  <1>1. q \in Int /\ m \in 0 .. b - 1 /\ n = q * b + m
    BY DivMod
  <1> HIDE DEF q, m
  <1>2. q >= 0
    <2> SUFFICES ASSUME q <= -1 PROVE FALSE
      BY <1>1
    <2>1. q * b <= (-1) * b
      BY <1>1
    <2> QED
      BY <1>1, <2>1
  <1>3. q * 1 <= q * b
    BY <1>1, <1>2
  <1> QED
    BY <1>1, <1>2, <1>3 DEF q

(* The bytes of one number complete it.                                    *)
LEMMA NumberDecodes ==
  ASSUME NEW s \in Seq(Nat), NEW o \in Seq(Nat), Decodes(s, <<0, o>>),
         NEW v \in Nat, v < Word, v < Power(HALF, 5)
  PROVE  /\ NumberBytes(v) \in Seq(Nat) /\ Len(NumberBytes(v)) >= 1
         /\ NumberBytes(v)[Len(NumberBytes(v))] < HALF
         /\ Decodes(s \o NumberBytes(v), <<0, Append(o, v)>>)
PROOF
  <1> DEFINE m == 4
             n == Cardinality({0} \cup {k \in 1 .. 4 : v >= Power(HALF, k)})
             D(i) == (v \div Power(HALF, n - i)) % HALF
             F(i) == D(i) + (IF i < n THEN HALF ELSE 0)
             nb == [i \in 1 .. n |-> F(i)]
  <1>0. HALF \in Nat \ {0} /\ HALF \in Int
    BY Sizes
  <1>1. n \in 1 .. 5 /\ v < Power(HALF, n)
    <2>1. m \in Nat /\ m + 1 = 5
      OBVIOUS
    <2> HIDE DEF m
    <2>2. v < Power(HALF, m + 1)
      BY <2>1
    <2>3. \E x \in 1 .. m + 1 :
            /\ v < Power(HALF, x)
            /\ Cardinality({0} \cup {k \in 1 .. m : v >= Power(HALF, k)}) = x
      BY <1>0, <2>1, <2>2, Digits
    <2> QED
      BY <2>1, <2>3 DEF m
  <1>2. NumberBytes(v) = nb
    <2>1. v % Word = v
      BY WordType, SmallMod
    <2> QED
      BY <2>1 DEF NumberBytes
  <1> HIDE DEF n
  <1>3. n \in Nat /\ n >= 1
    BY <1>1
  <1>4. ASSUME NEW i \in 1 .. n PROVE D(i) \in Nat /\ D(i) < HALF /\ F(i) \in Nat
    <2> DEFINE p == Power(HALF, n - i)
    <2>1. n - i \in Nat
      BY <1>3
    <2>2. p \in Nat \ {0}
      BY <1>0, <2>1, PowerType
    <2> HIDE DEF p
    <2>3. v \div p \in Int
      BY <2>2
    <2>4. (v \div p) % HALF \in 0 .. HALF - 1
      BY <1>0, <2>3
    <2> QED
      BY <1>0, <2>4 DEF p
  <1>5. nb \in Seq(Nat) /\ Len(nb) = n /\ \A i \in 1 .. n : nb[i] = F(i)
    <2> HIDE DEF F
    <2> QED
      BY <1>3, <1>4
  <1> HIDE DEF nb
  <1> DEFINE P(j) == s \o SubSeq(nb, 1, j)
             T == {j \in Nat : j < n => Decodes(P(j), <<v \div Power(HALF, n - j), o>>)}
  <1>6. ASSUME NEW j \in Nat, j < n
        PROVE  P(j) \in Seq(Nat) /\ P(j + 1) = Append(P(j), nb[j + 1]) /\ nb[j + 1] \in Nat
    BY <1>5, <1>6, PrefixNext
  <1>7. 0 \in T
    <2>1. n - 0 = n
      BY <1>3
    <2> DEFINE p == Power(HALF, n)
    <2>2. p \in Nat \ {0} /\ v < p
      BY <1>0, <1>1, <1>3, PowerType
    <2> HIDE DEF p
    <2>3. v \div p = 0
      BY <2>2, SmallMod
    <2>4. P(0) = s
      BY <1>5
    <2> HIDE DEF P
    <2> QED
      BY <2>1, <2>3, <2>4 DEF p
  <1> HIDE DEF P
  <1>8. ASSUME NEW j \in Nat, j + 1 < n, Decodes(P(j), <<v \div Power(HALF, n - j), o>>)
        PROVE  Decodes(P(j + 1), <<v \div Power(HALF, n - (j + 1)), o>>)
    <2> DEFINE e == n - (j + 1)
               q == Power(HALF, e)
               w == v \div q
               a == v \div Power(HALF, n - j)
               c == nb[j + 1]
    <2>1. e \in Nat /\ n - j = e + 1 /\ j + 1 \in 1 .. n /\ j < n
      BY <1>3, <1>8
    <2>2. q \in Nat \ {0} /\ Power(HALF, e + 1) = HALF * q
      <3> HIDE DEF e
      <3> QED
        BY <1>0, <2>1, PowerType, PowerNext
    <2>3. c = (w % HALF) + HALF
      <3>1. c = F(j + 1)
        <4> HIDE DEF F
        <4> QED
          BY <1>5, <2>1
      <3> QED
        BY <1>8, <3>1
    <2>4. P(j) \in Seq(Nat) /\ P(j + 1) = Append(P(j), c) /\ c \in Nat
      BY <1>6, <2>1
    <2>5. a = w \div HALF
      <3> DEFINE b == Power(HALF, e + 1)
      <3> HIDE DEF q
      <3>1. v \in Int /\ q \in Nat \ {0} /\ HALF \in Nat \ {0} /\ IsProduct(b, q, HALF)
        BY <1>0, <2>2 DEF IsProduct
      <3>2. a = v \div b
        <4> HIDE DEF e
        <4> QED
          BY <2>1
      <3> HIDE DEF b
      <3>3. DividesByBoth(v, b, q, HALF)
        BY <3>1, DivProduct
      <3>4. v \div b = (v \div q) \div HALF
        BY <3>3 DEF DividesByBoth
      <3> QED
        BY <3>2, <3>4
    <2>6. w \in Int
      <3> HIDE DEF q
      <3> QED
        BY <2>2
    <2> HIDE DEF w, c, a
    <2>7. w = a * HALF + (w % HALF) /\ w % HALF \in 0 .. HALF - 1
      <3>1. w \in Int /\ HALF \in Nat \ {0}
        BY <1>0, <2>6
      <3>2. w = (w \div HALF) * HALF + (w % HALF) /\ w % HALF \in 0 .. HALF - 1
        BY <3>1, DivMod
      <3> QED
        BY <2>5, <3>2
    <2>8. c % HALF = w % HALF /\ ~(c < HALF)
      <3> DEFINE r == w % HALF
                 one == 1
      <3>1. r \in 0 .. HALF - 1 /\ c = one * HALF + r /\ c \in Int /\ one \in Int
        BY <1>0, <2>3, <2>7
      <3>2. ~(c < HALF)
        BY <1>0, <3>1
      <3> HIDE DEF r, one
      <3>3. c % HALF = r
        BY <1>0, <3>1, DivModUnique
      <3> QED
        BY <3>2, <3>3 DEF r
    <2>9. WithByte(<<a, o>>, c) = <<w, o>>
      <3>1. <<a, o>>[1] = a /\ <<a, o>>[2] = o
        OBVIOUS
      <3>2. w \in Nat /\ w < Word
        <4>1. v \div q \in 0 .. v
          BY <2>2, AtMost
        <4> QED
          BY <4>1, WordType DEF w
      <3>3. w % Word = w
        BY <3>2, WordType, SmallMod
      <3>4. a * HALF + (c % HALF) = w
        BY <2>7, <2>8
      <3> QED
        BY <2>8, <3>1, <3>3, <3>4 DEF WithByte
    <2>10. Decodes(Append(P(j), c), WithByte(<<a, o>>, c))
      <3>1. Decodes(P(j), <<a, o>>)
        BY <1>8 DEF a
      <3> QED
        BY <2>4, <3>1, DecodesNext
    <2> QED
      BY <2>4, <2>9, <2>10 DEF w
  <1>9. ASSUME NEW j \in T PROVE j + 1 \in T
    BY <1>3, <1>8, <1>9
  <1>10. T = Nat
    <2> HIDE DEF T
    <2>1. T \in SUBSET Nat
      BY DEF T
    <2> QED
      BY <1>7, <1>9, <2>1, InductiveSet
  <1> DEFINE l == n - 1
             c == nb[n]
             a == v \div HALF
  <1>11. l \in Nat /\ l < n /\ l + 1 = n /\ n - l = 1 /\ n \in 1 .. n
    BY <1>3
  <1>12. Decodes(P(l), <<a, o>>)
    <2>1. l \in T
      BY <1>10, <1>11
    <2>2. Power(HALF, 0 + 1) = HALF * Power(HALF, 0) /\ Power(HALF, 0) = 1
      BY <1>0, PowerNext
    <2>3. Power(HALF, 1) = HALF
      BY <1>0, <2>2
    <2> HIDE DEF l
    <2> QED
      BY <1>11, <2>1, <2>3
  <1>13. P(l) \in Seq(Nat) /\ P(n) = Append(P(l), c) /\ c \in Nat
    <2>1. P(l) \in Seq(Nat) /\ P(l + 1) = Append(P(l), nb[l + 1]) /\ nb[l + 1] \in Nat
      <3> HIDE DEF l
      <3> QED
        BY <1>6, <1>11
    <2> QED
      BY <1>11, <2>1
  <1>14. c = v % HALF
    <2>1. c = F(n)
      <3> HIDE DEF F
      <3> QED
        BY <1>5, <1>11
    <2>2. n - n = 0 /\ Power(HALF, 0) = 1 /\ v \div 1 = v
      BY <1>0, <1>3, PowerNext
    <2>3. ~(n < n)
      BY <1>3
    <2>4. F(n) = D(n) + 0
      BY <2>3
    <2>5. D(n) = v % HALF
      BY <2>2
    <2>6. v % HALF \in Int
      BY <1>0
    <2> HIDE DEF F, D, c
    <2> QED
      BY <2>1, <2>4, <2>5, <2>6
  <1>15. v = a * HALF + c /\ c \in 0 .. HALF - 1 /\ a \in Int
    <2>1. v \in Int
      OBVIOUS
    <2>2. v = (v \div HALF) * HALF + (v % HALF) /\ v % HALF \in 0 .. HALF - 1 /\ v \div HALF \in Int
      BY <1>0, <2>1, DivMod
    <2> HIDE DEF c
    <2> QED
      BY <1>14, <2>2
  <1> HIDE DEF c, a, l
  <1>16. c % HALF = c /\ c < HALF
    <2>1. c \in Nat /\ c < HALF
      BY <1>0, <1>15
    <2> QED
      BY <1>0, <2>1, SmallMod
  <1>17. WithByte(<<a, o>>, c) = <<0, Append(o, v)>>
    <2>1. <<a, o>>[1] = a /\ <<a, o>>[2] = o
      OBVIOUS
    <2>2. a * HALF + (c % HALF) = v
      BY <1>15, <1>16
    <2>3. v % Word = v
      BY WordType, SmallMod
    <2> QED
      BY <1>16, <2>1, <2>2, <2>3 DEF WithByte
  <1>18. Decodes(P(n), <<0, Append(o, v)>>)
    <2>1. Decodes(Append(P(l), c), WithByte(<<a, o>>, c))
      BY <1>12, <1>13, DecodesNext
    <2> QED
      BY <1>13, <1>17, <2>1
  <1>19. P(n) = s \o nb
    <2>1. SubSeq(nb, 1, n) = nb
      BY <1>3, <1>5
    <2> QED
      BY <2>1 DEF P
  <1> QED
    BY <1>2, <1>3, <1>5, <1>16, <1>18, <1>19 DEF c

LEMMA SubSeqNext ==
  ASSUME NEW S, NEW t \in Seq(S), NEW a \in Nat, NEW b \in Nat, 1 <= a, a <= b + 1, b + 1 <= Len(t)
  PROVE  /\ SubSeq(t, a, b) \in Seq(S) /\ t[b + 1] \in S
         /\ SubSeq(t, a, b + 1) = Append(SubSeq(t, a, b), t[b + 1])
PROOF
  <1> DEFINE x == SubSeq(t, a, b)
             y == SubSeq(t, a, b + 1)
             c == t[b + 1]
             n == b + 1 - a
  <1>1. /\ x \in Seq(S) /\ Len(x) = n /\ \A i \in 1 .. n : x[i] = t[a + i - 1]
        /\ y \in Seq(S) /\ Len(y) = n + 1 /\ \A i \in 1 .. n + 1 : y[i] = t[a + i - 1]
        /\ c \in S /\ n \in Nat
    OBVIOUS
  <1>2. a + (n + 1) - 1 = b + 1
    OBVIOUS
  <1> HIDE DEF x, y, n
  <1>3. y[n + 1] = c
    BY <1>1, <1>2
  <1> HIDE DEF c
  <1> DEFINE z == Append(x, c)
  <1>4. z \in Seq(S) /\ Len(z) = n + 1 /\ z[n + 1] = c /\ \A i \in 1 .. n : z[i] = x[i]
    BY <1>1
  <1> HIDE DEF z
  <1>5. \A i \in 1 .. n + 1 : i \in 1 .. n \/ i = n + 1
    BY <1>1
  <1>6. \A i \in 1 .. n + 1 : y[i] = z[i]
    BY <1>1, <1>3, <1>4, <1>5
  <1>7. y = z
    BY <1>1, <1>4, <1>6, SeqEqual
  <1> QED
    BY <1>1, <1>7 DEF x, y, z, c

ReadAsOid(b, oid) ==
  /\ b \in Seq(Nat) /\ Len(b) >= 2 /\ b[Len(b)] < HALF
  /\ <<b[1] \div Arc, b[1] % Arc>> \o NumbersOf(Tail(b)) = oid

(* ber_read_OID_String of what ber_write_OID_String wrote.                 *)
LEMMA OidBack ==
  ASSUME NEW oid \in Seq(Nat), Len(oid) >= 3, oid[2] < Arc, Arc * oid[1] + oid[2] < Base,
         \A k \in 3 .. Len(oid) : oid[k] < Word /\ oid[k] < Power(HALF, 5)
  PROVE  ReadAsOid(OidBytes(oid), oid)
PROOF
  <1> DEFINE m == Len(oid) - 2
             seqs == [i \in 1 .. m |-> NumberBytes(oid[i + 2])]
             num == SubSeq(oid, 3, m + 2)
  <1>0. m \in Nat /\ m >= 1 /\ Len(oid) = m + 2
    OBVIOUS
  <1> HIDE DEF m
  <1>1. \A i \in 1 .. m : i + 2 \in 3 .. Len(oid) /\ oid[i + 2] \in Nat /\ oid[i + 2] < Word /\ oid[i + 2] < Power(HALF, 5)
    BY <1>0
  <1>2. ASSUME NEW i \in 1 .. m PROVE NumberBytes(oid[i + 2]) \in Seq(Nat)
    <2> DEFINE v == oid[i + 2]
               none == <<>>
    <2>1. v \in Nat /\ v < Word /\ v < Power(HALF, 5)
      BY <1>1
    <2>2. none \in Seq(Nat)
      OBVIOUS
    <2>3. Decodes(none, <<0, none>>)
      BY DecodesNothing
    <2> HIDE DEF v, none
    <2>4. NumberBytes(v) \in Seq(Nat)
      BY <2>1, <2>2, <2>3, NumberDecodes
    <2> QED
      BY <2>4 DEF v
  <1>3. seqs \in Seq(Seq(Nat)) /\ Len(seqs) = m /\ \A i \in 1 .. m : seqs[i] = NumberBytes(oid[i + 2])
    BY <1>0, <1>2
  <1> HIDE DEF seqs
  <1>4. PICK f : IsFlattened(f, seqs, Nat) /\ FlattenSeq(seqs) = f[m]
    BY <1>3, FlattenSteps
  <1>5. /\ f \in [0 .. m -> Seq(Nat)] /\ f[0] = <<>>
        /\ \A k \in 1 .. m : f[k] = f[k - 1] \o NumberBytes(oid[k + 2])
    BY <1>3, <1>4 DEF IsFlattened
  <1> DEFINE Good(k) == /\ Decodes(f[k], <<0, SubSeq(oid, 3, k + 2)>>)
                        /\ k >= 1 => Len(f[k]) >= 1 /\ f[k][Len(f[k])] < HALF
             T == {k \in Nat : k <= m => Good(k)}
  <1>6. 0 \in T
    <2>1. SubSeq(oid, 3, 0 + 2) = <<>>
      OBVIOUS
    <2>2. Decodes(f[0], <<0, SubSeq(oid, 3, 0 + 2)>>)
      BY <1>5, <2>1, DecodesNothing
    <2> QED
      BY <2>2
  <1>7. ASSUME NEW k \in T PROVE k + 1 \in T
    <2> SUFFICES ASSUME k + 1 <= m PROVE Good(k + 1)
      BY DEF T
    <2> DEFINE s == f[k]
               o == SubSeq(oid, 3, k + 2)
               v == oid[k + 3]
               nb == NumberBytes(v)
               next == f[k + 1]
    <2>1. k \in Nat /\ k <= m /\ k \in 0 .. m /\ k + 1 \in 1 .. m /\ (k + 1) - 1 = k /\ (k + 1) + 2 = k + 3
      BY <1>0
    <2>2. Decodes(s, <<0, o>>) /\ s \in Seq(Nat)
      BY <1>5, <2>1
    <2>3. o \in Seq(Nat) /\ SubSeq(oid, 3, k + 3) = Append(o, v)
      <3> DEFINE a == 3
                 b == k + 2
      <3>1. a \in Nat /\ b \in Nat /\ 1 <= a /\ a <= b + 1 /\ b + 1 <= Len(oid) /\ b + 1 = k + 3
        BY <1>0, <2>1
      <3> HIDE DEF a, b
      <3>2. SubSeq(oid, a, b) \in Seq(Nat) /\ SubSeq(oid, a, b + 1) = Append(SubSeq(oid, a, b), oid[b + 1])
        BY <3>1, SubSeqNext
      <3>3. a = 3 /\ b = k + 2
        BY DEF a, b
      <3> QED
        BY <3>1, <3>2, <3>3
    <2>4. v \in Nat /\ v < Word /\ v < Power(HALF, 5)
      BY <1>1, <2>1
    <2> HIDE DEF s, o, v
    <2>5. /\ nb \in Seq(Nat) /\ Len(nb) >= 1 /\ nb[Len(nb)] < HALF
          /\ Decodes(s \o nb, <<0, Append(o, v)>>)
      BY <2>2, <2>3, <2>4, NumberDecodes
    <2> HIDE DEF nb
    <2>6. next = s \o nb
      BY <1>5, <2>1 DEF s, nb, v
    <2>7. Len(next) >= 1 /\ next[Len(next)] < HALF
      <3>1. /\ Len(s \o nb) = Len(s) + Len(nb)
            /\ \A i \in 1 .. Len(s) + Len(nb) : (s \o nb)[i] = IF i <= Len(s) THEN s[i] ELSE nb[i - Len(s)]
        BY <2>2, <2>5, ConcatProperties
      <3>2. Len(s) \in Nat /\ Len(nb) \in Nat
        <4>1. s \in Seq(Nat) /\ nb \in Seq(Nat)
          BY <2>2, <2>5
        <4> QED
          BY <4>1
      <3> DEFINE ls == Len(s)
                 ln == Len(nb)
      <3>3. ls + ln \in 1 .. ls + ln /\ ~(ls + ln <= ls) /\ (ls + ln) - ls = ln
        <4> HIDE DEF ls, ln
        <4>1. ls \in Nat /\ ln \in Nat /\ ln >= 1
          BY <2>5, <3>2 DEF ls, ln
        <4> QED
          BY <4>1
      <3> QED
        BY <2>5, <2>6, <3>1, <3>2, <3>3
    <2> HIDE DEF next
    <2>8. Decodes(next, <<0, SubSeq(oid, 3, (k + 1) + 2)>>)
      BY <2>1, <2>3, <2>5, <2>6
    <2> QED
      BY <2>7, <2>8 DEF next
  <1>8. T = Nat
    <2> HIDE DEF T
    <2>1. T \in SUBSET Nat
      BY DEF T
    <2> QED
      BY <1>6, <1>7, <2>1, InductiveSet
  <1> DEFINE rest == f[m]
             first == (Arc * oid[1] + oid[2]) % Base
             b == <<first>> \o rest
  <1>9. Good(m)
    <2> HIDE DEF Good
    <2>1. m \in T /\ m <= m
      BY <1>0, <1>8
    <2> QED
      BY <2>1
  <1>10. /\ rest \in Seq(Nat) /\ Len(rest) >= 1 /\ rest[Len(rest)] < HALF
         /\ Decodes(rest, <<0, num>>)
    BY <1>0, <1>5, <1>9
  <1> HIDE DEF rest, Good, T
  <1>11. NumbersOf(rest) = num
    <2> DEFINE p == <<0, num>>
    <2>1. p[2] = num
      OBVIOUS
    <2>2. Decodes(rest, p)
      BY <1>10
    <2> HIDE DEF p
    <2> QED
      BY <1>10, <2>1, <2>2, DecodesNumbers
  <1>12. Arc \in Nat \ {0} /\ Base \in Nat \ {0} /\ oid[1] \in Nat /\ oid[2] \in Nat
    <2>1. Arc \in 1 .. HALF /\ HALF \in Nat
      BY Asn1Assumption, Sizes
    <2>2. Base \in Nat \ {0}
      BY Sizes
    <2>3. Arc \in Nat \ {0}
      BY <2>1
    <2> QED
      BY <1>0, <2>2, <2>3
  <1>13. first = Arc * oid[1] + oid[2] /\ first \in Nat
    <2> DEFINE w == Arc * oid[1] + oid[2]
    <2>1. w \in Nat /\ w < Base
      <3>1. w \in Nat
        BY <1>12, SumProduct
      <3> QED
        BY <3>1
    <2> HIDE DEF w
    <2>2. w % Base = w
      BY <1>12, <2>1, SmallMod
    <2> QED
      BY <2>1, <2>2 DEF w
  <1>14. first \div Arc = oid[1] /\ first % Arc = oid[2]
    <2> DEFINE q == oid[1]
               r == oid[2]
    <2>1. q \in Int /\ r \in 0 .. Arc - 1 /\ first \in Int /\ first = q * Arc + r
      <3> HIDE DEF first
      <3>1. Arc * q = q * Arc
        BY <1>12, SumProduct
      <3> QED
        <4>1. q \in Int /\ r \in 0 .. Arc - 1
          BY <1>12
        <4>2. first \in Int
          BY <1>13
        <4>3. first = q * Arc + r
          BY <1>13, <3>1
        <4> QED
          BY <4>1, <4>2, <4>3
    <2> HIDE DEF q, r, first
    <2>2. first \div Arc = q /\ first % Arc = r
      BY <1>12, <2>1, DivModUnique
    <2> QED
      BY <2>2 DEF q, r
  <1> HIDE DEF first
  <1>15. OidBytes(oid) = b
    BY <1>4 DEF OidBytes, rest, seqs, first, m
  <1>16. /\ b \in Seq(Nat) /\ Len(b) = 1 + Len(rest) /\ b[1] = first
         /\ b[Len(b)] = rest[Len(rest)] /\ Tail(b) = rest
    <2> DEFINE one == <<first>>
               lr == Len(rest)
    <2>1. one \in Seq(Nat) /\ Len(one) = 1 /\ one[1] = first /\ lr \in Nat
      BY <1>10, <1>13
    <2> HIDE DEF one
    <2>2. /\ one \o rest \in Seq(Nat) /\ Len(one \o rest) = Len(one) + Len(rest)
          /\ \A i \in 1 .. Len(one) + Len(rest) : (one \o rest)[i] = IF i <= Len(one) THEN one[i] ELSE rest[i - Len(one)]
      BY <1>10, <2>1, ConcatProperties
    <2>3. 1 \in 1 .. 1 + lr /\ 1 + lr \in 1 .. 1 + lr /\ ~(1 + lr <= 1) /\ (1 + lr) - 1 = lr
      BY <1>10, <2>1
    <2>4. Tail(<<first>> \o rest) = rest
      BY <1>10, <1>13, TailAfterOne
    <2>5. one \o rest = b
      BY DEF one
    <2> HIDE DEF b
    <2>6. /\ b \in Seq(Nat) /\ Len(b) = 1 + lr
          /\ \A i \in 1 .. 1 + lr : b[i] = IF i <= 1 THEN one[i] ELSE rest[i - 1]
      BY <2>1, <2>2, <2>5
    <2>7. b[1] = first
      BY <2>1, <2>3, <2>6
    <2>8. b[1 + lr] = rest[lr]
      BY <2>3, <2>6
    <2>9. Tail(b) = rest
      BY <2>4 DEF b
    <2> QED
      BY <2>6, <2>7, <2>8, <2>9
  <1>17. <<oid[1], oid[2]>> \o num = oid
    <2> DEFINE two == <<oid[1], oid[2]>>
               x == two \o num
    <2>1. two \in Seq(Nat) /\ Len(two) = 2 /\ two[1] = oid[1] /\ two[2] = oid[2]
      BY <1>12
    <2>2. num \in Seq(Nat) /\ Len(num) = m /\ \A i \in 1 .. m : num[i] = oid[i + 2]
      BY <1>0
    <2> HIDE DEF two, num, x
    <2>3. /\ x \in Seq(Nat) /\ Len(x) = Len(two) + Len(num)
          /\ \A i \in 1 .. Len(two) + Len(num) : x[i] = IF i <= Len(two) THEN two[i] ELSE num[i - Len(two)]
      <3>1. two \in Seq(Nat) /\ num \in Seq(Nat)
        BY <2>1, <2>2
      <3> QED
        BY <3>1, ConcatProperties DEF x
    <2>4. Len(x) = m + 2 /\ \A i \in 1 .. m + 2 : x[i] = IF i <= 2 THEN two[i] ELSE num[i - 2]
      BY <1>0, <2>1, <2>2, <2>3
    <2>5. \A i \in 1 .. m + 2 : i = 1 \/ i = 2 \/ (~(i <= 2) /\ i - 2 \in 1 .. m /\ (i - 2) + 2 = i)
      BY <1>0
    <2>6. \A i \in 1 .. m + 2 : x[i] = oid[i]
      <3> SUFFICES ASSUME NEW i \in 1 .. m + 2 PROVE x[i] = oid[i]
        OBVIOUS
      <3>1. CASE i = 1
        BY <2>1, <2>4, <3>1
      <3>2. CASE i = 2
        BY <2>1, <2>4, <3>2
      <3>3. CASE ~(i <= 2) /\ i - 2 \in 1 .. m /\ (i - 2) + 2 = i
        BY <2>2, <2>4, <3>3
      <3> QED
        BY <2>5, <3>1, <3>2, <3>3
    <2>7. x = oid
      BY <1>0, <2>3, <2>4, <2>6, SeqEqual
    <2> QED
      BY <2>7 DEF x, two
  <1> HIDE DEF b
  <1>18. Len(b) >= 2 /\ b[Len(b)] < HALF
    <2>1. Len(rest) \in Nat
      BY <1>10
    <2> QED
      BY <1>10, <1>16, <2>1
  <1> HIDE DEF num
  <1> QED
    BY <1>11, <1>14, <1>15, <1>16, <1>17, <1>18 DEF ReadAsOid

-----------------------------------------------------------------------------
(* What the reader gets from bytes that lie before it.                     *)

(* s lies in bytes behind the first p.                                     *)
At(bytes, p, s) ==
  /\ p \in Nat /\ p + Len(s) <= Len(bytes)
  /\ \A j \in 1 .. Len(s) : bytes[p + j] = s[j]

LEMMA AtSub ==
  ASSUME NEW bytes \in Seq(Nat), NEW p, NEW s \in Seq(Nat), At(bytes, p, s)
  PROVE  SubSeq(bytes, p + 1, p + Len(s)) = s
PROOF
  <1> DEFINE n == Len(s)
             x == SubSeq(bytes, p + 1, p + n)
  <1>1. p \in Nat /\ n \in Nat /\ p + n <= Len(bytes) /\ \A j \in 1 .. n : bytes[p + j] = s[j]
    BY DEF At
  <1> HIDE DEF n
  <1>2. x \in Seq(Nat) /\ Len(x) = n /\ \A j \in 1 .. n : x[j] = bytes[p + j]
    BY <1>1
  <1> HIDE DEF x
  <1>3. x = s
    BY <1>1, <1>2, SeqEqual DEF n
  <1> QED
    BY <1>3 DEF x, n

LEMMA AtConcat ==
  ASSUME NEW bytes \in Seq(Nat), NEW p \in Nat, NEW s \in Seq(Nat), NEW t \in Seq(Nat)
  PROVE  /\ s \o t \in Seq(Nat) /\ Len(s \o t) = Len(s) + Len(t)
         /\ At(bytes, p, s \o t) <=> At(bytes, p, s) /\ At(bytes, p + Len(s), t)
PROOF
  <1> DEFINE n == Len(s)
             m == Len(t)
             x == s \o t
  <1>1. /\ x \in Seq(Nat) /\ Len(x) = n + m
        /\ \A i \in 1 .. n + m : x[i] = IF i <= n THEN s[i] ELSE t[i - n]
    BY ConcatProperties
  <1>2. n \in Nat /\ m \in Nat /\ Len(bytes) \in Nat
    OBVIOUS
  <1> HIDE DEF n, m, x
  <1>3. ASSUME At(bytes, p, x) PROVE At(bytes, p, s) /\ At(bytes, p + n, t)
    <2>1. p + (n + m) <= Len(bytes) /\ \A j \in 1 .. n + m : bytes[p + j] = x[j]
      BY <1>1, <1>3 DEF At
    <2>2. ASSUME NEW j \in 1 .. n PROVE bytes[p + j] = s[j]
      <3>1. j \in 1 .. n + m /\ j <= n
        BY <1>2
      <3> QED
        BY <1>1, <2>1, <3>1
    <2>3. ASSUME NEW j \in 1 .. m PROVE bytes[(p + n) + j] = t[j]
      <3>1. n + j \in 1 .. n + m /\ ~(n + j <= n) /\ (n + j) - n = j /\ p + (n + j) = (p + n) + j
        BY <1>2
      <3> QED
        BY <1>1, <2>1, <3>1
    <2>4. p + n \in Nat /\ p + n <= Len(bytes) /\ (p + n) + m <= Len(bytes)
      BY <1>2, <2>1
    <2> QED
      BY <2>2, <2>3, <2>4 DEF At, n, m
  <1>4. ASSUME At(bytes, p, s), At(bytes, p + n, t) PROVE At(bytes, p, x)
    <2>1. /\ p + n <= Len(bytes) /\ \A j \in 1 .. n : bytes[p + j] = s[j]
          /\ (p + n) + m <= Len(bytes) /\ \A j \in 1 .. m : bytes[(p + n) + j] = t[j]
      BY <1>4 DEF At, n, m
    <2>2. ASSUME NEW j \in 1 .. n + m PROVE bytes[p + j] = x[j]
      <3>1. CASE j <= n
        <4>1. j \in 1 .. n
          BY <1>2, <3>1
        <4> QED
          BY <1>1, <2>1, <3>1, <4>1
      <3>2. CASE ~(j <= n)
        <4>1. j - n \in 1 .. m /\ (p + n) + (j - n) = p + j
          BY <1>2, <3>2
        <4> QED
          BY <1>1, <2>1, <3>2, <4>1
      <3> QED
        BY <3>1, <3>2
    <2>3. p + (n + m) <= Len(bytes)
      BY <1>2, <2>1
    <2> QED
      BY <1>1, <2>2, <2>3 DEF At
  <1> QED
    BY <1>1, <1>3, <1>4 DEF n, m, x

(* Nothing has gone wrong; and what reading does if it gets the value v    *)
(* from the next n bytes.                                                  *)
Fine(d) == ReaderOK(d) /\ ~d.has_error /\ Len(d.data) < Word \div 2
Got(d, e, n, v) ==
  Fine(e) /\ e.data = d.data /\ e.ofs = d.ofs + n /\ e.nesting = d.nesting /\ e.val = v

LEMMA ReadGets ==
  ASSUME NEW d, Fine(d), NEW s \in Seq(Nat), At(d.data, d.ofs, s)
  PROVE  Got(d, Read(d, Len(s)), Len(s), s)
PROOF
  <1> DEFINE n == Len(s)
             e == Read(d, n)
  <1>1. ReaderOK(d) /\ d.data \in Seq(Bytes) /\ d.ofs \in Nat /\ Len(d.data) \in Nat
    BY Numbers DEF Fine
  <1>2. d.data \in Seq(Nat)
    BY <1>1, BytesAreNat
  <1>3. SubSeq(d.data, d.ofs + 1, d.ofs + n) = s
    BY <1>2, AtSub
  <1>4. n \in Nat /\ d.ofs + n <= Len(d.data)
    BY <1>1 DEF At
  <1>5. ~(d.ofs + n > Len(d.data)) /\ ~(n < 0)
    BY <1>1, <1>4
  <1>6. DOMAIN d = {"data", "ofs", "nesting", "has_error", "val"}
    BY <1>1 DEF ReaderOK, IsData
  <1> HIDE DEF n
  <1>7. e = [d EXCEPT !.ofs = @ + n, !.val = s]
    BY <1>3, <1>5 DEF Read, Fine
  <1>8. /\ e.data = d.data /\ e.ofs = d.ofs + n /\ e.nesting = d.nesting
        /\ e.has_error = d.has_error /\ e.val = s
    BY <1>6, <1>7
  <1>9. n \in Int
    BY <1>4
  <1> HIDE DEF e
  <1>10. ReaderOK(e)
    BY <1>1, <1>9, ReadReads DEF e, Keeps, Follows
  <1> QED
    BY <1>8, <1>10 DEF Got, Fine, n, e

LEMMA UnsignedOne ==
  ASSUME NEW c \in Nat
  PROVE  Unsigned(<<c>>) = c
PROOF
  <1> DEFINE none == <<>>
  <1>1. none \in Seq(Nat) /\ Append(none, c) = <<c>> /\ Unsigned(none) = 0
    BY UnsignedEmpty
  <1> HIDE DEF none
  <1>2. Unsigned(Append(none, c)) = Unsigned(none) * Base + c
    BY <1>1, UnsignedAppend
  <1> QED
    BY <1>1, <1>2, Sizes

(* The length of a tag, as asn1_start_tag reads it.                        *)
ReadLength(t) ==
  LET b == Read(t, 1)
      long == Read(b, IF b.val[1] - HALF > 1 THEN b.val[1] - HALF ELSE 1)
  IN  IF b.has_error \/ b.val[1] < HALF THEN b ELSE long

LengthGot(t, e, n, l) ==
  /\ Fine(e) /\ e.data = t.data /\ e.ofs = t.ofs + n /\ e.nesting = t.nesting
  /\ Unsigned(e.val) = l

LEMMA GotTwice ==
  ASSUME NEW d, NEW e, NEW f, NEW n \in Nat, NEW m \in Nat, NEW v, NEW w,
         d.ofs \in Nat, Got(d, e, n, v), Got(e, f, m, w)
  PROVE  Got(d, f, n + m, w)
PROOF
  <1>1. (d.ofs + n) + m = d.ofs + (n + m)
    OBVIOUS
  <1> QED
    BY <1>1 DEF Got

LEMMA LengthGets ==
  ASSUME NEW t, Fine(t), NEW l \in Nat, l < Power(Base, 4), At(t.data, t.ofs, LengthBytes(l))
  PROVE  LengthGot(t, ReadLength(t), Len(LengthBytes(l)), l)
PROOF
  <1> DEFINE b == Read(t, 1)
             n == IF b.val[1] - HALF > 1 THEN b.val[1] - HALF ELSE 1
             long == Read(b, n)
  <1>0. /\ HALF \in Nat \ {0} /\ t.ofs \in Nat
        /\ t.data \in Seq(Nat)
    <2>1. ReaderOK(t)
      BY DEF Fine
    <2>2. t.data \in Seq(Bytes) /\ t.ofs \in Nat
      BY <2>1, Numbers
    <2> QED
      BY <2>2, BytesAreNat, Sizes
  <1>1. ReadLength(t) = IF b.has_error \/ b.val[1] < HALF THEN b ELSE long
    BY DEF ReadLength
  <1>2. ASSUME NEW c \in Nat, At(t.data, t.ofs, <<c>>) PROVE Got(t, b, 1, <<c>>)
    <2> DEFINE s == <<c>>
    <2>1. s \in Seq(Nat) /\ Len(s) = 1
      OBVIOUS
    <2>2. At(t.data, t.ofs, s)
      BY <1>2
    <2> HIDE DEF s
    <2>3. Got(t, Read(t, Len(s)), Len(s), s)
      BY <2>1, <2>2, ReadGets
    <2> QED
      BY <2>1, <2>3 DEF s
  <1> HIDE DEF b
  <1>3. CASE l < HALF
    <2>1. LengthBytes(l) = <<l>> /\ Len(<<l>>) = 1
      BY <1>3 DEF LengthBytes
    <2>2. Got(t, b, 1, <<l>>)
      BY <1>2, <2>1
    <2>3. b.val = <<l>> /\ b.val[1] = l /\ Unsigned(b.val) = l
      BY <2>2, UnsignedOne DEF Got
    <2>4. ReadLength(t) = b
      BY <1>1, <1>3, <2>3
    <2> QED
      BY <2>1, <2>2, <2>3, <2>4 DEF LengthGot, Got
  <1>4. CASE ~(l < HALF)
    <2>1. l >= HALF
      BY <1>0, <1>4
    <2>2. PICK k \in 1 .. 4 : /\ l < Power(Base, k)
                              /\ LengthBytes(l) = <<HALF + k>> \o BigEndian(l, k)
      BY <2>1, LengthBytesAre
    <2> DEFINE c == HALF + k
               one == <<c>>
               be == BigEndian(l, k)
    <2>3. c \in Nat /\ k \in Nat /\ l \in Int /\ one \in Seq(Nat) /\ Len(one) = 1
          /\ c - HALF = k /\ ~(c < HALF) /\ (c - HALF > 1 \/ k = 1)
      BY <1>0
    <2> HIDE DEF c, one
    <2>4. be \in Seq(Nat) /\ Len(be) = k /\ Unsigned(be) = l
      <3>1. be \in Seq(Bytes) /\ Len(be) = k
        BY <2>3, BigEndianType
      <3>2. Unsigned(be) = l % Power(Base, k)
        BY <2>3, UnsignedBigEndian
      <3>3. Base \in Nat \ {0}
        BY Sizes
      <3>4. Power(Base, k) \in Nat \ {0}
        BY <2>3, <3>3, PowerType
      <3>5. l % Power(Base, k) = l
        BY <2>2, <3>4, SmallMod
      <3> QED
        BY <3>1, <3>2, <3>5, BytesAreNat
    <2> HIDE DEF be
    <2>5. LengthBytes(l) = one \o be
      BY <2>2 DEF one, c, be
    <2>6. At(t.data, t.ofs, one) /\ At(t.data, t.ofs + Len(one), be) /\ Len(one \o be) = Len(one) + Len(be)
      <3>1. At(t.data, t.ofs, one \o be)
        BY <2>5
      <3>2. one \in Seq(Nat) /\ be \in Seq(Nat) /\ t.data \in Seq(Nat) /\ t.ofs \in Nat
        BY <1>0, <2>3, <2>4
      <3> QED
        BY <3>1, <3>2, AtConcat
    <2>7. Got(t, b, 1, one)
      BY <1>2, <2>3, <2>6 DEF one
    <2>8. Fine(b) /\ b.data = t.data /\ b.ofs = t.ofs + 1 /\ b.val[1] = c /\ ~b.has_error
      BY <2>7 DEF Got, Fine, one
    <2>9. n = k
      BY <2>3, <2>8
    <2>10. At(b.data, b.ofs, be)
      BY <2>3, <2>6, <2>8
    <2> DEFINE e == Read(b, Len(be))
    <2>11. Got(b, e, Len(be), be)
      BY <2>4, <2>8, <2>10, ReadGets
    <2>12. ReadLength(t) = e
      BY <1>1, <2>3, <2>4, <2>8, <2>9
    <2> HIDE DEF e
    <2>13. Got(t, e, 1 + k, be)
      <3> DEFINE lbe == Len(be)
      <3>1. t.ofs \in Nat /\ 1 \in Nat /\ lbe \in Nat /\ lbe = k /\ Got(t, b, 1, one) /\ Got(b, e, lbe, be)
        BY <1>0, <2>3, <2>4, <2>7, <2>11
      <3> HIDE DEF lbe, b
      <3>2. Got(t, e, 1 + lbe, be)
        BY <3>1, GotTwice
      <3> QED
        BY <3>1, <3>2
    <2>14. Len(LengthBytes(l)) = 1 + k
      BY <2>3, <2>4, <2>5, <2>6
    <2> QED
      BY <2>4, <2>12, <2>13, <2>14 DEF LengthGot, Got
  <1> QED
    BY <1>3, <1>4

(* A tag that was started, and has l bytes.                                *)
Started(d, e, n, l) ==
  /\ Fine(e) /\ e.data = d.data /\ e.ofs = d.ofs + n
  /\ e.nesting = <<[start |-> d.ofs + n, taglen |-> l]>> \o d.nesting

Header(tag, l) == <<tag>> \o LengthBytes(l)

LEMMA HeaderType ==
  ASSUME NEW tag \in Nat, NEW l \in Nat
  PROVE  /\ Header(tag, l) \in Seq(Nat) /\ LengthBytes(l) \in Seq(Nat)
         /\ Len(Header(tag, l)) = 1 + Len(LengthBytes(l))
         /\ Len(LengthBytes(l)) \in Nat /\ Len(LengthBytes(l)) >= 1
PROOF
  <1> DEFINE one == <<tag>>
             lb == LengthBytes(l)
  <1>1. one \in Seq(Nat) /\ Len(one) = 1
    OBVIOUS
  <1>2. lb \in Seq(Bytes) /\ Len(lb) >= 1
    BY LengthBytesType
  <1> HIDE DEF one, lb
  <1>3. lb \in Seq(Nat) /\ Len(lb) \in Nat
    BY <1>2, BytesAreNat
  <1>4. one \o lb \in Seq(Nat) /\ Len(one \o lb) = Len(one) + Len(lb)
    BY <1>1, <1>3, ConcatProperties
  <1> QED
    BY <1>1, <1>2, <1>3, <1>4 DEF Header, one, lb

Top(d, a, l) == d.nesting # <<>> /\ d.nesting[1].start = a /\ d.nesting[1].taglen = l

LEMMA TopRemains ==
  ASSUME NEW d, NEW a \in Nat, NEW l \in Int, Top(d, a, l), d.ofs \in Nat,
         NEW n \in Nat, n < Word \div 2, l - (d.ofs - a) = n
  PROVE  Remaining(d) = n
PROOF
  BY SignedType DEF Remaining, Top

LEMMA StartGets ==
  ASSUME NEW d, Fine(d), NEW tag \in Nat, NEW l \in Nat, l < Power(Base, 4),
         At(d.data, d.ofs, Header(tag, l)),
         d.ofs + Len(Header(tag, l)) + l <= Len(d.data)
  PROVE  Started(d, StartTag(d, tag), Len(Header(tag, l)), l)
PROOF
  <1> DEFINE one == <<tag>>
             lb == LengthBytes(l)
             t == Read(d, 1)
             e == ReadLength(t)
             p == [e EXCEPT !.nesting = <<[start |-> e.ofs, taglen |-> Unsigned(e.val)]>> \o @]
             n == Len(lb)
  <1>0. d.ofs \in Nat /\ d.data \in Seq(Nat) /\ Len(d.data) \in Nat
        /\ d.nesting \in Seq([start : Nat, taglen : Int])
    <2>1. ReaderOK(d)
      BY DEF Fine
    <2>2. d.data \in Seq(Bytes) /\ d.ofs \in Nat
      BY <2>1, Numbers
    <2> QED
      BY <2>1, <2>2, BytesAreNat DEF ReaderOK
  <1>1. one \in Seq(Nat) /\ Len(one) = 1
    OBVIOUS
  <1>2. lb \in Seq(Nat) /\ n \in Nat /\ n >= 1 /\ Len(Header(tag, l)) = 1 + n
    BY HeaderType
  <1>3. StartTag(d, tag) =
          IF t.has_error THEN t
          ELSE IF t.val # <<tag>> THEN Error(t)
          ELSE IF e.has_error THEN e
          ELSE TagRemaining(p)
    BY DEF StartTag, ReadLength
  <1> HIDE DEF lb, n
  <1>4. At(d.data, d.ofs, one) /\ At(d.data, d.ofs + 1, lb)
    <2>1. At(d.data, d.ofs, one \o lb)
      BY DEF Header, lb
    <2> HIDE DEF one
    <2>2. At(d.data, d.ofs, one) /\ At(d.data, d.ofs + Len(one), lb)
      BY <1>0, <1>1, <1>2, <2>1, AtConcat
    <2> QED
      BY <1>1, <2>2
  <1>5. Got(d, t, 1, <<tag>>)
    <2> HIDE DEF one
    <2>1. Got(d, Read(d, Len(one)), Len(one), one)
      BY <1>1, <1>4, ReadGets
    <2> QED
      BY <1>1, <2>1 DEF one
  <1> HIDE DEF t
  <1>6. Fine(t) /\ t.data = d.data /\ t.ofs = d.ofs + 1 /\ t.nesting = d.nesting
        /\ t.val = <<tag>> /\ ~t.has_error
    BY <1>5 DEF Got, Fine
  <1>7. LengthGot(t, e, n, l)
    <2>1. At(t.data, t.ofs, LengthBytes(l))
      BY <1>4, <1>6 DEF lb
    <2> QED
      BY <1>6, <2>1, LengthGets DEF n, lb
  <1> HIDE DEF e
  <1>8. /\ ReaderOK(e) /\ ~e.has_error /\ e.data = d.data /\ e.ofs = d.ofs + (1 + n)
        /\ e.nesting = d.nesting /\ Unsigned(e.val) = l
    <2>1. (d.ofs + 1) + n = d.ofs + (1 + n)
      <3> DEFINE o == d.ofs
      <3>1. o \in Nat /\ n \in Nat
        BY <1>0, <1>2
      <3> HIDE DEF o
      <3>2. (o + 1) + n = o + (1 + n)
        BY <3>1
      <3> QED
        BY <3>2 DEF o
    <2> QED
      BY <1>6, <1>7, <2>1 DEF LengthGot, Fine
  <1>9. StartTag(d, tag) = TagRemaining(p)
    BY <1>3, <1>6, <1>8
  <1> DEFINE o == [start |-> d.ofs + (1 + n), taglen |-> l]
             ns == d.nesting
  <1>10. DOMAIN e = {"data", "ofs", "nesting", "has_error", "val"}
    BY <1>8 DEF ReaderOK, IsData
  <1>11. /\ DOMAIN p = DOMAIN e /\ p.nesting = <<o>> \o ns /\ p.data = e.data /\ p.ofs = e.ofs
         /\ p.has_error = e.has_error
    BY <1>8, <1>10
  <1> HIDE DEF p
  <1>12. o \in [start : Nat, taglen : Int] /\ o.start = d.ofs + (1 + n) /\ o.taglen = l
    BY <1>0, <1>2
  <1> HIDE DEF o, ns
  <1>13. /\ <<o>> \o ns \in Seq([start : Nat, taglen : Int]) /\ <<o>> \o ns # <<>>
         /\ (<<o>> \o ns)[1] = o
    <2> DEFINE S == [start : Nat, taglen : Int]
               s == <<o>>
    <2>1. s \in Seq(S) /\ Len(s) = 1 /\ s[1] = o /\ ns \in Seq(S)
      BY <1>0, <1>12 DEF ns
    <2> HIDE DEF S, s
    <2>2. /\ s \o ns \in Seq(S) /\ Len(s \o ns) = Len(s) + Len(ns)
          /\ \A i \in 1 .. Len(s) + Len(ns) : (s \o ns)[i] = IF i <= Len(s) THEN s[i] ELSE ns[i - Len(s)]
      BY <2>1, ConcatProperties
    <2>3. Len(ns) \in Nat
      BY <2>1
    <2>4. Len(s \o ns) >= 1 /\ (s \o ns)[1] = o
      BY <2>1, <2>2, <2>3
    <2>5. s \o ns # <<>>
      BY <2>4
    <2> QED
      BY <2>2, <2>4, <2>5 DEF S, s
  <1>14. ReaderOK(p)
    BY <1>8, <1>11, <1>13 DEF ReaderOK, IsData
  <1>15. d.ofs + (1 + n) + l <= Len(d.data) /\ Len(d.data) < Word \div 2
    BY <1>2 DEF Fine
  <1>16. Remaining(p) = l
    <2> DEFINE w == Word \div 2
               a == d.ofs + (1 + n)
    <2>1. a \in Nat
      BY <1>0, <1>2
    <2>2. Top(p, a, l) /\ p.ofs = a
      BY <1>8, <1>11, <1>12, <1>13 DEF Top
    <2>3. w \in Nat
      BY WordType
    <2>4. l < w
      <3> HIDE DEF w
      <3> QED
        BY <1>0, <1>2, <1>15, <2>3 DEF w
    <2> HIDE DEF a
    <2>5. l - (p.ofs - a) = l
      BY <2>1, <2>2
    <2> QED
      BY <2>1, <2>2, <2>4, <2>5, TopRemains
  <1>17. TagFits(p)
    <2>1. p.nesting # <<>>
      BY <1>11, <1>13
    <2>2. Remaining(p) >= 0 /\ Remaining(p) <= Len(p.data) - p.ofs
      BY <1>0, <1>2, <1>8, <1>11, <1>15, <1>16
    <2> QED
      BY <2>1, <2>2 DEF TagFits
  <1>18. TagRemaining(p) = p
    BY <1>8, <1>11, <1>17 DEF TagRemaining
  <1> QED
    BY <1>2, <1>8, <1>9, <1>11, <1>14, <1>15, <1>18 DEF Started, Fine, o, ns

(* The end of a tag, all of which was read.                                *)
Closed(d, e) ==
  Fine(e) /\ e.data = d.data /\ e.ofs = d.ofs /\ e.nesting = Tail(d.nesting) /\ e.val = d.val

LEMMA EndGets ==
  ASSUME NEW d, Fine(d), NEW a \in Nat, NEW l \in Nat, Top(d, a, l), d.ofs = a + l
  PROVE  Closed(d, EndTag(d))
PROOF
  <1> DEFINE e == [d EXCEPT !.nesting = Tail(@)]
  <1>0. ReaderOK(d) /\ d.ofs \in Nat /\ Len(d.data) \in Nat /\ d.ofs <= Len(d.data)
    BY Numbers DEF Fine
  <1>1. Remaining(d) = 0
    <2>1. Len(d.data) < Word \div 2 /\ Word \div 2 \in Nat
      BY WordType DEF Fine
    <2>2. 0 < Word \div 2
      <3> HIDE DEF Word
      <3> QED
        BY <1>0, <2>1
    <2>3. l - (d.ofs - a) = 0
      BY <1>0
    <2> QED
      BY <1>0, <2>2, <2>3, TopRemains
  <1>2. TagFits(d)
    BY <1>0, <1>1 DEF TagFits, Top
  <1>3. TagRemaining(d) = d
    BY <1>2 DEF TagRemaining, Fine
  <1>4. EndTag(d) = e
    BY <1>1, <1>3 DEF EndTag, Fine
  <1>5. DOMAIN d = {"data", "ofs", "nesting", "has_error", "val"}
    BY <1>0 DEF ReaderOK, IsData
  <1>6. /\ e.nesting = Tail(d.nesting) /\ e.data = d.data /\ e.ofs = d.ofs
        /\ e.has_error = d.has_error /\ e.val = d.val
    BY <1>5
  <1> HIDE DEF e
  <1>7. ReaderOK(e)
    BY <1>0, <1>4, EndReads DEF Follows
  <1> QED
    BY <1>4, <1>6, <1>7 DEF Closed, Fine

LEMMA RestGets ==
  ASSUME NEW d, Fine(d), NEW a \in Nat, NEW l \in Nat, Top(d, a, l),
         NEW s \in Seq(Nat), At(d.data, d.ofs, s), d.ofs + Len(s) = a + l
  PROVE  Got(d, ReadRest(d), Len(s), s) /\ Remaining(d) = Len(s)
PROOF
  <1>0. ReaderOK(d) /\ d.ofs \in Nat /\ Len(d.data) \in Nat /\ Len(s) \in Nat
    BY Numbers DEF Fine
  <1> DEFINE n == Len(s)
  <1>1. d.ofs + n <= Len(d.data)
    BY DEF At
  <1> HIDE DEF n
  <1>2. Remaining(d) = n
    <2>1. Len(d.data) < Word \div 2 /\ Word \div 2 \in Nat
      BY WordType DEF Fine
    <2>2. n < Word \div 2 /\ n \in Nat
      <3>1. n \in Nat
        BY <1>0 DEF n
      <3> QED
        BY <1>0, <1>1, <2>1, <3>1
    <2>3. l - (d.ofs - a) = n
      BY <1>0 DEF n
    <2> QED
      BY <1>0, <2>2, <2>3, TopRemains
  <1>3. TagFits(d)
    BY <1>0, <1>1, <1>2 DEF TagFits, Top, n
  <1>4. TagRemaining(d) = d
    BY <1>3 DEF TagRemaining, Fine
  <1>5. ReadRest(d) = Read(d, n)
    BY <1>2, <1>4 DEF ReadRest, Fine
  <1> QED
    BY <1>2, <1>5, ReadGets DEF n

LEMMA FineType ==
  ASSUME NEW d, Fine(d)
  PROVE  /\ ReaderOK(d) /\ ~d.has_error /\ d.ofs \in Nat /\ d.data \in Seq(Nat) /\ Len(d.data) \in Nat
         /\ d.nesting \in Seq([start : Nat, taglen : Int])
PROOF
  <1>1. ReaderOK(d) /\ ~d.has_error
    BY DEF Fine
  <1>2. d.data \in Seq(Bytes) /\ d.ofs \in Nat
    BY <1>1, Numbers
  <1> QED
    BY <1>1, <1>2, BytesAreNat DEF ReaderOK

LEMMA GotFine ==
  ASSUME NEW d, NEW e, NEW n, NEW v, Got(d, e, n, v)
  PROVE  Fine(e) /\ e.data = d.data /\ e.ofs = d.ofs + n /\ e.nesting = d.nesting /\ e.val = v
PROOF
  BY DEF Got

LEMMA ValueGets ==
  ASSUME NEW d, NEW e, NEW n, NEW v, NEW w, Got(d, e, n, v)
  PROVE  Got(d, Value(e, w), n, w)
PROOF
  <1> DEFINE x == [e EXCEPT !.val = w]
  <1>1. ReaderOK(e) /\ ~e.has_error
    BY DEF Got, Fine
  <1>2. Value(e, w) = x
    BY <1>1 DEF Value, OnlyIf
  <1>3. DOMAIN e = {"data", "ofs", "nesting", "has_error", "val"}
    BY <1>1 DEF ReaderOK, IsData
  <1>4. /\ x.nesting = e.nesting /\ x.data = e.data /\ x.ofs = e.ofs
        /\ x.has_error = e.has_error /\ x.val = w
    BY <1>3
  <1> HIDE DEF x
  <1>5. ReaderOK(x)
    BY <1>1, <1>2, ValueReads DEF Keeps, Follows
  <1> QED
    BY <1>1, <1>2, <1>4, <1>5 DEF Got, Fine

LEMMA StartedTop ==
  ASSUME NEW d, Fine(d), NEW e, NEW n \in Nat, NEW l \in Nat, Started(d, e, n, l)
  PROVE  Top(e, d.ofs + n, l) /\ Tail(e.nesting) = d.nesting /\ d.ofs + n \in Nat /\ e.ofs = d.ofs + n
         /\ Fine(e) /\ e.data = d.data
PROOF
  <1> DEFINE S == [start : Nat, taglen : Int]
             o == [start |-> d.ofs + n, taglen |-> l]
             ns == d.nesting
             s == <<o>>
  <1>1. d.ofs \in Nat /\ ns \in Seq(S)
    BY FineType
  <1>2. o \in S /\ o.start = d.ofs + n /\ o.taglen = l
    BY <1>1
  <1>3. e.nesting = s \o ns
    BY DEF Started
  <1> HIDE DEF S, o, ns
  <1>4. Tail(s \o ns) = ns
    BY <1>1, <1>2, TailAfterOne
  <1>5. s \in Seq(S) /\ Len(s) = 1 /\ s[1] = o
    BY <1>2
  <1> HIDE DEF s
  <1>6. /\ Len(s \o ns) = Len(s) + Len(ns)
        /\ \A i \in 1 .. Len(s) + Len(ns) : (s \o ns)[i] = IF i <= Len(s) THEN s[i] ELSE ns[i - Len(s)]
    BY <1>1, <1>5, ConcatProperties
  <1>7. Len(ns) \in Nat
    BY <1>1
  <1>8. Len(s \o ns) >= 1 /\ (s \o ns)[1] = o
    BY <1>5, <1>6, <1>7
  <1>9. s \o ns # <<>>
    BY <1>8
  <1> DEFINE x == s \o ns
  <1>10. e.nesting = x /\ x[1] = o /\ x # <<>> /\ Tail(x) = ns
    BY <1>3, <1>4, <1>8, <1>9
  <1> HIDE DEF x
  <1>11. Top(e, d.ofs + n, l)
    BY <1>2, <1>10 DEF Top
  <1>12. d.ofs + n \in Nat
    BY <1>1
  <1>13. Fine(e) /\ e.data = d.data /\ e.ofs = d.ofs + n
    BY DEF Started
  <1> QED
    BY <1>10, <1>11, <1>12, <1>13 DEF ns

Block(tag, s) == Header(tag, Len(s)) \o s

(* The header of a block, and what is in it.                               *)
LEMMA BlockStarts ==
  ASSUME NEW d, Fine(d), NEW tag \in Nat, NEW s \in Seq(Nat), Len(s) < Power(Base, 4),
         At(d.data, d.ofs, Block(tag, s)), NEW e, e = StartTag(d, tag)
  PROVE  LET h == Len(Header(tag, Len(s)))
         IN  /\ h \in Nat /\ Len(s) \in Nat /\ Len(Block(tag, s)) = h + Len(s)
             /\ Started(d, e, h, Len(s)) /\ At(e.data, e.ofs, s)
PROOF
  <1> DEFINE l == Len(s)
             hd == Header(tag, l)
             h == Len(hd)
  <1>1. d.ofs \in Nat /\ d.data \in Seq(Nat) /\ l \in Nat
    BY FineType
  <1>2. hd \in Seq(Nat) /\ h \in Nat
    <2> HIDE DEF l
    <2>1. Header(tag, l) \in Seq(Nat)
      BY <1>1, HeaderType
    <2> QED
      BY <2>1
  <1>3. At(d.data, d.ofs, hd \o s)
    BY DEF Block
  <1> HIDE DEF hd
  <1>4. /\ Len(hd \o s) = Len(hd) + Len(s)
        /\ At(d.data, d.ofs, hd) /\ At(d.data, d.ofs + Len(hd), s)
    BY <1>1, <1>2, <1>3, AtConcat
  <1>5. d.ofs + Len(hd) + l <= Len(d.data)
    BY <1>4 DEF At
  <1> HIDE DEF l
  <1>6. Started(d, StartTag(d, tag), Len(hd), l)
    BY <1>1, <1>4, <1>5, StartGets DEF hd, l
  <1>7. e.data = d.data /\ e.ofs = d.ofs + h
    BY <1>6 DEF Started
  <1> QED
    BY <1>1, <1>2, <1>4, <1>6, <1>7 DEF Block, hd, l

LEMMA TaggedGets ==
  ASSUME NEW d, Fine(d), NEW tag \in Nat, NEW s \in Seq(Nat), Len(s) < Power(Base, 4),
         At(d.data, d.ofs, Block(tag, s))
  PROVE  Got(d, ReadTagged(d, tag), Len(Block(tag, s)), s)
PROOF
  <1> DEFINE t == StartTag(d, tag)
             h == Len(Header(tag, Len(s)))
             l == Len(s)
             r == ReadRest(t)
             e == EndTag(r)
  <1>1. /\ h \in Nat /\ l \in Nat /\ Len(Block(tag, s)) = h + l
        /\ Started(d, t, h, l) /\ At(t.data, t.ofs, s)
    BY BlockStarts
  <1> HIDE DEF h, t
  <1>2. /\ Top(t, d.ofs + h, l) /\ Tail(t.nesting) = d.nesting /\ d.ofs + h \in Nat
        /\ t.ofs = d.ofs + h /\ Fine(t) /\ t.data = d.data
    BY <1>1, StartedTop
  <1> HIDE DEF l
  <1>3. Got(t, r, l, s)
    <2> DEFINE a == d.ofs + h
    <2>1. a \in Nat /\ l \in Nat /\ t.ofs = a /\ t.ofs + l = a + l /\ Top(t, a, l)
      BY <1>1, <1>2
    <2> HIDE DEF a
    <2>2. t.ofs + Len(s) = a + l
      BY <2>1 DEF l
    <2> QED
      BY <1>1, <1>2, <2>1, <2>2, RestGets DEF l
  <1> HIDE DEF r
  <1>4. Fine(r) /\ r.data = t.data /\ r.ofs = t.ofs + l /\ r.nesting = t.nesting /\ r.val = s
    BY <1>3, GotFine
  <1>5. Closed(r, e)
    <2> DEFINE a == d.ofs + h
    <2>1. a \in Nat /\ l \in Nat /\ r.ofs = a + l /\ Top(r, a, l)
      BY <1>1, <1>2, <1>4 DEF Top
    <2> HIDE DEF a
    <2> QED
      BY <1>4, <2>1, EndGets
  <1> HIDE DEF e
  <1>6. ReadTagged(d, tag) = e
    <2>1. ~t.has_error
      BY <1>2 DEF Fine
    <2> QED
      BY <2>1 DEF ReadTagged, t, r, e
  <1>7. (d.ofs + h) + l = d.ofs + (h + l)
    <2> DEFINE o == d.ofs
    <2>1. o \in Nat
      BY FineType
    <2> HIDE DEF o
    <2>2. (o + h) + l = o + (h + l)
      BY <1>1, <2>1
    <2> QED
      BY <2>2 DEF o
  <1> QED
    BY <1>1, <1>2, <1>4, <1>5, <1>6, <1>7 DEF Got, Closed

LEMMA IntegerGets ==
  ASSUME NEW d, Fine(d), NEW tag \in Nat, NEW s \in Seq(Nat), Len(s) < Power(Base, 4),
         At(d.data, d.ofs, Block(tag, s))
  PROVE  Got(d, ReadInteger(d, tag), Len(Block(tag, s)), AsInt(s))
PROOF
  <1> DEFINE r == ReadTagged(d, tag)
  <1>1. Got(d, r, Len(Block(tag, s)), s)
    BY TaggedGets
  <1>2. ReadInteger(d, tag) = Value(r, AsInt(r.val))
    BY DEF ReadInteger
  <1> HIDE DEF r
  <1>3. r.val = s
    BY <1>1, GotFine
  <1> QED
    BY <1>1, <1>2, <1>3, ValueGets

LEMMA OidGets ==
  ASSUME NEW d, Fine(d), NEW s \in Seq(Nat), Len(s) < Power(Base, 4),
         At(d.data, d.ofs, Block(OID, s)), NEW oid, ReadAsOid(s, oid)
  PROVE  Got(d, ReadOID(d), Len(Block(OID, s)), oid)
PROOF
  <1> DEFINE r == ReadTagged(d, OID)
             v == <<s[1] \div Arc, s[1] % Arc>> \o NumbersOf(Tail(s))
  <1>0. OID \in Nat
    BY DEF OID
  <1>1. Got(d, r, Len(Block(OID, s)), s)
    BY <1>0, TaggedGets
  <1> HIDE DEF r
  <1>2. r.val = s /\ ~r.has_error
    BY <1>1, GotFine DEF Fine
  <1>3. ~(Len(s) < 2 \/ Last(s) >= HALF) /\ v = oid
    <2>1. Len(s) \in Nat /\ Len(s) >= 2 /\ s[Len(s)] < HALF /\ v = oid
      BY DEF ReadAsOid
    <2>2. s[Len(s)] \in Nat
      BY <2>1
    <2>3. HALF \in Nat /\ Last(s) = s[Len(s)]
      BY Sizes DEF Last
    <2> HIDE DEF v
    <2> QED
      BY <2>1, <2>2, <2>3
  <1> HIDE DEF v
  <1>4. ReadOID(d) = Value(r, v)
    BY <1>2, <1>3 DEF ReadOID, r, v
  <1>5. Got(d, Value(r, oid), Len(Block(OID, s)), oid)
    BY <1>1, ValueGets
  <1> QED
    BY <1>3, <1>4, <1>5

(* All that is in a tag is read, and then its end.                         *)
LEMMA BlockEnds ==
  ASSUME NEW d, Fine(d), NEW h \in Nat, NEW l \in Nat, NEW t, Started(d, t, h, l),
         NEW b, Fine(b), b.data = t.data, b.ofs = t.ofs + l, b.nesting = t.nesting
  PROVE  Got(d, EndTag(b), h + l, b.val)
PROOF
  <1> DEFINE e == EndTag(b)
             o == d.ofs
             a == o + h
  <1>1. /\ Top(t, d.ofs + h, l) /\ Tail(t.nesting) = d.nesting /\ d.ofs + h \in Nat
        /\ t.ofs = d.ofs + h /\ t.data = d.data
    BY StartedTop
  <1>2. o \in Nat
    BY FineType
  <1> HIDE DEF o
  <1>3. a \in Nat /\ t.ofs = a /\ Top(t, a, l)
    BY <1>1 DEF o
  <1>4. a + l = o + (h + l)
    BY <1>2
  <1> HIDE DEF a
  <1>5. b.ofs = a + l /\ Top(b, a, l)
    BY <1>3 DEF Top
  <1>6. Closed(b, e)
    BY <1>3, <1>5, EndGets
  <1> HIDE DEF e
  <1> QED
    BY <1>1, <1>4, <1>5, <1>6 DEF Got, Closed, e, o

LEMMA OneByte ==
  ASSUME NEW d, Fine(d), NEW c \in Nat, At(d.data, d.ofs, <<c>>)
  PROVE  Got(d, Read(d, 1), 1, <<c>>)
PROOF
  <1> DEFINE s == <<c>>
  <1>1. s \in Seq(Nat) /\ Len(s) = 1
    OBVIOUS
  <1>2. At(d.data, d.ofs, s)
    OBVIOUS
  <1> HIDE DEF s
  <1>3. Got(d, Read(d, Len(s)), Len(s), s)
    BY <1>1, <1>2, ReadGets
  <1> QED
    BY <1>1, <1>3 DEF s

(* A tag with one byte in it.                                              *)
LEMMA ByteGets ==
  ASSUME NEW d, Fine(d), NEW tag \in Nat, NEW c \in Nat, 1 < Power(Base, 4),
         At(d.data, d.ofs, Block(tag, <<c>>)), NEW t, t = StartTag(d, tag)
  PROVE  /\ Got(d, EndTag(Read(t, 1)), Len(Block(tag, <<c>>)), <<c>>)
         /\ Fine(t) /\ Fine(Read(t, 1)) /\ Read(t, 1).val = <<c>>
PROOF
  <1> DEFINE s == <<c>>
             h == Len(Header(tag, Len(s)))
             one == 1
             b == Read(t, one)
             e == EndTag(b)
  <1>0. s \in Seq(Nat) /\ Len(s) = one /\ one \in Nat
    OBVIOUS
  <1>1. Len(s) < Power(Base, 4) /\ At(d.data, d.ofs, Block(tag, s))
    BY <1>0
  <1> HIDE DEF s
  <1>2. /\ h \in Nat /\ Len(Block(tag, s)) = h + Len(s)
        /\ Started(d, t, h, Len(s)) /\ At(t.data, t.ofs, s)
    <2>1. s \in Seq(Nat)
      BY <1>0
    <2> QED
      BY <1>1, <2>1, BlockStarts
  <1> HIDE DEF h
  <1>3. Fine(t)
    BY <1>2 DEF Started
  <1>4. Got(t, b, one, s)
    BY <1>2, <1>3, OneByte DEF s
  <1> HIDE DEF one, b
  <1>5. Fine(b) /\ b.data = t.data /\ b.ofs = t.ofs + one /\ b.nesting = t.nesting /\ b.val = s
    BY <1>4, GotFine
  <1>6. Started(d, t, h, one)
    BY <1>0, <1>2
  <1>7. Got(d, e, h + one, b.val)
    BY <1>0, <1>2, <1>5, <1>6, BlockEnds
  <1> QED
    BY <1>0, <1>2, <1>3, <1>5, <1>7 DEF s, b, one

LEMMA BooleanGets ==
  ASSUME NEW d, Fine(d), NEW tag \in Nat, NEW v \in BOOLEAN, 1 < Power(Base, 4),
         At(d.data, d.ofs, Block(tag, <<IF v THEN Base - 1 ELSE 0>>))
  PROVE  Got(d, ReadBoolean(d, tag), Len(Block(tag, <<IF v THEN Base - 1 ELSE 0>>)), v)
PROOF
  <1> DEFINE c == IF v THEN Base - 1 ELSE 0
             t == StartTag(d, tag)
             b == Read(t, 1)
             w == b.val = <<Base - 1>>
  <1>1. c \in Nat /\ ((c = Base - 1) <=> v)
    BY Sizes
  <1>2. At(d.data, d.ofs, Block(tag, <<c>>))
    OBVIOUS
  <1> HIDE DEF c
  <1>3. Got(d, EndTag(b), Len(Block(tag, <<c>>)), <<c>>) /\ b.val = <<c>>
    BY <1>1, <1>2, ByteGets
  <1>4. ReadBoolean(d, tag) = Value(EndTag(b), w)
    BY DEF ReadBoolean
  <1> HIDE DEF b
  <1>5. w \in BOOLEAN /\ (w <=> v)
    <2>1. (<<c>> = <<Base - 1>>) <=> (c = Base - 1)
      OBVIOUS
    <2> QED
      BY <1>1, <1>3, <2>1
  <1>6. w = v
    BY <1>5
  <1> HIDE DEF w
  <1>7. Got(d, Value(EndTag(b), v), Len(Block(tag, <<c>>)), v)
    BY <1>3, ValueGets
  <1> QED
    BY <1>4, <1>6, <1>7 DEF c

LEMMA EnumeratedChecks ==
  ASSUME NEW d, Fine(d), NEW v \in Nat, 1 < Power(Base, 4),
         At(d.data, d.ofs, Block(ENUMERATED, <<v>>))
  PROVE  Got(d, CheckEnumerated(d, v), Len(Block(ENUMERATED, <<v>>)), <<v>>)
PROOF
  <1> DEFINE t == StartTag(d, ENUMERATED)
             b == Read(t, 1)
             e == EndTag(b)
  <1>0. ENUMERATED \in Nat
    BY DEF ENUMERATED
  <1>1. /\ Got(d, e, Len(Block(ENUMERATED, <<v>>)), <<v>>) /\ Fine(t) /\ Fine(b) /\ b.val = <<v>>
    BY <1>0, ByteGets
  <1>2. CheckEnumerated(d, v) =
          IF t.has_error THEN t
          ELSE IF b.has_error \/ b.val # <<v>> THEN [e EXCEPT !.has_error = FALSE] ELSE e
    BY DEF CheckEnumerated
  <1> HIDE DEF t, b, e
  <1>3. ~t.has_error /\ ~b.has_error /\ b.val = <<v>>
    BY <1>1 DEF Fine
  <1>4. CheckEnumerated(d, v) = e
    BY <1>2, <1>3
  <1> QED
    BY <1>1, <1>4

LEMMA BitsGet ==
  ASSUME NEW d, Fine(d), NEW c \in Nat, NEW s \in Seq(Nat), Len(<<c>> \o s) < Power(Base, 4),
         At(d.data, d.ofs, Block(BIT_STRING, <<c>> \o s))
  PROVE  Got(d, ReadBitString(d), Len(Block(BIT_STRING, <<c>> \o s)), <<c>> \o s)
PROOF
  <1> DEFINE one == <<c>>
             x == one \o s
             h == Len(Header(BIT_STRING, Len(x)))
             n == Len(s)
             t == StartTag(d, BIT_STRING)
             p == Read(t, 1)
             b == Read(p, Remaining(t) - 1)
             e == EndTag(b)
  <1>0. BIT_STRING \in Nat /\ one \in Seq(Nat) /\ Len(one) = 1 /\ n \in Nat
    BY DEF BIT_STRING
  <1> HIDE DEF one, n
  <1>1. x \in Seq(Nat) /\ Len(x) = 1 + n
    <2>1. one \o s \in Seq(Nat) /\ Len(one \o s) = Len(one) + Len(s)
      <3>1. one \in Seq(Nat) /\ s \in Seq(Nat)
        BY <1>0
      <3> QED
        BY <3>1, ConcatProperties
    <2> QED
      BY <1>0, <2>1 DEF n
  <1>2. Len(x) < Power(Base, 4) /\ At(d.data, d.ofs, Block(BIT_STRING, x))
    BY DEF one
  <1> HIDE DEF x
  <1>3. /\ h \in Nat /\ Len(Block(BIT_STRING, x)) = h + Len(x)
        /\ Started(d, t, h, Len(x)) /\ At(t.data, t.ofs, x)
    <2>1. x \in Seq(Nat) /\ BIT_STRING \in Nat
      BY <1>0, <1>1
    <2> HIDE DEF t
    <2>2. t = StartTag(d, BIT_STRING)
      BY DEF t
    <2> QED
      BY <1>2, <2>1, <2>2, BlockStarts
  <1>4. ReadBitString(d) = IF t.has_error THEN t ELSE IF b.has_error THEN b
                           ELSE Value(e, p.val \o b.val)
    BY DEF ReadBitString
  <1> HIDE DEF h, t
  <1>5. Top(t, d.ofs + h, Len(x)) /\ d.ofs + h \in Nat /\ t.ofs = d.ofs + h /\ Fine(t)
    BY <1>1, <1>3, StartedTop
  <1>6. Remaining(t) - 1 = n
    <2> DEFINE a == d.ofs + h
    <2>1. a \in Nat /\ t.ofs = a /\ t.nesting[1].start = a /\ t.nesting[1].taglen = 1 + n
      BY <1>1, <1>5 DEF Top
    <2> HIDE DEF a
    <2>2. 1 + n < Word \div 2
      <3> DEFINE w == Word \div 2
      <3>1. Len(t.data) < w /\ w \in Nat /\ ReaderOK(t)
        BY <1>5, WordType DEF Fine
      <3>2. Len(t.data) \in Nat /\ a + (1 + n) <= Len(t.data)
        <4>1. Len(t.data) \in Nat
          BY <1>5, FineType
        <4>2. t.ofs + Len(x) <= Len(t.data)
          BY <1>3 DEF At
        <4> QED
          BY <1>1, <2>1, <4>1, <4>2
      <3> HIDE DEF w
      <3>3. 1 + n < w
        BY <1>0, <2>1, <3>1, <3>2
      <3> QED
        BY <3>3 DEF w
    <2>3. Remaining(t) = 1 + n
      <3> DEFINE m == 1 + n
      <3>1. m \in Nat /\ m \in Int
        BY <1>0
      <3>2. m < Word \div 2
        BY <2>2
      <3>3. Top(t, a, m)
        BY <1>1, <1>5, <2>1 DEF Top
      <3> HIDE DEF m
      <3>4. m - (t.ofs - a) = m /\ t.ofs \in Nat
        BY <2>1, <3>1
      <3>5. Remaining(t) = m
        BY <2>1, <3>1, <3>2, <3>3, <3>4, TopRemains
      <3> QED
        BY <3>5 DEF m
    <2> QED
      BY <1>0, <2>3
  <1>7. At(t.data, t.ofs, one) /\ At(t.data, t.ofs + 1, s)
    <2>1. t.data \in Seq(Nat) /\ t.ofs \in Nat
      BY <1>5, FineType
    <2>2. At(t.data, t.ofs, one \o s)
      BY <1>3 DEF x
    <2>3. At(t.data, t.ofs, one) /\ At(t.data, t.ofs + Len(one), s)
      BY <1>0, <2>1, <2>2, AtConcat
    <2> QED
      BY <1>0, <2>3
  <1>8. Got(t, p, 1, one)
    BY <1>5, <1>7, OneByte DEF one
  <1> HIDE DEF p
  <1>9. Fine(p) /\ p.data = t.data /\ p.ofs = t.ofs + 1 /\ p.nesting = t.nesting /\ p.val = one
    BY <1>8, GotFine
  <1>10. Got(p, b, n, s)
    <2>1. At(p.data, p.ofs, s)
      BY <1>7, <1>9
    <2>2. Got(p, Read(p, Len(s)), Len(s), s)
      BY <1>9, <2>1, ReadGets
    <2> QED
      BY <1>6, <2>2 DEF n
  <1> HIDE DEF b
  <1>11. Got(t, b, 1 + n, s)
    <2>1. t.ofs \in Nat /\ 1 \in Nat
      BY <1>5, FineType
    <2> QED
      BY <1>0, <1>8, <1>10, <2>1, GotTwice
  <1>12. Fine(b) /\ b.data = t.data /\ b.ofs = t.ofs + Len(x) /\ b.nesting = t.nesting /\ b.val = s
    BY <1>1, <1>11, GotFine
  <1>13. Got(d, e, h + Len(x), b.val)
    <2>1. Len(x) \in Nat
      BY <1>1
    <2> QED
      BY <1>3, <1>12, <2>1, BlockEnds
  <1> HIDE DEF e
  <1>14. ReadBitString(d) = Value(e, x)
    <2>1. ~t.has_error /\ ~b.has_error
      BY <1>5, <1>12 DEF Fine
    <2> QED
      BY <1>4, <1>9, <1>12, <2>1 DEF x
  <1>15. Got(d, Value(e, x), h + Len(x), x)
    BY <1>13, ValueGets
  <1> QED
    BY <1>3, <1>14, <1>15 DEF x, one

-----------------------------------------------------------------------------
(* What each item is in the bytes, and that the reader gets it from them.  *)

(* What is in the tag of an item that is written in a tag of its own; the  *)
(* bytes of an item, of a tag with l bytes if l is not negative.           *)
Body(item) ==
  CASE item.op = "int"  -> IntBytes(item.val)
    [] item.op = "oid"  -> OidBytes(item.val)
    [] item.op = "bits" -> <<item.padding>> \o item.val
    [] item.op \in {"octets", "string", "context"} -> item.val
    [] item.op = "bool" -> <<IF item.val THEN Base - 1 ELSE 0>>
    [] item.op = "enum" -> <<item.val>>

Atomic == {"int", "oid", "bits", "octets", "string", "enum", "context", "bool"}

Chunk(item, l) ==
  CASE item.op = "push" -> IF l < 0 THEN <<item.tag, Base - 1>> ELSE Header(item.tag, l)
    [] item.op = "pop"  -> <<>>
    [] item.op \in {"raw", "rest"} -> item.val
    [] item.op \in Atomic -> Block(TagOf(item), Body(item))

Readable(oid) ==
  /\ Len(oid) >= 3 /\ oid[2] < Arc /\ Arc * oid[1] + oid[2] < Base
  /\ \A k \in 3 .. Len(oid) : oid[k] < Word /\ oid[k] < Power(HALF, 5)

Right(item, v) ==
  IF item.op = "int" /\ item.val < 0
  THEN v \in {item.val, Unsigned(IntBytes(item.val))}
  ELSE v = Expected(item)

(* What the items are.                                                     *)
LEMMA ItemType ==
  ASSUME NEW item \in Items
  PROVE  /\ item.op \in Atomic \cup {"push", "pop", "raw", "rest"}
         /\ item.op = "int" => item.val \in Ints
         /\ item.op = "oid" => item.val \in Seq(Nat)
         /\ item.op = "enum" => item.val \in Bytes
         /\ item.op \in {"octets", "string", "raw", "rest", "bits", "context"} => item.val \in Seq(Bytes)
         /\ item.op = "bits" => item.padding \in Bytes
         /\ item.op \in {"push", "context", "bool"} => item.tag \in Bytes
         /\ item.op = "bool" => item.val \in BOOLEAN
PROOF
  <1> HIDE DEF Bytes, Ints
  <1>1. CASE item \in [op : {"push"}, tag : Bytes]
    BY <1>1 DEF Atomic
  <1>2. CASE item \in [op : {"pop"}]
    BY <1>2 DEF Atomic
  <1>3. CASE item \in [op : {"int"}, val : Ints]
    BY <1>3 DEF Atomic
  <1>4. CASE item \in [op : {"oid"}, val : Seq(Nat)]
    BY <1>4 DEF Atomic
  <1>5. CASE item \in [op : {"bits"}, padding : Bytes, val : Seq(Bytes)]
    BY <1>5 DEF Atomic
  <1>6. CASE item \in [op : {"octets", "string", "raw", "rest"}, val : Seq(Bytes)]
    BY <1>6 DEF Atomic
  <1>7. CASE item \in [op : {"context"}, tag : Bytes, val : Seq(Bytes)]
    BY <1>7 DEF Atomic
  <1>8. CASE item \in [op : {"bool"}, tag : Bytes, val : BOOLEAN]
    BY <1>8 DEF Atomic
  <1>9. CASE item \in [op : {"enum"}, val : Bytes]
    BY <1>9 DEF Atomic
  <1> QED
    BY <1>1, <1>2, <1>3, <1>4, <1>5, <1>6, <1>7, <1>8, <1>9 DEF Items

(* An atom is written in its tag.                                          *)
LEMMA AtomType ==
  ASSUME NEW item \in Items, item.op \in Atomic, item.op = "oid" => Len(item.val) >= 3
  PROVE  /\ TagOf(item) \in Bytes /\ Body(item) \in Seq(Bytes)
         /\ \A d : WriteItem(d, item) = Tagged(d, TagOf(item), Body(item))
PROOF
  <1>0. /\ INTEGER \in Bytes /\ OID \in Bytes /\ BIT_STRING \in Bytes /\ OCTET_STRING \in Bytes
        /\ ENUMERATED \in Bytes /\ GENERAL_STRING \in Bytes /\ Base - 1 \in Bytes /\ 0 \in Bytes
    BY Sizes, Asn1Assumption
       DEF Bytes, INTEGER, OID, BIT_STRING, OCTET_STRING, ENUMERATED, GENERAL_STRING
  <1> HIDE DEF Bytes
  <1>1. CASE item.op = "int"
    <2>1. item.val \in Int
      BY <1>1, ItemType, IntsType
    <2>2. /\ TagOf(item) = INTEGER /\ Body(item) = IntBytes(item.val)
          /\ \A d : WriteItem(d, item) = Tagged(d, INTEGER, IntBytes(item.val))
      BY <1>1 DEF TagOf, Body, WriteItem
    <2> QED
      BY <1>0, <2>1, <2>2, IntBytesType
  <1>2. CASE item.op = "oid"
    <2> DEFINE oid == item.val
    <2>1. oid \in Seq(Nat) /\ Len(oid) >= 3
      BY <1>2, ItemType
    <2>2. /\ TagOf(item) = OID /\ Body(item) = OidBytes(oid)
          /\ \A d : WriteItem(d, item) = WriteOID(d, oid)
      BY <1>2 DEF TagOf, Body, WriteItem
    <2> HIDE DEF oid
    <2>3. ~(Len(oid) < 3)
      BY <2>1
    <2>4. \A d : WriteOID(d, oid) = Tagged(d, OID, OidBytes(oid))
      BY <2>3 DEF WriteOID
    <2>5. OidBytes(oid) \in Seq(Bytes)
      BY <2>1, OidBytesType
    <2> QED
      BY <1>0, <2>2, <2>4, <2>5
  <1>3. CASE item.op = "bits"
    <2> DEFINE p == item.padding
               v == item.val
    <2>1. p \in Bytes /\ v \in Seq(Bytes)
      BY <1>3, ItemType
    <2>2. /\ TagOf(item) = BIT_STRING /\ Body(item) = <<p>> \o v
          /\ \A d : WriteItem(d, item) = Tagged(d, BIT_STRING, <<p>> \o v)
      BY <1>3 DEF TagOf, Body, WriteItem
    <2> HIDE DEF p, v
    <2>3. <<p>> \in Seq(Bytes)
      BY <2>1
    <2>4. <<p>> \o v \in Seq(Bytes)
      BY <2>1, <2>3, ConcatProperties
    <2> QED
      BY <1>0, <2>2, <2>4
  <1>4. CASE item.op \in {"octets", "string", "context"}
    <2>1. item.val \in Seq(Bytes) /\ (item.op = "context" => item.tag \in Bytes)
      BY <1>4, ItemType
    <2>2. /\ TagOf(item) \in {OCTET_STRING, GENERAL_STRING, item.tag} /\ Body(item) = item.val
          /\ TagOf(item) = item.tag => item.op = "context" \/ TagOf(item) \in {OCTET_STRING, GENERAL_STRING}
          /\ \A d : WriteItem(d, item) = Tagged(d, TagOf(item), item.val)
      BY <1>4 DEF TagOf, Body, WriteItem
    <2> QED
      BY <1>0, <2>1, <2>2
  <1>5. CASE item.op = "bool"
    <2> DEFINE c == IF item.val THEN Base - 1 ELSE 0
    <2>1. item.tag \in Bytes
      BY <1>5, ItemType
    <2>2. c \in Bytes
      BY <1>0
    <2>3. /\ TagOf(item) = item.tag /\ Body(item) = <<c>>
          /\ \A d : WriteItem(d, item) = Tagged(d, item.tag, <<c>>)
      BY <1>5 DEF TagOf, Body, WriteItem
    <2> HIDE DEF c
    <2>4. <<c>> \in Seq(Bytes)
      BY <2>2
    <2> QED
      BY <2>1, <2>3, <2>4
  <1>6. CASE item.op = "enum"
    <2> DEFINE c == item.val
    <2>1. c \in Bytes
      BY <1>6, ItemType
    <2>2. /\ TagOf(item) = ENUMERATED /\ Body(item) = <<c>>
          /\ \A d : WriteItem(d, item) = Tagged(d, ENUMERATED, <<c>>)
      BY <1>6 DEF TagOf, Body, WriteItem
    <2> HIDE DEF c
    <2>3. <<c>> \in Seq(Bytes)
      BY <2>1
    <2> QED
      BY <1>0, <2>2, <2>3
  <1> QED
    BY <1>1, <1>2, <1>3, <1>4, <1>5, <1>6 DEF Atomic

LEMMA BlockLen ==
  ASSUME NEW bytes \in Seq(Nat), NEW p, NEW tag \in Nat, NEW s \in Seq(Nat), At(bytes, p, Block(tag, s))
  PROVE  Len(s) <= Len(bytes) /\ Len(s) \in Nat
PROOF
  <1> DEFINE l == Len(s)
             hd == Header(tag, l)
  <1>1. l \in Nat /\ Len(bytes) \in Nat
    OBVIOUS
  <1> HIDE DEF l
  <1>2. hd \in Seq(Nat)
    BY <1>1, HeaderType
  <1> HIDE DEF hd
  <1>3. Len(hd \o s) = Len(hd) + l /\ Len(hd) \in Nat
    BY <1>2, ConcatProperties DEF l
  <1>4. p \in Nat /\ p + Len(hd \o s) <= Len(bytes)
    BY DEF At, Block, hd, l
  <1> QED
    BY <1>1, <1>3, <1>4 DEF l

(* Reading and checking the item gets the right value.                     *)
Gets(d, e, item, l) == \E v : Got(d, e, Len(Chunk(item, l)), v) /\ Right(item, v)

LEMMA ChunkType ==
  ASSUME NEW item \in Items, NEW l \in Int, item.op = "oid" => Len(item.val) >= 3
  PROVE  Chunk(item, l) \in Seq(Nat) /\ Len(Chunk(item, l)) \in Nat
PROOF
  <1>1. CASE item.op = "push"
    <2> DEFINE tag == item.tag
               c == Base - 1
    <2>1. tag \in Bytes
      BY <1>1, ItemType
    <2>2. tag \in Nat /\ c \in Nat
      BY <2>1, Sizes DEF Bytes
    <2>3. Chunk(item, l) = IF l < 0 THEN <<tag, c>> ELSE Header(tag, l)
      BY <1>1 DEF Chunk, Atomic
    <2> HIDE DEF tag, c
    <2>4. CASE l < 0
      BY <2>2, <2>3, <2>4
    <2>5. CASE ~(l < 0)
      <3>1. l \in Nat
        BY <2>5
      <3> DEFINE h == Header(tag, l)
      <3>2. h \in Seq(Nat)
        BY <2>2, <3>1, HeaderType
      <3> HIDE DEF h
      <3>3. Len(h) \in Nat
        BY <3>2
      <3> QED
        BY <2>3, <2>5, <3>2, <3>3 DEF h
    <2> QED
      BY <2>4, <2>5
  <1>2. CASE item.op = "pop"
    <2>1. Chunk(item, l) = <<>>
      BY <1>2 DEF Chunk, Atomic
    <2> QED
      BY <2>1
  <1>3. CASE item.op \in {"raw", "rest"}
    <2> DEFINE s == item.val
    <2>1. s \in Seq(Bytes)
      BY <1>3, ItemType
    <2>2. Chunk(item, l) = s
      BY <1>3 DEF Chunk, Atomic
    <2> HIDE DEF s
    <2> QED
      BY <2>1, <2>2, BytesAreNat
  <1>4. CASE item.op \in Atomic
    <2> DEFINE s == Body(item)
               tag == TagOf(item)
    <2>1. s \in Seq(Bytes) /\ tag \in Bytes
      BY <1>4, AtomType
    <2>2. Chunk(item, l) = Block(tag, s)
      BY <1>4 DEF Chunk, Atomic
    <2> HIDE DEF s, tag
    <2>3. s \in Seq(Nat) /\ Bytes \subseteq Nat /\ Len(s) \in Nat
      BY <2>1, BytesAreNat
    <2>4. tag \in Nat
      BY <2>1, <2>3
    <2> DEFINE h == Header(tag, Len(s))
    <2>5. h \in Seq(Nat)
      BY <2>3, <2>4, HeaderType
    <2> HIDE DEF h
    <2>6. h \o s \in Seq(Nat) /\ Len(h \o s) = Len(h) + Len(s)
      BY <2>3, <2>5, ConcatProperties
    <2>7. Len(h) \in Nat
      BY <2>5
    <2> QED
      BY <2>2, <2>3, <2>6, <2>7 DEF Block, h
  <1> QED
    BY <1>1, <1>2, <1>3, <1>4, ItemType

(* What all the cases for an atom start from.                              *)
LEMMA AtomReady ==
  ASSUME NEW d, Fine(d), NEW item \in Items, NEW l, item.op \in Atomic,
         item.op = "oid" => Len(item.val) >= 3,
         Len(d.data) < Power(Base, 4), At(d.data, d.ofs, Chunk(item, l))
  PROVE  /\ Chunk(item, l) = Block(TagOf(item), Body(item))
         /\ TagOf(item) \in Nat /\ Body(item) \in Seq(Nat)
         /\ Len(Body(item)) < Power(Base, 4) /\ Len(Body(item)) \in Nat
         /\ At(d.data, d.ofs, Block(TagOf(item), Body(item)))
PROOF
  <1> DEFINE s == Body(item)
             tag == TagOf(item)
             p == Power(Base, 4)
             bytes == d.data
  <1>1. s \in Seq(Bytes) /\ tag \in Bytes
    BY AtomType
  <1>2. Chunk(item, l) = Block(tag, s)
    BY DEF Chunk, Atomic
  <1>3. At(bytes, d.ofs, Block(tag, s)) /\ Len(bytes) < p
    BY <1>2
  <1> HIDE DEF s, tag, p, bytes
  <1>4. s \in Seq(Nat) /\ Bytes \subseteq Nat /\ Len(s) \in Nat
    BY <1>1, BytesAreNat
  <1>5. tag \in Nat
    BY <1>1, <1>4
  <1>6. bytes \in Seq(Nat) /\ Len(bytes) \in Nat
    BY FineType DEF bytes
  <1>7. Len(s) <= Len(bytes)
    BY <1>3, <1>4, <1>5, <1>6, BlockLen
  <1>8. p \in Nat
    <2>1. Base \in Nat \ {0} /\ 4 \in Nat
      BY Sizes
    <2> QED
      BY <2>1, PowerType DEF p
  <1>9. Len(s) < p
    BY <1>3, <1>4, <1>6, <1>7, <1>8
  <1> QED
    BY <1>2, <1>3, <1>4, <1>5, <1>9 DEF s, tag, p, bytes

LEMMA AtomGets ==
  ASSUME NEW d, Fine(d), NEW item \in Items, NEW l, item.op \in Atomic,
         item.op = "oid" => Readable(item.val),
         Len(d.data) < Power(Base, 4), At(d.data, d.ofs, Chunk(item, l))
  PROVE  Gets(d, ReadItem(d, item), item, l)
PROOF
  <1> DEFINE s == Body(item)
             tag == TagOf(item)
             n == Len(Chunk(item, l))
             P == Power(Base, 4)
  <1>1. item.op = "oid" => Len(item.val) >= 3
    BY DEF Readable
  <1>2. /\ Chunk(item, l) = Block(tag, s) /\ tag \in Nat /\ s \in Seq(Nat) /\ Len(s) < P
        /\ Len(s) \in Nat /\ At(d.data, d.ofs, Block(tag, s))
    BY <1>1, AtomReady
  <1> HIDE DEF s, tag, P
  <1>3. CASE item.op = "int"
    <2> DEFINE v == AsInt(s)
    <2>1. tag = INTEGER /\ s = IntBytes(item.val) /\ ReadItem(d, item) = ReadInteger(d, INTEGER)
      BY <1>3 DEF tag, s, TagOf, Body, ReadItem
    <2>2. Got(d, ReadItem(d, item), n, v)
      BY <1>2, <2>1, IntegerGets DEF P
    <2>3. Right(item, v)
      <3> DEFINE i == item.val
      <3>1. i \in Ints /\ i \in Int
        BY <1>3, ItemType, IntsType
      <3>2. Expected(item) = i
        BY <1>3 DEF Expected
      <3> HIDE DEF i
      <3>3. /\ i >= 0 => AsInt(IntBytes(i)) = i
            /\ i < 0 => AsInt(IntBytes(i)) \in {i, Unsigned(IntBytes(i))}
        BY <3>1, IntBack
      <3>4. v = AsInt(IntBytes(i))
        BY <2>1 DEF i
      <3> HIDE DEF v
      <3>5. CASE i < 0
        BY <1>3, <3>3, <3>4, <3>5 DEF Right, i
      <3>6. CASE ~(i < 0)
        <4>1. i >= 0
          BY <3>1, <3>6
        <4> QED
          BY <1>3, <3>2, <3>3, <3>4, <3>6, <4>1 DEF Right, i
      <3> QED
        BY <3>5, <3>6
    <2> HIDE DEF v, n
    <2> QED
      BY <2>2, <2>3 DEF Gets, n
  <1>4. CASE item.op = "oid"
    <2> DEFINE oid == item.val
    <2>1. tag = OID /\ s = OidBytes(oid) /\ ReadItem(d, item) = ReadOID(d) /\ Expected(item) = oid
      BY <1>4 DEF tag, s, TagOf, Body, ReadItem, Expected
    <2>2. Right(item, oid)
      BY <1>4, <2>1 DEF Right
    <2>3. oid \in Seq(Nat) /\ Readable(oid)
      BY <1>4, ItemType
    <2> HIDE DEF oid
    <2>4. ReadAsOid(OidBytes(oid), oid)
      BY <2>3, OidBack DEF Readable
    <2>5. Got(d, ReadOID(d), Len(Block(OID, s)), oid)
      BY <1>2, <2>1, <2>4, OidGets DEF P
    <2> QED
      BY <1>2, <2>1, <2>2, <2>5 DEF Gets
  <1>5. CASE item.op = "bits"
    <2> DEFINE c == item.padding
               x == item.val
    <2>1. /\ tag = BIT_STRING /\ s = <<c>> \o x /\ ReadItem(d, item) = ReadBitString(d)
          /\ Expected(item) = s
      BY <1>5 DEF tag, s, TagOf, Body, ReadItem, Expected
    <2>2. Right(item, s)
      BY <1>5, <2>1 DEF Right
    <2>3. c \in Bytes /\ x \in Seq(Bytes)
      BY <1>5, ItemType
    <2> HIDE DEF c, x
    <2>4. c \in Nat /\ x \in Seq(Nat)
      BY <2>3, BytesAreNat
    <2>5. Got(d, ReadBitString(d), Len(Block(BIT_STRING, <<c>> \o x)), <<c>> \o x)
      BY <1>2, <2>1, <2>4, BitsGet DEF P
    <2> QED
      BY <1>2, <2>1, <2>2, <2>5 DEF Gets
  <1>6. CASE item.op \in {"octets", "string", "context"}
    <2>1. s = item.val /\ ReadItem(d, item) = ReadTagged(d, tag) /\ Expected(item) = item.val
      BY <1>6 DEF tag, s, TagOf, Body, ReadItem, Expected
    <2>2. Right(item, s)
      BY <1>6, <2>1 DEF Right
    <2>3. Got(d, ReadTagged(d, tag), Len(Block(tag, s)), s)
      BY <1>2, TaggedGets DEF P
    <2> QED
      BY <1>2, <2>1, <2>2, <2>3 DEF Gets
  <1>7. CASE item.op = "bool"
    <2> DEFINE v == item.val
               c == IF v THEN Base - 1 ELSE 0
    <2>1. s = <<c>> /\ tag = item.tag /\ ReadItem(d, item) = ReadBoolean(d, tag) /\ Expected(item) = v
      BY <1>7 DEF tag, s, TagOf, Body, ReadItem, Expected
    <2>2. Right(item, v)
      BY <1>7, <2>1 DEF Right
    <2>3. v \in BOOLEAN
      BY <1>7, ItemType
    <2> HIDE DEF v
    <2>4. 1 < P /\ At(d.data, d.ofs, Block(tag, <<c>>))
      <3>1. Len(<<c>>) = 1
        OBVIOUS
      <3> QED
        BY <1>2, <2>1, <3>1
    <2>5. Got(d, ReadBoolean(d, tag), Len(Block(tag, <<c>>)), v)
      BY <1>2, <2>3, <2>4, BooleanGets DEF P
    <2> HIDE DEF c
    <2> QED
      BY <1>2, <2>1, <2>2, <2>5 DEF Gets
  <1>8. CASE item.op = "enum"
    <2> DEFINE c == item.val
    <2>1. s = <<c>> /\ tag = ENUMERATED /\ ReadItem(d, item) = ReadInteger(d, tag) /\ Expected(item) = c
      BY <1>8 DEF tag, s, TagOf, Body, ReadItem, Expected
    <2>2. Right(item, c)
      BY <1>8, <2>1 DEF Right
    <2>3. c \in Bytes
      BY <1>8, ItemType
    <2> HIDE DEF c
    <2>4. Got(d, ReadInteger(d, tag), Len(Block(tag, s)), AsInt(s))
      BY <1>2, IntegerGets DEF P
    <2>5. AsInt(s) = c
      BY <2>1, <2>3, EnumBack
    <2> QED
      BY <1>2, <2>1, <2>2, <2>4, <2>5 DEF Gets
  <1> QED
    BY <1>3, <1>4, <1>5, <1>6, <1>7, <1>8 DEF Atomic

LEMMA AtomChecks ==
  ASSUME NEW d, Fine(d), NEW item \in Items, NEW l, item.op \in {"oid", "enum"},
         item.op = "oid" => Readable(item.val),
         Len(d.data) < Power(Base, 4), At(d.data, d.ofs, Chunk(item, l))
  PROVE  \E v : Got(d, CheckItem(d, item), Len(Chunk(item, l)), v)
PROOF
  <1> DEFINE P == Power(Base, 4)
  <1>1. item.op = "oid" => Len(item.val) >= 3
    BY DEF Readable
  <1>2. item.op \in Atomic
    BY DEF Atomic
  <1>3. CASE item.op = "oid"
    <2> DEFINE r == ReadOID(d)
    <2>1. Gets(d, ReadItem(d, item), item, l)
      BY <1>2, AtomGets
    <2>2. ReadItem(d, item) = r /\ Expected(item) = item.val
      BY <1>3 DEF ReadItem, Expected
    <2>3. CheckItem(d, item) = IF r.has_error \/ r.val = item.val THEN r ELSE Error(r)
      BY <1>3 DEF CheckItem
    <2> HIDE DEF r
    <2>4. PICK v : Got(d, r, Len(Chunk(item, l)), v) /\ Right(item, v)
      BY <2>1, <2>2 DEF Gets
    <2>5. v = item.val
      BY <1>3, <2>2, <2>4 DEF Right
    <2>6. r.val = v
      BY <2>4, GotFine
    <2>7. CheckItem(d, item) = r
      BY <2>3, <2>5, <2>6
    <2> QED
      BY <2>4, <2>7
  <1>4. CASE item.op = "enum"
    <2> DEFINE c == item.val
    <2>1. TagOf(item) = ENUMERATED /\ Body(item) = <<c>> /\ CheckItem(d, item) = CheckEnumerated(d, c)
      BY <1>4 DEF TagOf, Body, CheckItem
    <2>2. c \in Bytes
      BY <1>4, ItemType
    <2> HIDE DEF c
    <2>3. c \in Nat
      BY <2>2, BytesAreNat, Sizes DEF Bytes
    <2>4. /\ Chunk(item, l) = Block(ENUMERATED, <<c>>) /\ Len(<<c>>) < P
          /\ At(d.data, d.ofs, Block(ENUMERATED, <<c>>))
      BY <1>1, <1>2, <2>1, AtomReady
    <2>5. Len(<<c>>) = 1
      OBVIOUS
    <2>6. 1 < P
      BY <2>4, <2>5
    <2>7. Got(d, CheckEnumerated(d, c), Len(Block(ENUMERATED, <<c>>)), <<c>>)
      BY <2>3, <2>4, <2>6, EnumeratedChecks
    <2> QED
      BY <2>1, <2>4, <2>7
  <1> QED
    BY <1>3, <1>4

-----------------------------------------------------------------------------
(* What the writer does to the bytes.                                      *)

LEMMA AtInside ==
  ASSUME NEW c, NEW b \in Seq(Nat), NEW s \in Seq(Nat), NEW q, NEW p,
         At(c, q, b), At(b, p, s), Len(c) \in Nat
  PROVE  At(c, q + p, s) /\ q + p \in Nat
PROOF
  <1> DEFINE n == Len(s)
             m == Len(b)
             k == Len(c)
  <1>1. n \in Nat /\ m \in Nat /\ k \in Nat
    OBVIOUS
  <1>2. /\ q \in Nat /\ q + m <= k /\ \A j \in 1 .. m : c[q + j] = b[j]
        /\ p \in Nat /\ p + n <= m /\ \A j \in 1 .. n : b[p + j] = s[j]
    BY DEF At
  <1> HIDE DEF n, m, k
  <1>3. ASSUME NEW j \in 1 .. n PROVE c[(q + p) + j] = s[j]
    <2>1. p + j \in 1 .. m /\ q + (p + j) = (q + p) + j
      BY <1>1, <1>2
    <2> QED
      BY <1>2, <2>1
  <1>4. q + p \in Nat /\ (q + p) + n <= k
    BY <1>1, <1>2
  <1> QED
    BY <1>3, <1>4 DEF At, n, k

LEMMA AtSelf ==
  ASSUME NEW b \in Seq(Nat)
  PROVE  At(b, 0, b) /\ Len(b) \in Nat
PROOF
  BY DEF At

LEMMA AtFront ==
  ASSUME NEW c \in Seq(Nat), NEW b \in Seq(Nat), NEW s \in Seq(Nat), NEW p,
         At(c, 0, b), At(b, p, s)
  PROVE  At(c, p, s)
PROOF
  <1> DEFINE z == 0
  <1>1. At(c, z, b) /\ Len(c) \in Nat /\ p \in Nat /\ z + p = p
    BY DEF At
  <1> HIDE DEF z
  <1>2. At(c, z + p, s)
    BY <1>1, AtInside
  <1> QED
    BY <1>1, <1>2

LEMMA AtParts ==
  ASSUME NEW s \in Seq(Nat), NEW t \in Seq(Nat)
  PROVE  /\ s \o t \in Seq(Nat) /\ Len(s \o t) = Len(s) + Len(t)
         /\ At(s \o t, 0, s) /\ At(s \o t, Len(s), t)
         /\ Len(s) \in Nat /\ Len(t) \in Nat
PROOF
  <1> DEFINE x == s \o t
             z == 0
  <1>1. x \in Seq(Nat) /\ z \in Nat /\ Len(s) \in Nat /\ Len(t) \in Nat /\ z + Len(s) = Len(s)
    OBVIOUS
  <1> HIDE DEF x, z
  <1>2. At(x, z, s \o t)
    BY <1>1, AtSelf DEF x, z
  <1>3. /\ Len(s \o t) = Len(s) + Len(t)
        /\ At(x, z, s) /\ At(x, z + Len(s), t)
    BY <1>1, <1>2, AtConcat
  <1> QED
    BY <1>1, <1>3 DEF x, z

(* c is b with s behind it.                                                *)
Extends(b, c, s) ==
  /\ c \in Seq(Nat) /\ s \in Seq(Nat) /\ Len(c) = Len(b) + Len(s)
  /\ At(c, 0, b) /\ At(c, Len(b), s)

LEMMA ExtendsConcat ==
  ASSUME NEW b \in Seq(Nat), NEW s \in Seq(Nat)
  PROVE  Extends(b, b \o s, s)
PROOF
  BY AtParts DEF Extends

LEMMA ExtendsTwice ==
  ASSUME NEW a \in Seq(Nat), NEW b \in Seq(Nat), NEW c, NEW s, NEW t, Extends(a, b, s), Extends(b, c, t)
  PROVE  Extends(a, c, s \o t)
PROOF
  <1>1. /\ s \in Seq(Nat) /\ Len(b) = Len(a) + Len(s) /\ At(b, 0, a) /\ At(b, Len(a), s)
        /\ c \in Seq(Nat) /\ t \in Seq(Nat) /\ Len(c) = Len(b) + Len(t) /\ At(c, 0, b) /\ At(c, Len(b), t)
    BY DEF Extends
  <1>2. Len(a) \in Nat /\ Len(c) \in Nat /\ Len(s) \in Nat /\ Len(t) \in Nat
    BY <1>1
  <1>3. At(c, 0, a)
    BY <1>1, AtFront
  <1>4. At(c, Len(a), s)
    BY <1>1, AtFront
  <1>5. At(c, Len(a), s) /\ At(c, Len(a) + Len(s), t)
    BY <1>1, <1>2, <1>4
  <1>6. s \o t \in Seq(Nat) /\ Len(s \o t) = Len(s) + Len(t) /\ At(c, Len(a), s \o t)
    BY <1>1, <1>2, <1>5, AtConcat
  <1>7. Len(c) = Len(a) + Len(s \o t)
    BY <1>1, <1>2, <1>6
  <1> QED
    BY <1>1, <1>3, <1>6, <1>7 DEF Extends

(* c is b with the byte behind the first n replaced by w others, the rest  *)
(* being moved.                                                            *)
Spliced(b, c, n, w) ==
  /\ c \in Seq(Nat) /\ Len(c) = Len(b) + (w - 1)
  /\ \A s \in Seq(Nat) : \A p \in Nat :
       At(b, p, s) => /\ p + Len(s) <= n => At(c, p, s)
                      /\ p >= n + 1 => At(c, p + (w - 1), s)

LEMMA Splice ==
  ASSUME NEW b \in Seq(Nat), NEW n \in Nat, n + 1 <= Len(b), NEW lb \in Seq(Nat), Len(lb) >= 1,
         NEW c, c = SubSeq(b, 1, n) \o lb \o SubSeq(b, n + 2, Len(b))
  PROVE  Spliced(b, c, n, Len(lb)) /\ At(c, n, lb)
PROOF
  <1> DEFINE x == SubSeq(b, 1, n)
             y == SubSeq(b, n + 2, Len(b))
             xl == x \o lb
             w == Len(lb)
             k == Len(b)
  <1>1. k \in Nat /\ w \in Nat
    OBVIOUS
  <1>2. x \in Seq(Nat) /\ Len(x) = n /\ \A j \in 1 .. n : x[j] = b[j]
    OBVIOUS
  <1>3. y \in Seq(Nat) /\ Len(y) = k - (n + 1) /\ \A j \in 1 .. k - (n + 1) : y[j] = b[(n + 1) + j]
    <2>1. \A j \in 1 .. k - (n + 1) : n + 2 + j - 1 = (n + 1) + j
      OBVIOUS
    <2>2. y \in Seq(Nat) /\ Len(y) = k - (n + 1) /\ \A j \in 1 .. k - (n + 1) : y[j] = b[n + 2 + j - 1]
      OBVIOUS
    <2> QED
      BY <2>1, <2>2
  <1>4. c = xl \o y
    OBVIOUS
  <1> HIDE DEF x, y, w
  <1>5. xl \in Seq(Nat) /\ Len(xl) = n + w /\ At(xl, 0, x) /\ At(xl, n, lb)
    BY <1>2, AtParts DEF w
  <1> HIDE DEF xl
  <1>6. c \in Seq(Nat) /\ Len(c) = (n + w) + (k - (n + 1)) /\ At(c, 0, xl) /\ At(c, n + w, y) /\ Len(c) \in Nat
    <2>1. xl \in Seq(Nat) /\ y \in Seq(Nat)
      BY <1>3, <1>5
    <2> DEFINE z == xl \o y
    <2>2. z \in Seq(Nat) /\ Len(z) = Len(xl) + Len(y) /\ At(z, 0, xl) /\ At(z, Len(xl), y)
      BY <2>1, AtParts
    <2> HIDE DEF z
    <2>3. Len(z) \in Nat
      BY <2>2
    <2>4. c = z /\ Len(xl) = n + w /\ Len(y) = k - (n + 1)
      BY <1>3, <1>4, <1>5 DEF z
    <2> QED
      BY <2>2, <2>3, <2>4
  <1>7. At(c, 0, x)
    BY <1>2, <1>5, <1>6, AtFront
  <1>8. At(c, n, lb)
    BY <1>5, <1>6, AtFront
  <1> HIDE DEF k
  <1>9. Len(c) = k + (w - 1)
    <2>1. (n + w) + (k - (n + 1)) = k + (w - 1)
      BY <1>1
    <2> QED
      BY <1>6, <2>1
  <1>10. ASSUME NEW s \in Seq(Nat), NEW p \in Nat, At(b, p, s), p + Len(s) <= n
         PROVE  At(c, p, s)
    <2> DEFINE m == Len(s)
    <2>1. m \in Nat /\ \A j \in 1 .. m : b[p + j] = s[j]
      BY <1>10 DEF At
    <2>2. p + m <= n
      BY <1>10
    <2> HIDE DEF m
    <2>3. \A j \in 1 .. m : p + j \in 1 .. n
      BY <2>1, <2>2
    <2>4. At(x, p, s)
      BY <1>2, <2>1, <2>2, <2>3 DEF At, m
    <2> QED
      BY <1>2, <1>6, <1>7, <2>4, AtFront
  <1>11. ASSUME NEW s \in Seq(Nat), NEW p \in Nat, At(b, p, s), p >= n + 1
         PROVE  At(c, p + (w - 1), s)
    <2> DEFINE m == Len(s)
               r == p - (n + 1)
    <2>1. m \in Nat /\ p + m <= k /\ \A j \in 1 .. m : b[p + j] = s[j]
      BY <1>11 DEF At, k
    <2> HIDE DEF m
    <2>2. r \in Nat /\ r + m <= k - (n + 1) /\ (n + w) + r = p + (w - 1)
      BY <1>1, <1>11, <2>1
    <2>3. \A j \in 1 .. m : r + j \in 1 .. k - (n + 1) /\ (n + 1) + (r + j) = p + j
      BY <1>1, <1>11, <2>1
    <2> HIDE DEF r
    <2>4. \A j \in 1 .. m : y[r + j] = s[j]
      BY <1>3, <2>1, <2>3
    <2>5. At(y, r, s)
      BY <1>3, <2>2, <2>4 DEF At, m
    <2>6. At(c, (n + w) + r, s)
      BY <1>3, <1>6, <2>5, AtInside
    <2> QED
      BY <2>2, <2>6
  <1> QED
    <2>1. \A s \in Seq(Nat) : \A p \in Nat :
            At(b, p, s) => /\ p + Len(s) <= n => At(c, p, s)
                           /\ p >= n + 1 => At(c, p + (w - 1), s)
      BY <1>10, <1>11
    <2>2. Spliced(b, c, n, w)
      BY <1>6, <1>9, <2>1 DEF Spliced, k
    <2> QED
      BY <1>8, <2>2 DEF w

(* Writing without an error.                                               *)
Clean(d) == WriterOK(d) /\ ~d.has_error

LEMMA CleanType ==
  ASSUME NEW d, Clean(d)
  PROVE  /\ WriterOK(d) /\ ~d.has_error /\ d.data \in Seq(Bytes) /\ d.data \in Seq(Nat)
         /\ Len(d.data) \in Nat /\ d.ofs = Len(d.data) /\ d.nesting \in Seq([start : Nat])
         /\ DOMAIN d = {"data", "ofs", "nesting", "has_error", "val"}
PROOF
  <1>1. WriterOK(d) /\ ~d.has_error
    BY DEF Clean
  <1>2. /\ d.data \in Seq(Bytes) /\ d.ofs = Len(d.data) /\ d.nesting \in Seq([start : Nat])
        /\ DOMAIN d = {"data", "ofs", "nesting", "has_error", "val"}
    BY <1>1 DEF WriterOK, IsData
  <1> QED
    BY <1>1, <1>2, BytesAreNat

Wrote(d, e, s) == Clean(e) /\ Extends(d.data, e.data, s) /\ e.nesting = d.nesting

LEMMA WriteWrites ==
  ASSUME NEW d, Clean(d), NEW s \in Seq(Bytes)
  PROVE  Wrote(d, Write(d, s), s) /\ Write(d, s).data = d.data \o s
PROOF
  <1> DEFINE e == [d EXCEPT !.data = @ \o s, !.ofs = @ + Len(s)]
  <1>1. Write(d, s) = e
    BY CleanType DEF Write, OnlyIf
  <1>2. e.data = d.data \o s
    BY CleanType
  <1> HIDE DEF e
  <1>3. WriterOK(e) /\ e.nesting = d.nesting /\ ~e.has_error
    BY <1>1, CleanType, WriteKeeps
  <1>4. Extends(d.data, d.data \o s, s)
    BY CleanType, BytesAreNat, ExtendsConcat
  <1> QED
    BY <1>1, <1>2, <1>3, <1>4 DEF Wrote, Clean

LEMMA Pair ==
  ASSUME NEW x \in Nat, NEW y \in Nat
  PROVE  <<x>> \o <<y>> = <<x, y>> /\ <<x>> \in Seq(Nat) /\ <<y>> \in Seq(Nat)
PROOF
  <1> DEFINE a == <<x>>
             b == <<y>>
             c == <<x, y>>
             z == a \o b
  <1>1. /\ a \in Seq(Nat) /\ Len(a) = 1 /\ a[1] = x /\ b \in Seq(Nat) /\ Len(b) = 1 /\ b[1] = y
        /\ c \in Seq(Nat) /\ Len(c) = 2 /\ c[1] = x /\ c[2] = y
    OBVIOUS
  <1> HIDE DEF a, b, c
  <1>2. a \in Seq(Nat) /\ b \in Seq(Nat)
    BY <1>1
  <1>3. /\ z \in Seq(Nat) /\ Len(z) = Len(a) + Len(b)
        /\ \A i \in 1 .. Len(a) + Len(b) : z[i] = IF i <= Len(a) THEN a[i] ELSE b[i - Len(a)]
    BY <1>2, ConcatProperties
  <1> HIDE DEF z
  <1>4. Len(z) = 2 /\ z[1] = x /\ z[2] = y
    BY <1>1, <1>3
  <1>5. \A i \in 1 .. 2 : i = 1 \/ i = 2
    OBVIOUS
  <1>6. \A i \in 1 .. 2 : z[i] = c[i]
    BY <1>1, <1>4, <1>5
  <1>7. z = c
    BY <1>1, <1>3, <1>4, <1>6, SeqEqual
  <1> QED
    BY <1>2, <1>7 DEF a, b, c, z

(* A tag that is pushed, with the byte for its length.                     *)
Pushed(d, e, tag) ==
  /\ Clean(e) /\ Extends(d.data, e.data, <<tag, Base - 1>>)
  /\ e.nesting = <<[start |-> Len(d.data) + 1]>> \o d.nesting

LEMMA PushWrites ==
  ASSUME NEW d, Clean(d), NEW tag \in Bytes
  PROVE  Pushed(d, PushTag(d, tag), tag)
PROOF
  <1> DEFINE one == <<tag>>
             two == <<Base - 1>>
             t == Write(d, one)
             n == [t EXCEPT !.nesting = <<[start |-> t.ofs]>> \o @]
             e == Write(n, two)
  <1>0. one \in Seq(Bytes) /\ two \in Seq(Bytes) /\ Len(one) = 1 /\ one \o two = <<tag, Base - 1>>
    <2>1. one \in Seq(Bytes) /\ two \in Seq(Bytes) /\ Len(one) = 1
      BY Sizes DEF Bytes
    <2>2. one \o two = <<tag, Base - 1>>
      <3>1. tag \in Nat /\ Base - 1 \in Nat
        BY Sizes DEF Bytes
      <3> QED
        BY <3>1, Pair
    <2> QED
      BY <2>1, <2>2
  <1>1. PushTag(d, tag) = e
    BY DEF PushTag
  <1>2. WriterOK(e) /\ ~e.has_error
    BY <1>1, CleanType, PushTagKeeps
  <1> HIDE DEF one, two
  <1>3. Wrote(d, t, one)
    BY <1>0, WriteWrites
  <1> HIDE DEF t
  <1>4. Clean(t) /\ t.nesting = d.nesting /\ Extends(d.data, t.data, one)
    BY <1>3 DEF Wrote
  <1>5. /\ ~t.has_error /\ t.ofs = Len(t.data) /\ t.data \in Seq(Nat)
        /\ DOMAIN t = {"data", "ofs", "nesting", "has_error", "val"}
    BY <1>4, CleanType
  <1>6. /\ n.data = t.data /\ n.ofs = t.ofs /\ n.has_error = t.has_error
        /\ n.nesting = <<[start |-> t.ofs]>> \o t.nesting
        /\ DOMAIN n = {"data", "ofs", "nesting", "has_error", "val"}
    BY <1>5
  <1> HIDE DEF n
  <1>7. e = [n EXCEPT !.data = @ \o two, !.ofs = @ + Len(two)]
    BY <1>5, <1>6 DEF Write, OnlyIf
  <1> HIDE DEF e
  <1>8. e.data = t.data \o two /\ e.nesting = <<[start |-> t.ofs]>> \o t.nesting
    BY <1>6, <1>7
  <1>9. Extends(t.data, e.data, two)
    BY <1>0, <1>5, <1>8, BytesAreNat, ExtendsConcat
  <1>10. Extends(d.data, e.data, one \o two)
    <2>1. d.data \in Seq(Nat)
      BY CleanType
    <2> QED
      BY <1>4, <1>5, <1>9, <2>1, ExtendsTwice
  <1>11. t.ofs = Len(d.data) + 1
    BY <1>0, <1>4, <1>5 DEF Extends
  <1> QED
    BY <1>0, <1>1, <1>2, <1>4, <1>8, <1>10, <1>11 DEF Pushed, Clean

(* A tag that ends: its length, in as many bytes as that takes.            *)
Popped(d, e, n, lb) ==
  /\ Clean(e) /\ Spliced(d.data, e.data, n, Len(lb)) /\ At(e.data, n, lb)
  /\ e.nesting = Tail(d.nesting)

LEMMA PopWrites ==
  ASSUME NEW d, Clean(d), d.nesting # <<>>, NEW n, n = d.nesting[1].start
  PROVE  /\ n \in Nat /\ n + 1 <= Len(d.data) /\ Len(d.data) - (n + 1) \in Nat
         /\ Popped(d, PopTag(d), n, LengthBytes(Len(d.data) - (n + 1)))
PROOF
  <1> DEFINE lb == LengthBytes(Len(d.data) - (n + 1))
             c == SubSeq(d.data, 1, n) \o lb \o SubSeq(d.data, n + 2, Len(d.data))
             e == [d EXCEPT !.data = c, !.ofs = Len(c), !.nesting = Tail(@)]
             ns == d.nesting
  <1>1. /\ d.data \in Seq(Nat) /\ Len(d.data) \in Nat /\ d.ofs = Len(d.data) /\ ~d.has_error /\ WriterOK(d)
        /\ ns \in Seq([start : Nat])
    BY CleanType
  <1>2. 1 \in DOMAIN ns
    <2>1. ns # <<>>
      OBVIOUS
    <2> HIDE DEF ns
    <2> QED
      BY <1>1, <2>1
  <1>3. n \in Nat /\ n + 1 <= Len(d.data)
    BY <1>1, <1>2, Starts
  <1>4. Len(d.data) - (n + 1) \in Nat
    BY <1>1, <1>3
  <1>5. lb \in Seq(Nat) /\ Len(lb) >= 1
    <2> DEFINE l == Len(d.data) - (n + 1)
    <2>1. l \in Nat
      BY <1>4
    <2> HIDE DEF l
    <2>2. LengthBytes(l) \in Seq(Bytes) /\ Len(LengthBytes(l)) >= 1
      BY <2>1, LengthBytesType
    <2>3. LengthBytes(l) \in Seq(Nat)
      BY <2>2, BytesAreNat
    <2> QED
      BY <2>2, <2>3 DEF l
  <1>6. PopTag(d) = e
    BY <1>1 DEF PopTag, OnlyIf
  <1> HIDE DEF lb
  <1> DEFINE f == c
  <1>7. Spliced(d.data, f, n, Len(lb)) /\ At(f, n, lb)
    <2> DEFINE b == d.data
    <2>1. b \in Seq(Nat) /\ n + 1 <= Len(b)
      BY <1>1, <1>3
    <2>2. f = SubSeq(b, 1, n) \o lb \o SubSeq(b, n + 2, Len(b))
      BY DEF b
    <2> HIDE DEF b, f, c
    <2>3. Spliced(b, f, n, Len(lb)) /\ At(f, n, lb)
      BY <1>3, <1>5, <2>1, <2>2, Splice
    <2> QED
      BY <2>3 DEF b
  <1> HIDE DEF c
  <1>8. DOMAIN d = {"data", "ofs", "nesting", "has_error", "val"}
    BY CleanType
  <1>9. e.data = c /\ e.nesting = Tail(d.nesting) /\ e.has_error = d.has_error
    BY <1>8
  <1> HIDE DEF e
  <1>10. WriterOK(e)
    BY <1>1, <1>6, PopTagKeeps
  <1> QED
    BY <1>1, <1>3, <1>4, <1>6, <1>7, <1>9, <1>10 DEF Popped, Clean, lb

(* Without an error behind it there was none before it.                    *)
LEMMA WriteErrors ==
  ASSUME NEW d, WriterOK(d), NEW item \in Items, ~WriteItem(d, item).has_error
  PROVE  Clean(d) /\ Clean(WriteItem(d, item)) /\ (item.op = "oid" => Len(item.val) >= 3)
         /\ (item.op = "pop" => d.nesting # <<>>)
PROOF
  <1> DEFINE e == WriteItem(d, item)
  <1>1. WriterOK(e)
    BY WriteItemKeeps
  <1>2. ASSUME item.op = "oid", ~(Len(item.val) >= 3) PROVE FALSE
    <2> DEFINE oid == item.val
    <2>1. oid \in Seq(Nat) /\ ~(Len(oid) >= 3)
      BY <1>2, ItemType
    <2>2. e = WriteOID(d, oid)
      BY <1>2 DEF WriteItem
    <2> HIDE DEF oid
    <2>3. Len(oid) < 3
      BY <2>1
    <2>4. e = Error(PushTag(d, OID))
      BY <2>2, <2>3 DEF WriteOID
    <2>5. OID \in Bytes
      BY Sizes, Asn1Assumption DEF Bytes, OID
    <2> QED
      BY <2>4, <2>5, PushTagKeeps, ErrorKeeps
  <1>3. ASSUME item.op = "pop", d.nesting = <<>> PROVE FALSE
    <2>1. e = PopTag(d)
      BY <1>3 DEF WriteItem
    <2>2. e = Error(d)
      BY <1>3, <2>1 DEF PopTag
    <2> QED
      BY <2>2, ErrorKeeps
  <1>4. ASSUME d.has_error PROVE FALSE
    <2>1. CASE item.op = "push"
      <3>1. item.tag \in Bytes /\ e = PushTag(d, item.tag)
        BY <2>1, ItemType DEF WriteItem
      <3> QED
        BY <1>4, <3>1, PushTagKeeps
    <2>2. CASE item.op = "pop"
      <3>1. e = PopTag(d)
        BY <2>2 DEF WriteItem
      <3> QED
        BY <1>4, <3>1, PopTagKeeps
    <2>3. CASE item.op \in {"raw", "rest"}
      <3>1. item.val \in Seq(Bytes) /\ e = Write(d, item.val)
        BY <2>3, ItemType DEF WriteItem
      <3> QED
        BY <1>4, <3>1, WriteKeeps
    <2>4. CASE item.op \in Atomic
      <3> DEFINE p == PushTag(d, TagOf(item))
                 q == Write(p, Body(item))
      <3>1. TagOf(item) \in Bytes /\ Body(item) \in Seq(Bytes) /\ e = PopTag(q)
        BY <1>2, <2>4, AtomType DEF Tagged
      <3>2. WriterOK(p) /\ p.has_error
        BY <1>4, <3>1, PushTagKeeps
      <3> HIDE DEF p
      <3>3. WriterOK(q) /\ q.has_error
        BY <3>1, <3>2, WriteKeeps
      <3> HIDE DEF q
      <3>4. PopTag(q).has_error
        BY <3>3, PopTagKeeps
      <3> QED
        BY <3>1, <3>4
    <2> QED
      BY <2>1, <2>2, <2>3, <2>4, ItemType
  <1> QED
    BY <1>1, <1>2, <1>3, <1>4 DEF Clean

LEMMA SpliceHeader ==
  ASSUME NEW b \in Seq(Nat), NEW c \in Seq(Nat), NEW m \in Nat, NEW tag \in Nat, NEW x \in Nat,
         NEW lb \in Seq(Nat), Spliced(b, c, m + 1, Len(lb)), At(c, m + 1, lb),
         At(b, m, <<tag, x>>)
  PROVE  At(c, m, <<tag>> \o lb)
PROOF
  <1> DEFINE one == <<tag>>
             two == <<x>>
  <1>1. one \in Seq(Nat) /\ two \in Seq(Nat) /\ one \o two = <<tag, x>>
    BY Pair
  <1>2. Len(one) = 1
    OBVIOUS
  <1> HIDE DEF one, two
  <1>3. At(b, m, one \o two)
    BY <1>1
  <1>4. At(b, m, one)
    BY <1>1, <1>3, AtConcat
  <1>5. At(c, m, one)
    <2>1. m + Len(one) <= m + 1
      BY <1>2
    <2> QED
      BY <1>1, <1>4, <2>1 DEF Spliced
  <1>6. At(c, m + Len(one), lb)
    BY <1>2
  <1>7. At(c, m, one \o lb)
    BY <1>1, <1>5, <1>6, AtConcat
  <1> QED
    BY <1>7 DEF one

LEMMA TaggedWrites ==
  ASSUME NEW d, Clean(d), NEW tag \in Bytes, NEW s \in Seq(Bytes)
  PROVE  Wrote(d, Tagged(d, tag, s), Block(tag, s))
PROOF
  <1> DEFINE p == PushTag(d, tag)
             q == Write(p, s)
             e == PopTag(q)
             k == Len(d.data)
             l == Len(s)
             lb == LengthBytes(l)
             hd == Header(tag, l)
             x == Base - 1
  <1>0. /\ d.data \in Seq(Nat) /\ k \in Nat /\ d.nesting \in Seq([start : Nat])
        /\ s \in Seq(Nat) /\ l \in Nat /\ tag \in Nat /\ x \in Nat
    <2>1. s \in Seq(Nat) /\ l \in Nat /\ Bytes \subseteq Nat
      BY BytesAreNat
    <2>2. x \in Nat
      BY Sizes
    <2> QED
      BY <2>1, <2>2, CleanType
  <1>1. Pushed(d, p, tag)
    BY PushWrites
  <1>2. Tagged(d, tag, s) = e
    BY DEF Tagged
  <1> HIDE DEF p, l, x
  <1>3. Clean(p) /\ Extends(d.data, p.data, <<tag, x>>) /\ p.nesting = <<[start |-> k + 1]>> \o d.nesting
    BY <1>1 DEF Pushed, x
  <1>4. Wrote(p, q, s)
    BY <1>3, WriteWrites
  <1> HIDE DEF q
  <1>5. Clean(q) /\ Extends(p.data, q.data, s) /\ q.nesting = p.nesting
    BY <1>4 DEF Wrote
  <1> DEFINE n == k + 1
             o == [start |-> n]
             ns == d.nesting
  <1>6. q.nesting # <<>> /\ q.nesting[1].start = n /\ Tail(q.nesting) = ns
    <2> DEFINE S == [start : Nat]
               y == <<o>>
    <2>1. o \in S /\ o.start = n /\ ns \in Seq(S) /\ q.nesting = <<o>> \o ns
      BY <1>0, <1>3, <1>5
    <2> HIDE DEF S, o, ns
    <2>2. Tail(<<o>> \o ns) = ns
      BY <2>1, TailAfterOne
    <2>3. y \in Seq(S) /\ Len(y) = 1 /\ y[1] = o /\ Len(ns) \in Nat
      BY <2>1
    <2> HIDE DEF y
    <2>4. /\ Len(y \o ns) = Len(y) + Len(ns)
          /\ \A i \in 1 .. Len(y) + Len(ns) : (y \o ns)[i] = IF i <= Len(y) THEN y[i] ELSE ns[i - Len(y)]
      <3>1. y \in Seq(S) /\ ns \in Seq(S)
        BY <2>1, <2>3
      <3> QED
        BY <3>1, ConcatProperties
    <2>5. Len(y \o ns) >= 1 /\ (y \o ns)[1] = o
      BY <2>3, <2>4
    <2>6. y \o ns # <<>>
      BY <2>5
    <2> QED
      BY <2>1, <2>2, <2>5, <2>6 DEF y
  <1> HIDE DEF o, ns
  <1>7. Extends(d.data, q.data, <<tag, x>> \o s)
    <2>1. p.data \in Seq(Nat)
      BY <1>3, CleanType
    <2> QED
      BY <1>0, <1>3, <1>5, <2>1, ExtendsTwice
  <1> DEFINE two == <<tag, x>>
  <1>8. two \in Seq(Nat) /\ Len(two) = 2
    BY <1>0
  <1> HIDE DEF two
  <1>9. /\ q.data \in Seq(Nat) /\ Len(q.data) = k + (2 + l) /\ At(q.data, 0, d.data)
        /\ At(q.data, k, two) /\ At(q.data, k + 2, s)
    <2>1. /\ q.data \in Seq(Nat) /\ Len(q.data) = k + Len(two \o s) /\ At(q.data, 0, d.data)
          /\ At(q.data, k, two \o s)
      BY <1>7 DEF Extends, two
    <2>2. /\ Len(two \o s) = Len(two) + Len(s)
          /\ At(q.data, k, two) /\ At(q.data, k + Len(two), s)
      <3>1. two \in Seq(Nat) /\ s \in Seq(Nat) /\ k \in Nat /\ q.data \in Seq(Nat)
        BY <1>0, <1>8, <2>1
      <3>2. At(q.data, k, two \o s)
        BY <2>1
      <3> HIDE DEF k
      <3> QED
        BY <3>1, <3>2, AtConcat
    <2> QED
      BY <1>8, <2>1, <2>2 DEF l
  <1>10. Len(q.data) - (n + 1) = l
    BY <1>0, <1>9
  <1>11. Popped(q, e, n, lb)
    <2>1. Popped(q, e, n, LengthBytes(Len(q.data) - (n + 1)))
      BY <1>5, <1>6, PopWrites
    <2> QED
      BY <1>10, <2>1
  <1> HIDE DEF e
  <1>12. lb \in Seq(Nat) /\ Len(lb) >= 1 /\ Len(lb) \in Nat /\ hd \in Seq(Nat) /\ Len(hd) = 1 + Len(lb)
    BY <1>0, HeaderType
  <1>13. Clean(e) /\ Spliced(q.data, e.data, n, Len(lb)) /\ At(e.data, n, lb) /\ e.nesting = ns
    BY <1>6, <1>11 DEF Popped
  <1>14. e.data \in Seq(Nat) /\ Len(e.data) = (k + (2 + l)) + (Len(lb) - 1)
    BY <1>9, <1>13 DEF Spliced
  <1> HIDE DEF lb
  <1>15. At(e.data, 0, d.data)
    <2>1. 0 + Len(d.data) <= n /\ 0 \in Nat
      BY <1>0
    <2> QED
      BY <1>0, <1>9, <1>13, <2>1 DEF Spliced
  <1>16. At(e.data, k, hd)
    <2>1. Spliced(q.data, e.data, k + 1, Len(lb)) /\ At(e.data, k + 1, lb)
      BY <1>13
    <2>2. At(q.data, k, <<tag, x>>)
      BY <1>9 DEF two
    <2>3. At(e.data, k, <<tag>> \o lb)
      BY <1>0, <1>9, <1>12, <1>14, <2>1, <2>2, SpliceHeader
    <2> QED
      BY <2>3 DEF Header, lb
  <1>17. At(e.data, k + Len(hd), s)
    <2>1. k + 2 >= n + 1 /\ k + 2 \in Nat /\ (k + 2) + (Len(lb) - 1) = k + Len(hd)
      <3> DEFINE w == Len(lb)
                 h == Len(hd)
      <3>1. k \in Nat /\ w \in Nat /\ h = 1 + w
        BY <1>0, <1>12
      <3> HIDE DEF w, h, k
      <3> QED
        BY <3>1 DEF w, h
    <2>2. At(e.data, (k + 2) + (Len(lb) - 1), s)
      BY <1>0, <1>9, <1>13, <2>1 DEF Spliced
    <2> QED
      BY <2>1, <2>2
  <1> HIDE DEF hd, k
  <1>18. hd \o s \in Seq(Nat) /\ Len(hd \o s) = Len(hd) + l /\ At(e.data, k, hd \o s)
    <2>1. hd \in Seq(Nat) /\ s \in Seq(Nat) /\ k \in Nat /\ e.data \in Seq(Nat)
      BY <1>0, <1>12, <1>14
    <2> QED
      BY <1>16, <1>17, <2>1, AtConcat DEF l
  <1>19. Len(e.data) = k + Len(hd \o s)
    BY <1>0, <1>12, <1>14, <1>18
  <1>20. Extends(d.data, e.data, hd \o s)
    BY <1>14, <1>15, <1>18, <1>19 DEF Extends, k
  <1> QED
    BY <1>2, <1>13, <1>20 DEF Wrote, Block, hd, ns, l

(* Every item but the beginning and the end of a tag.                      *)
LEMMA AtomWrites ==
  ASSUME NEW d, Clean(d), NEW item \in Items, item.op \notin {"push", "pop"},
         item.op = "oid" => Len(item.val) >= 3
  PROVE  Wrote(d, WriteItem(d, item), Chunk(item, 0))
PROOF
  <1>1. CASE item.op \in {"raw", "rest"}
    <2>1. /\ item.val \in Seq(Bytes) /\ WriteItem(d, item) = Write(d, item.val)
          /\ Chunk(item, 0) = item.val
      BY <1>1, ItemType DEF WriteItem, Chunk, Atomic
    <2> QED
      BY <2>1, WriteWrites
  <1>2. CASE item.op \in Atomic
    <2>1. /\ TagOf(item) \in Bytes /\ Body(item) \in Seq(Bytes)
          /\ WriteItem(d, item) = Tagged(d, TagOf(item), Body(item))
      BY <1>2, AtomType
    <2>2. Chunk(item, 0) = Block(TagOf(item), Body(item))
      BY <1>2 DEF Chunk, Atomic
    <2> QED
      BY <2>1, <2>2, TaggedWrites
  <1> QED
    BY <1>1, <1>2, ItemType

-----------------------------------------------------------------------------
(* Where the items of a document are, from its first to its last.          *)

(* The tags open behind each of the first n items: the numbers of the      *)
(* items that opened them, the innermost first.                            *)
Stacks(item, k, s, t) ==
  /\ item.op = "push" => t = <<k>> \o s
  /\ item.op = "pop" => s # <<>> /\ t = Tail(s)
  /\ item.op \notin {"push", "pop"} => t = s

Pushes(d, k, s) == \A j \in 1 .. Len(s) : s[j] \in 1 .. k /\ d[s[j]].op = "push"
Falling(s) == \A i, j \in 1 .. Len(s) : i < j => s[j] < s[i]

(* A tag that has ended lies before an open tag or in it.                  *)
Outside(s, p, k) == \A j \in 1 .. Len(s) : s[j] < p \/ s[j] > k

Nested(d, n, stk) ==
  /\ stk \in [0 .. n -> Seq(Nat)] /\ stk[0] = <<>>
  /\ \A k \in 1 .. n : Stacks(d[k], k, stk[k - 1], stk[k])
  /\ \A k \in 0 .. n : Pushes(d, k, stk[k])
  /\ Falling(stk[n])
  /\ \A k \in 1 .. n : d[k].op = "pop" => Outside(stk[n], stk[k - 1][1], k)

(* A function with one value more.                                         *)
Next1(f, n, v, from) == [k \in from .. n + 1 |-> IF k = n + 1 THEN v ELSE f[k]]

LEMMA Next1Is ==
  ASSUME NEW f, NEW n \in Nat, NEW v, NEW from \in {0, 1}
  PROVE  /\ Next1(f, n, v, from)[n + 1] = v
         /\ \A k \in from .. n : Next1(f, n, v, from)[k] = f[k]
         /\ \A k \in from .. n + 1 : k \in from .. n \/ k = n + 1
PROOF
  <1>1. n + 1 \in from .. n + 1 /\ \A k \in from .. n : k \in from .. n + 1 /\ k # n + 1
    OBVIOUS
  <1>2. \A k \in from .. n + 1 : k \in from .. n \/ k = n + 1
    OBVIOUS
  <1> QED
    BY <1>1, <1>2 DEF Next1

LEMMA Next1From1 ==
  ASSUME NEW f, NEW n \in Nat, NEW v
  PROVE  \A k \in 1 .. n : Next1(f, n, v, 1)[k] = f[k]
PROOF
  <1>1. \A k \in 1 .. n : k \in 1 .. n + 1 /\ k # n + 1
    OBVIOUS
  <1> QED
    BY <1>1 DEF Next1

LEMMA Next1Type ==
  ASSUME NEW S, NEW n \in Nat, NEW from \in {0, 1}, NEW f \in [from .. n -> S], NEW v \in S
  PROVE  Next1(f, n, v, from) \in [from .. n + 1 -> S]
PROOF
  <1>1. ASSUME NEW k \in from .. n + 1 PROVE Next1(f, n, v, from)[k] \in S
    <2>1. CASE k = n + 1
      BY <2>1, Next1Is
    <2>2. CASE k \in from .. n
      <3>1. f[k] \in S
        BY <2>2
      <3> QED
        BY <2>2, <3>1, Next1Is
    <2> QED
      BY <2>1, <2>2, Next1Is
  <1> QED
    BY <1>1 DEF Next1

(* A sequence, and so a stack, with one element more in front.             *)
LEMMA Consing ==
  ASSUME NEW S, NEW s \in Seq(S), NEW x \in S
  PROVE  /\ <<x>> \o s \in Seq(S) /\ Len(<<x>> \o s) = 1 + Len(s) /\ (<<x>> \o s)[1] = x
         /\ \A j \in 1 .. 1 + Len(s) : j # 1 => j - 1 \in 1 .. Len(s) /\ (<<x>> \o s)[j] = s[j - 1]
         /\ Len(s) \in Nat /\ Tail(<<x>> \o s) = s /\ <<x>> \o s # <<>>
PROOF
  <1> DEFINE one == <<x>>
             y == one \o s
             n == Len(s)
  <1>1. one \in Seq(S) /\ Len(one) = 1 /\ one[1] = x /\ n \in Nat
    OBVIOUS
  <1> HIDE DEF one
  <1>2. /\ y \in Seq(S) /\ Len(y) = Len(one) + n
        /\ \A i \in 1 .. Len(one) + n : y[i] = IF i <= Len(one) THEN one[i] ELSE s[i - Len(one)]
    BY <1>1, ConcatProperties
  <1> HIDE DEF y, n
  <1>3. Len(y) = 1 + n /\ y[1] = x
    BY <1>1, <1>2
  <1>4. \A j \in 1 .. 1 + n : j # 1 => j - 1 \in 1 .. n /\ y[j] = s[j - 1]
    BY <1>1, <1>2
  <1>5. y # <<>>
    BY <1>1, <1>2, <1>3
  <1>6. Tail(y) = s
    <2>1. Tail(y) \in Seq(S) /\ Len(Tail(y)) = n /\ \A i \in 1 .. n : Tail(y)[i] = y[i + 1]
      <3>1. /\ Tail(y) \in Seq(S) /\ Len(Tail(y)) = Len(y) - 1
            /\ \A i \in 1 .. Len(y) - 1 : Tail(y)[i] = y[i + 1]
        BY <1>2, <1>5
      <3>2. Len(y) - 1 = n
        BY <1>1, <1>3
      <3> QED
        BY <3>1, <3>2
    <2>2. ASSUME NEW i \in 1 .. n PROVE Tail(y)[i] = s[i]
      <3>1. i + 1 \in 1 .. 1 + n /\ i + 1 # 1 /\ (i + 1) - 1 = i
        BY <1>1
      <3>2. y[i + 1] = s[i]
        BY <1>4, <3>1
      <3> QED
        BY <2>1, <3>2
    <2> QED
      BY <2>1, <2>2, SeqEqual DEF n
  <1> QED
    BY <1>1, <1>2, <1>3, <1>4, <1>5, <1>6 DEF y, one, n

LEMMA Pushing ==
  ASSUME NEW s \in Seq(Nat), NEW x \in Nat
  PROVE  /\ <<x>> \o s \in Seq(Nat) /\ Len(<<x>> \o s) = 1 + Len(s) /\ (<<x>> \o s)[1] = x
         /\ \A j \in 1 .. 1 + Len(s) : j # 1 => j - 1 \in 1 .. Len(s) /\ (<<x>> \o s)[j] = s[j - 1]
PROOF
  <1> DEFINE N == Nat
  <1>1. s \in Seq(N) /\ x \in N
    OBVIOUS
  <1> HIDE DEF N
  <1>2. /\ <<x>> \o s \in Seq(N) /\ Len(<<x>> \o s) = 1 + Len(s) /\ (<<x>> \o s)[1] = x
        /\ \A j \in 1 .. 1 + Len(s) : j # 1 => j - 1 \in 1 .. Len(s) /\ (<<x>> \o s)[j] = s[j - 1]
    BY <1>1, Consing
  <1> QED
    BY <1>2 DEF N

LEMMA Popping ==
  ASSUME NEW s \in Seq(Nat), s # <<>>
  PROVE  /\ Tail(s) \in Seq(Nat) /\ Len(Tail(s)) = Len(s) - 1 /\ Len(s) >= 1 /\ Len(s) \in Nat
         /\ \A j \in 1 .. Len(s) - 1 : j + 1 \in 1 .. Len(s) /\ Tail(s)[j] = s[j + 1]
PROOF
  OBVIOUS

LEMMA StackNext ==
  ASSUME NEW d, NEW n \in Nat, NEW s \in Seq(Nat), NEW t, NEW item, item = d[n + 1],
         Stacks(item, n + 1, s, t), Pushes(d, n, s), Falling(s)
  PROVE  /\ t \in Seq(Nat) /\ Pushes(d, n + 1, t) /\ Falling(t)
         /\ \A p \in Nat : \A k \in 1 .. n : Outside(s, p, k) => Outside(t, p, k)
         /\ item.op = "pop" => Outside(t, s[1], n + 1)
PROOF
  <1> DEFINE m == Len(s)
  <1>0. m \in Nat /\ \A j \in 1 .. m : s[j] \in 1 .. n /\ d[s[j]].op = "push"
    BY DEF Pushes
  <1>1. \A i, j \in 1 .. m : i < j => s[j] < s[i]
    BY DEF Falling
  <1> HIDE DEF m
  <1>2. \A j \in 1 .. m : s[j] \in 1 .. n + 1 /\ s[j] < n + 1
    BY <1>0
  <1>3. CASE item.op = "push"
    <2> DEFINE x == n + 1
    <2>1. t = <<x>> \o s /\ x \in Nat
      BY <1>3 DEF Stacks
    <2>2. /\ t \in Seq(Nat) /\ Len(t) = 1 + m /\ t[1] = x
          /\ \A j \in 1 .. 1 + m : j # 1 => j - 1 \in 1 .. m /\ t[j] = s[j - 1]
      BY <2>1, Pushing DEF m
    <2>3. Pushes(d, x, t)
      <3>1. ASSUME NEW j \in 1 .. 1 + m PROVE t[j] \in 1 .. x /\ d[t[j]].op = "push"
        <4>1. CASE j = 1
          BY <1>3, <2>2, <4>1
        <4>2. CASE j # 1
          <5>1. j - 1 \in 1 .. m /\ t[j] = s[j - 1]
            BY <2>2, <4>2
          <5> QED
            BY <1>0, <1>2, <5>1
        <4> QED
          BY <4>1, <4>2
      <3> HIDE DEF x
      <3> QED
        BY <2>2, <3>1 DEF Pushes
    <2>4. Falling(t)
      <3>1. ASSUME NEW i \in 1 .. 1 + m, NEW j \in 1 .. 1 + m, i < j PROVE t[j] < t[i]
        <4>1. j # 1 /\ j - 1 \in 1 .. m /\ t[j] = s[j - 1]
          BY <2>2, <3>1
        <4>2. CASE i = 1
          BY <1>2, <2>2, <4>1, <4>2
        <4>3. CASE i # 1
          <5>1. i - 1 \in 1 .. m /\ t[i] = s[i - 1] /\ i - 1 < j - 1
            BY <2>2, <3>1, <4>3
          <5> QED
            BY <1>1, <4>1, <5>1
        <4> QED
          BY <4>2, <4>3
      <3> QED
        BY <2>2, <3>1 DEF Falling
    <2>5. ASSUME NEW p \in Nat, NEW k \in 1 .. n, Outside(s, p, k) PROVE Outside(t, p, k)
      <3>1. \A j \in 1 .. m : s[j] < p \/ s[j] > k
        BY <2>5 DEF Outside, m
      <3>2. ASSUME NEW j \in 1 .. 1 + m PROVE t[j] < p \/ t[j] > k
        <4>1. CASE j = 1
          BY <2>2, <4>1
        <4>2. CASE j # 1
          BY <2>2, <3>1, <4>2
        <4> QED
          BY <4>1, <4>2
      <3> QED
        BY <2>2, <3>2 DEF Outside
    <2>6. item.op # "pop"
      BY <1>3
    <2> QED
      BY <2>2, <2>3, <2>4, <2>5, <2>6
  <1>4. CASE item.op = "pop"
    <2>1. t = Tail(s) /\ s # <<>>
      BY <1>4 DEF Stacks
    <2>2. /\ t \in Seq(Nat) /\ Len(t) = m - 1 /\ m >= 1
          /\ \A j \in 1 .. m - 1 : j + 1 \in 1 .. m /\ t[j] = s[j + 1]
      BY <2>1, Popping DEF m
    <2>3. Pushes(d, n + 1, t)
      BY <1>0, <1>2, <2>2 DEF Pushes
    <2>4. Falling(t)
      <3>1. ASSUME NEW i \in 1 .. m - 1, NEW j \in 1 .. m - 1, i < j PROVE t[j] < t[i]
        <4>1. i + 1 \in 1 .. m /\ j + 1 \in 1 .. m /\ i + 1 < j + 1 /\ t[i] = s[i + 1] /\ t[j] = s[j + 1]
          BY <2>2, <3>1
        <4> QED
          BY <1>1, <4>1
      <3> QED
        BY <2>2, <3>1 DEF Falling
    <2>5. ASSUME NEW p \in Nat, NEW k \in 1 .. n, Outside(s, p, k) PROVE Outside(t, p, k)
      <3>1. \A j \in 1 .. m : s[j] < p \/ s[j] > k
        BY <2>5 DEF Outside, m
      <3> QED
        BY <2>2, <3>1 DEF Outside
    <2>6. Outside(t, s[1], n + 1)
      <3>1. ASSUME NEW j \in 1 .. m - 1 PROVE t[j] < s[1]
        <4>1. j + 1 \in 1 .. m /\ t[j] = s[j + 1] /\ 1 \in 1 .. m /\ 1 < j + 1
          BY <1>0, <2>2
        <4> QED
          BY <1>1, <4>1
      <3> QED
        BY <2>2, <3>1 DEF Outside
    <2> QED
      BY <2>2, <2>3, <2>4, <2>5, <2>6
  <1>5. CASE item.op \notin {"push", "pop"}
    <2>1. t = s
      BY <1>5 DEF Stacks
    <2>2. Pushes(d, n + 1, s)
      BY <1>0, <1>2 DEF Pushes, m
    <2> QED
      BY <1>5, <2>1, <2>2
  <1> QED
    BY <1>3, <1>4, <1>5

LEMMA NestedNext ==
  ASSUME NEW d, NEW n \in Nat, NEW stk, Nested(d, n, stk), NEW t,
         Stacks(d[n + 1], n + 1, stk[n], t)
  PROVE  Nested(d, n + 1, Next1(stk, n, t, 0)) /\ t \in Seq(Nat)
PROOF
  <1> DEFINE s == stk[n]
             nxt == Next1(stk, n, t, 0)
  <1>1. /\ stk \in [0 .. n -> Seq(Nat)] /\ stk[0] = <<>>
        /\ \A k \in 1 .. n : Stacks(d[k], k, stk[k - 1], stk[k])
        /\ \A k \in 0 .. n : Pushes(d, k, stk[k])
        /\ Falling(stk[n])
        /\ \A k \in 1 .. n : d[k].op = "pop" => Outside(stk[n], stk[k - 1][1], k)
    BY DEF Nested
  <1>2. n \in 0 .. n /\ 0 \in 0 .. n /\ (n + 1) - 1 = n
    OBVIOUS
  <1>3. s \in Seq(Nat) /\ Pushes(d, n, s) /\ Falling(s)
    BY <1>1, <1>2
  <1> HIDE DEF s
  <1>4. /\ t \in Seq(Nat) /\ Pushes(d, n + 1, t) /\ Falling(t)
        /\ \A p \in Nat : \A k \in 1 .. n : Outside(s, p, k) => Outside(t, p, k)
        /\ d[n + 1].op = "pop" => Outside(t, s[1], n + 1)
    <2>1. Stacks(d[n + 1], n + 1, s, t)
      BY DEF s
    <2> QED
      BY <1>3, <2>1, StackNext
  <1>5. /\ nxt[n + 1] = t /\ \A k \in 0 .. n : nxt[k] = stk[k]
        /\ \A k \in 0 .. n + 1 : k \in 0 .. n \/ k = n + 1
    BY Next1Is
  <1>6. nxt \in [0 .. n + 1 -> Seq(Nat)]
    BY <1>1, <1>4, Next1Type
  <1> HIDE DEF nxt
  <1>7. ASSUME NEW k \in 1 .. n + 1
        PROVE  /\ k - 1 \in 0 .. n /\ nxt[k - 1] = stk[k - 1]
               /\ k = n + 1 \/ (k \in 1 .. n /\ k \in 0 .. n /\ nxt[k] = stk[k])
    <2>1. k - 1 \in 0 .. n
      OBVIOUS
    <2>2. k = n + 1 \/ (k \in 1 .. n /\ k \in 0 .. n)
      OBVIOUS
    <2> QED
      BY <1>5, <2>1, <2>2
  <1>8. ASSUME NEW k \in 1 .. n + 1 PROVE Stacks(d[k], k, nxt[k - 1], nxt[k])
    <2>1. CASE k = n + 1
      BY <1>2, <1>5, <2>1
    <2>2. CASE k \in 1 .. n
      <3>1. nxt[k] = stk[k] /\ nxt[k - 1] = stk[k - 1]
        BY <1>5, <2>2
      <3> QED
        BY <1>1, <2>2, <3>1
    <2> QED
      BY <1>7, <2>1, <2>2
  <1>9. \A k \in 0 .. n + 1 : Pushes(d, k, nxt[k])
    BY <1>1, <1>4, <1>5
  <1>10. ASSUME NEW k \in 1 .. n + 1, d[k].op = "pop" PROVE Outside(t, nxt[k - 1][1], k)
    <2>1. CASE k = n + 1
      BY <1>2, <1>4, <1>5, <1>10, <2>1 DEF s
    <2>2. CASE k \in 1 .. n
      <3> DEFINE u == stk[k - 1]
      <3>1. Outside(s, u[1], k) /\ nxt[k - 1] = u
        BY <1>1, <1>7, <1>10, <2>2 DEF s
      <3>2. u \in Seq(Nat) /\ u # <<>>
        <4>1. Stacks(d[k], k, u, stk[k]) /\ k - 1 \in 0 .. n
          BY <1>1, <2>2
        <4> QED
          BY <1>1, <1>10, <4>1 DEF Stacks
      <3> HIDE DEF u
      <3>3. u[1] \in Nat
        BY <3>2
      <3> QED
        BY <1>4, <2>2, <3>1, <3>3
    <2> QED
      BY <1>7, <2>1, <2>2
  <1>11. nxt[0] = <<>>
    BY <1>1, <1>2, <1>5
  <1> QED
    BY <1>4, <1>5, <1>6, <1>8, <1>9, <1>10, <1>11 DEF Nested, nxt

(* Where the bytes of each of the first n items are, what lengths the tags *)
(* have (none while they are open), and that they end where the items do.  *)
Ready(item) == item \in Items /\ (item.op = "oid" => Len(item.val) >= 3)
Lies(b, p, q, item, l) == At(b, p, Chunk(item, l)) /\ q = p + Len(Chunk(item, l))

Placed(d, n, b, pos, len) ==
  /\ b \in Seq(Nat) /\ pos \in [0 .. n -> Nat] /\ len \in [1 .. n -> Int]
  /\ pos[0] = 0 /\ pos[n] = Len(b)
  /\ \A i, j \in 0 .. n : i <= j => pos[i] <= pos[j]
  /\ \A k \in 1 .. n : Ready(d[k]) /\ Lies(b, pos[k - 1], pos[k], d[k], len[k])

IsIn(s, p) == \E j \in 1 .. Len(s) : s[j] = p
Bounded(pos, len, n, s, p) ==
  /\ IsIn(s, p) => len[p] = -1
  /\ ~IsIn(s, p) => len[p] \in Nat /\ pos[p] + len[p] <= pos[n]

Matched(d, n, pos, len, stk) ==
  /\ \A k \in 1 .. n : d[k].op = "pop" => pos[k] = pos[stk[k - 1][1]] + len[stk[k - 1][1]]
  /\ \A p \in 1 .. n : d[p].op = "push" => Bounded(pos, len, n, stk[n], p)

LEMMA PlacedNext ==
  ASSUME NEW d, NEW n \in Nat, NEW b, NEW pos, NEW len, Placed(d, n, b, pos, len),
         NEW l \in Int, Ready(d[n + 1]), NEW c, Extends(b, c, Chunk(d[n + 1], l))
  PROVE  Placed(d, n + 1, c, Next1(pos, n, Len(c), 0), Next1(len, n, l, 1))
PROOF
  <1> DEFINE item == d[n + 1]
             ch == Chunk(item, l)
             pos2 == Next1(pos, n, Len(c), 0)
             len2 == Next1(len, n, l, 1)
             lc == Len(c)
             lb == Len(b)
  <1>1. /\ b \in Seq(Nat) /\ pos \in [0 .. n -> Nat] /\ len \in [1 .. n -> Int]
        /\ pos[0] = 0 /\ pos[n] = lb
        /\ \A i, j \in 0 .. n : i <= j => pos[i] <= pos[j]
        /\ \A k \in 1 .. n : Ready(d[k]) /\ Lies(b, pos[k - 1], pos[k], d[k], len[k])
    BY DEF Placed
  <1>2. ch \in Seq(Nat) /\ Len(ch) \in Nat
    <2>1. item \in Items /\ (item.op = "oid" => Len(item.val) >= 3)
      BY DEF Ready
    <2> HIDE DEF item
    <2> QED
      BY <2>1, ChunkType
  <1> HIDE DEF ch
  <1>3. c \in Seq(Nat) /\ lc = lb + Len(ch) /\ At(c, 0, b) /\ At(c, lb, ch) /\ lb \in Nat /\ lc \in Nat
    BY <1>1 DEF Extends, ch
  <1> HIDE DEF item, lb
  <1>4. /\ pos2[n + 1] = lc /\ \A k \in 0 .. n : pos2[k] = pos[k]
        /\ \A k \in 0 .. n + 1 : k \in 0 .. n \/ k = n + 1
    <2> DEFINE v == Len(c)
    <2> HIDE DEF v
    <2>1. /\ Next1(pos, n, v, 0)[n + 1] = v
          /\ \A k \in 0 .. n : Next1(pos, n, v, 0)[k] = pos[k]
          /\ \A k \in 0 .. n + 1 : k \in 0 .. n \/ k = n + 1
      BY Next1Is
    <2> QED
      BY <2>1 DEF v
  <1>5. len2[n + 1] = l /\ \A k \in 1 .. n : len2[k] = len[k]
    BY Next1Is
  <1>6. pos2 \in [0 .. n + 1 -> Nat] /\ len2 \in [1 .. n + 1 -> Int]
    BY <1>1, <1>3, Next1Type
  <1> HIDE DEF pos2, len2, lc
  <1>7. n \in 0 .. n /\ 0 \in 0 .. n /\ (n + 1) - 1 = n
    OBVIOUS
  <1>8. ASSUME NEW i \in 0 .. n + 1, NEW j \in 0 .. n + 1, i <= j PROVE pos2[i] <= pos2[j]
    <2>1. CASE j \in 0 .. n
      <3>1. i \in 0 .. n
        BY <1>8, <2>1
      <3> QED
        BY <1>1, <1>4, <1>8, <2>1, <3>1
    <2>2. CASE j = n + 1
      <3>1. CASE i = n + 1
        BY <1>3, <1>4, <2>2, <3>1
      <3>2. CASE i \in 0 .. n
        <4>1. pos[i] <= lb /\ pos[i] \in Nat
          BY <1>1, <1>7, <3>2
        <4> QED
          BY <1>2, <1>3, <1>4, <2>2, <3>2, <4>1
      <3> QED
        BY <1>4, <3>1, <3>2
    <2> QED
      BY <1>4, <2>1, <2>2
  <1>9. ASSUME NEW k \in 1 .. n + 1
        PROVE  Ready(d[k]) /\ Lies(c, pos2[k - 1], pos2[k], d[k], len2[k])
    <2>1. CASE k = n + 1
      <3>1. pos2[k] = lc /\ len2[k] = l /\ pos2[k - 1] = lb
        BY <1>1, <1>4, <1>5, <1>7, <2>1
      <3>2. d[k] = item
        BY <2>1 DEF item
      <3> QED
        BY <1>3, <2>1, <3>1, <3>2 DEF Lies, ch, item
    <2>2. CASE k \in 1 .. n
      <3>1. k - 1 \in 0 .. n /\ k \in 0 .. n
        BY <2>2
      <3>2. pos2[k] = pos[k] /\ pos2[k - 1] = pos[k - 1] /\ len2[k] = len[k]
        BY <1>4, <1>5, <2>2, <3>1
      <3> DEFINE it == d[k]
                 x == Chunk(it, len[k])
                 p == pos[k - 1]
      <3>3. Ready(it) /\ At(b, p, x) /\ pos[k] = p + Len(x)
        BY <1>1, <2>2 DEF Lies
      <3>4. x \in Seq(Nat)
        <4>1. len[k] \in Int /\ it \in Items /\ (it.op = "oid" => Len(it.val) >= 3)
          BY <1>1, <2>2, <3>3 DEF Ready
        <4> HIDE DEF it
        <4> QED
          BY <4>1, ChunkType
      <3> HIDE DEF x, p, it
      <3>5. At(c, p, x)
        BY <1>1, <1>3, <3>3, <3>4, AtFront
      <3> QED
        BY <3>2, <3>3, <3>5 DEF Lies, x, p, it
    <2>3. k = n + 1 \/ k \in 1 .. n
      OBVIOUS
    <2> QED
      BY <2>1, <2>2, <2>3
  <1>10. pos2[0] = 0
    BY <1>1, <1>4, <1>7
  <1> QED
    BY <1>3, <1>4, <1>6, <1>8, <1>9, <1>10 DEF Placed, lc, pos2, len2

(* The opener of a tag that ends lies before it.                           *)
LEMMA Opener ==
  ASSUME NEW d, NEW n \in Nat, NEW stk, Nested(d, n, stk), NEW k \in 1 .. n, d[k].op = "pop"
  PROVE  /\ stk[k - 1] # <<>> /\ stk[k - 1] \in Seq(Nat) /\ stk[k] = Tail(stk[k - 1])
         /\ stk[k - 1][1] \in 1 .. k - 1 /\ stk[k - 1][1] \in 1 .. n
         /\ d[stk[k - 1][1]].op = "push"
PROOF
  <1> DEFINE u == stk[k - 1]
  <1>1. k - 1 \in 0 .. n
    OBVIOUS
  <1>2. u \in Seq(Nat) /\ u # <<>> /\ stk[k] = Tail(u) /\ Pushes(d, k - 1, u)
    BY <1>1 DEF Nested, Stacks
  <1> HIDE DEF u
  <1>3. 1 \in 1 .. Len(u)
    BY <1>2
  <1>4. u[1] \in 1 .. k - 1 /\ d[u[1]].op = "push"
    BY <1>2, <1>3 DEF Pushes
  <1>5. u[1] \in 1 .. n
    BY <1>4
  <1> QED
    BY <1>2, <1>4, <1>5 DEF u

LEMMA MatchedNext ==
  ASSUME NEW d, NEW n \in Nat, NEW pos, NEW len, NEW stk, Nested(d, n, stk), Matched(d, n, pos, len, stk),
         pos \in [0 .. n -> Nat], len \in [1 .. n -> Int],
         NEW t, Stacks(d[n + 1], n + 1, stk[n], t), d[n + 1].op # "pop",
         NEW l, d[n + 1].op = "push" => l = -1, NEW m \in Nat, pos[n] <= m
  PROVE  Matched(d, n + 1, Next1(pos, n, m, 0), Next1(len, n, l, 1), Next1(stk, n, t, 0))
PROOF
  <1> DEFINE pos2 == Next1(pos, n, m, 0)
             len2 == Next1(len, n, l, 1)
             stk2 == Next1(stk, n, t, 0)
             s == stk[n]
  <1>1. /\ pos2[n + 1] = m /\ \A k \in 0 .. n : pos2[k] = pos[k]
        /\ len2[n + 1] = l /\ \A k \in 1 .. n : len2[k] = len[k]
        /\ stk2[n + 1] = t /\ \A k \in 0 .. n : stk2[k] = stk[k]
    BY Next1Is
  <1>2. /\ \A k \in 1 .. n : d[k].op = "pop" => pos[k] = pos[stk[k - 1][1]] + len[stk[k - 1][1]]
        /\ \A p \in 1 .. n : d[p].op = "push" => Bounded(pos, len, n, s, p)
    BY DEF Matched
  <1> HIDE DEF pos2, len2, stk2
  <1>3. \A k \in 1 .. n + 1 : k \in 1 .. n \/ k = n + 1
    OBVIOUS
  <1>4. ASSUME NEW k \in 1 .. n + 1, d[k].op = "pop"
        PROVE  pos2[k] = pos2[stk2[k - 1][1]] + len2[stk2[k - 1][1]]
    <2>1. k \in 1 .. n
      BY <1>3, <1>4
    <2> DEFINE q == stk[k - 1][1]
    <2>2. q \in 1 .. n
      BY <1>4, <2>1, Opener
    <2>3. stk2[k - 1] = stk[k - 1] /\ k \in 0 .. n
      <3>1. k - 1 \in 0 .. n /\ k \in 0 .. n
        BY <2>1
      <3> QED
        BY <1>1, <3>1
    <2>4. pos[k] = pos[q] + len[q]
      BY <1>2, <1>4, <2>1
    <2> HIDE DEF q
    <2>5. q \in 0 .. n
      BY <2>2
    <2>6. pos2[k] = pos[k] /\ pos2[q] = pos[q] /\ len2[q] = len[q]
      BY <1>1, <2>2, <2>3, <2>5
    <2> QED
      BY <2>3, <2>4, <2>6 DEF q
  <1>5. s \in Seq(Nat) /\ Pushes(d, n, s)
    <2>1. n \in 0 .. n
      OBVIOUS
    <2> QED
      BY <2>1 DEF Nested
  <1> HIDE DEF s
  <1>6. CASE d[n + 1].op = "push"
    <2> DEFINE x == n + 1
               ls == Len(s)
    <2>1. t = <<x>> \o s /\ x \in Nat /\ ls \in Nat
      BY <1>5, <1>6 DEF Stacks, s
    <2>2. /\ Len(t) = 1 + ls /\ t[1] = x
          /\ \A j \in 1 .. 1 + ls : j # 1 => j - 1 \in 1 .. ls /\ t[j] = s[j - 1]
      BY <1>5, <2>1, Pushing
    <2> HIDE DEF ls
    <2>3. IsIn(t, x)
      <3>1. 1 \in 1 .. 1 + ls
        BY <2>1
      <3> QED
        BY <2>2, <3>1 DEF IsIn
    <2>4. ASSUME NEW p \in 1 .. n PROVE IsIn(t, p) <=> IsIn(s, p)
      <3>1. ASSUME NEW j \in 1 .. 1 + ls, t[j] = p PROVE \E i \in 1 .. ls : s[i] = p
        <4>1. j # 1
          BY <2>2, <3>1
        <4> QED
          BY <2>2, <3>1, <4>1
      <3>2. ASSUME NEW i \in 1 .. ls, s[i] = p PROVE \E j \in 1 .. 1 + ls : t[j] = p
        <4>1. i + 1 \in 1 .. 1 + ls /\ i + 1 # 1 /\ (i + 1) - 1 = i
          BY <2>1
        <4>2. t[i + 1] = s[i]
          BY <2>2, <4>1
        <4> QED
          BY <3>2, <4>1, <4>2
      <3> QED
        BY <2>2, <3>1, <3>2 DEF IsIn, ls
    <2>5. len2[n + 1] = -1
      BY <1>1, <1>6
    <2>6. ASSUME NEW p \in 1 .. n, d[p].op = "push" PROVE Bounded(pos2, len2, n + 1, t, p)
      <3>1. Bounded(pos, len, n, s, p)
        BY <1>2, <2>6
      <3>2. p \in 0 .. n /\ pos2[p] = pos[p] /\ len2[p] = len[p] /\ pos2[n + 1] = m
        BY <1>1
      <3>3. pos[p] \in Nat /\ pos[n] \in Nat /\ len[p] \in Int
        BY <3>2
      <3>4. pos[p] + len[p] <= pos[n] => pos[p] + len[p] <= m
        BY <3>3
      <3> QED
        BY <2>4, <3>1, <3>2, <3>4 DEF Bounded
    <2>7. Bounded(pos2, len2, n + 1, t, n + 1)
      BY <2>3, <2>5 DEF Bounded
    <2> QED
      BY <1>1, <1>3, <1>4, <2>6, <2>7 DEF Matched, pos2, len2, stk2
  <1>7. CASE d[n + 1].op # "push"
    <2>1. t = s
      BY <1>7 DEF Stacks, s
    <2>2. ASSUME NEW p \in 1 .. n + 1, d[p].op = "push" PROVE Bounded(pos2, len2, n + 1, t, p)
      <3>0. p \in 1 .. n
        BY <1>3, <1>7, <2>2
      <3>1. Bounded(pos, len, n, s, p)
        BY <1>2, <2>2, <3>0
      <3>2. p \in 0 .. n /\ pos2[p] = pos[p] /\ len2[p] = len[p] /\ pos2[n + 1] = m
        BY <1>1, <3>0
      <3>3. pos[p] \in Nat /\ pos[n] \in Nat /\ len[p] \in Int
        BY <3>0, <3>2
      <3>4. pos[p] + len[p] <= pos[n] => pos[p] + len[p] <= m
        BY <3>3
      <3> QED
        BY <2>1, <3>1, <3>2, <3>4 DEF Bounded
    <2> QED
      BY <1>1, <1>4, <2>2 DEF Matched, pos2, len2, stk2
  <1> QED
    BY <1>6, <1>7

(* When tag q ends, what is in it moves behind its length.                 *)
Moved(pos, n, q, w) == [k \in 0 .. n |-> IF k < q THEN pos[k] ELSE pos[k] + (w - 1)]
Known(len, n, q, l) == [k \in 1 .. n |-> IF k = q THEN l ELSE len[k]]

LEMMA PlacedMoved ==
  ASSUME NEW d, NEW n \in Nat, NEW b, NEW pos, NEW len, Placed(d, n, b, pos, len),
         NEW q \in 1 .. n, d[q].op = "push", len[q] = -1, NEW l \in Nat,
         NEW c, NEW w, w = Len(LengthBytes(l)),
         Spliced(b, c, pos[q] - 1, w), At(c, pos[q] - 1, LengthBytes(l))
  PROVE  /\ Placed(d, n, c, Moved(pos, n, q, w), Known(len, n, q, l))
         /\ w \in Nat /\ w >= 1 /\ pos[q] \in Nat /\ pos[q] >= 2
PROOF
  <1> DEFINE item == d[q]
             tag == item.tag
             lb == LengthBytes(l)
             m == pos[q - 1]
             pos2 == Moved(pos, n, q, w)
             len2 == Known(len, n, q, l)
  <1>1. /\ b \in Seq(Nat) /\ pos \in [0 .. n -> Nat] /\ len \in [1 .. n -> Int]
        /\ pos[0] = 0 /\ pos[n] = Len(b)
        /\ \A i, j \in 0 .. n : i <= j => pos[i] <= pos[j]
        /\ \A k \in 1 .. n : Ready(d[k]) /\ Lies(b, pos[k - 1], pos[k], d[k], len[k])
    BY DEF Placed
  <1>2. /\ q \in Int /\ q >= 1 /\ q <= n /\ q - 1 \in 0 .. n /\ q \in 0 .. n /\ 0 \in 0 .. n /\ n \in 0 .. n
    OBVIOUS
  <1>3. m \in Nat /\ tag \in Nat /\ lb \in Seq(Nat) /\ w \in Nat /\ w >= 1
    <2>1. m \in Nat
      BY <1>1, <1>2
    <2>2. item \in Items
      BY <1>1 DEF Ready
    <2>3. tag \in Bytes
      BY <2>2, ItemType
    <2>4. tag \in Nat
      BY <2>3, BytesAreNat, Sizes DEF Bytes
    <2> HIDE DEF tag
    <2>5. lb \in Seq(Nat) /\ Len(lb) \in Nat /\ Len(lb) >= 1
      BY <2>4, HeaderType
    <2> QED
      BY <2>1, <2>4, <2>5
  <1>4. At(b, m, <<tag, Base - 1>>) /\ pos[q] = m + 2
    <2>1. Lies(b, m, pos[q], item, -1)
      BY <1>1
    <2>2. Chunk(item, -1) = <<tag, Base - 1>>
      BY DEF Chunk, Atomic
    <2>3. Len(<<tag, Base - 1>>) = 2
      OBVIOUS
    <2> QED
      BY <2>1, <2>2, <2>3 DEF Lies
  <1> HIDE DEF item, tag, lb, m
  <1>5. pos[q] - 1 = m + 1 /\ pos[q] \in Nat /\ pos[q] >= 2
    BY <1>3, <1>4
  <1>6. Spliced(b, c, m + 1, w) /\ At(c, m + 1, lb) /\ w = Len(lb)
    BY <1>5 DEF lb
  <1>7. /\ c \in Seq(Nat) /\ Len(c) = Len(b) + (w - 1)
        /\ \A s \in Seq(Nat) : \A p \in Nat :
             At(b, p, s) => /\ p + Len(s) <= m + 1 => At(c, p, s)
                            /\ p >= (m + 1) + 1 => At(c, p + (w - 1), s)
    BY <1>6 DEF Spliced
  <1>8. At(c, m, Header(tag, l))
    <2>1. Base - 1 \in Nat
      BY Sizes
    <2>2. At(c, m, <<tag>> \o lb)
      BY <1>1, <1>3, <1>4, <1>6, <1>7, <2>1, SpliceHeader
    <2> QED
      BY <2>2 DEF Header, lb
  <1>9. Len(Header(tag, l)) = 1 + w
    <2>1. tag \in Nat /\ l \in Nat /\ w = Len(LengthBytes(l))
      BY <1>3, <1>6 DEF lb
    <2>2. Len(Header(tag, l)) = 1 + Len(LengthBytes(l))
      BY <2>1, HeaderType
    <2> QED
      BY <2>1, <2>2
  <1>10. \A k \in 0 .. n : pos2[k] = IF k < q THEN pos[k] ELSE pos[k] + (w - 1)
    BY DEF Moved
  <1>11. \A k \in 1 .. n : len2[k] = IF k = q THEN l ELSE len[k]
    BY DEF Known
  <1>12. ASSUME NEW k \in 0 .. n
         PROVE  pos[k] \in Nat /\ (k < q => pos[k] <= m) /\ (k >= q => pos[k] >= m + 2)
    <2>1. pos[k] \in Nat
      BY <1>1
    <2>2. ASSUME k < q PROVE pos[k] <= m
      <3>1. k <= q - 1
        BY <2>2
      <3> QED
        BY <1>1, <1>2, <3>1 DEF m
    <2>3. ASSUME k >= q PROVE pos[k] >= m + 2
      <3>1. pos[q] <= pos[k]
        BY <1>1, <1>2, <2>3
      <3> QED
        BY <1>3, <1>4, <2>1, <3>1
    <2> QED
      BY <2>1, <2>2, <2>3
  <1>13. ASSUME NEW k \in 0 .. n PROVE pos2[k] \in Nat
    <2> HIDE DEF pos2
    <2>1. pos[k] \in Nat /\ pos2[k] = IF k < q THEN pos[k] ELSE pos[k] + (w - 1)
      BY <1>10, <1>12
    <2> QED
      BY <1>3, <2>1
  <1>14. ASSUME NEW k \in 1 .. n PROVE len2[k] \in Int
    <2> HIDE DEF len2
    <2>1. len[k] \in Int /\ len2[k] = IF k = q THEN l ELSE len[k]
      BY <1>1, <1>11
    <2> QED
      BY <2>1
  <1>18. pos2 \in [0 .. n -> Nat] /\ len2 \in [1 .. n -> Int]
    <2> DEFINE S == 0 .. n
               T == 1 .. n
               F(k) == IF k < q THEN pos[k] ELSE pos[k] + (w - 1)
               G(k) == IF k = q THEN l ELSE len[k]
    <2>1. pos2 = [k \in S |-> F(k)] /\ len2 = [k \in T |-> G(k)]
      BY DEF Moved, Known
    <2>2. (\A k \in S : F(k) \in Nat) /\ \A k \in T : G(k) \in Int
      BY <1>10, <1>11, <1>13, <1>14
    <2> HIDE DEF S, T, F, G, pos2, len2
    <2>3. pos2 \in [S -> Nat] /\ len2 \in [T -> Int]
      BY <2>1, <2>2
    <2> QED
      BY <2>3 DEF S, T
  <1> HIDE DEF pos2, len2
  <1>15. pos2[0] = 0 /\ pos2[n] = Len(c)
    <2>1. 0 < q /\ ~(n < q)
      BY <1>2
    <2> QED
      BY <1>1, <1>2, <1>7, <1>10, <2>1
  <1>16. ASSUME NEW i \in 0 .. n, NEW j \in 0 .. n, i <= j PROVE pos2[i] <= pos2[j]
    <2>1. pos[i] <= pos[j] /\ pos[i] \in Nat /\ pos[j] \in Nat
      BY <1>1, <1>16
    <2>2. CASE j < q
      BY <1>10, <1>16, <2>1, <2>2
    <2>3. CASE ~(j < q)
      <3>1. pos2[j] = pos[j] + (w - 1) /\ pos2[i] \in {pos[i], pos[i] + (w - 1)}
        BY <1>10, <2>3
      <3> QED
        BY <1>3, <2>1, <3>1
    <2> QED
      BY <2>2, <2>3
  <1>17. ASSUME NEW k \in 1 .. n
         PROVE  Ready(d[k]) /\ Lies(c, pos2[k - 1], pos2[k], d[k], len2[k])
    <2> DEFINE it == d[k]
               x == Chunk(it, len[k])
               p == pos[k - 1]
    <2>1. k \in Int /\ k - 1 \in 0 .. n /\ k \in 0 .. n
      OBVIOUS
    <2>2. Ready(it) /\ At(b, p, x) /\ pos[k] = p + Len(x) /\ p \in Nat
      BY <1>1, <2>1 DEF Lies
    <2>3. x \in Seq(Nat) /\ Len(x) \in Nat
      <3>1. len[k] \in Int /\ it \in Items /\ (it.op = "oid" => Len(it.val) >= 3)
        BY <1>1, <2>2 DEF Ready
      <3> HIDE DEF it
      <3> QED
        BY <3>1, ChunkType
    <2> HIDE DEF x, p
    <2>4. CASE k < q
      <3>1. k - 1 < q /\ k # q
        BY <2>1, <2>4
      <3>2. pos2[k - 1] = p /\ pos2[k] = pos[k] /\ len2[k] = len[k]
        BY <1>10, <1>11, <2>1, <2>4, <3>1 DEF p
      <3>3. p + Len(x) <= m + 1
        <4>1. pos[k] <= m /\ pos[k] \in Nat
          BY <1>12, <2>1, <2>4
        <4> QED
          BY <1>3, <2>2, <4>1
      <3>4. At(c, p, x)
        BY <1>7, <2>2, <2>3, <3>3
      <3> QED
        BY <2>2, <3>2, <3>4 DEF Lies, x
    <2>5. CASE k = q
      <3>1. k - 1 < q /\ ~(k < q)
        BY <2>1, <2>5
      <3>2. pos2[k - 1] = m /\ pos2[k] = pos[q] + (w - 1) /\ len2[k] = l
        BY <1>10, <1>11, <2>1, <2>5, <3>1 DEF m
      <3>3. pos2[k] = m + (1 + w)
        BY <1>3, <1>4, <3>2
      <3>4. Chunk(d[k], l) = Header(tag, l)
        <4>1. ~(l < 0)
          OBVIOUS
        <4> QED
          BY <2>5, <4>1 DEF Chunk, Atomic, tag, item
      <3> QED
        BY <1>8, <1>9, <2>2, <3>2, <3>3, <3>4 DEF Lies
    <2>6. CASE k > q
      <3>1. ~(k - 1 < q) /\ ~(k < q) /\ k # q /\ k - 1 >= q
        BY <2>1, <1>2, <2>6
      <3>2. pos2[k - 1] = p + (w - 1) /\ pos2[k] = pos[k] + (w - 1) /\ len2[k] = len[k]
        BY <1>10, <1>11, <2>1, <3>1 DEF p
      <3>3. p >= (m + 1) + 1
        <4>1. p >= m + 2
          BY <1>12, <2>1, <3>1 DEF p
        <4> QED
          BY <1>3, <2>2, <4>1
      <3>4. At(c, p + (w - 1), x)
        BY <1>7, <2>2, <2>3, <3>3
      <3>5. pos2[k] = (p + (w - 1)) + Len(x)
        BY <1>3, <2>2, <2>3, <3>2
      <3> QED
        BY <2>2, <3>2, <3>4, <3>5 DEF Lies, x
    <2> QED
      BY <1>2, <2>1, <2>4, <2>5, <2>6
  <1> QED
    BY <1>3, <1>5, <1>7, <1>15, <1>16, <1>17, <1>18 DEF Placed, pos2, len2

LEMMA TailHas ==
  ASSUME NEW s \in Seq(Nat), s # <<>>, Falling(s), NEW p \in Nat
  PROVE  IsIn(Tail(s), p) <=> IsIn(s, p) /\ p # s[1]
PROOF
  <1> DEFINE t == Tail(s)
             m == Len(s)
  <1>1. /\ Len(t) = m - 1 /\ m >= 1 /\ m \in Nat
        /\ \A j \in 1 .. m - 1 : j + 1 \in 1 .. m /\ t[j] = s[j + 1]
    BY Popping
  <1>2. \A i, j \in 1 .. m : i < j => s[j] < s[i]
    BY DEF Falling
  <1>3. \A j \in 1 .. m : s[j] \in Nat
    OBVIOUS
  <1> HIDE DEF t, m
  <1>4. ASSUME NEW j \in 1 .. m - 1, t[j] = p PROVE (\E i \in 1 .. m : s[i] = p) /\ p # s[1]
    <2>1. j + 1 \in 1 .. m /\ s[j + 1] = p /\ 1 \in 1 .. m /\ 1 < j + 1
      BY <1>1, <1>4
    <2>2. s[j + 1] < s[1] /\ s[1] \in Nat
      BY <1>2, <1>3, <2>1
    <2>3. p # s[1]
      BY <2>1, <2>2
    <2> QED
      BY <2>1, <2>3
  <1>5. ASSUME NEW i \in 1 .. m, s[i] = p, p # s[1] PROVE \E j \in 1 .. m - 1 : t[j] = p
    <2>1. i # 1
      BY <1>5
    <2>2. i - 1 \in 1 .. m - 1 /\ (i - 1) + 1 = i
      BY <1>1, <2>1
    <2>3. t[i - 1] = p
      BY <1>1, <1>5, <2>2
    <2> QED
      BY <2>2, <2>3
  <1> QED
    BY <1>1, <1>4, <1>5 DEF IsIn, t, m

LEMMA MatchedPop ==
  ASSUME NEW d, NEW n \in Nat, NEW pos, NEW len, NEW stk, Nested(d, n, stk), Matched(d, n, pos, len, stk),
         pos \in [0 .. n -> Nat], len \in [1 .. n -> Int],
         \A i, j \in 0 .. n : i <= j => pos[i] <= pos[j],
         NEW s, s = stk[n], s # <<>>, d[n + 1].op = "pop",
         NEW q, q = s[1], NEW w \in Nat, w >= 1, NEW l \in Nat, pos[n] = pos[q] + l,
         NEW m, m = pos[n] + (w - 1)
  PROVE  Matched(d, n + 1, Next1(Moved(pos, n, q, w), n, m, 0), Next1(Known(len, n, q, l), n, 0, 1),
                 Next1(stk, n, Tail(s), 0))
PROOF
  <1> DEFINE pos2 == Next1(Moved(pos, n, q, w), n, m, 0)
             len2 == Next1(Known(len, n, q, l), n, 0, 1)
             stk2 == Next1(stk, n, Tail(s), 0)
  <1>1. s \in Seq(Nat) /\ Pushes(d, n, s) /\ Falling(s) /\ n \in 0 .. n
    BY DEF Nested
  <1>2. q \in 1 .. n
    <2>1. 1 \in 1 .. Len(s)
      BY <1>1
    <2> QED
      BY <1>1, <2>1 DEF Pushes
  <1>3. q \in 0 .. n /\ q \in Nat /\ pos[q] \in Nat /\ pos[n] \in Nat /\ m \in Nat
    <2> HIDE DEF pos2, len2, stk2
    <2>1. \A x \in 1 .. n : x \in 0 .. n /\ x \in Nat
      OBVIOUS
    <2>2. q \in 0 .. n /\ q \in Nat
      BY <1>2, <2>1
    <2>3. pos[q] \in Nat /\ pos[n] \in Nat
      BY <1>1, <2>2
    <2>4. ASSUME NEW x \in Nat PROVE x + (w - 1) \in Nat
      OBVIOUS
    <2> QED
      BY <2>2, <2>3, <2>4
  <1>4. /\ \A k \in 0 .. n : pos2[k] = IF k < q THEN pos[k] ELSE pos[k] + (w - 1)
        /\ pos2[n + 1] = m
    <2> DEFINE f == Moved(pos, n, q, w)
    <2>1. \A k \in 0 .. n : f[k] = IF k < q THEN pos[k] ELSE pos[k] + (w - 1)
      BY DEF Moved
    <2> HIDE DEF f
    <2>2. Next1(f, n, m, 0)[n + 1] = m /\ \A k \in 0 .. n : Next1(f, n, m, 0)[k] = f[k]
      BY Next1Is
    <2> QED
      BY <2>1, <2>2 DEF f
  <1>5. \A k \in 1 .. n : len2[k] = IF k = q THEN l ELSE len[k]
    <2> DEFINE f == Known(len, n, q, l)
    <2>1. \A k \in 1 .. n : f[k] = IF k = q THEN l ELSE len[k]
      BY DEF Known
    <2> HIDE DEF f
    <2>2. \A k \in 1 .. n : Next1(f, n, 0, 1)[k] = f[k]
      BY Next1From1
    <2> QED
      BY <2>1, <2>2 DEF f
  <1>6. stk2[n + 1] = Tail(s) /\ \A k \in 0 .. n : stk2[k] = stk[k]
    <2> DEFINE v == Tail(s)
    <2> HIDE DEF v
    <2>1. Next1(stk, n, v, 0)[n + 1] = v /\ \A k \in 0 .. n : Next1(stk, n, v, 0)[k] = stk[k]
      BY Next1Is
    <2> QED
      BY <2>1 DEF v
  <1> HIDE DEF pos2, len2, stk2
  <1>7. /\ \A k \in 1 .. n : d[k].op = "pop" => pos[k] = pos[stk[k - 1][1]] + len[stk[k - 1][1]]
        /\ \A p \in 1 .. n : d[p].op = "push" => Bounded(pos, len, n, s, p)
    BY DEF Matched
  <1>8. (\A k \in 1 .. n + 1 : k \in 1 .. n \/ k = n + 1) /\ (n + 1) - 1 = n
    OBVIOUS
  <1>11. pos2[q] = pos[q] + (w - 1) /\ len2[q] = l
    <2>1. ~(q < q)
      BY <1>3
    <2> QED
      BY <1>2, <1>3, <1>4, <1>5, <2>1
  <1>9. ASSUME NEW k \in 1 .. n + 1, d[k].op = "pop"
        PROVE  pos2[k] = pos2[stk2[k - 1][1]] + len2[stk2[k - 1][1]]
    <2>1. CASE k = n + 1
      <3>1. stk2[k - 1][1] = q /\ pos2[k] = m
        BY <1>1, <1>4, <1>6, <1>8, <2>1
      <3>2. pos2[q] = pos[q] + (w - 1) /\ len2[q] = l
        BY <1>11
      <3>3. m = (pos[q] + (w - 1)) + l
        BY <1>3
      <3> QED
        BY <3>1, <3>2, <3>3
    <2>2. CASE k \in 1 .. n
      <3> DEFINE r == stk[k - 1][1]
      <3>1. r \in 1 .. k - 1 /\ r \in 1 .. n
        BY <1>9, <2>2, Opener
      <3>2. pos[k] = pos[r] + len[r] /\ Outside(s, r, k)
        BY <1>7, <1>9, <2>2 DEF Nested
      <3>3. stk2[k - 1] = stk[k - 1] /\ k \in 0 .. n /\ k \in Nat
        <4>1. k - 1 \in 0 .. n /\ k \in 0 .. n /\ k \in Nat
          BY <2>2
        <4> QED
          BY <1>6, <4>1
      <3>4. stk2[k - 1][1] = r
        BY <3>3
      <3> HIDE DEF r
      <3>5. q < r \/ q > k
        <4>1. 1 \in 1 .. Len(s)
          BY <1>1
        <4> QED
          BY <3>2, <4>1 DEF Outside
      <3>6. r \in 0 .. n /\ r \in Nat /\ r < k
        BY <3>1, <3>3
      <3>7. pos[k] \in Nat /\ pos[r] \in Nat /\ len[r] \in Int
        BY <3>1, <3>3, <3>6
      <3>8. len2[r] = len[r]
        <4>1. r # q
          <5>1. \A x, y, z \in Nat : (x < y \/ x > z) /\ y < z => y # x
            OBVIOUS
          <5> QED
            BY <1>3, <3>3, <3>5, <3>6, <5>1
        <4> QED
          BY <1>5, <3>1, <4>1
      <3>9. CASE q < r
        <4>1. ~(r < q) /\ ~(k < q)
          <5>1. \A x, y, z \in Nat : x < y /\ y < z => ~(y < x) /\ ~(z < x)
            OBVIOUS
          <5> QED
            BY <1>3, <3>3, <3>6, <3>9, <5>1
        <4>2. pos2[k] = pos[k] + (w - 1) /\ pos2[r] = pos[r] + (w - 1)
          BY <1>4, <3>3, <3>6, <4>1
        <4> QED
          BY <3>2, <3>4, <3>7, <3>8, <4>2
      <3>10. CASE q > k
        <4>1. r < q /\ k < q
          <5>1. \A x, y, z \in Nat : x > z /\ y < z => y < x /\ z < x
            OBVIOUS
          <5> QED
            BY <1>3, <3>3, <3>6, <3>10, <5>1
        <4>2. pos2[k] = pos[k] /\ pos2[r] = pos[r]
          BY <1>4, <3>3, <3>6, <4>1
        <4> QED
          BY <3>2, <3>4, <3>8, <4>2
      <3> QED
        BY <3>5, <3>9, <3>10
    <2> QED
      BY <1>8, <2>1, <2>2
  <1>10. ASSUME NEW p \in 1 .. n + 1, d[p].op = "push" PROVE Bounded(pos2, len2, n + 1, Tail(s), p)
    <2>1. p \in 1 .. n /\ p \in 0 .. n /\ p \in Nat
      <3>1. p # n + 1
        BY <1>10
      <3> QED
        BY <3>1
    <2>2. Bounded(pos, len, n, s, p) /\ (IsIn(Tail(s), p) <=> IsIn(s, p) /\ p # q)
      BY <1>1, <1>7, <1>10, <2>1, TailHas
    <2>3. pos[p] \in Nat /\ len[p] \in Int
      BY <2>1
    <2>4. CASE p = q
      <3>1. pos2[p] = pos[q] + (w - 1) /\ len2[p] = l
        BY <1>11, <2>4
      <3>2. pos2[p] + len2[p] <= pos2[n + 1]
        <4>1. m = (pos[q] + (w - 1)) + l /\ m <= m
          BY <1>3
        <4> QED
          BY <1>4, <3>1, <4>1
      <3>3. ~IsIn(Tail(s), p)
        BY <2>2, <2>4
      <3> QED
        BY <3>1, <3>2, <3>3 DEF Bounded
    <2>5. CASE p # q /\ IsIn(s, p)
      <3>1. len2[p] = -1
        BY <1>5, <2>1, <2>2, <2>5 DEF Bounded
      <3>2. IsIn(Tail(s), p)
        BY <2>2, <2>5
      <3> QED
        BY <3>1, <3>2 DEF Bounded
    <2>6. CASE p # q /\ ~IsIn(s, p)
      <3>1. len2[p] = len[p] /\ len[p] \in Nat /\ pos[p] + len[p] <= pos[n]
        BY <1>5, <2>1, <2>2, <2>6 DEF Bounded
      <3>2. pos2[p] = IF p < q THEN pos[p] ELSE pos[p] + (w - 1)
        BY <1>4, <2>1
      <3>3. pos2[p] + len[p] <= m
        <4>1. \A x, y, z \in Nat : x + y <= z => x + y <= z + (w - 1) /\ (x + (w - 1)) + y <= z + (w - 1)
          OBVIOUS
        <4>2. pos[p] + len[p] <= m /\ (pos[p] + (w - 1)) + len[p] <= m
          BY <1>3, <2>3, <3>1, <4>1
        <4> QED
          BY <3>2, <4>2
      <3>4. ~IsIn(Tail(s), p)
        BY <2>2, <2>6
      <3> QED
        BY <1>4, <3>1, <3>3, <3>4 DEF Bounded
    <2> QED
      BY <2>4, <2>5, <2>6
  <1> QED
    BY <1>6, <1>9, <1>10 DEF Matched, pos2, len2, stk2

(* Where everything is after the first n items, and where the open tags    *)
(* say that their lengths belong.                                          *)
Laid(d, n, b, pos, len, stk) ==
  Nested(d, n, stk) /\ Placed(d, n, b, pos, len) /\ Matched(d, n, pos, len, stk)

Begin(ns, pos, s) ==
  /\ Len(ns) = Len(s)
  /\ \A j \in 1 .. Len(s) : ns[j].start = pos[s[j]] - 1

Written(dc, n, d) ==
  \E pos, len, stk : Laid(dc, n, d.data, pos, len, stk) /\ Begin(d.nesting, pos, stk[n])

LEMMA LaidType ==
  ASSUME NEW d, NEW n \in Nat, NEW b, NEW pos, NEW len, NEW stk, Laid(d, n, b, pos, len, stk)
  PROVE  /\ Nested(d, n, stk) /\ Placed(d, n, b, pos, len) /\ Matched(d, n, pos, len, stk)
         /\ b \in Seq(Nat) /\ Len(b) \in Nat
         /\ pos \in [0 .. n -> Nat] /\ len \in [1 .. n -> Int] /\ pos[n] = Len(b) /\ pos[0] = 0
         /\ \A i, j \in 0 .. n : i <= j => pos[i] <= pos[j]
         /\ stk \in [0 .. n -> Seq(Nat)] /\ stk[0] = <<>>
         /\ stk[n] \in Seq(Nat) /\ Pushes(d, n, stk[n]) /\ Falling(stk[n])
         /\ n \in 0 .. n /\ 0 \in 0 .. n
PROOF
  <1>1. Nested(d, n, stk) /\ Placed(d, n, b, pos, len) /\ Matched(d, n, pos, len, stk)
    BY DEF Laid
  <1>2. n \in 0 .. n /\ 0 \in 0 .. n
    OBVIOUS
  <1>3. /\ b \in Seq(Nat) /\ pos \in [0 .. n -> Nat] /\ len \in [1 .. n -> Int] /\ pos[n] = Len(b)
        /\ pos[0] = 0 /\ \A i, j \in 0 .. n : i <= j => pos[i] <= pos[j]
    BY <1>1 DEF Placed
  <1>4. /\ stk \in [0 .. n -> Seq(Nat)] /\ stk[0] = <<>> /\ Pushes(d, n, stk[n]) /\ Falling(stk[n])
    BY <1>1, <1>2 DEF Nested
  <1>5. stk[n] \in Seq(Nat)
    BY <1>2, <1>4
  <1>6. Len(b) \in Nat
    BY <1>3
  <1> QED
    BY <1>1, <1>2, <1>3, <1>4, <1>5, <1>6

(* One item more, with t the tags open behind it; the items before k0 stay *)
(* where they are.                                                         *)
LaidOn(d, n, c, pos, t, k0) ==
  \E pos2, len2, stk2 :
    /\ Laid(d, n + 1, c, pos2, len2, stk2)
    /\ stk2[n + 1] = t /\ \A k \in 0 .. n : k < k0 => pos2[k] = pos[k]

(* An item that is not the end of a tag goes to the end.                   *)
LEMMA LaidNext ==
  ASSUME NEW d, NEW n \in Nat, NEW b, NEW pos, NEW len, NEW stk, Laid(d, n, b, pos, len, stk),
         Ready(d[n + 1]), d[n + 1].op # "pop",
         NEW t, Stacks(d[n + 1], n + 1, stk[n], t),
         NEW l \in Int, d[n + 1].op = "push" => l = -1,
         NEW c, Extends(b, c, Chunk(d[n + 1], l))
  PROVE  LaidOn(d, n, c, pos, t, n + 1)
PROOF
  <1> DEFINE m == Len(c)
             pos2 == Next1(pos, n, m, 0)
             len2 == Next1(len, n, l, 1)
             stk2 == Next1(stk, n, t, 0)
             ch == Chunk(d[n + 1], l)
  <1> HIDE DEF m, ch, pos2, len2, stk2
  <1>1. /\ Nested(d, n, stk) /\ Placed(d, n, b, pos, len) /\ Matched(d, n, pos, len, stk)
        /\ pos \in [0 .. n -> Nat] /\ len \in [1 .. n -> Int] /\ pos[n] = Len(b) /\ Len(b) \in Nat
    <2>1. Nested(d, n, stk) /\ Placed(d, n, b, pos, len) /\ Matched(d, n, pos, len, stk)
      BY LaidType
    <2>2. pos \in [0 .. n -> Nat] /\ len \in [1 .. n -> Int]
      BY LaidType
    <2>3. pos[n] = Len(b)
      BY <2>1 DEF Placed
    <2>4. Len(b) \in Nat
      BY LaidType
    <2> QED
      BY <2>1, <2>2, <2>3, <2>4
  <1> USE DEF m, ch, pos2, len2, stk2
  <1>2. Placed(d, n + 1, c, pos2, len2)
    BY <1>1, PlacedNext
  <1>3. Nested(d, n + 1, stk2)
    BY <1>1, NestedNext
  <1>4. m \in Nat /\ pos[n] <= m
    <2>1. c \in Seq(Nat) /\ ch \in Seq(Nat) /\ m = Len(b) + Len(ch)
      BY DEF Extends
    <2> HIDE DEF ch
    <2>2. Len(ch) \in Nat
      BY <2>1
    <2> HIDE DEF m
    <2> QED
      BY <1>1, <2>1, <2>2
  <1> HIDE DEF m
  <1>5. Matched(d, n + 1, pos2, len2, stk2)
    BY <1>1, <1>4, MatchedNext
  <1> HIDE DEF ch
  <1>6. stk2[n + 1] = t /\ pos2[n + 1] = m /\ \A k \in 0 .. n : pos2[k] = pos[k]
    <2>1. stk2[n + 1] = t
      BY Next1Is
    <2>2. pos2[n + 1] = m /\ \A k \in 0 .. n : pos2[k] = pos[k]
      BY Next1Is
    <2> QED
      BY <2>1, <2>2
  <1> HIDE DEF pos2, len2, stk2
  <1>7. Laid(d, n + 1, c, pos2, len2, stk2)
    BY <1>2, <1>3, <1>5 DEF Laid
  <1> QED
    BY <1>6, <1>7 DEF LaidOn

(* The end of a tag puts its length in.                                    *)
LEMMA LaidPop ==
  ASSUME NEW d, NEW n \in Nat, NEW b, NEW pos, NEW len, NEW stk, Laid(d, n, b, pos, len, stk),
         Ready(d[n + 1]), d[n + 1].op = "pop",
         NEW s, s = stk[n], s # <<>>, NEW q, q = s[1],
         NEW l \in Nat, Len(b) = pos[q] + l,
         NEW c, Spliced(b, c, pos[q] - 1, Len(LengthBytes(l))), At(c, pos[q] - 1, LengthBytes(l))
  PROVE  LaidOn(d, n, c, pos, Tail(s), q)
PROOF
  <1> DEFINE w == Len(LengthBytes(l))
             mov == Moved(pos, n, q, w)
             kno == Known(len, n, q, l)
             m == Len(c)
             v == Tail(s)
             pos2 == Next1(mov, n, m, 0)
             len2 == Next1(kno, n, 0, 1)
             stk2 == Next1(stk, n, v, 0)
             ch == Chunk(d[n + 1], 0)
  <1>1. /\ Nested(d, n, stk) /\ Placed(d, n, b, pos, len) /\ Matched(d, n, pos, len, stk)
        /\ pos \in [0 .. n -> Nat] /\ len \in [1 .. n -> Int] /\ pos[n] = Len(b) /\ Len(b) \in Nat
        /\ \A i, j \in 0 .. n : i <= j => pos[i] <= pos[j]
        /\ s \in Seq(Nat) /\ Pushes(d, n, s)
    <2> HIDE DEF w, mov, kno, v, m, ch, pos2, len2, stk2
    <2>1. stk[n] \in Seq(Nat) /\ Pushes(d, n, stk[n])
      BY LaidType
    <2>2. \A i, j \in 0 .. n : i <= j => pos[i] <= pos[j]
      BY LaidType
    <2>3. Nested(d, n, stk) /\ Placed(d, n, b, pos, len) /\ Matched(d, n, pos, len, stk)
      BY LaidType
    <2>4. pos \in [0 .. n -> Nat] /\ len \in [1 .. n -> Int]
      BY LaidType
    <2>5. pos[n] = Len(b)
      BY <2>3 DEF Placed
    <2>6. Len(b) \in Nat
      BY LaidType
    <2> QED
      BY <2>1, <2>2, <2>3, <2>4, <2>5, <2>6
  <1>2. q \in 1 .. n /\ d[q].op = "push" /\ IsIn(s, q)
    <2>1. 1 \in 1 .. Len(s)
      BY <1>1
    <2> QED
      BY <1>1, <2>1 DEF Pushes, IsIn
  <1>3. len[q] = -1
    BY <1>1, <1>2 DEF Matched, Bounded
  <1> HIDE DEF w, mov, kno, v
  <1>4. Placed(d, n, c, mov, kno) /\ w \in Nat /\ w >= 1
    BY <1>1, <1>2, <1>3, PlacedMoved DEF w, mov, kno
  <1>5. c \in Seq(Nat) /\ m = Len(b) + (w - 1) /\ m \in Nat
    <2>1. c \in Seq(Nat) /\ m = Len(b) + (w - 1)
      BY DEF Spliced, w
    <2>2. m \in Nat
      BY <2>1
    <2> QED
      BY <2>1, <2>2
  <1>6. Extends(c, c, ch)
    <2>1. ch = <<>>
      BY DEF Chunk, Atomic
    <2>2. Extends(c, c \o <<>>, <<>>)
      <3> DEFINE e == <<>>
      <3>1. e \in Seq(Nat)
        OBVIOUS
      <3> HIDE DEF e
      <3>2. Extends(c, c \o e, e)
        BY <1>5, <3>1, ExtendsConcat
      <3> QED
        BY <3>2 DEF e
    <2>3. c \o <<>> = c
      BY <1>5
    <2> HIDE DEF ch
    <2> QED
      BY <2>1, <2>2, <2>3
  <1>7. Placed(d, n + 1, c, pos2, len2)
    <2> DEFINE z == 0
    <2>1. z \in Int /\ Extends(c, c, Chunk(d[n + 1], z))
      BY <1>6
    <2> HIDE DEF z, m, ch
    <2>2. Placed(d, n + 1, c, Next1(mov, n, Len(c), 0), Next1(kno, n, z, 1))
      BY <1>4, <2>1, PlacedNext
    <2> QED
      BY <2>2 DEF z, m
  <1>8. Stacks(d[n + 1], n + 1, stk[n], v)
    BY DEF Stacks, v
  <1>9. Nested(d, n + 1, stk2)
    BY <1>1, <1>8, NestedNext
  <1> HIDE DEF m
  <1>10. Matched(d, n + 1, pos2, len2, stk2)
    <2>1. pos[n] = pos[q] + l /\ m = pos[n] + (w - 1)
      BY <1>1, <1>5
    <2> QED
      BY <1>1, <1>4, <2>1, MatchedPop DEF mov, kno, v
  <1>11. stk2[n + 1] = v /\ \A k \in 0 .. n : pos2[k] = mov[k]
    BY Next1Is
  <1>12. \A k \in 0 .. n : k < q => mov[k] = pos[k]
    BY DEF mov, Moved
  <1> HIDE DEF pos2, len2, stk2
  <1>13. Laid(d, n + 1, c, pos2, len2, stk2)
    BY <1>7, <1>9, <1>10 DEF Laid
  <1> QED
    BY <1>11, <1>12, <1>13 DEF LaidOn, v

(* The tags that stay open, one more, and one fewer.                       *)
LEMMA BeginKept ==
  ASSUME NEW d, NEW n \in Nat, NEW ns, NEW pos, NEW s, Begin(ns, pos, s), Pushes(d, n, s),
         NEW pos2, \A k \in 0 .. n : pos2[k] = pos[k]
  PROVE  Begin(ns, pos2, s)
PROOF
  <1>1. ASSUME NEW j \in 1 .. Len(s) PROVE pos2[s[j]] = pos[s[j]]
    <2>1. s[j] \in 1 .. n
      BY DEF Pushes
    <2>2. s[j] \in 0 .. n
      BY <2>1
    <2> QED
      BY <2>2
  <1> QED
    BY <1>1 DEF Begin

LEMMA BeginPushed ==
  ASSUME NEW ns \in Seq([start : Nat]), NEW pos, NEW s \in Seq(Nat), Begin(ns, pos, s),
         NEW x \in Nat, NEW k \in Nat, pos[k] = x + 1
  PROVE  Begin(<<[start |-> x]>> \o ns, pos, <<k>> \o s)
PROOF
  <1> DEFINE r == [start |-> x]
             ns2 == <<r>> \o ns
             t == <<k>> \o s
             n == Len(s)
  <1>1. Len(ns) = n /\ \A j \in 1 .. n : ns[j].start = pos[s[j]] - 1
    BY DEF Begin
  <1>2. r \in [start : Nat] /\ r.start = pos[k] - 1
    OBVIOUS
  <1> HIDE DEF r, n
  <1>3. /\ Len(ns2) = 1 + n /\ ns2[1] = r
        /\ \A j \in 1 .. 1 + n : j # 1 => j - 1 \in 1 .. n /\ ns2[j] = ns[j - 1]
    BY <1>1, <1>2, Consing
  <1>4. /\ Len(t) = 1 + n /\ t[1] = k
        /\ \A j \in 1 .. 1 + n : j # 1 => j - 1 \in 1 .. n /\ t[j] = s[j - 1]
    BY Pushing DEF n
  <1> HIDE DEF ns2, t
  <1>5. ASSUME NEW j \in 1 .. 1 + n PROVE ns2[j].start = pos[t[j]] - 1
    <2>1. CASE j = 1
      BY <1>2, <1>3, <1>4, <2>1
    <2>2. CASE j # 1
      <3>1. j - 1 \in 1 .. n /\ ns2[j] = ns[j - 1] /\ t[j] = s[j - 1]
        BY <1>3, <1>4, <2>2
      <3> QED
        BY <1>1, <3>1
    <2> QED
      BY <2>1, <2>2
  <1> QED
    BY <1>3, <1>4, <1>5 DEF Begin, ns2, t, r

LEMMA BeginPopped ==
  ASSUME NEW d, NEW n \in Nat, NEW ns \in Seq([start : Nat]), NEW pos, NEW s \in Seq(Nat), Begin(ns, pos, s),
         Pushes(d, n, s), Falling(s), s # <<>>,
         NEW pos2, \A k \in 0 .. n : k < s[1] => pos2[k] = pos[k]
  PROVE  Begin(Tail(ns), pos2, Tail(s))
PROOF
  <1> DEFINE ns2 == Tail(ns)
             t == Tail(s)
             m == Len(s)
  <1>1. Len(ns) = m /\ \A j \in 1 .. m : ns[j].start = pos[s[j]] - 1
    BY DEF Begin
  <1>2. m >= 1 /\ m \in Nat /\ Len(t) = m - 1 /\ \A j \in 1 .. m - 1 : j + 1 \in 1 .. m /\ t[j] = s[j + 1]
    BY Popping
  <1> HIDE DEF m, t
  <1>3. Len(ns2) = m - 1 /\ \A j \in 1 .. m - 1 : ns2[j] = ns[j + 1]
    <2>1. ns # <<>>
      BY <1>1, <1>2
    <2> QED
      BY <1>1, <2>1
  <1> HIDE DEF ns2
  <1>4. ASSUME NEW j \in 1 .. m - 1 PROVE ns2[j].start = pos2[t[j]] - 1
    <2>1. j + 1 \in 1 .. m /\ t[j] = s[j + 1] /\ ns2[j] = ns[j + 1] /\ 1 \in 1 .. m /\ 1 < j + 1
      <3>1. j + 1 \in 1 .. m /\ t[j] = s[j + 1]
        BY <1>2
      <3>2. ns2[j] = ns[j + 1]
        BY <1>3
      <3>3. 1 \in 1 .. m /\ 1 < j + 1
        BY <1>2
      <3> QED
        BY <3>1, <3>2, <3>3
    <2>2. s[j + 1] < s[1] /\ s[j + 1] \in 1 .. n
      BY <2>1 DEF Falling, Pushes, m
    <2>3. s[j + 1] \in 0 .. n
      BY <2>2
    <2>4. pos2[t[j]] = pos[s[j + 1]]
      BY <2>1, <2>2, <2>3
    <2> QED
      BY <1>1, <2>1, <2>4
  <1> QED
    BY <1>2, <1>3, <1>4 DEF Begin, ns2, t

LEMMA WriteLays ==
  ASSUME NEW dc, NEW n \in Nat, NEW d, WriterOK(d), ~d.has_error => Written(dc, n, d),
         dc[n + 1] \in Items, ~WriteItem(d, dc[n + 1]).has_error
  PROVE  Written(dc, n + 1, WriteItem(d, dc[n + 1]))
PROOF
  <1> DEFINE item == dc[n + 1]
             e == WriteItem(d, item)
             b == d.data
             ns == d.nesting
  <1>1. Clean(d) /\ Clean(e) /\ Ready(item) /\ (item.op = "pop" => ns # <<>>)
    BY WriteErrors DEF Ready
  <1>2. ~d.has_error /\ b \in Seq(Nat) /\ ns \in Seq([start : Nat]) /\ Len(b) \in Nat
    BY <1>1, CleanType
  <1>3. PICK pos, len, stk : Laid(dc, n, b, pos, len, stk) /\ Begin(ns, pos, stk[n])
    BY <1>2 DEF Written
  <1> DEFINE s == stk[n]
  <1>4. s \in Seq(Nat) /\ Pushes(dc, n, s) /\ Falling(s) /\ n \in 0 .. n
    BY <1>3, LaidType
  <1>5. pos \in [0 .. n -> Nat]
    BY <1>3, LaidType
  <1>6. pos[n] = Len(b)
    BY <1>3 DEF Laid, Placed
  <1> HIDE DEF b, ns, e, s
  <1>7. CASE item.op \notin {"push", "pop"}
    <2>1. Wrote(d, e, Chunk(item, 0))
      BY <1>1, <1>7, AtomWrites DEF Ready, e
    <2>2. Extends(b, e.data, Chunk(item, 0)) /\ e.nesting = ns
      BY <2>1 DEF Wrote, b, ns
    <2>3. Stacks(item, n + 1, stk[n], s) /\ item.op # "pop" /\ item.op # "push"
      BY <1>7 DEF Stacks, s
    <2>4. LaidOn(dc, n, e.data, pos, s, n + 1)
      <3> DEFINE l == 0
      <3>1. l \in Int /\ Extends(b, e.data, Chunk(item, l)) /\ (item.op = "push" => l = -1)
        BY <2>2, <2>3
      <3> HIDE DEF l
      <3> QED
        BY <1>1, <1>3, <2>3, <3>1, LaidNext
    <2>5. PICK pos2, len2, stk2 :
            /\ Laid(dc, n + 1, e.data, pos2, len2, stk2)
            /\ stk2[n + 1] = s /\ \A k \in 0 .. n : pos2[k] = pos[k]
      <3>1. \A k \in 0 .. n : k < n + 1
        OBVIOUS
      <3> QED
        BY <2>4, <3>1 DEF LaidOn
    <2>6. Begin(ns, pos2, s)
      BY <1>3, <1>4, <2>5, BeginKept DEF s
    <2> QED
      BY <2>2, <2>5, <2>6 DEF Written, e
  <1>8. CASE item.op = "push"
    <2> DEFINE tag == item.tag
               x == Len(b) + 1
               k1 == n + 1
               t == <<k1>> \o s
    <2>1. tag \in Bytes /\ e = PushTag(d, tag)
      BY <1>8, ItemType DEF WriteItem, e
    <2>2. Pushed(d, e, tag)
      BY <1>1, <2>1, PushWrites
    <2>3. Extends(b, e.data, <<tag, Base - 1>>) /\ e.nesting = <<[start |-> x]>> \o ns
      BY <2>2 DEF Pushed, b, ns
    <2>4. Chunk(item, -1) = <<tag, Base - 1>>
      BY <1>8 DEF Chunk, Atomic
    <2>5. Stacks(item, k1, stk[n], t) /\ item.op # "pop"
      BY <1>8 DEF Stacks, s
    <2>6. Len(e.data) = x + 1 /\ x \in Nat /\ k1 \in Nat
      <3> DEFINE two == <<tag, Base - 1>>
      <3>1. Len(two) = 2
        OBVIOUS
      <3> HIDE DEF two
      <3>2. Len(e.data) = Len(b) + 2
        BY <2>3, <3>1 DEF Extends, two
      <3> QED
        BY <1>2, <3>2
    <2> HIDE DEF x, k1, t, tag
    <2>7. LaidOn(dc, n, e.data, pos, t, n + 1)
      <3> DEFINE l == -1
      <3>1. l \in Int /\ Extends(b, e.data, Chunk(item, l)) /\ (item.op = "push" => l = -1)
        BY <2>3, <2>4
      <3>2. Stacks(item, n + 1, stk[n], t)
        BY <2>5 DEF k1
      <3> HIDE DEF l
      <3> QED
        BY <1>1, <1>3, <2>5, <3>1, <3>2, LaidNext
    <2>8. PICK pos2, len2, stk2 :
            /\ Laid(dc, k1, e.data, pos2, len2, stk2)
            /\ stk2[k1] = t /\ pos2[k1] = x + 1 /\ \A k \in 0 .. n : pos2[k] = pos[k]
      <3>1. \A k \in 0 .. n : k < n + 1
        OBVIOUS
      <3>2. PICK pos2, len2, stk2 :
              /\ Laid(dc, k1, e.data, pos2, len2, stk2)
              /\ stk2[k1] = t /\ \A k \in 0 .. n : pos2[k] = pos[k]
        BY <2>7, <3>1 DEF LaidOn, k1
      <3>3. pos2[k1] = x + 1
        BY <2>6, <3>2 DEF Laid, Placed
      <3> QED
        BY <3>2, <3>3
    <2>9. Begin(ns, pos2, s)
      BY <1>3, <1>4, <2>8, BeginKept DEF s
    <2>10. Begin(<<[start |-> x]>> \o ns, pos2, t)
      BY <1>2, <1>4, <2>6, <2>8, <2>9, BeginPushed DEF ns, t
    <2> QED
      BY <2>3, <2>8, <2>10 DEF Written, e, k1
  <1>9. CASE item.op = "pop"
    <2> DEFINE q == s[1]
               a == ns[1].start
               l == Len(b) - (a + 1)
               lb == LengthBytes(l)
    <2>1. e = PopTag(d) /\ ns # <<>>
      BY <1>1, <1>9 DEF WriteItem, e
    <2>2. a \in Nat /\ a + 1 <= Len(b) /\ l \in Nat /\ Popped(d, e, a, lb)
      BY <1>1, <2>1, PopWrites DEF b, ns
    <2>3. s # <<>>
      BY <1>2, <1>3, <1>4, <2>1 DEF Begin, s
    <2>4. a = pos[q] - 1
      <3>1. 1 \in 1 .. Len(s)
        BY <1>4, <2>3
      <3> QED
        BY <1>3, <3>1 DEF Begin, s
    <2>5. q \in 0 .. n /\ pos[q] \in Nat
      <3>1. 1 \in 1 .. Len(s)
        BY <1>4, <2>3
      <3>2. q \in 1 .. n
        BY <1>4, <3>1 DEF Pushes
      <3>3. q \in 0 .. n
        BY <3>2
      <3> QED
        BY <1>5, <3>3
    <2>6. Spliced(b, e.data, a, Len(lb)) /\ At(e.data, a, lb) /\ e.nesting = Tail(ns)
      BY <2>2 DEF Popped, b, ns
    <2> HIDE DEF a, q
    <2>7. Len(b) = pos[q] + l
      <3>1. Len(b) = pos[q] + (Len(b) - ((pos[q] - 1) + 1))
        <4>1. \A x, y \in Nat : x = y + (x - ((y - 1) + 1))
          OBVIOUS
        <4> QED
          BY <1>2, <2>5, <4>1
      <3> QED
        BY <2>4, <3>1
    <2> HIDE DEF l
    <2>8. PICK pos2, len2, stk2 :
            /\ Laid(dc, n + 1, e.data, pos2, len2, stk2)
            /\ stk2[n + 1] = Tail(s) /\ \A k \in 0 .. n : k < q => pos2[k] = pos[k]
      <3>1. Spliced(b, e.data, pos[q] - 1, Len(LengthBytes(l))) /\ At(e.data, pos[q] - 1, LengthBytes(l))
        BY <2>4, <2>6
      <3>2. l \in Nat /\ s = stk[n] /\ q = s[1]
        BY <2>2 DEF s, q
      <3>3. LaidOn(dc, n, e.data, pos, Tail(s), q)
        <4> HIDE DEF lb
        <4> QED
          BY <1>1, <1>3, <1>9, <2>3, <2>7, <3>1, <3>2, LaidPop
      <3> QED
        BY <3>3 DEF LaidOn
    <2>9. Begin(Tail(ns), pos2, Tail(s))
      BY <1>2, <1>3, <1>4, <2>3, <2>8, BeginPopped DEF s, q
    <2> QED
      BY <2>6, <2>8, <2>9 DEF Written, e
  <1> QED
    BY <1>7, <1>8, <1>9

LEMMA NothingWritten == \A dc : Written(dc, 0, Empty)
PROOF
  <1> SUFFICES ASSUME NEW dc PROVE Written(dc, 0, Empty)
    OBVIOUS
  <1> DEFINE e == <<>>
             pos == [k \in 0 .. 0 |-> 0]
             len == [k \in 1 .. 0 |-> 0]
             stk == [k \in 0 .. 0 |-> e]
  <1>1. e \in Seq(Nat) /\ Len(e) = 0
    OBVIOUS
  <1>2. (\A k \in 0 .. 0 : k = 0) /\ 0 \in 0 .. 0 /\ ~\E k \in 1 .. 0 : TRUE
    OBVIOUS
  <1>3. pos[0] = 0 /\ stk[0] = e /\ pos \in [0 .. 0 -> Nat] /\ len \in [1 .. 0 -> Int]
    BY <1>2
  <1>4. stk \in [0 .. 0 -> Seq(Nat)]
    BY <1>1
  <1> HIDE DEF pos, len, stk
  <1>5. Pushes(dc, 0, e) /\ Falling(e)
    BY <1>1, <1>2 DEF Pushes, Falling
  <1>6. Empty.data = e /\ Empty.nesting = e
    BY DEF Empty
  <1> HIDE DEF e
  <1>7. Nested(dc, 0, stk)
    BY <1>2, <1>3, <1>4, <1>5 DEF Nested, e
  <1>8. Placed(dc, 0, e, pos, len)
    BY <1>1, <1>2, <1>3 DEF Placed
  <1>9. Matched(dc, 0, pos, len, stk)
    BY <1>2 DEF Matched
  <1>10. Begin(e, pos, stk[0])
    BY <1>1, <1>2, <1>3 DEF Begin
  <1> QED
    BY <1>6, <1>7, <1>8, <1>9, <1>10 DEF Written, Laid

-----------------------------------------------------------------------------
(* The reader, where the items of a whole document are.                    *)

(* A document that is written to its end, and a reader that has read its   *)
(* first k items: it is where they end, in the tags open there.            *)
Whole(dc, b, pos, len, stk) == Laid(dc, Len(dc), b, pos, len, stk) /\ stk[Len(dc)] = <<>>

Sits(ns, pos, len, s) ==
  /\ Len(ns) = Len(s)
  /\ \A j \in 1 .. Len(s) : ns[j].start = pos[s[j]] /\ ns[j].taglen = len[s[j]]

Stands(d, b, pos, len, stk, k) ==
  Fine(d) /\ d.data = b /\ d.ofs = pos[k] /\ Sits(d.nesting, pos, len, stk[k])

(* What the reader meets: item k + 1, and how the tags stand behind it.    *)
Meets(item, b, pos, len, stk, k) ==
  /\ item \in Items /\ Ready(item) /\ len[k + 1] \in Int
  /\ Lies(b, pos[k], pos[k + 1], item, len[k + 1])
  /\ Stacks(item, k + 1, stk[k], stk[k + 1])
  /\ b \in Seq(Nat) /\ pos[k] \in Nat /\ pos[k + 1] \in Nat
  /\ stk[k] \in Seq(Nat) /\ stk[k + 1] \in Seq(Nat)

Inside(b, pos, len, p) == pos[p] \in Nat /\ len[p] \in Nat /\ pos[p] + len[p] <= Len(b)

LEMMA WholeMeets ==
  ASSUME NEW dc, NEW b, NEW pos, NEW len, NEW stk, Len(dc) \in Nat, Whole(dc, b, pos, len, stk),
         NEW k \in Nat, k < Len(dc)
  PROVE  Meets(dc[k + 1], b, pos, len, stk, k)
PROOF
  <1> DEFINE n == Len(dc)
             x == k + 1
  <1>1. n \in Nat /\ Laid(dc, n, b, pos, len, stk)
    BY DEF Whole
  <1> HIDE DEF n
  <1>2. /\ Nested(dc, n, stk) /\ b \in Seq(Nat)
        /\ pos \in [0 .. n -> Nat] /\ len \in [1 .. n -> Int] /\ stk \in [0 .. n -> Seq(Nat)]
    BY <1>1, LaidType
  <1>3. x \in 1 .. n /\ x \in 0 .. n /\ k \in 0 .. n /\ x - 1 = k
    BY <1>1 DEF n
  <1> HIDE DEF x
  <1>4. Stacks(dc[x], x, stk[k], stk[x])
    BY <1>2, <1>3 DEF Nested
  <1>5. Ready(dc[x]) /\ Lies(b, pos[k], pos[x], dc[x], len[x])
    <2>1. Ready(dc[x]) /\ Lies(b, pos[x - 1], pos[x], dc[x], len[x])
      BY <1>1, <1>3 DEF Laid, Placed
    <2> QED
      BY <1>3, <2>1
  <1>6. pos[k] \in Nat /\ pos[x] \in Nat /\ len[x] \in Int /\ stk[k] \in Seq(Nat) /\ stk[x] \in Seq(Nat)
    BY <1>2, <1>3
  <1>7. dc[x] \in Items
    BY <1>5 DEF Ready
  <1> QED
    BY <1>2, <1>4, <1>5, <1>6, <1>7 DEF Meets, x

LEMMA WholePush ==
  ASSUME NEW dc, NEW b, NEW pos, NEW len, NEW stk, Len(dc) \in Nat, Whole(dc, b, pos, len, stk),
         NEW p \in 1 .. Len(dc), dc[p].op = "push"
  PROVE  Inside(b, pos, len, p)
PROOF
  <1> DEFINE n == Len(dc)
  <1>1. n \in Nat /\ Laid(dc, n, b, pos, len, stk) /\ stk[n] = <<>> /\ p \in 1 .. n
    BY DEF Whole
  <1> HIDE DEF n
  <1>2. pos \in [0 .. n -> Nat] /\ Matched(dc, n, pos, len, stk)
    BY <1>1, LaidType
  <1>3. pos[n] = Len(b)
    BY <1>1 DEF Laid, Placed
  <1>4. Bounded(pos, len, n, <<>>, p)
    BY <1>1, <1>2 DEF Matched
  <1>5. ~IsIn(<<>>, p)
    <2>1. ~\E j \in 1 .. Len(<<>>) : TRUE
      OBVIOUS
    <2> QED
      BY <2>1 DEF IsIn
  <1>6. p \in 0 .. n
    BY <1>1
  <1> QED
    BY <1>2, <1>3, <1>4, <1>5, <1>6 DEF Bounded, Inside

LEMMA WholePop ==
  ASSUME NEW dc, NEW b, NEW pos, NEW len, NEW stk, Len(dc) \in Nat, Whole(dc, b, pos, len, stk),
         NEW k \in Nat, k < Len(dc), dc[k + 1].op = "pop"
  PROVE  \E q : /\ stk[k] # <<>> /\ q = stk[k][1] /\ Inside(b, pos, len, q)
                /\ pos[k + 1] = pos[q] + len[q] /\ pos[k + 1] = pos[k]
PROOF
  <1> DEFINE n == Len(dc)
             x == k + 1
             q == stk[k][1]
  <1>1. n \in Nat /\ Laid(dc, n, b, pos, len, stk)
    BY DEF Whole
  <1>2. x \in 1 .. n /\ x - 1 = k
    BY DEF n
  <1> HIDE DEF n, x
  <1>3. Nested(dc, n, stk) /\ Matched(dc, n, pos, len, stk)
    BY <1>1, LaidType
  <1>4. dc[x].op = "pop"
    BY DEF x
  <1>5. stk[k] # <<>> /\ q \in 1 .. n /\ dc[q].op = "push"
    <2>1. /\ stk[x - 1] # <<>> /\ stk[x - 1][1] \in 1 .. n
          /\ dc[stk[x - 1][1]].op = "push"
      BY <1>1, <1>2, <1>3, <1>4, Opener
    <2> QED
      BY <1>2, <2>1
  <1>6. pos[x] = pos[q] + len[q]
    <2>1. pos[x] = pos[stk[x - 1][1]] + len[stk[x - 1][1]]
      BY <1>2, <1>3, <1>4 DEF Matched
    <2> QED
      BY <1>2, <2>1
  <1> HIDE DEF q
  <1>7. Inside(b, pos, len, q)
    BY <1>1, <1>5, WholePush DEF n
  <1>8. pos[x] = pos[k]
    <2>1. Lies(b, pos[k], pos[x], dc[x], len[x]) /\ pos[k] \in Nat
      BY WholeMeets DEF Meets, x
    <2>2. Chunk(dc[x], len[x]) = <<>>
      BY <1>4 DEF Chunk, Atomic
    <2>3. pos[x] = pos[k] + Len(<<>>)
      BY <2>1, <2>2 DEF Lies
    <2> QED
      BY <2>1, <2>3
  <1> QED
    BY <1>5, <1>6, <1>7, <1>8 DEF q, x

LEMMA SitsTop ==
  ASSUME NEW d, NEW pos, NEW len, NEW s \in Seq(Nat), s # <<>>, Sits(d.nesting, pos, len, s),
         d.nesting \in Seq([start : Nat, taglen : Int])
  PROVE  Top(d, pos[s[1]], len[s[1]])
PROOF
  <1> DEFINE ns == d.nesting
  <1>1. Len(ns) = Len(s) /\ 1 \in 1 .. Len(s) /\ Len(s) # 0
    BY DEF Sits
  <1>2. ns # <<>>
    BY <1>1
  <1>3. ns[1].start = pos[s[1]] /\ ns[1].taglen = len[s[1]]
    BY <1>1 DEF Sits
  <1> QED
    BY <1>2, <1>3 DEF Top

LEMMA ReadsPush ==
  ASSUME NEW d, NEW b, NEW pos, NEW len, NEW stk, NEW k \in Nat, Stands(d, b, pos, len, stk, k),
         NEW item, Meets(item, b, pos, len, stk, k), item.op = "push",
         Inside(b, pos, len, k + 1), Len(b) < Power(Base, 4)
  PROVE  Stands(StartTag(d, item.tag), b, pos, len, stk, k + 1)
PROOF
  <1> DEFINE x == k + 1
             tag == item.tag
             l == len[x]
             hd == Header(tag, l)
             h == Len(hd)
             e == StartTag(d, tag)
             s == stk[k]
             ns == d.nesting
  <1>1. Fine(d) /\ d.data = b /\ d.ofs = pos[k] /\ Sits(ns, pos, len, s)
    BY DEF Stands
  <1>2. l \in Nat /\ pos[x] \in Nat /\ pos[x] + l <= Len(b)
    BY DEF Inside
  <1>3. /\ item \in Items /\ Lies(b, pos[k], pos[x], item, l) /\ Stacks(item, x, s, stk[x])
        /\ pos[k] \in Nat /\ s \in Seq(Nat) /\ b \in Seq(Nat)
    BY DEF Meets
  <1>4. tag \in Bytes
    BY <1>3, ItemType
  <1>5. tag \in Nat
    BY <1>4, BytesAreNat, Sizes DEF Bytes
  <1>6. Chunk(item, l) = hd
    <2>1. ~(l < 0)
      BY <1>2
    <2> QED
      BY <2>1 DEF Chunk, Atomic
  <1>7. At(b, pos[k], hd) /\ pos[x] = pos[k] + h
    BY <1>3, <1>6 DEF Lies
  <1>8. stk[x] = <<x>> \o s
    BY <1>3 DEF Stacks
  <1> HIDE DEF tag, l, x, s, ns
  <1>9. h \in Nat
    <2>1. hd \in Seq(Nat)
      BY <1>2, <1>5, HeaderType
    <2> HIDE DEF hd
    <2> QED
      BY <2>1
  <1>10. l < Power(Base, 4)
    <2> DEFINE P == Power(Base, 4)
    <2>1. P \in Nat /\ Len(b) \in Nat /\ Len(b) < P
      BY <1>3, PowerType, Sizes
    <2> HIDE DEF P
    <2>2. l < P
      BY <1>2, <2>1
    <2> QED
      BY <2>2 DEF P
  <1>11. Started(d, e, h, l)
    <2>1. At(d.data, d.ofs, Header(tag, l)) /\ d.ofs + Len(Header(tag, l)) + l <= Len(d.data)
      BY <1>1, <1>2, <1>7
    <2> HIDE DEF e, h, hd
    <2>2. Started(d, StartTag(d, tag), Len(Header(tag, l)), l)
      BY <1>1, <1>2, <1>5, <1>10, <2>1, StartGets
    <2> QED
      BY <2>2 DEF e, h, hd
  <1> HIDE DEF e, h, hd
  <1>12. /\ Fine(e) /\ e.data = b /\ e.ofs = pos[x]
         /\ e.nesting = <<[start |-> pos[x], taglen |-> l]>> \o ns
    BY <1>1, <1>7, <1>11 DEF Started, ns
  <1> DEFINE r == [start |-> pos[x], taglen |-> l]
             ns2 == <<r>> \o ns
             t == <<x>> \o s
             m == Len(s)
             R == [start : Nat, taglen : Int]
  <1>13. Len(ns) = m /\ \A j \in 1 .. m : ns[j].start = pos[s[j]] /\ ns[j].taglen = len[s[j]]
    BY <1>1 DEF Sits
  <1>14. r \in R /\ r.start = pos[x] /\ r.taglen = len[x] /\ ns \in Seq(R)
    BY <1>1, <1>2, FineType DEF l, ns
  <1>15. x \in Nat
    BY DEF x
  <1> HIDE DEF r, m, R
  <1>16. /\ Len(ns2) = 1 + m /\ ns2[1] = r
         /\ \A j \in 1 .. 1 + m : j # 1 => j - 1 \in 1 .. m /\ ns2[j] = ns[j - 1]
    BY <1>13, <1>14, Consing
  <1>17. /\ Len(t) = 1 + m /\ t[1] = x
         /\ \A j \in 1 .. 1 + m : j # 1 => j - 1 \in 1 .. m /\ t[j] = s[j - 1]
    BY <1>3, <1>15, Pushing DEF m
  <1> HIDE DEF ns2, t
  <1>18. ASSUME NEW j \in 1 .. 1 + m PROVE ns2[j].start = pos[t[j]] /\ ns2[j].taglen = len[t[j]]
    <2>1. CASE j = 1
      BY <1>14, <1>16, <1>17, <2>1
    <2>2. CASE j # 1
      <3>1. j - 1 \in 1 .. m /\ ns2[j] = ns[j - 1] /\ t[j] = s[j - 1]
        BY <1>16, <1>17, <2>2
      <3> QED
        BY <1>13, <3>1
    <2> QED
      BY <2>1, <2>2
  <1>19. Sits(ns2, pos, len, t)
    BY <1>16, <1>17, <1>18 DEF Sits
  <1> QED
    BY <1>8, <1>12, <1>19 DEF Stands, e, tag, x, t, ns2, r

LEMMA ReadsPop ==
  ASSUME NEW d, NEW b, NEW pos, NEW len, NEW stk, NEW k \in Nat, Stands(d, b, pos, len, stk, k),
         NEW item, Meets(item, b, pos, len, stk, k), item.op = "pop",
         NEW q, stk[k] # <<>>, q = stk[k][1], Inside(b, pos, len, q),
         pos[k + 1] = pos[q] + len[q], pos[k + 1] = pos[k]
  PROVE  Stands(EndTag(d), b, pos, len, stk, k + 1)
PROOF
  <1> DEFINE x == k + 1
             e == EndTag(d)
             s == stk[k]
             ns == d.nesting
             t == Tail(s)
             ns2 == Tail(ns)
             m == Len(s)
  <1>1. Fine(d) /\ d.data = b /\ d.ofs = pos[k] /\ Sits(ns, pos, len, s)
    BY DEF Stands
  <1>2. s \in Seq(Nat) /\ Stacks(item, x, s, stk[x])
    BY DEF Meets
  <1>3. stk[x] = t
    BY <1>2 DEF Stacks
  <1>4. ns \in Seq([start : Nat, taglen : Int])
    BY <1>1, FineType
  <1>5. Top(d, pos[q], len[q])
    BY <1>1, <1>2, <1>4, SitsTop
  <1>6. Closed(d, e)
    <2>1. pos[q] \in Nat /\ len[q] \in Nat /\ d.ofs = pos[q] + len[q]
      BY <1>1 DEF Inside
    <2> HIDE DEF e
    <2>2. Closed(d, EndTag(d))
      BY <1>1, <1>5, <2>1, EndGets
    <2> QED
      BY <2>2 DEF e
  <1>7. Fine(e) /\ e.data = b /\ e.ofs = pos[x] /\ e.nesting = ns2
    BY <1>1, <1>6 DEF Closed
  <1>8. Len(ns) = m /\ \A j \in 1 .. m : ns[j].start = pos[s[j]] /\ ns[j].taglen = len[s[j]]
    BY <1>1 DEF Sits
  <1>9. m >= 1 /\ m \in Nat /\ Len(t) = m - 1 /\ \A j \in 1 .. m - 1 : j + 1 \in 1 .. m /\ t[j] = s[j + 1]
    BY <1>2, Popping
  <1> HIDE DEF m, t, ns, s
  <1>10. Len(ns2) = m - 1 /\ \A j \in 1 .. m - 1 : ns2[j] = ns[j + 1]
    <2>1. ns # <<>>
      BY <1>8, <1>9
    <2> DEFINE R == [start : Nat, taglen : Int]
    <2> HIDE DEF R
    <2>2. ns \in Seq(R)
      BY <1>4 DEF R
    <2> QED
      BY <1>8, <2>1, <2>2
  <1> HIDE DEF ns2, e, x
  <1>11. \A j \in 1 .. m - 1 : ns2[j].start = pos[t[j]] /\ ns2[j].taglen = len[t[j]]
    <2>1. ASSUME NEW j \in 1 .. m - 1 PROVE ns2[j].start = pos[t[j]] /\ ns2[j].taglen = len[t[j]]
      <3>1. j + 1 \in 1 .. m /\ t[j] = s[j + 1] /\ ns2[j] = ns[j + 1]
        BY <1>9, <1>10
      <3>2. ns[j + 1].start = pos[s[j + 1]] /\ ns[j + 1].taglen = len[s[j + 1]]
        BY <1>8, <3>1
      <3> QED
        BY <3>1, <3>2
    <2> QED
      BY <2>1
  <1>12. Sits(ns2, pos, len, t)
    BY <1>9, <1>10, <1>11 DEF Sits
  <1> QED
    BY <1>3, <1>7, <1>12 DEF Stands, e, x

(* Every other item leaves the tags alone.                                 *)
LEMMA GotStands ==
  ASSUME NEW d, NEW b, NEW pos, NEW len, NEW stk, NEW k \in Nat, Stands(d, b, pos, len, stk, k),
         NEW item, Meets(item, b, pos, len, stk, k), item.op \notin {"push", "pop"},
         NEW e, NEW v, Got(d, e, Len(Chunk(item, len[k + 1])), v)
  PROVE  Stands(e, b, pos, len, stk, k + 1) /\ e.val = v
PROOF
  <1>1. Fine(d) /\ d.data = b /\ d.ofs = pos[k] /\ Sits(d.nesting, pos, len, stk[k])
    BY DEF Stands
  <1>2. stk[k + 1] = stk[k] /\ pos[k + 1] = pos[k] + Len(Chunk(item, len[k + 1]))
    BY DEF Meets, Stacks, Lies
  <1>3. Fine(e) /\ e.data = d.data /\ e.ofs = d.ofs + Len(Chunk(item, len[k + 1])) /\ e.nesting = d.nesting /\ e.val = v
    BY GotFine
  <1> QED
    BY <1>1, <1>2, <1>3 DEF Stands

LEMMA LegibleItem ==
  ASSUME NEW dc, Legible(dc), NEW k \in Nat, dc \in Seq(Items), k < Len(dc), Ready(dc[k + 1])
  PROVE  /\ dc[k + 1].op = "oid" => Readable(dc[k + 1].val)
         /\ dc[k + 1].op = "rest" => k + 1 < Len(dc) /\ dc[(k + 1) + 1].op = "pop"
PROOF
  <1> DEFINE x == k + 1
  <1>1. x \in DOMAIN dc
    <2> DEFINE I == Items
    <2>1. dc \in Seq(I)
      OBVIOUS
    <2> HIDE DEF I
    <2> QED
      BY <2>1
  <1>2. Ready(dc[x])
    OBVIOUS
  <1> HIDE DEF x
  <1>3. dc[x].op = "rest" => x < Len(dc) /\ dc[x + 1].op = "pop"
    BY <1>1 DEF Legible
  <1>4. ASSUME dc[x].op = "oid" PROVE Readable(dc[x].val)
    <2>1. Len(dc[x].val) >= 3
      BY <1>2, <1>4 DEF Ready
    <2>2. /\ dc[x].val[2] < Arc /\ Arc * dc[x].val[1] + dc[x].val[2] < Base
          /\ \A j \in 3 .. Len(dc[x].val) : dc[x].val[j] < Word /\ dc[x].val[j] < Power(HALF, 5)
      BY <1>1, <1>4, <2>1 DEF Legible
    <2> QED
      BY <2>1, <2>2 DEF Readable
  <1> QED
    BY <1>3, <1>4 DEF x

LEMMA ReadsOther ==
  ASSUME NEW dc, dc \in Seq(Items), Len(dc) \in Nat, Legible(dc),
         NEW b, NEW pos, NEW len, NEW stk, Whole(dc, b, pos, len, stk), Len(b) < Power(Base, 4),
         NEW k \in Nat, k < Len(dc), NEW d, Stands(d, b, pos, len, stk, k),
         NEW item, item = dc[k + 1], item.op \notin {"push", "pop"}
  PROVE  Gets(d, ReadItem(d, item), item, len[k + 1])
PROOF
  <1> DEFINE l == len[k + 1]
             s == item.val
  <1>1. Meets(item, b, pos, len, stk, k)
    BY WholeMeets
  <1>2. item \in Items /\ Ready(item) /\ At(b, pos[k], Chunk(item, l)) /\ pos[k + 1] = pos[k] + Len(Chunk(item, l))
    BY <1>1 DEF Meets, Lies
  <1>3. Fine(d) /\ d.data = b /\ d.ofs = pos[k] /\ Sits(d.nesting, pos, len, stk[k])
    BY DEF Stands
  <1>4. At(d.data, d.ofs, Chunk(item, l)) /\ Len(d.data) < Power(Base, 4)
    BY <1>2, <1>3
  <1>5. /\ item.op = "oid" => Readable(item.val)
        /\ item.op = "rest" => k + 1 < Len(dc) /\ dc[(k + 1) + 1].op = "pop"
    BY <1>2, LegibleItem
  <1> HIDE DEF l
  <1>6. CASE item.op \in Atomic
    BY <1>2, <1>3, <1>4, <1>5, <1>6, AtomGets DEF l
  <1>7. CASE item.op \in {"raw", "rest"}
    <2>1. s \in Seq(Bytes) /\ Chunk(item, l) = s /\ Expected(item) = s
      BY <1>2, <1>7, ItemType DEF Chunk, Atomic, Expected
    <2>2. s \in Seq(Nat)
      BY <2>1, BytesAreNat
    <2>3. At(d.data, d.ofs, s)
      BY <1>4, <2>1
    <2>4. Right(item, s)
      BY <1>7, <2>1 DEF Right
    <2>5. CASE item.op = "raw"
      <3>1. ReadItem(d, item) = Read(d, Len(s))
        BY <2>5 DEF ReadItem
      <3> HIDE DEF s
      <3>2. Got(d, Read(d, Len(s)), Len(s), s)
        BY <1>3, <2>2, <2>3, ReadGets
      <3> QED
        BY <2>1, <2>4, <3>1, <3>2 DEF Gets, l
    <2>6. CASE item.op = "rest"
      <3> DEFINE q == stk[k + 1][1]
                 u == stk[k]
      <3>1. ReadItem(d, item) = ReadRest(d)
        BY <2>6 DEF ReadItem
      <3>2. u \in Seq(Nat) /\ stk[k + 1] = u
        BY <1>1, <2>6 DEF Meets, Stacks
      <3>3. /\ stk[k + 1] # <<>> /\ Inside(b, pos, len, q)
            /\ pos[(k + 1) + 1] = pos[q] + len[q] /\ pos[(k + 1) + 1] = pos[k + 1]
        <4> DEFINE j == k + 1
        <4>1. j \in Nat /\ j < Len(dc) /\ dc[j + 1].op = "pop"
          BY <1>5, <2>6
        <4> HIDE DEF j
        <4>2. \E p : /\ stk[j] # <<>> /\ p = stk[j][1] /\ Inside(b, pos, len, p)
                     /\ pos[j + 1] = pos[p] + len[p] /\ pos[j + 1] = pos[j]
          BY <4>1, WholePop
        <4> QED
          BY <4>2 DEF j
      <3>4. pos[q] \in Nat /\ len[q] \in Nat /\ d.ofs + Len(s) = pos[q] + len[q]
        BY <1>2, <1>3, <2>1, <3>3 DEF Inside
      <3>5. Top(d, pos[q], len[q])
        <4>1. d.nesting \in Seq([start : Nat, taglen : Int])
          BY <1>3, FineType
        <4> QED
          BY <1>3, <3>2, <3>3, <4>1, SitsTop
      <3> HIDE DEF s, q
      <3>6. Got(d, ReadRest(d), Len(s), s)
        <4> DEFINE a == pos[q]
                   w == len[q]
        <4>1. a \in Nat /\ w \in Nat /\ Top(d, a, w) /\ d.ofs + Len(s) = a + w
          BY <3>4, <3>5
        <4> HIDE DEF a, w
        <4> QED
          BY <1>3, <2>2, <2>3, <4>1, RestGets
      <3> QED
        BY <2>1, <2>4, <3>1, <3>6 DEF Gets, l
    <2> QED
      BY <1>7, <2>5, <2>6
  <1> QED
    BY <1>2, <1>6, <1>7, ItemType

(* One item more is read, or compared.                                     *)
LEMMA ReadsItem ==
  ASSUME NEW dc, dc \in Seq(Items), Len(dc) \in Nat, Legible(dc),
         NEW b, NEW pos, NEW len, NEW stk, Whole(dc, b, pos, len, stk), Len(b) < Power(Base, 4),
         NEW k \in Nat, k < Len(dc), NEW d, Stands(d, b, pos, len, stk, k),
         NEW item, item = dc[k + 1]
  PROVE  /\ Stands(ReadItem(d, item), b, pos, len, stk, k + 1)
         /\ item.op \notin {"push", "pop"} => Right(item, ReadItem(d, item).val)
PROOF
  <1>1. Meets(item, b, pos, len, stk, k)
    BY WholeMeets
  <1>2. CASE item.op = "push"
    <2>1. Inside(b, pos, len, k + 1)
      <3> DEFINE p == k + 1
      <3>1. p \in 1 .. Len(dc) /\ dc[p].op = "push"
        BY <1>2
      <3> HIDE DEF p
      <3>2. Inside(b, pos, len, p)
        BY <3>1, WholePush
      <3> QED
        BY <3>2 DEF p
    <2>2. ReadItem(d, item) = StartTag(d, item.tag)
      BY <1>2 DEF ReadItem
    <2>3. Stands(StartTag(d, item.tag), b, pos, len, stk, k + 1)
      BY <1>1, <1>2, <2>1, ReadsPush
    <2> QED
      BY <1>2, <2>2, <2>3
  <1>3. CASE item.op = "pop"
    <2>1. PICK q : /\ stk[k] # <<>> /\ q = stk[k][1] /\ Inside(b, pos, len, q)
                   /\ pos[k + 1] = pos[q] + len[q] /\ pos[k + 1] = pos[k]
      BY <1>3, WholePop
    <2>2. ReadItem(d, item) = EndTag(d)
      BY <1>3 DEF ReadItem
    <2>3. Stands(EndTag(d), b, pos, len, stk, k + 1)
      BY <1>1, <1>3, <2>1, ReadsPop
    <2> QED
      BY <1>3, <2>2, <2>3
  <1>4. CASE item.op \notin {"push", "pop"}
    <2>1. Gets(d, ReadItem(d, item), item, len[k + 1])
      BY <1>4, ReadsOther
    <2>2. PICK v : Got(d, ReadItem(d, item), Len(Chunk(item, len[k + 1])), v) /\ Right(item, v)
      BY <2>1 DEF Gets
    <2> DEFINE e == ReadItem(d, item)
    <2> HIDE DEF e
    <2>3. Got(d, e, Len(Chunk(item, len[k + 1])), v)
      BY <2>2 DEF e
    <2>4. Stands(e, b, pos, len, stk, k + 1)
      BY <1>1, <1>4, <2>3, GotStands
    <2>5. e.val = v
      BY <2>3, GotFine
    <2> QED
      BY <2>2, <2>4, <2>5 DEF e
  <1> QED
    BY <1>2, <1>3, <1>4

LEMMA ChecksItem ==
  ASSUME NEW dc, dc \in Seq(Items), Len(dc) \in Nat, Legible(dc),
         NEW b, NEW pos, NEW len, NEW stk, Whole(dc, b, pos, len, stk), Len(b) < Power(Base, 4),
         NEW k \in Nat, k < Len(dc), NEW d, Stands(d, b, pos, len, stk, k),
         NEW item, item = dc[k + 1], item.op \in {"oid", "enum"}
  PROVE  Stands(CheckItem(d, item), b, pos, len, stk, k + 1)
PROOF
  <1> DEFINE e == CheckItem(d, item)
             l == len[k + 1]
  <1>1. Meets(item, b, pos, len, stk, k)
    BY WholeMeets
  <1>2. item \in Items /\ Ready(item) /\ At(b, pos[k], Chunk(item, l))
    BY <1>1 DEF Meets, Lies
  <1>3. Fine(d) /\ d.data = b /\ d.ofs = pos[k]
    BY DEF Stands
  <1>4. At(d.data, d.ofs, Chunk(item, l)) /\ Len(d.data) < Power(Base, 4)
    BY <1>2, <1>3
  <1>5. item.op = "oid" => Readable(item.val)
    BY <1>2, LegibleItem
  <1> HIDE DEF l
  <1>6. \E v : Got(d, CheckItem(d, item), Len(Chunk(item, l)), v)
    BY <1>2, <1>3, <1>4, <1>5, AtomChecks
  <1> HIDE DEF e
  <1>7. PICK v : Got(d, e, Len(Chunk(item, len[k + 1])), v)
    BY <1>6 DEF e, l
  <1>8. item.op \notin {"push", "pop"}
    OBVIOUS
  <1>9. Stands(e, b, pos, len, stk, k + 1)
    BY <1>1, <1>7, <1>8, GotStands
  <1> QED
    BY <1>9 DEF e

-----------------------------------------------------------------------------
(* The writer and the reader together: what was written is what is read.   *)

(* The hypotheses of ReadsWhatWasWritten, and what holds of a writer, and  *)
(* of a reader of what was written.                                        *)
Undamaged ==
  /\ intact /\ Legible(doc) /\ Len(data.data) < Power(Base, 4) /\ Len(data.data) < Word \div 2
  /\ \A i \in DOMAIN got : doc[i].op = "bool" => got[i] # <<>>

InPlace ==
  \E pos, len, stk :
    /\ Whole(doc, data.data, pos, len, stk)
    /\ Stands(data, data.data, pos, len, stk, at)

AllRight ==
  \A i \in DOMAIN got : doc[i].op \notin {"push", "pop"} /\ got[i] # <<>> => Right(doc[i], got[i][1])

Lasting(g, n) == (\E S : g \in Seq(S)) /\ Len(g) = n

BackInv ==
  /\ mode = "write" => got = <<>> /\ (~data.has_error => Written(doc, at, data))
  /\ Reading => Lasting(got, at)
  /\ mode = "ended" => at = Len(doc)
  /\ Reading /\ Undamaged => InPlace /\ AllRight

LEMMA Appending ==
  ASSUME NEW g, NEW n \in Nat, Lasting(g, n), NEW x
  PROVE  /\ Lasting(Append(g, x), n + 1) /\ DOMAIN g = 1 .. n /\ DOMAIN Append(g, x) = 1 .. n + 1
         /\ \A i \in 1 .. n : Append(g, x)[i] = g[i]
         /\ Append(g, x)[n + 1] = x
PROOF
  <1>1. PICK S : g \in Seq(S)
    BY DEF Lasting
  <1>2. Len(g) = n
    BY DEF Lasting
  <1> DEFINE T == S \cup {x}
             h == Append(g, x)
  <1>3. g \in Seq(T) /\ x \in T
    <2>1. g \in [1 .. n -> S]
      BY <1>1, <1>2
    <2>2. g \in [1 .. n -> T]
      BY <2>1
    <2>3. [1 .. n -> T] \subseteq Seq(T)
      OBVIOUS
    <2> QED
      BY <2>2, <2>3
  <1> HIDE DEF T
  <1>4. /\ h \in Seq(T) /\ Len(h) = n + 1 /\ h[n + 1] = x
        /\ \A i \in 1 .. n : h[i] = g[i]
    BY <1>2, <1>3
  <1>5. DOMAIN g = 1 .. n /\ DOMAIN h = 1 .. n + 1
    BY <1>2, <1>3, <1>4
  <1> QED
    BY <1>4, <1>5 DEF Lasting

LEMMA BackStarts == Init => BackInv
PROOF
  <1> SUFFICES ASSUME Init PROVE BackInv
    OBVIOUS
  <1>1. data = Empty /\ mode = "write" /\ at = 0 /\ got = <<>>
    BY DEF Init
  <1> QED
    BY <1>1, NothingWritten DEF BackInv, Reading

(* A document that can be handed out is laid out, and a reader stands      *)
(* before its first item.                                                  *)
LEMMA BlobInPlace ==
  ASSUME NEW dc, Len(dc) \in Nat, NEW d, WriterOK(d), IsBlob(d), Written(dc, Len(dc), d),
         Len(d.data) < Word \div 2, NEW e, e = [Empty EXCEPT !.data = d.data]
  PROVE  \E pos, len, stk : Whole(dc, e.data, pos, len, stk) /\ Stands(e, e.data, pos, len, stk, 0)
PROOF
  <1> DEFINE n == Len(dc)
             b == d.data
  <1>1. ~d.has_error /\ d.nesting = <<>> /\ b \in Seq(Bytes)
    BY DEF IsBlob, WriterOK, IsData
  <1>2. PICK pos, len, stk : Laid(dc, n, b, pos, len, stk) /\ Begin(d.nesting, pos, stk[n])
    BY DEF Written
  <1>3. n \in Nat
    OBVIOUS
  <1> HIDE DEF n
  <1>4. stk[n] \in Seq(Nat) /\ stk[0] = <<>>
    <2>1. stk[0] = <<>>
      BY <1>2 DEF Laid, Nested
    <2>2. stk[n] \in Seq(Nat)
      BY <1>2, <1>3, LaidType
    <2> QED
      BY <2>1, <2>2
  <1>5. pos[0] = 0
    BY <1>2 DEF Laid, Placed
  <1>6. stk[n] = <<>>
    <2>1. Len(stk[n]) = 0
      BY <1>1, <1>2 DEF Begin
    <2> QED
      BY <1>4, <2>1
  <1>7. e.data = b /\ e.ofs = 0 /\ e.nesting = <<>> /\ ReaderOK(e)
    <2>1. ReaderOK(e)
      BY <1>1, Loads
    <2> HIDE DEF b
    <2>2. e.data = b /\ e.ofs = 0 /\ e.nesting = <<>>
      BY DEF Empty, b
    <2> QED
      BY <2>1, <2>2
  <1>8. e.has_error = FALSE
    BY DEF Empty
  <1>9. Sits(<<>>, pos, len, <<>>)
    <2>1. ~\E j \in 1 .. Len(<<>>) : TRUE
      OBVIOUS
    <2> QED
      BY <2>1 DEF Sits
  <1>10. Whole(dc, e.data, pos, len, stk)
    BY <1>2, <1>6, <1>7 DEF Whole, n
  <1>11. Stands(e, e.data, pos, len, stk, 0)
    BY <1>4, <1>5, <1>7, <1>8, <1>9 DEF Stands, Fine
  <1> QED
    BY <1>10, <1>11

(* What was undamaged before a read, if it is behind it.                   *)
LEMMA UndamagedBefore ==
  ASSUME BackInv, Asn1Inv, mode = "read", at < Len(doc), Undamaged',
         doc' = doc, intact' = intact, data'.data = data.data,
         NEW x, got' = Append(got, x)
  PROVE  Undamaged
PROOF
  <1>1. Lasting(got, at) /\ at \in Nat
    <2>1. at \in Nat
      BY DEF Asn1Inv
    <2> QED
      BY <2>1 DEF BackInv, Reading
  <1>2. /\ DOMAIN got = 1 .. at /\ DOMAIN got' = 1 .. at + 1 /\ \A i \in 1 .. at : got'[i] = got[i]
    BY <1>1, Appending
  <1>3. \A i \in 1 .. at : i \in 1 .. at + 1
    BY <1>1
  <1>4. \A i \in DOMAIN got' : doc[i].op = "bool" => got'[i] # <<>>
    BY DEF Undamaged
  <1>5. \A i \in DOMAIN got : doc[i].op = "bool" => got[i] # <<>>
    BY <1>2, <1>3, <1>4
  <1>6. intact /\ Legible(doc) /\ Len(data.data) < Power(Base, 4)
    BY DEF Undamaged
  <1> QED
    BY <1>5, <1>6 DEF Undamaged

LEMMA DocIs ==
  ASSUME Asn1Inv
  PROVE  doc \in Seq(Items) /\ Len(doc) \in Nat /\ at \in Nat /\ at <= Len(doc)
PROOF
  <1> DEFINE I == Items
  <1>1. doc \in Seq(I) /\ at \in 0 .. Len(doc)
    BY DEF Asn1Inv
  <1> HIDE DEF I
  <1>2. Len(doc) \in Nat
    BY <1>1
  <1> QED
    BY <1>1, <1>2 DEF I

LEMMA BackWrites ==
  ASSUME BackInv, Asn1Inv, WriteNext
  PROVE  BackInv'
PROOF
  <1>1. /\ mode = "write" /\ at < Len(doc) /\ data' = WriteItem(data, doc[at + 1]) /\ at' = at + 1
        /\ doc' = doc /\ mode' = mode /\ got' = got
    BY DEF WriteNext
  <1>2. doc[at + 1] \in Items /\ at \in Nat /\ WriterOK(data)
    <2>1. doc[at + 1] \in Items
      BY <1>1, NextItem
    <2> QED
      BY <1>1, <2>1, DocIs DEF Asn1Inv
  <1>3. got = <<>> /\ (~data.has_error => Written(doc, at, data))
    BY <1>1 DEF BackInv
  <1>4. ~data'.has_error => Written(doc, at + 1, data')
    <2> SUFFICES ASSUME ~WriteItem(data, doc[at + 1]).has_error
                 PROVE  Written(doc, at + 1, WriteItem(data, doc[at + 1]))
      BY <1>1
    <2> QED
      BY <1>2, <1>3, WriteLays
  <1> QED
    BY <1>1, <1>3, <1>4 DEF BackInv, Reading

LEMMA BackLoads ==
  ASSUME BackInv, Asn1Inv, Load
  PROVE  BackInv'
PROOF
  <1>1. mode = "write" /\ at = Len(doc) /\ IsBlob(data) /\ mode' = "read" /\ at' = 0 /\ doc' = doc /\ got' = got
    BY DEF Load
  <1>2. PICK bytes : data' = [Empty EXCEPT !.data = bytes] /\ intact' = (bytes = data.data)
    BY DEF Load
  <1>3. got = <<>> /\ WriterOK(data) /\ Written(doc, Len(doc), data)
    BY <1>1 DEF BackInv, Asn1Inv, IsBlob
  <1>4. Lasting(got', at')
    <2>1. <<>> \in Seq(Nat) /\ Len(<<>>) = 0
      OBVIOUS
    <2> QED
      BY <1>1, <1>3, <2>1 DEF Lasting
  <1>5. ASSUME intact', Len(data'.data) < Word \div 2 PROVE InPlace'
    <2>1. data' = [Empty EXCEPT !.data = data.data]
      BY <1>2, <1>5
    <2>4. data'.data = data.data
      BY <2>1 DEF Empty
    <2>2. Len(doc) \in Nat
      BY DocIs
    <2>3. \E pos, len, stk :
            Whole(doc, data'.data, pos, len, stk) /\ Stands(data', data'.data, pos, len, stk, 0)
      BY <1>1, <1>3, <1>5, <2>1, <2>2, <2>4, BlobInPlace
    <2> QED
      BY <1>1, <2>3 DEF InPlace
  <1>6. AllRight'
    <2>1. ~\E i \in DOMAIN <<>> : TRUE
      OBVIOUS
    <2>2. got' = <<>>
      BY <1>1, <1>3
    <2> QED
      BY <2>1, <2>2 DEF AllRight
  <1> QED
    BY <1>1, <1>4, <1>5, <1>6 DEF BackInv, Reading, Undamaged

(* A step of the reader, given what the item does and what it leaves.      *)
LEMMA BackOneMore ==
  ASSUME BackInv, Asn1Inv, mode = "read", at < Len(doc),
         doc' = doc, intact' = intact, mode' = mode, at' = at + 1, data'.data = data.data,
         NEW x, got' = Append(got, x),
         ASSUME Undamaged', NEW pos, NEW len, NEW stk, Whole(doc, data.data, pos, len, stk),
                Legible(doc), Len(data.data) < Power(Base, 4),
                Stands(data, data.data, pos, len, stk, at)
         PROVE  /\ Stands(data', data.data, pos, len, stk, at + 1)
                /\ doc[at + 1].op \notin {"push", "pop"} /\ x # <<>> => Right(doc[at + 1], x[1])
  PROVE  BackInv'
PROOF
  <1>1. at \in Nat
    BY DocIs
  <1>2. Lasting(got, at)
    BY DEF BackInv, Reading
  <1>3. /\ Lasting(got', at') /\ DOMAIN got = 1 .. at /\ DOMAIN got' = 1 .. at + 1
        /\ \A i \in 1 .. at : got'[i] = got[i]
        /\ got'[at + 1] = x
    BY <1>1, <1>2, Appending
  <1>4. ASSUME Undamaged' PROVE InPlace' /\ AllRight'
    <2>1. Undamaged
      BY <1>4, UndamagedBefore
    <2>2. InPlace /\ AllRight /\ Legible(doc) /\ Len(data.data) < Power(Base, 4)
      BY <2>1 DEF BackInv, Reading, Undamaged
    <2>3. PICK pos, len, stk :
            Whole(doc, data.data, pos, len, stk) /\ Stands(data, data.data, pos, len, stk, at)
      BY <2>2 DEF InPlace
    <2>4. /\ Stands(data', data.data, pos, len, stk, at + 1)
          /\ doc[at + 1].op \notin {"push", "pop"} /\ x # <<>> => Right(doc[at + 1], x[1])
      BY <1>4, <2>2, <2>3
    <2>5. InPlace'
      BY <2>3, <2>4 DEF InPlace
    <2>6. ASSUME NEW i \in DOMAIN got', doc[i].op \notin {"push", "pop"}, got'[i] # <<>>
          PROVE  Right(doc[i], got'[i][1])
      <3>1. i \in 1 .. at \/ i = at + 1
        BY <1>1, <1>3
      <3>2. CASE i = at + 1
        BY <1>3, <2>4, <2>6, <3>2
      <3>3. CASE i \in 1 .. at
        BY <1>3, <2>2, <2>6, <3>3 DEF AllRight
      <3> QED
        BY <3>1, <3>2, <3>3
    <2>7. AllRight'
      BY <2>6 DEF AllRight
    <2> QED
      BY <2>5, <2>7
  <1> QED
    BY <1>3, <1>4 DEF BackInv, Reading

LEMMA BackReads ==
  ASSUME BackInv, Asn1Inv, ReadNext
  PROVE  BackInv'
PROOF
  <1> DEFINE item == doc[at + 1]
             x == <<data'.val>>
  <1>1. /\ mode = "read" /\ at < Len(doc) /\ data' = ReadItem(data, item) /\ at' = at + 1
        /\ doc' = doc /\ mode' = mode /\ intact' = intact /\ got' = Append(got, x)
    BY DEF ReadNext
  <1>2. item \in Items /\ ReaderOK(data) /\ doc \in Seq(Items) /\ Len(doc) \in Nat /\ at \in Nat
    <2>1. item \in Items
      BY <1>1, NextItem
    <2> QED
      BY <1>1, <2>1, DocIs DEF Asn1Inv, Reading
  <1>3. data'.data = data.data
    BY <1>1, <1>2, ItemReads DEF Follows
  <1>4. x # <<>> /\ x[1] = data'.val
    OBVIOUS
  <1>5. ASSUME NEW pos, NEW len, NEW stk, Whole(doc, data.data, pos, len, stk),
               Legible(doc), Len(data.data) < Power(Base, 4),
               Stands(data, data.data, pos, len, stk, at)
        PROVE  /\ Stands(data', data.data, pos, len, stk, at + 1)
               /\ item.op \notin {"push", "pop"} => Right(item, x[1])
    <2> DEFINE b == data.data
               e == ReadItem(data, item)
    <2>1. Whole(doc, b, pos, len, stk) /\ Len(b) < Power(Base, 4) /\ Stands(data, b, pos, len, stk, at)
      BY <1>5
    <2> HIDE DEF b, e
    <2>2. /\ Stands(ReadItem(data, item), b, pos, len, stk, at + 1)
          /\ item.op \notin {"push", "pop"} => Right(item, ReadItem(data, item).val)
      <3> HIDE DEF x
      <3> QED
        BY <1>1, <1>2, <1>5, <2>1, ReadsItem
    <2> QED
      BY <1>1, <1>4, <2>2 DEF b
  <1> HIDE DEF x
  <1> QED
    BY <1>1, <1>3, <1>5, BackOneMore

LEMMA BackChecks ==
  ASSUME BackInv, Asn1Inv, CheckNext
  PROVE  BackInv'
PROOF
  <1> DEFINE item == doc[at + 1]
             x == <<>>
  <1>1. /\ mode = "read" /\ at < Len(doc) /\ data' = CheckItem(data, item) /\ at' = at + 1
        /\ item.op \in {"oid", "bool", "enum"}
        /\ doc' = doc /\ mode' = mode /\ intact' = intact /\ got' = Append(got, x)
    BY DEF CheckNext
  <1>2. ReaderOK(data) /\ doc \in Seq(Items) /\ Len(doc) \in Nat /\ at \in Nat
    BY <1>1, DocIs DEF Asn1Inv, Reading
  <1>3. data'.data = data.data
    BY <1>1, <1>2, ItemChecks DEF Opens, Follows
  <1>4. Undamaged' => item.op # "bool"
    <2> SUFFICES ASSUME Undamaged', item.op = "bool" PROVE FALSE
      OBVIOUS
    <2>1. Lasting(got, at)
      BY <1>1 DEF BackInv, Reading
    <2> HIDE DEF x
    <2>2. at + 1 \in DOMAIN got' /\ got'[at + 1] = x
      <3>1. at + 1 \in 1 .. at + 1
        BY <1>2
      <3>2. DOMAIN got' = 1 .. at + 1 /\ got'[at + 1] = x
        BY <1>1, <1>2, <2>1, Appending
      <3> QED
        BY <3>1, <3>2
    <2> QED
      BY <1>1, <2>2 DEF Undamaged, x
  <1>5. ASSUME Undamaged', NEW pos, NEW len, NEW stk, Whole(doc, data.data, pos, len, stk),
               Legible(doc), Len(data.data) < Power(Base, 4),
               Stands(data, data.data, pos, len, stk, at)
        PROVE  /\ Stands(data', data.data, pos, len, stk, at + 1)
               /\ item.op \notin {"push", "pop"} /\ x # <<>> => Right(item, x[1])
    <2> DEFINE b == data.data
    <2>1. Whole(doc, b, pos, len, stk) /\ Len(b) < Power(Base, 4) /\ Stands(data, b, pos, len, stk, at)
      BY <1>5
    <2>2. item.op \in {"oid", "enum"}
      BY <1>1, <1>4, <1>5
    <2> HIDE DEF b
    <2>3. Stands(CheckItem(data, item), b, pos, len, stk, at + 1)
      <3> HIDE DEF x
      <3> QED
        BY <1>1, <1>2, <1>5, <2>1, <2>2, ChecksItem
    <2> QED
      BY <1>1, <2>3 DEF b
  <1> HIDE DEF x
  <1> QED
    BY <1>1, <1>3, <1>5, BackOneMore

LEMMA BackSteps == BackInv /\ Asn1Inv /\ [Next]_vars => BackInv'
PROOF
  <1> SUFFICES ASSUME BackInv, Asn1Inv, [Next]_vars PROVE BackInv'
    OBVIOUS
  <1>1. CASE Refuse
    BY <1>1 DEF Refuse, BackInv, Reading
  <1>2. CASE EndRead
    BY <1>2 DEF EndRead, BackInv, Reading, Undamaged, InPlace, AllRight
  <1>3. CASE UNCHANGED vars
    BY <1>3 DEF vars, BackInv, Reading, Undamaged, InPlace, AllRight
  <1> QED
    BY <1>1, <1>2, <1>3, BackWrites, BackLoads, BackReads, BackChecks DEF Next

LEMMA BackIs == BackInv /\ Asn1Inv => ReadsWhatWasWritten
PROOF
  <1> SUFFICES ASSUME BackInv, Asn1Inv, mode \in {"read", "ended"}, Undamaged
               PROVE  /\ ~data.has_error /\ (mode = "ended" => IsBlob(data))
                      /\ mode = "ended" => data.ofs = Len(data.data)
                      /\ \A i \in DOMAIN got :
                           doc[i].op \notin {"push", "pop"} /\ got[i] # <<>> =>
                             IF doc[i].op = "int" /\ doc[i].val < 0
                             THEN got[i][1] \in {doc[i].val, Unsigned(IntBytes(doc[i].val))}
                             ELSE got[i][1] = Expected(doc[i])
    BY DEF ReadsWhatWasWritten, Undamaged
  <1>1. InPlace /\ AllRight /\ (mode = "ended" => at = Len(doc))
    BY DEF BackInv, Reading
  <1>2. PICK pos, len, stk :
          Whole(doc, data.data, pos, len, stk) /\ Stands(data, data.data, pos, len, stk, at)
    BY <1>1 DEF InPlace
  <1>3. ~data.has_error
    BY <1>2 DEF Stands, Fine
  <1>4. ASSUME mode = "ended" PROVE data.nesting = <<>> /\ data.ofs = Len(data.data)
    <2> DEFINE n == Len(doc)
               ns == data.nesting
    <2>1. at = n /\ n \in Nat
      BY <1>1, <1>4, DocIs
    <2> HIDE DEF n
    <2>2. stk[n] = <<>> /\ data.ofs = pos[n] /\ Sits(ns, pos, len, stk[n]) /\ Fine(data)
      BY <1>2, <2>1 DEF Whole, Stands, n
    <2>3. pos[n] = Len(data.data)
      BY <1>2 DEF Whole, Laid, Placed, n
    <2>4. Len(ns) = 0
      BY <2>2 DEF Sits
    <2>5. ns \in Seq([start : Nat, taglen : Int])
      BY <2>2, FineType
    <2> DEFINE R == [start : Nat, taglen : Int]
    <2> HIDE DEF R, ns
    <2>6. ns \in Seq(R)
      BY <2>5 DEF R
    <2>7. ns = <<>>
      BY <2>4, <2>6
    <2> QED
      BY <2>2, <2>3, <2>7 DEF ns
  <1> QED
    BY <1>1, <1>3, <1>4 DEF IsBlob, AllRight, Right

LEMMA BackInvariant == Spec => []BackInv
PROOF
  BY BackStarts, BackSteps, Asn1Invariant, PTL DEF Spec

(* For every document and every damage to it: a read or check that ends    *)
(* without an error began without one, and unless it is                    *)
(* asn1_check_enumerated found the tag of its item and left none open but  *)
(* the one it opens.                                                       *)
THEOREM ErrorsAreFinal == Spec => ErrorsLast
PROOF
  <1> DEFINE item == doc[at']
             checked == item.op = "enum" /\ got'[at'] = <<>>
             Lasts == mode = "read" /\ at' # at /\ ~data'.has_error =>
                        /\ ~data.has_error
                        /\ ~checked =>
                             /\ item.op \notin {"pop", "raw", "rest"} =>
                                  data.data[data.ofs + 1] = TagOf(item)
                             /\ item.op \notin {"push", "pop"} => data'.nesting = data.nesting
  <1>1. Asn1Inv /\ BackInv /\ [Next]_vars => [Lasts]_vars
    <2> SUFFICES ASSUME Asn1Inv, BackInv, Next, mode = "read", at' # at, ~data'.has_error
                 PROVE  /\ ~data.has_error
                        /\ ~checked =>
                             /\ item.op \notin {"pop", "raw", "rest"} =>
                                  data.data[data.ofs + 1] = TagOf(item)
                             /\ item.op \notin {"push", "pop"} => data'.nesting = data.nesting
      OBVIOUS
    <2>1. ReaderOK(data)
      BY DEF Asn1Inv, Reading
    <2>2. CASE ReadNext
      <3>1. item \in Items /\ data' = ReadItem(data, item)
        BY <2>2, NextItem DEF ReadNext
      <3> HIDE DEF item
      <3>2. ~data.has_error
        BY <2>1, <3>1, ItemReads DEF Follows
      <3>3. /\ item.op \notin {"pop", "raw", "rest"} => data.data[data.ofs + 1] = TagOf(item)
            /\ item.op \notin {"push", "pop"} => data'.nesting = data.nesting
        BY <2>1, <3>1, ItemDone
      <3> QED
        BY <3>2, <3>3
    <2>3. CASE CheckNext
      <3>1. /\ item.op \in {"oid", "bool", "enum"} /\ data' = CheckItem(data, item)
            /\ item.op = "bool" => item.tag = BOOLEAN_TAG
            /\ got' = Append(got, <<>>)
        BY <2>3 DEF CheckNext
      <3> HIDE DEF item
      <3>2. ~data.has_error
        BY <2>1, <3>1, ItemChecks DEF Opens, Follows
      <3>3. CASE item.op = "enum"
        <4>1. got'[at'] = <<>>
          BY <2>3, <3>1, Appending DEF CheckNext, Asn1Inv, BackInv, Reading
        <4> QED
          BY <3>2, <3>3, <4>1
      <3>4. CASE item.op \in {"oid", "bool"}
        <4>1. data.data[data.ofs + 1] = TagOf(item) /\ data'.nesting = data.nesting
          BY <2>1, <3>1, <3>4, CheckDone
        <4> QED
          BY <3>2, <4>1
      <3> QED
        BY <3>1, <3>3, <3>4
    <2>4. CASE EndRead
      BY <2>4 DEF EndRead
    <2> QED
      BY <2>2, <2>3, <2>4 DEF Next, WriteNext, Load, Refuse
  <1>2. Spec => [][Lasts]_vars
    <2> HIDE DEF Lasts
    <2> QED
      BY <1>1, BackInvariant, Asn1Invariant, PTL DEF Spec
  <1> QED
    BY <1>2 DEF ErrorsLast

(* For every legible document: what asn1_write_* and asn1_pop_tag wrote,   *)
(* asn1_read_* and asn1_end_tag read back, with no error, each value, and  *)
(* to its last byte, however deep its tags nest and however their lengths  *)
(* grew while it was written.                                              *)
THEOREM WhatWasWrittenIsRead == Spec => []ReadsWhatWasWritten
PROOF
  BY BackIs, BackInvariant, Asn1Invariant, PTL
=============================================================================
