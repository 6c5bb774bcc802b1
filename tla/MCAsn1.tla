------------------------------- MODULE MCAsn1 -------------------------------
(***************************************************************************)
(* Documents for Asn1 with bytes of 16 values: every kind of item, values  *)
(* and payloads on both sides of each limit, nested tags whose length      *)
(* grows by the inner one's, and the two documents of spnego.c.  One byte  *)
(* changed can make a length of five bytes, more than an int of four holds. *)
(***************************************************************************)
EXTENDS Asn1, TLC

Bytes16(n) == [i \in 1 .. n |-> (7 * i) % 16]
Octets(n) == [op |-> "octets", val |-> Bytes16(n)]
Number(i) == [op |-> "int", val |-> i]
Bool(tag, v) == [op |-> "bool", tag |-> tag, val |-> v]

Kerberos == <<1, 2, 4095, 7, 512>>
Spnego == <<1, 3, 63, 4096, 64>>

(* An int has four bytes.                                                  *)
Atoms ==
  {Number(i) : i \in {-32768, -2049, -2048, -129, -128, -9, -8, -1, 0, 7, 8, 127, 128, 2047, 2048, 32767}}
  \cup {Octets(n) : n \in {0, 1, 7, 8}} \cup {Oid(Kerberos), Oid(Spnego), Oid(<<1, 2>>), Oid(<<1, 2, 8>>)}
  \cup {Bool(BOOLEAN_TAG, v) : v \in BOOLEAN} \cup {Bool(5, TRUE)}
  \cup {[op |-> "bits", padding |-> 3, val |-> Bytes16(n)] : n \in {0, 6, 7}}
  \cup {[op |-> "string", val |-> Bytes16(2)], [op |-> "context", tag |-> 13, val |-> Bytes16(2)],
        [op |-> "enum", val |-> 3], [op |-> "raw", val |-> Bytes16(2)]}

In(tag, items) == <<Push(tag)>> \o items \o <<Pop>>
Nested ==
  {In(Sequence, In(Context0, <<Octets(n)>>)) : n \in {3, 4, 5, 6, 7, 8, 11, 12, 13, 14, 15, 250, 251, 252}}
  \cup {In(Sequence, <<Octets(4095)>>)}
  \cup {In(Sequence, In(Context0, <<Number(3)>>) \o <<Number(4)>>),
        In(Sequence, <<[op |-> "enum", val |-> 1]>> \o In(Context0, <<>>)),
        In(Sequence, In(Context0, <<Number(3), Number(8)>>) \o <<Octets(2), Bool(5, TRUE)>>)}

Long == In(Sequence, In(Context0, <<[op |-> "rest", val |-> <<1, 0, 0, 0, 1, 9>>]>>))
Small == {In(Sequence, <<a>>) : a \in {Number(8), Octets(1), Bool(BOOLEAN_TAG, TRUE), [op |-> "enum", val |-> 3]}}
         \cup {In(Sequence, <<Bool(5, TRUE), Number(8)>>)}
Unfinished == {<<Push(Sequence), Number(1)>>, <<Number(1), Pop>>, <<>>}

SomeDocuments ==
  {<<a>> : a \in Atoms} \cup {<<a, b>> : a, b \in Atoms} \cup Nested \cup Small \cup {Long} \cup Unfinished
  \cup {Krb5Wrap(Kerberos, <<1, 0>>, Bytes16(n)) : n \in {0, 5, 240}}
  \cup {NegTokenInit(Spnego, Kerberos, Bytes16(n)) : n \in {0, 7, 230}}

SomeCorrupted ==
  Small \cup {In(Sequence, In(Context0, <<Number(3), Number(8)>>) \o <<Octets(2), Bool(5, TRUE)>>),
              In(Sequence, In(Context0, <<Number(3)>>) \o <<Number(4)>>),
              In(Sequence, <<[op |-> "enum", val |-> 1]>> \o In(Context0, <<>>)), Long}

(* All of them come back as they were.                                     *)
ASSUME EveryOneLegible == \A d \in SomeDocuments : Legible(d)
=============================================================================
