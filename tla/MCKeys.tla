------------------------------ MODULE MCKeys -------------------------------
(***************************************************************************)
(* The two users of the key service on small instances: the tools of       *)
(* cifscreds on the user keyring, and the helpers of the kernel's request  *)
(* for one key.  They share no state: a behaviour is of the one or of the  *)
(* other, and the part that is not looked at stays where it began.         *)
(***************************************************************************)
EXTENDS CifsCreds, Upcall
CONSTANTS p1, p2, h1, h2, away, u1, bad, corp, CORP, none,
          alice, bob, c1, c2, c3

TwoProcs == {p1, p2}
OneOther == {<<"other">>}
Earlier == {<<a, u1, corp>> : a \in {"a1", "a2"}}
Lookup == (h1 :> <<"a1", "a2">>) @@ (h2 :> <<"a2">>) @@ (away :> "fails")
LowerCase == (corp :> corp) @@ (CORP :> corp) @@ (none :> none) @@ (bad :> bad)
Bad == {bad}
Line(w, h, u, d) == [word |-> w, host |-> h, user |-> u, domain |-> d]
Lines ==
  {Line(w, h1, u1, corp) : w \in {"add", "update", "clear"}}
    \cup {Line("a", h2, u1, CORP), Line("clearall", h1, u1, none),
          Line("clear", h2, u1, corp), Line("cl", h1, u1, corp),
          Line("list", h1, u1, corp), Line("add", away, u1, corp),
          Line("clear", h1, bad, corp)}

(* SRV is srv.corp.example by its canonical name and old.example by its    *)
(* address; the KDC knows srv.corp and old.example, not plain srv.         *)
Names == ("SRV" :> "srv") @@ ("old.example" :> "old.example") @@ ("lone" :> "lone")
Domains == ("SRV" :> "corp") @@ ("old.example" :> "dotted") @@ ("lone" :> NoVal)
ByAddress == ("10.0.0.1" :> "old.example") @@ ("10.0.0.9" :> "fails")
Known == {[host |-> "srv", domain |-> "corp"],
          [host |-> "old.example", domain |-> NoVal]}
InKeytab == {"machine"}
Scanned == <<c1, c2, c3>>
Owners == (c1 :> alice) @@ (c2 :> bob) @@ (c3 :> alice)
Mapped == [os |-> ("S1" :> "1000") @@ ("garbled" :> "fails"), gs |-> ("S2" :> "100"),
           oi |-> ("1000" :> "S1"), gi |-> ("100" :> "fails")]

Tok(n, v) == [name |-> n, value |-> v, readable |-> TRUE]
Asking(opts, type, toks) ==
  [opts |-> opts, serial |-> "good", type |-> type, tokens |-> toks]
Basic == <<Tok("ver", 2), Tok("host", "SRV"), Tok("ip4", "10.0.0.1"),
           Tok("sec", "krb5"), Tok("uid", bob)>>
Full == Basic \o <<Tok("creduid", alice)>>
Asked ==
  {Asking(o, "cifs.spnego", Full) : o \in {<<>>, <<"t">>, <<"l">>}}
    \cup {Asking(<<"t">>, "cifs.spnego", t) :
            t \in {Basic, Basic \o <<Tok("user", "machine")>>,
                   Full \o <<[Tok("pid", "7") EXCEPT !.readable = FALSE]>>, Full \o <<Tok("ver", 3)>>,
                   Full \o <<Tok("host", "lone")>>, Full \o <<Tok("ip4", "10.0.0.9")>>,
                   Full \o <<Tok("sec", "ntlm")>>, Tail(Full)}}
    \cup {Asking(<<>>, "cifs.idmap", <<Tok(k, v)>>) :
            <<k, v>> \in {<<"os", "S1">>, <<"gs", "S2">>, <<"gs", "S9">>,
                          <<"xx", "S1">>, <<"oi", "1000">>, <<"gi", "100">>}}
    \cup {Asking(<<>>, "dns_resolver", <<Tok("host", "SRV")>>),
          Asking(<<"v">>, "cifs.spnego", Full),
          [Asking(<<>>, "cifs.spnego", Full) EXCEPT !.serial = "bad"]}

(* The key service is asked by tools only, or by the kernel only.          *)
ToolsOnly ==
  /\ CredsInit
  /\ request = Asking(<<>>, "cifs.spnego", Full)
  /\ pc = "exit" /\ wkey = Negated /\ rc = 1
  /\ have = FALSE /\ best = NoCache /\ scanned = 0 /\ host = NoVal /\ tryDns = FALSE
  /\ princ = NoVal /\ asked = {} /\ renewals = 0
  /\ ends = [c \in Range(CacheNames) |-> 0]

KernelOnly ==
  /\ UpcallInit
  /\ keyring = {} /\ serial = 1 /\ failures = 0
  /\ proc = [p \in Procs |-> [Idle EXCEPT !.pc = "exit"]]

KeysNext == \/ CredsNext /\ UNCHANGED uvars
            \/ UpcallNext /\ UNCHANGED cvars

KeysSpec == /\ ToolsOnly \/ KernelOnly
            /\ [][KeysNext]_<<cvars, uvars>>
            /\ \A p \in Procs : WF_cvars(Tool(p))
            /\ WF_uvars(Helper) /\ WF_uvars(Complete)
=============================================================================
