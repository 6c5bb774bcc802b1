--------------------------- MODULE MCMountHelper ---------------------------
(***************************************************************************)
(* Command lines of root and of a user, chosen so that every option of     *)
(* parse_options occurs: with and without a value, twice, and after others *)
(* it depends on.                                                          *)
(***************************************************************************)
EXTENDS MountHelper, TLC

Opt(k) == [key |-> k, val |-> NoVal]
OptVal(k, v) == [key |-> k, val |-> v]
Name(k, n) == [key |-> k, val |-> [name |-> n]]
Number(k, n) == [key |-> k, val |-> [number |-> n]]
User(d, u, p) == [domain |-> d, username |-> u, password |-> p]

Known == ("ann" :> 1000)
Files == ("creds" :> <<OptVal("user", User("DOM", "ann", NoVal)), OptVal("pass", "filepw"),
                       OptVal("other", "x")>>)
         @@ ("long" :> <<OptVal("dom", "DOM"), OptVal("pass", TooLong)>>)
Entry(t, a) == [tcp |-> t, addr |-> a]
SomeAnswers ==
  {<<Entry(TRUE, "a1"), Entry(FALSE, "a1"), Entry(TRUE, "a2")>>, <<Entry(FALSE, "a1"), Entry(TRUE, "a1")>>}

Unc(h, s, p) == [valid |-> TRUE, host |-> h, share |-> s, prefix |-> p]
Dev == Unc(<<"srv">>, <<"s", "h">>, <<>>)
OtherDev == Unc(<<"other", "srv">>, <<"s">>, <<"dir">>)
BadUnc == [valid |-> FALSE, host |-> <<>>, share |-> <<>>, prefix |-> <<>>]

Line(opts) == [dev |-> Dev, opts |-> opts]
Command(uid, opts) ==
  [switches |-> <<>>, uid |-> uid, name |-> "ann", env |-> <<>>, fstab |-> NoVal, opts |-> opts,
   dev |-> Dev, newline |-> FALSE, ascii |-> TRUE]

Guest == Opt("guest")
Others(n) == [i \in 1 .. n |-> Opt("other")]

(* Root: every option, in lines that get far.                              *)
RootOptions ==
  {<<>>, <<Guest, OptVal("ip", <<"a1", "a2">>)>>,
   <<Opt("nosuid"), Opt("suid"), Opt("ro"), Opt("rw"), Opt("mand"), Opt("nobrl"), Guest>>,
   <<Opt("noexec"), Opt("exec"), Opt("nodev"), Opt("dev"), Opt("remount"), Opt("nomand"), Guest>>,
   <<OptVal("user", User("D", "bob", "pw")), OptVal("pass", "other"), Opt("_netdev"), OptVal("dom", "E")>>,
   <<OptVal("user", User(NoVal, "bob", TooLong))>>, <<Opt("username")>>,
   <<OptVal("pass", "pw"), OptVal("sec", "krb5"), OptVal("users", "x")>>,
   <<OptVal("pass", TooLong)>>, <<Opt("pass"), Opt("ip")>>,
   <<OptVal("cred", "creds")>>, <<OptVal("cred", "long")>>, <<OptVal("cred", "none")>>, <<Opt("cred")>>,
   <<OptVal("unc", OtherDev), Guest>>, <<OptVal("unc", BadUnc)>>, <<Opt("dom")>>,
   <<Name("uid", "ann"), Number("gid", 7), Number("cruid", 5), Opt("uid"), Guest>>,
   <<Number("gid", 7), Name("backupuid", "ann"), Number("backupgid", 9), Guest>>,
   <<Name("backupgid", "nobody")>>,
   <<OptVal("fmask", "0644"), OptVal("dir_mode", "0755"), Opt("other"), Guest>>, <<Opt("dmask")>>,
   Others(6) \o <<Guest>>, Others(6), Others(4) \o <<OptVal("dom", "DOM"), Guest>>,
   Others(5) \o <<Number("uid", 1), Number("gid", 1)>>,
   <<Number("gid", 7), Number("backupgid", 9), OptVal("user", User(NoVal, "bob", "pw"))>>}

(* A user, whose own options are not those of fstab.                       *)
FstabOptions ==
  {<<Opt("users"), Guest>>, <<Opt("user"), Opt("suid"), Opt("dev"), OptVal("user", User(NoVal, "ann", "pw"))>>,
   <<Guest>>, <<Opt("users"), Number("gid", 7), Name("backupgid", "ann"), Guest>>}

SomeCommands ==
  {Command(0, o) : o \in RootOptions}
  \cup {[Command(0, <<Guest>>) EXCEPT !.switches = s] :
          s \in {<<"n">>, <<"f">>, <<"f", "h">>, <<"V">>, <<"r", "w", "r">>, <<"f", "n">>}}
  \cup {[Command(0, <<Guest>>) EXCEPT !.dev = BadUnc], [Command(0, <<Guest>>) EXCEPT !.newline = TRUE],
        [Command(0, <<Guest>>) EXCEPT !.ascii = FALSE]}
  \cup {[Command(0, <<>>) EXCEPT !.env = e] :
          e \in {"PASSWD" :> "envpw" @@ "PASSWD_FD" :> "fdpw", "PASSWD_FILE" :> "filepw",
                 "PASSWD" :> TooLong, "USER" :> "bob"}}
  \cup {[Command(1000, <<Opt("users"), Opt("suid"), Opt("dev"), Guest>>) EXCEPT !.fstab = l, !.name = n] :
          l \in {NoVal, [dev |-> OtherDev, opts |-> <<Opt("users"), Guest>>]}
                \cup {Line(o) : o \in FstabOptions},
          n \in {"ann", NoVal}}
=============================================================================
