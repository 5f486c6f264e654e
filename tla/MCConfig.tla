------------------------------ MODULE MCConfig ------------------------------
(***************************************************************************)
(* Disks with configuration files for ConfigParser: files that include     *)
(* each other, elements that say the same thing twice, and files that are  *)
(* refused.                                                                *)
(***************************************************************************)
EXTENDS Integers, Sequences, TLC

CONSTANT None

\* The texts that are numbers.
Numbers == << "5" >> :> 5 @@ << "-1" >> :> -1 @@ << "9" >> :> 9

Start(element, attributes) ==
  [kind |-> "start", element |-> element, attributes |-> attributes, text |-> <<>>]
Text(text) == [kind |-> "text", element |-> None, attributes |-> <<>>, text |-> text]
End(element) == [kind |-> "end", element |-> element, attributes |-> <<>>, text |-> <<>>]
Doctype(name) == [kind |-> "doctype", element |-> name, attributes |-> <<>>, text |-> <<>>]
Malformed == [kind |-> "malformed", element |-> None, attributes |-> <<>>, text |-> <<>>]

Plain(type, text) == << Start(type, <<>>), Text(text), End(type) >>
Bare(type) == << Start(type, <<>>), End(type) >>
With(type, attributes, text) ==
  << Start(type, attributes), Text(text), End(type) >>
Policy(attributes, rule, interface) ==
  << Start("policy", attributes), Start(rule, << << "send_interface", interface >> >>),
     End(rule), End("policy") >>
Associate(own, context) ==
  << Start("selinux", <<>>),
     Start("associate", << << "own", own >>, << "context", context >> >>),
     End("associate"), End("selinux") >>
Document(children) ==
  << Doctype("busconfig"), Start("busconfig", <<>>) >> \o children
    \o << Text(<< " " >>), End("busconfig") >>
Fragments ==
  { <<>>,
    Plain("user", << "u1" >>) \o Plain("type", << "session" >>),
    Plain("user", << "u2" >>) \o Plain("auth", << "m1" >>),
    Plain("listen", << "l2" >>) \o Plain("servicedir", << "x" >>),
    Bare("standard_session_servicedirs") \o Plain("pidfile", << "p" >>),
    Bare("fork") \o Plain("servicedir", << "/", "x" >>),
    Policy(<< << "context", "default" >> >>, "allow", "i1"),
    Policy(<< << "context", "default" >> >>, "deny", "i2") \o Associate("n", "c1"),
    Associate("n", "c2") \o With("limit", << << "name", "auth_timeout" >> >>, << "5" >>),
    With("limit", << << "name", "max_message_size" >> >>, << "9" >>)
  }
Rejected ==
  { Plain("listen", << "l2" >>) \o With("limit", << << "name", "auth_timeout" >> >>, << "9" >>),
    With("limit", << << "name", "auth_timeout" >> >>, << "-1" >>),
    With("limit", << << "name", "auth_timeout" >> >>, << "x" >>),
    With("limit", <<>>, << "5" >>),
    With("limit", << << "name", "nothing" >> >>, << "5" >>),
    With("user", << << "name", "u" >> >>, << "u1" >>),
    Bare("user"), Bare("unknown"),
    << Text(<< "text" >>) >>,
    << Start("user", <<>>), Start("user", <<>>) >>,
    << Malformed >>,
    Bare("policy"), Bare("limit"),
    Policy(<< << "context", "default" >>, << "user", "u1" >> >>, "allow", "i1"),
    Policy(<< << "context", "else" >> >>, "allow", "i1"),
    Policy(<< << "at_console", "else" >> >>, "allow", "i1"),
    Policy(<< << "context", "default" >> >>, "permit", "i1"),
    << Start("selinux", <<>>), Start("associate", << << "own", "n" >> >>) >>,
    With("include", << << "ignore_missing", "maybe" >> >>, << "b.conf" >>),
    With("include", << << "selinux_root_relative", "yes" >> >>, << "s.conf" >>),
    Plain("includedir", << "nowhere" >>),
    << Start("user", <<>>), Text(<< "u" >>), Text(<< "v" >>), End("user") >>
  }
Ignored == << << "ignore_missing", "yes" >> >>
Includes ==
  { Plain("include", << "b.conf" >>), With("include", Ignored, << "b.conf" >>),
    Plain("includedir", << "d" >>),
    With("include", << << "if_selinux_enabled", "yes" >>, << "selinux_root_relative", "yes" >> >>,
         << "s.conf" >>) }
Inner ==
  { <<>>, Plain("include", << "c.conf" >>), With("include", Ignored, << "missing.conf" >>),
    Plain("include", << "a.conf" >>), Plain("include", << "b.conf" >>) }
Disk(a, b, c, selinux) ==
  [top |-> << "/", "a.conf" >>, conf |-> {"b.conf", "c.conf", "gone.conf"},
   selinux |-> selinux, policy_root |-> selinux,
   dirs |-> << "/", "d" >> :> {"b.conf", "c.conf", "gone.conf", "README"},
   files |-> (<< "/", "a.conf" >> :> a) @@ (<< "/", "b.conf" >> :> b)
               @@ (<< "/", "c.conf" >> :> c) @@ (<< "/", "d", "b.conf" >> :> b)
               @@ (<< "/", "d", "c.conf" >> :> c)
               @@ (<< "/", "selinux", "s.conf" >> :> c)]
Listen == Plain("listen", << "l1" >>)

\* Every two fragments, one included by the other; and every way to include.
Twice ==
  {Disk(Document(Listen \o f \o Plain("include", << "b.conf" >>)), Document(g), Document(<<>>), FALSE) :
     f \in Fragments, g \in Fragments}

Nested ==
  {Disk(Document(Listen \o f \o i), Document(g \o j), Document(h), TRUE) :
     f \in {<<>>, Associate("n", "c1")}, i \in Includes,
     g \in {<<>>, Plain("user", << "u2" >>)}, j \in Inner,
     h \in {Associate("n", "c2"), Plain("user", << "u3" >>)}}

\* Elements for the top level, and one refused element in the included file.
Settings ==
  Bare("syslog") \o Bare("keep_umask") \o Plain("servicehelper", << "h" >>)
    \o Policy(<< << "user", "unknown" >> >>, "allow", "i1") \o Policy(<< << "group", "g" >> >>, "allow", "i1")
    \o Policy(<< << "at_console", "true" >> >>, "allow", "i1")

Refused ==
  {Disk(Document(Listen \o f \o i), Document(g), Document(<<>>), FALSE) :
     f \in {<<>>, Settings}, g \in Rejected, i \in Includes}

\* The top file itself is refused.
NotABus ==
  {Disk(f, Document(<<>>), Document(<<>>), FALSE) :
     f \in {Document(<<>>), << Doctype("html") >>, << Start("html", <<>>) >>, << Text(<< "x" >>) >>,
            << End("x") >>, << Start("busconfig", <<>>) >>, << Start("busconfig", <<>>), End("x") >>,
            Document(Plain("include", << "missing.conf" >>))}}

Disks == Twice \cup Nested \cup Refused \cup NotABus
=============================================================================
