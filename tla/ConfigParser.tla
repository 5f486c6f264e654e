----------------------------- MODULE ConfigParser -----------------------------
(***************************************************************************)
(* Reading the configuration of the bus (bus/config-parser.c, driven by    *)
(* bus/config-loader-libxml.c): the XML reader hands nodes to the parser,  *)
(* which keeps a stack of open elements; an <include> or an <includedir>   *)
(* loads another file with a parser of its own, and merges what that one   *)
(* read into the parser doing the including.                               *)
(***************************************************************************)
EXTENDS Integers, Sequences, FiniteSets, TLC, SequencesExt

CONSTANTS
  Disks,       \* the file systems a load may meet
  Numbers,     \* the texts that are integers, and which
  IntMax,      \* the largest int of C
  MaxDepth,    \* bound on parsers at work at once
  None

\* A file is named by the directories leading to it and its own name.  A disk
\* has files (sequences of nodes), directories (sets of names), the names that
\* end in .conf, whether SELinux is enabled and has a policy root, and the file
\* to load.
VARIABLES
  disk,
  parsers,         \* the parsers at work, the one of the deepest include last
  included_files,  \* the names on the way to it, as they were spelled
  error,           \* the DBusError of the load
  outcome          \* "running", "failed", "aborted" or "loaded"

vars == << disk, parsers, included_files, error, outcome >>

PolicyTypes == {"default", "mandatory", "user", "group", "console"}
Limits == {"max_message_size", "auth_timeout"}
IntLimits == {"auth_timeout"}

\* Nodes.
Start(element, attributes) ==
  [kind |-> "start", element |-> element, attributes |-> attributes, text |-> <<>>]
Text(text) ==
  [kind |-> "text", element |-> None, attributes |-> <<>>, text |-> text]
End(element) ==
  [kind |-> "end", element |-> element, attributes |-> <<>>, text |-> <<>>]
Doctype(name) ==
  [kind |-> "doctype", element |-> name, attributes |-> <<>>, text |-> <<>>]
Malformed ==
  [kind |-> "malformed", element |-> None, attributes |-> <<>>, text |-> <<>>]

NoConfig ==
  [user |-> None, bus_type |-> None, pidfile |-> None, servicehelper |-> None,
   fork |-> FALSE, syslog |-> FALSE, keep_umask |-> FALSE,
   listen_on |-> <<>>, mechanisms |-> <<>>, service_dirs |-> <<>>,
   conf_dirs |-> <<>>, policy |-> [t \in PolicyTypes |-> <<>>],
   contexts |-> {}, limits |-> [l \in Limits |-> 0]]

bus_config_parser_new(file, is_toplevel, parent) ==
  [file |-> file, at |-> 1, stack |-> <<>>, toplevel |-> is_toplevel,
   config |-> [NoConfig EXCEPT !.limits =
                 IF parent = None THEN NoConfig.limits ELSE parent.config.limits],
   dir |-> None, left |-> {}, ignore |-> FALSE]

\* The element a child of <busconfig> pushes, and those of them that hold text.
BusconfigChildren ==
  {"user", "type", "fork", "syslog", "keep_umask", "pidfile", "listen", "auth",
   "servicehelper", "includedir", "standard_session_servicedirs",
   "standard_system_servicedirs", "servicedir", "include", "policy", "limit",
   "selinux"}
WithText ==
  {"include", "user", "type", "listen", "pidfile", "auth", "servicedir",
   "servicehelper", "includedir", "limit"}
Element(type) ==
  [type |-> type, had_content |-> FALSE, name |-> None, value |-> 0,
   policy |-> None, ignore_missing |-> FALSE, if_selinux_enabled |-> FALSE,
   selinux_root_relative |-> FALSE]

\* Dot components of a path name no directory.
Resolve(path) == SelectSeq(path, LAMBDA component : component # ".")
basedir(file) == Front(file)
make_full_path(base, text) == IF text[1] = "/" THEN text ELSE base \o text

Parser == Last(parsers)
Depth == Len(parsers)
Open == Parser.stack
top_element_type == IF Open = <<>> THEN None ELSE Last(Open).type
Nodes == disk.files[Resolve(Parser.file)]
Node == Nodes[Parser.at]

\* The reader is at a node of the innermost file and no include is under way.
Reading ==
  /\ outcome = "running"
  /\ error = None
  /\ Parser.dir = None
  /\ Resolve(Parser.file) \in DOMAIN disk.files
  /\ Parser.at <= Len(Nodes)
At(kind) == Reading /\ Node.kind = kind

Fail(name) == error' = name /\ UNCHANGED << disk, parsers, included_files, outcome >>
Abort == outcome' = "aborted" /\ UNCHANGED << disk, parsers, included_files, error >>
Become(parser) ==
  /\ parsers' = [parsers EXCEPT ![Depth] = parser]
  /\ UNCHANGED << disk, included_files, error, outcome >>
Step(parser) == [parser EXCEPT !.at = @ + 1]

----------------------------------------------------------------------------
(* Attributes *)

Names(attributes) == {attributes[i][1] : i \in DOMAIN attributes}
Attribute(name) ==
  LET found == {i \in DOMAIN Node.attributes : Node.attributes[i][1] = name}
  IN  IF found = {} THEN None ELSE Node.attributes[CHOOSE i \in found : TRUE][2]
Given(name) == Attribute(name) # None

\* No attribute twice, and none but these.
locate_attributes(names) ==
  /\ Names(Node.attributes) \subseteq names
  /\ Cardinality(Names(Node.attributes)) = Len(Node.attributes)
check_no_attributes == Node.attributes = <<>>

----------------------------------------------------------------------------
(* Start of an element *)

push_element(element) == [Step(Parser) EXCEPT !.stack = Append(@, element)]

service_dirs_append_unique(dirs, dir) ==
  IF dir \in Range(dirs) THEN dirs ELSE Append(dirs, dir)

StandardDirs == [standard_session_servicedirs |-> << "/", "session" >>,
                 standard_system_servicedirs |-> << "/", "system" >>]

\* Elements of <busconfig> that take no attributes.
StartPlainChild ==
  /\ Node.element \in BusconfigChildren \ {"include", "policy", "limit"}
  /\ IF ~check_no_attributes
     THEN Fail("failed")
     ELSE LET new == push_element(Element(Node.element))
          IN  Become(
                CASE Node.element \in {"fork", "syslog", "keep_umask"} ->
                       [new EXCEPT !.config[Node.element] = TRUE]
                  [] Node.element \in DOMAIN StandardDirs ->
                       [new EXCEPT !.config.service_dirs =
                          service_dirs_append_unique(@, StandardDirs[Node.element])]
                  [] OTHER -> new)

YesNo(name) == Given(name) => Attribute(name) \in {"yes", "no"}
IncludeAttributes == {"ignore_missing", "if_selinux_enabled", "selinux_root_relative"}

StartInclude ==
  /\ Node.element = "include"
  /\ IF ~locate_attributes(IncludeAttributes) \/ \E a \in IncludeAttributes : ~YesNo(a)
     THEN Fail("failed")
     ELSE Become(push_element(
            [Element("include") EXCEPT
               !.ignore_missing = Attribute("ignore_missing") = "yes",
               !.if_selinux_enabled = Attribute("if_selinux_enabled") = "yes",
               !.selinux_root_relative = Attribute("selinux_root_relative") = "yes"]))

\* Exactly one of the four attributes; an unknown user or group leaves the
\* element with the rules of nobody.
PolicyAttributes == {"context", "user", "group", "at_console"}

StartPolicy ==
  /\ Node.element = "policy"
  /\ IF \/ ~locate_attributes(PolicyAttributes)
        \/ Cardinality({a \in PolicyAttributes : Given(a)}) # 1
        \/ Given("context") /\ Attribute("context") \notin {"default", "mandatory"}
        \/ Given("at_console") /\ Attribute("at_console") \notin {"true", "false"}
     THEN Fail("failed")
     ELSE Become(push_element(
            [Element("policy") EXCEPT !.policy =
               CASE Given("context") -> Attribute("context")
                 [] Given("user") ->
                      IF Attribute("user") = "unknown" THEN None ELSE "user"
                 [] Given("group") ->
                      IF Attribute("group") = "unknown" THEN None ELSE "group"
                 [] OTHER -> "console"]))

StartLimit ==
  /\ Node.element = "limit"
  /\ IF ~locate_attributes({"name"}) \/ ~Given("name")
     THEN Fail("failed")
     ELSE Become(push_element([Element("limit") EXCEPT !.name = Attribute("name")]))

start_busconfig_child ==
  /\ top_element_type = "busconfig"
  /\ \/ StartPlainChild
     \/ StartInclude
     \/ StartPolicy
     \/ StartLimit
     \/ Node.element \notin BusconfigChildren /\ Fail("failed")

\* What makes a rule well formed is the matter of module Policy; here a rule
\* has one attribute, and one that belongs to no rule.
append_rule_from_element ==
  LET policy == Last(Open).policy
      rule == << Node.element, Node.attributes[1][2] >>
      new == push_element(Element(Node.element))
  IN  IF policy = None
      THEN Become(new)
      ELSE Become([new EXCEPT !.config.policy[policy] = Append(@, rule)])

start_policy_child ==
  /\ top_element_type = "policy"
  /\ IF /\ Node.element \in {"allow", "deny"}
        /\ locate_attributes({"send_interface"})
        /\ Given("send_interface")
     THEN append_rule_from_element
     ELSE Fail("failed")

\* A later <associate> of the same name replaces the earlier one.
Associated(contexts, own, context) ==
  {c \in contexts : c[1] # own} \cup {<< own, context >>}

start_selinux_child ==
  /\ top_element_type = "selinux"
  /\ IF /\ Node.element = "associate"
        /\ locate_attributes({"own", "context"})
        /\ Given("own") /\ Given("context")
     THEN Become([push_element(Element("associate")) EXCEPT !.config.contexts =
                    Associated(@, Attribute("own"), Attribute("context"))])
     ELSE Fail("failed")

bus_config_parser_start_element ==
  /\ At("start")
  /\ \/ /\ Open = <<>>
        /\ IF Node.element = "busconfig" /\ check_no_attributes
           THEN Become(push_element(Element("busconfig")))
           ELSE Fail("failed")
     \/ start_busconfig_child
     \/ start_policy_child
     \/ start_selinux_child
     \/ /\ top_element_type \notin {None, "busconfig", "policy", "selinux"}
        /\ Fail("failed")

----------------------------------------------------------------------------
(* End of an element *)

\* A limit must not be negative, and most must be an int.
set_limit(name, value) ==
  /\ name \in Limits
  /\ value >= 0
  /\ name \in IntLimits => value <= IntMax

bus_config_parser_end_element ==
  /\ At("end")
  /\ LET e == Last(Open)
         popped == [Step(Parser) EXCEPT !.stack = Front(@)]
     IN  IF \/ Open = <<>>
            \/ e.type # Node.element
            \/ e.type \in WithText /\ ~e.had_content
            \/ e.type = "limit" /\ ~set_limit(e.name, e.value)
         THEN Fail("failed")
         ELSE Become(IF e.type = "limit"
                     THEN [popped EXCEPT !.config.limits[e.name] = e.value]
                     ELSE popped)

----------------------------------------------------------------------------
(* Text and includes *)

all_whitespace(text) == text = << " " >>

\* The parser past the text of its topmost element.
HadContent == [Step(Parser) EXCEPT !.stack[Len(Open)].had_content = TRUE]

\* The spelling of a file is compared with those on the way to it.  The parser
\* that includes waits, and its included files are inherited.
seen_include(file) == file \in Range(included_files)

include_file(waiting, file, ignore_missing) ==
  /\ Depth < MaxDepth
  /\ IF seen_include(file)
     THEN Fail("failed")
     ELSE /\ parsers' = Append([parsers EXCEPT ![Depth] =
                                  [waiting EXCEPT !.ignore = ignore_missing]],
                               bus_config_parser_new(file, FALSE, waiting))
          /\ included_files' = Append(included_files, file)
          /\ UNCHANGED << disk, error, outcome >>

ContentInclude ==
  LET e == Last(Open)
      root == IF e.selinux_root_relative THEN << "/", "selinux" >> ELSE basedir(Parser.file)
  IN  /\ e.type = "include"
      /\ \/ /\ e.if_selinux_enabled /\ ~disk.selinux
            /\ Become(HadContent)
         \/ /\ ~(e.if_selinux_enabled /\ ~disk.selinux)
            /\ IF e.selinux_root_relative /\ ~disk.policy_root
               THEN Fail("failed")
               ELSE include_file(HadContent, make_full_path(root, Node.text),
                                 e.ignore_missing)

\* The files of the directory are included one after the other, in any order.
ContentIncludedir ==
  LET dir == make_full_path(basedir(Parser.file), Node.text)
  IN  /\ Last(Open).type = "includedir"
      /\ IF Resolve(dir) \notin DOMAIN disk.dirs
         THEN Fail("missing")
         ELSE Become([HadContent EXCEPT !.dir = dir, !.left = disk.dirs[Resolve(dir)]])

include_dir ==
  /\ outcome = "running" /\ error = None
  /\ Parser.dir # None
  /\ \/ \E name \in Parser.left :
          LET waiting == [Parser EXCEPT !.left = @ \ {name}]
          IN  IF name \in disk.conf
              THEN include_file(waiting, Append(Parser.dir, name), TRUE)
              ELSE Become(waiting)
     \/ /\ Parser.left = {}
        /\ Become([Parser EXCEPT !.config.conf_dirs = Append(@, Parser.dir), !.dir = None])

\* Texts that set a value, the last one counting, and texts that are collected.
ContentValue ==
  LET field == [user |-> "user", type |-> "bus_type", pidfile |-> "pidfile"]
  IN  /\ Last(Open).type \in DOMAIN field
      /\ Become([HadContent EXCEPT !.config[field[Last(Open).type]] = Node.text])

servicehelper_path ==
  /\ Last(Open).type = "servicehelper"
  /\ Become([HadContent EXCEPT !.config.servicehelper =
                make_full_path(basedir(Parser.file), Node.text)])

ContentList ==
  LET field == [listen |-> "listen_on", auth |-> "mechanisms"]
  IN  /\ Last(Open).type \in DOMAIN field
      /\ Become([HadContent EXCEPT !.config[field[Last(Open).type]] = Append(@, Node.text)])

ContentServicedir ==
  /\ Last(Open).type = "servicedir"
  /\ Become([HadContent EXCEPT !.config.service_dirs =
                service_dirs_append_unique(
                  @, make_full_path(basedir(Parser.file), Node.text))])

ContentLimit ==
  /\ Last(Open).type = "limit"
  /\ IF Node.text \in DOMAIN Numbers
     THEN Become([HadContent EXCEPT !.stack[Len(Open)].value = Numbers[Node.text]])
     ELSE Fail("failed")

bus_config_parser_content ==
  /\ At("text")
  /\ \/ Open = <<>> /\ Fail("failed")
     \/ Open # <<>> /\ Last(Open).had_content /\ Abort
     \/ /\ Open # <<>> /\ ~Last(Open).had_content
        /\ \/ /\ Last(Open).type \notin WithText
              /\ IF all_whitespace(Node.text) THEN Become(Step(Parser)) ELSE Fail("failed")
           \/ ContentInclude
           \/ ContentIncludedir
           \/ ContentValue
           \/ servicehelper_path
           \/ ContentList
           \/ ContentServicedir
           \/ ContentLimit

bus_config_parser_check_doctype ==
  /\ At("doctype")
  /\ IF Node.element = "busconfig" THEN Become(Step(Parser)) ELSE Fail("failed")

----------------------------------------------------------------------------
(* Files *)

\* A mistake: what the including file said first stays.
Older(old, new) == IF old = None THEN new ELSE old

\* The values the included file gave count from here on; its lists follow.
\* (servicehelper and syslog are not among what is merged.)
Newer(old, new) == IF new = None THEN old ELSE new

merge_service_context_hash(dest, from) ==
  {c \in dest : ~\E f \in from : f[1] = c[1]} \cup from

merge_included(parser, included) ==
  [parser EXCEPT
     !.policy = [t \in PolicyTypes |-> @[t] \o included.policy[t]],
     !.contexts = merge_service_context_hash(@, included.contexts),
     !.user = Newer(@, included.user),
     !.bus_type = Newer(@, included.bus_type),
     !.pidfile = Newer(@, included.pidfile),
     !.fork = @ \/ included.fork,
     !.keep_umask = @ \/ included.keep_umask,
     !.listen_on = @ \o included.listen_on,
     !.mechanisms = @ \o included.mechanisms,
     !.service_dirs = FoldLeft(service_dirs_append_unique, @, included.service_dirs),
     !.conf_dirs = @ \o included.conf_dirs,
     !.limits = included.limits]

\* The file cannot be read, is not well formed, or there is no memory.
ReadFails ==
  /\ outcome = "running" /\ error = None
  /\ IF Resolve(Parser.file) \notin DOMAIN disk.files
     THEN Fail("missing")
     ELSE \/ At("malformed") /\ Fail("failed")
          \/ Fail("nomem")

Return(parent) ==
  /\ parsers' = Append(Front(Front(parsers)), parent)
  /\ included_files' = Front(included_files)
  /\ UNCHANGED << disk, outcome >>

\* The end of the file.
bus_config_parser_finished ==
  /\ outcome = "running" /\ error = None
  /\ Resolve(Parser.file) \in DOMAIN disk.files
  /\ Parser.at > Len(Nodes) /\ Parser.dir = None
  /\ \/ /\ Open # <<>> \/ (Parser.toplevel /\ Parser.config.listen_on = <<>>)
        /\ Fail("failed")
     \/ /\ Open = <<>> /\ Parser.toplevel /\ Parser.config.listen_on # <<>>
        /\ outcome' = "loaded"
        /\ UNCHANGED << disk, parsers, included_files, error >>
     \/ /\ Open = <<>> /\ ~Parser.toplevel
        /\ LET parent == parsers[Depth - 1]
           IN  Return([parent EXCEPT !.config = merge_included(@, Parser.config)])
        /\ UNCHANGED error

\* The load of a file failed: the include it was for fails too, unless it may
\* be missing and that is what the error says.
bus_config_load_failed ==
  /\ outcome = "running" /\ error # None
  /\ IF Depth = 1
     THEN /\ outcome' = "failed"
          /\ UNCHANGED << disk, parsers, included_files, error >>
     ELSE LET parent == parsers[Depth - 1]
          IN  /\ Return(parent)
              /\ error' = IF error = "missing" /\ parent.ignore THEN None ELSE error

Init ==
  /\ disk \in Disks
  /\ parsers = << bus_config_parser_new(disk.top, TRUE, None) >>
  /\ included_files = <<>>
  /\ error = None
  /\ outcome = "running"

Next ==
  \/ bus_config_parser_start_element
  \/ bus_config_parser_end_element
  \/ bus_config_parser_content
  \/ bus_config_parser_check_doctype
  \/ include_dir
  \/ ReadFails
  \/ bus_config_parser_finished
  \/ bus_config_load_failed

Spec == Init /\ [][Next]_vars

----------------------------------------------------------------------------
(* What the documentation says of includes: the file stands at that point. *)

Starts(nodes, i, element) ==
  i > 1 /\ nodes[i - 1].kind = "start" /\ nodes[i - 1].element = element
Says(node, name, value) == << name, value >> \in Range(node.attributes)

\* Every document that results from the files of the disk when each include is
\* replaced by the file it names: none if an include is circular, as if the
\* file were empty if the include may be missing and something is.
RECURSIVE Flattened(_, _), FlattenedFrom(_, _, _)
Concatenations(A, B) == {a \o b : a \in A, b \in B}
MayBeMissing(documents) == IF documents = {} THEN {<<>>} ELSE documents

Included(file, seen, ignore) ==
  IF Resolve(file) \in seen
  THEN {}
  ELSE IF ignore THEN MayBeMissing(Flattened(file, seen)) ELSE Flattened(file, seen)

IncludedAll(dir, names, seen) ==
  UNION {FoldLeft(Concatenations, {<<>>},
                  [i \in DOMAIN order |-> Included(Append(dir, order[i]), seen, TRUE)])
           : order \in SetToSeqs(names)}

Piece(file, i, seen) ==
  LET nodes == disk.files[Resolve(file)]
      node == nodes[i]
      base == basedir(file)
      full == make_full_path(base, node.text)
      start == nodes[i - 1]
  IN  CASE node.kind = "text" /\ Starts(nodes, i, "include") ->
             IF Says(start, "if_selinux_enabled", "yes") /\ ~disk.selinux
             THEN {<<>>}
             ELSE Included(IF Says(start, "selinux_root_relative", "yes")
                           THEN make_full_path(<< "/", "selinux" >>, node.text) ELSE full,
                           seen, Says(start, "ignore_missing", "yes"))
        [] node.kind = "text" /\ Starts(nodes, i, "includedir") ->
             IF Resolve(full) \notin DOMAIN disk.dirs
             THEN {}
             ELSE Concatenations(
                    IncludedAll(full, disk.dirs[Resolve(full)] \cap disk.conf, seen),
                    {<< start, Text(full) >>})
        [] node.kind = "text" /\ Starts(nodes, i, "servicedir") -> {<< Text(full) >>}
        [] OTHER -> {<< node >>}

FlattenedFrom(file, i, seen) ==
  IF i > Len(disk.files[Resolve(file)])
  THEN {<<>>}
  ELSE Concatenations(Piece(file, i, seen), FlattenedFrom(file, i + 1, seen))

Flattened(file, seen) ==
  IF Resolve(file) \notin DOMAIN disk.files
  THEN {}
  ELSE FlattenedFrom(file, 1, seen \cup {Resolve(file)})

\* What a document without includes says, read element by element.
Indices(nodes, P(_)) == SetToSortSeq({i \in DOMAIN nodes : P(i)}, LAMBDA i, j : i < j)
TextsOf(nodes, elements) ==
  LET at == Indices(nodes, LAMBDA i : nodes[i].kind = "text"
                                        /\ \E e \in elements : Starts(nodes, i, e))
  IN  [k \in DOMAIN at |-> nodes[at[k]].text]
LastOf(seq, default) == IF seq = <<>> THEN default ELSE Last(seq)
FirstOccurrences(seq) ==
  LET at == Indices(seq, LAMBDA i : ~\E j \in 1..(i - 1) : seq[j] = seq[i])
  IN  [k \in DOMAIN at |-> seq[at[k]]]
Mentions(nodes, element) ==
  \E i \in DOMAIN nodes : nodes[i].kind = "start" /\ nodes[i].element = element
DirsOf(nodes) ==
  LET at == Indices(nodes, LAMBDA i :
              \/ nodes[i].kind = "start" /\ nodes[i].element \in DOMAIN StandardDirs
              \/ nodes[i].kind = "text" /\ Starts(nodes, i, "servicedir"))
  IN  [k \in DOMAIN at |-> IF nodes[at[k]].kind = "text" THEN nodes[at[k]].text
                            ELSE StandardDirs[nodes[at[k]].element]]
PolicyOf(nodes, i) ==
  nodes[CHOOSE j \in 1..i : /\ nodes[j].kind = "start" /\ nodes[j].element = "policy"
                            /\ \A k \in (j + 1)..i : nodes[k].element # "policy"]
RulesOf(nodes, context) ==
  LET at == Indices(nodes, LAMBDA i :
              /\ nodes[i].kind = "start" /\ nodes[i].element \in {"allow", "deny"}
              /\ Says(PolicyOf(nodes, i), "context", context))
  IN  [k \in DOMAIN at |-> << nodes[at[k]].element, nodes[at[k]].attributes[1][2] >>]
LimitOf(nodes, name) ==
  LET at == Indices(nodes, LAMBDA i : /\ nodes[i].kind = "text"
                                      /\ Starts(nodes, i, "limit")
                                      /\ Says(nodes[i - 1], "name", name))
  IN  IF at = <<>> THEN 0 ELSE Numbers[nodes[Last(at)].text]

Says_config(config, nodes) ==
  /\ config.user = LastOf(TextsOf(nodes, {"user"}), None)
  /\ config.bus_type = LastOf(TextsOf(nodes, {"type"}), None)
  /\ config.pidfile = LastOf(TextsOf(nodes, {"pidfile"}), None)
  /\ config.fork = Mentions(nodes, "fork")
  /\ config.keep_umask = Mentions(nodes, "keep_umask")
  /\ config.listen_on = TextsOf(nodes, {"listen"})
  /\ config.mechanisms = TextsOf(nodes, {"auth"})
  /\ config.conf_dirs = TextsOf(nodes, {"includedir"})
  /\ config.service_dirs = FirstOccurrences(DirsOf(nodes))
  /\ \A t \in {"default", "mandatory"} : config.policy[t] = RulesOf(nodes, t)
  /\ \A l \in Limits : config.limits[l] = LimitOf(nodes, l)

----------------------------------------------------------------------------
(* Properties *)

\* A configuration that loads is, includes and all, what one document with the
\* included files in the places of the includes would say: which user, which
\* addresses and mechanisms and directories in which order, which rules of each
\* policy in which order, which limits (include_file, merge_included).
IncludedInPlace ==
  outcome = "loaded" =>
    \E nodes \in Flattened(disk.top, {}) : Says_config(Parser.config, nodes)

\* No file is being read by three parsers at once: a circular inclusion ends at
\* the second (seen_include; the file the load starts from is not recorded).
InclusionEnds ==
  \A i, j, k \in DOMAIN parsers :
    (i < j /\ j < k) => ~(/\ Resolve(parsers[i].file) = Resolve(parsers[j].file)
                          /\ Resolve(parsers[j].file) = Resolve(parsers[k].file))

\* An included file that is absent is a fatal error unless the <include> that
\* names it says ignore_missing="yes" (dbus-daemon.1).
AbsentIsFatal ==
  outcome = "loaded" =>
    \A file \in DOMAIN disk.files : \A i \in DOMAIN disk.files[file] :
      LET nodes == disk.files[file]
      IN  (nodes[i].kind = "text" /\ Starts(nodes, i, "include")
             /\ ~Says(nodes[i - 1], "ignore_missing", "yes")) =>
            make_full_path(basedir(file), nodes[i].text) \in DOMAIN disk.files

\* No element is given text twice (the assertion of bus_config_parser_content).
OneContentBlock == outcome # "aborted"
=============================================================================
