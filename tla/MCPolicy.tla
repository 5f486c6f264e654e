------------------------------ MODULE MCPolicy ------------------------------
(***************************************************************************)
(* A small instance of Policy: a connection with a Unix user and one       *)
(* without, elements for each check that overlap and override; and of      *)
(* ConfigParser, which reads the elements from files.  A behaviour is one  *)
(* of the part that runs.                                                  *)
(***************************************************************************)
EXTENDS Policy

CONSTANTS Parts, c1, c2

VARIABLES part, disk, parsers, included_files, error, outcome

Allow == [allow |-> TRUE]
Deny == [allow |-> FALSE]
With(verb, a, v) == [x \in {"allow", a} |-> IF x = "allow" THEN verb.allow ELSE v]

SmallElements ==
  {With(Allow, "send_interface", "i"), With(Deny, "send_interface", "*"),
   With(Allow, "receive_sender", "n"), With(Deny, "own", "*"), With(Deny, "user", "u"),
   [allow |-> TRUE, send_interface |-> "i", receive_interface |-> "i"]}

\* Rules about eavesdropping and about replies.
SpecialElements ==
  {With(Allow, "receive_interface", "*"), With(Deny, "eavesdrop", "true"),
   With(Deny, "send_interface", "*"), With(Deny, "send_requested_reply", "true")}

Ask(check, interface, names, reply, requested, eavesdropping) ==
  [check |-> check, message_type |-> "call", path |-> "p", interface |-> interface,
   member |-> "m", error |-> Null, names |-> names, reply |-> reply,
   requested_reply |-> requested, eavesdropping |-> eavesdropping]

SmallQueries ==
  {Ask(check, interface, names, flags[1], flags[2], flags[3]) :
     check \in {"send", "receive", "own"}, interface \in {Null, "i", "j"}, names \in {{}, {"n"}},
     flags \in {<<FALSE, FALSE, FALSE>>, <<FALSE, FALSE, TRUE>>, <<TRUE, FALSE, FALSE>>, <<TRUE, TRUE, FALSE>>}}

SmallUid == [c \in Conns |-> IF c = c1 THEN "u" ELSE Null]
SmallGroups == [c \in Conns |-> IF c = c1 THEN <<"g">> ELSE <<>>]
SmallConsole == [c \in Conns |-> FALSE]

-----------------------------------------------------------------------------
Files == INSTANCE MCConfig WITH None <- Null
SmallDisks == Files!Disks
SmallNumbers == Files!Numbers

Config == INSTANCE ConfigParser WITH Disks <- SmallDisks, Numbers <- SmallNumbers, IntMax <- 7,
            MaxDepth <- 5, None <- Null

configVars == <<disk, parsers, included_files, error, outcome>>
allVars == <<part, vars, configVars>>

PartsInit ==
  /\ Init
  /\ part \in Parts
  /\ IF part = "files" THEN Config!Init
     ELSE disk = {} /\ parsers = <<>> /\ included_files = <<>> /\ error = Null /\ outcome = "none"

PartsNext ==
  /\ UNCHANGED part
  /\ \/ part = "policy" /\ Next /\ UNCHANGED configVars
     \/ part = "files" /\ Config!Next /\ UNCHANGED vars

PartsSpec == PartsInit /\ [][PartsNext]_allVars

\* See ConfigParser: a file that is loaded says what it would say with the
\* included files in their places, and inclusion comes to an end.
IncludedInPlace == part = "files" => Config!IncludedInPlace /\ Config!InclusionEnds
=============================================================================
