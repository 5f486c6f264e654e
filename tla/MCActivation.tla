---------------------------- MODULE MCActivation ----------------------------
(***************************************************************************)
(* A small instance of Activation, two names started by the same command,  *)
(* and the babysitter of one child.  A behaviour is one of the part that   *)
(* runs; the other stays as it was, with nothing to do.                    *)
(***************************************************************************)
EXTENDS Activation

CONSTANTS c1, c2, n1, n2, r1, r2, r3, r4

VARIABLES part, babysitter, doing, process, child, socket, errpipe, sigchld

SameCommand == [n \in Names |-> "command"]
Senders == [r \in Reqs |-> IF r \in {r1, r3} THEN c1 ELSE c2]
Targets == [r \in Reqs |-> IF r \in {r1, r2, r4} THEN n1 ELSE n2]

Spawn == INSTANCE Babysitter WITH sitter <- babysitter

-----------------------------------------------------------------------------
spawnVars == <<babysitter, doing, process, child, socket, errpipe, sigchld>>
allVars == <<part, vars, spawnVars>>

\* No child was spawned, or its babysitter was given up.
Spent ==
  /\ babysitter = Spawn!NewSitter /\ doing = "done" /\ process = "gone" /\ child = "none"
  /\ socket = <<>> /\ errpipe = <<>> /\ sigchld = [handler |-> FALSE, byte |-> FALSE]

PartsInit ==
  /\ Init
  /\ \/ part = "activation" /\ Spent
     \/ part = "babysitter" /\ Spawn!Init

PartsNext ==
  /\ UNCHANGED part
  /\ \/ part = "activation" /\ Next /\ UNCHANGED spawnVars
     \/ part = "babysitter" /\ Spawn!Next /\ UNCHANGED vars

PartsSpec == PartsInit /\ [][PartsNext]_allVars /\ Fairness /\ Spawn!Fairness

\* See Babysitter: the reason that is given is the true one, and the end of the
\* child is noticed.
ChildEndTold == []Spawn!ReasonTrue /\ Spawn!EndNoticed
=============================================================================
